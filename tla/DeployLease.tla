---------------------------- MODULE DeployLease ----------------------------
(***************************************************************************)
(* What the deploy concurrency guard promises its callers, and nothing of  *)
(* how a deploy works: a lease on one app and environment.  A client may   *)
(* take the lease only when every client that still holds it has let its   *)
(* time run out.                                                           *)
(***************************************************************************)
CONSTANT Client         \* the deployments that ask for the lease

VARIABLES holders,      \* the clients that may be changing the lane
          expired       \* the clients whose time has run out

leaseVars == <<holders, expired>>

Init == holders = {} /\ expired = {}

Acquire(d) ==
    /\ d \notin holders \cup expired
    /\ holders \subseteq expired
    /\ holders' = holders \cup {d}
    /\ UNCHANGED expired

Release(S) ==
    /\ holders' = holders \ S
    /\ UNCHANGED expired

Expire(S) ==
    /\ expired' = expired \cup S
    /\ UNCHANGED holders

Next ==
    \/ \E d \in Client : Acquire(d)
    \/ \E S \in SUBSET Client : Release(S) \/ Expire(S)

Spec == Init /\ [][Next]_leaseVars

-----------------------------------------------------------------------------

LeaseTypeOK == holders \subseteq Client /\ expired \subseteq Client

(* The promise: two clients within their time never hold the lease at once. *)
OneFreshHolder ==
    \A d, e \in holders \ expired : d = e

=============================================================================
