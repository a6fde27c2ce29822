------------------------------- MODULE Health -------------------------------
(***************************************************************************)
(* The health checker of one environment of one app                        *)
(* (server/services/healthChecker.js) and the manual test of               *)
(* server/routes/health.js.                                                *)
(*                                                                         *)
(* A timer starts checks whether or not the last one has ended; a check    *)
(* awaits its probe, then reads and writes the health_state row in one     *)
(* step, then may await a restart.  A manual test writes the same row.     *)
(* The settings are stored as they come; a threshold may be 0.             *)
(* Left out: what is probed, response times, disk quotas, the notices sent *)
(* to people, and the deletion of the app, which ends a check without      *)
(* effect.                                                                 *)
(***************************************************************************)
EXTENDS Naturals

CONSTANTS Check,        \* the checks that may be under way at once
          Config,       \* the rows health_configs may hold
          NoTimer,
          Cap,          \* from here on the fail counts are one
          MaxBoots      \* bound on the restarts of the server

ASSUME HealthAssumption ==
    /\ Config \subseteq [fail : Nat, down : Nat, enabled : BOOLEAN]
    /\ Cap \in Nat /\ \A c \in Config : c.fail < Cap /\ c.down < Cap
    /\ NoTimer \notin Config /\ MaxBoots \in Nat

VARIABLES
    config,    \* the health_configs row
    timer,     \* the row the interval closed over
    fails,     \* health_state.consecutive_fails
    isDown,    \* health_state.is_down
    answerer,  \* what answers the probe: the app, an error, or nobody
    checkAt,   \* where each check is, with the answer it brought
    test,      \* where the manual test is, with the answer it brought
    missed,    \* failing results written since the last healthy one
    restarts,  \* restarts ordered since then, or since the server started
    boots

stateRow   == <<fails, isDown>>
healthVars == <<config, timer, stateRow, answerer, checkAt, test, missed, restarts, boots>>

Answer == {"ok", "error", "none"}

HealthTypeOK ==
    /\ config \in Config
    /\ timer \in {c \in Config : c.enabled} \cup {NoTimer}
    /\ fails \in 0 .. Cap /\ isDown \in BOOLEAN
    /\ answerer \in Answer
    /\ checkAt \in [Check -> {"idle", "probe", "healthy", "failed", "restart"}]
    /\ test \in {"idle", "probe", "ok", "error"}
    /\ missed \in 0 .. Cap /\ restarts \in Nat /\ boots \in 0 .. MaxBoots

\* startHealthChecker: one interval per enabled row.
Started == IF config.enabled THEN config ELSE NoTimer

HealthInit ==
    /\ config \in Config /\ timer = Started
    /\ fails = 0 /\ isDown = FALSE /\ answerer \in Answer
    /\ checkAt = [c \in Check |-> "idle"] /\ test = "idle"
    /\ missed = 0 /\ restarts = 0 /\ boots = 0

Plus(n) == IF n < Cap THEN n + 1 ELSE Cap

\* The interval fires.
CheckTick(c) ==
    /\ timer # NoTimer /\ checkAt[c] = "idle"
    /\ checkAt' = [checkAt EXCEPT ![c] = "probe"]
    /\ UNCHANGED <<config, timer, stateRow, answerer, test, missed, restarts, boots>>

\* The probe has its answer, or its five seconds are over.
Answered(c) ==
    /\ checkAt[c] = "probe"
    /\ checkAt' = [checkAt EXCEPT ![c] = IF answerer = "ok" THEN "healthy" ELSE "failed"]
    /\ UNCHANGED <<config, timer, stateRow, answerer, test, missed, restarts, boots>>

\* Mutant: a healthy answer clears the flag and leaves the count.
ClearedFlag == fails' = fails /\ isDown' = FALSE

Cleared == fails' = 0 /\ isDown' = FALSE

Healthy(c) ==
    /\ checkAt[c] = "healthy" /\ Cleared
    /\ missed' = 0 /\ restarts' = 0
    /\ checkAt' = [checkAt EXCEPT ![c] = "idle"]
    /\ UNCHANGED <<config, timer, answerer, test, boots>>

\* Mutant: the flag is up for the one check that meets the threshold.
DownOnce(n) == n = timer.down

DownAt(n) == n >= timer.down

\* Mutant: the restart is ordered from the threshold on.
RestartFrom(n) == n >= timer.fail

RestartAt(n) == n = timer.fail

\* The restart is awaited by the check that ordered it, not by the next ones.
Failed(c) ==
    /\ checkAt[c] = "failed"
    /\ fails' = Plus(fails) /\ isDown' = DownAt(Plus(fails))
    /\ missed' = Plus(missed)
    /\ \/ RestartAt(Plus(fails)) /\ restarts' = restarts + 1
          /\ checkAt' = [checkAt EXCEPT ![c] = "restart"]
       \/ ~RestartAt(Plus(fails)) /\ restarts' = restarts
          /\ checkAt' = [checkAt EXCEPT ![c] = "idle"]
    /\ UNCHANGED <<config, timer, answerer, test, boots>>

\* docker restart has ended, one way or another.
Restarted(c) ==
    /\ checkAt[c] = "restart"
    /\ answerer' \in Answer
    /\ checkAt' = [checkAt EXCEPT ![c] = "idle"]
    /\ UNCHANGED <<config, timer, stateRow, test, missed, restarts, boots>>

-----------------------------------------------------------------------------
(* The manual test and the settings.                                       *)

TestStart ==
    /\ test = "idle" /\ test' = "probe"
    /\ UNCHANGED <<config, timer, stateRow, answerer, checkAt, missed, restarts, boots>>

\* Nobody's silence is reported and not counted.
TestAnswered ==
    /\ test = "probe" /\ test' = IF answerer = "none" THEN "idle" ELSE answerer
    /\ UNCHANGED <<config, timer, stateRow, answerer, checkAt, missed, restarts, boots>>

\* The count is written, whatever it is by now; is_down is left as it is.
TestDone ==
    /\ test \in {"ok", "error"} /\ test' = "idle"
    /\ \/ test = "ok" /\ fails' = 0 /\ missed' = 0 /\ restarts' = 0
       \/ test = "error" /\ fails' = Plus(fails) /\ missed' = Plus(missed)
          /\ UNCHANGED restarts
    /\ UNCHANGED <<config, timer, isDown, answerer, checkAt, boots>>

\* PUT /:slug/health/:env writes the row and leaves the interval alone.
Configure(c) ==
    /\ config' = c
    /\ UNCHANGED <<timer, stateRow, answerer, checkAt, test, missed, restarts, boots>>

\* The app comes, goes, or starts to answer with errors.
Change ==
    /\ answerer' \in Answer
    /\ UNCHANGED <<config, timer, stateRow, checkAt, test, missed, restarts, boots>>

\* The server dies and starts again; a restart under way is forgotten.
Boot ==
    /\ boots < MaxBoots /\ boots' = boots + 1
    /\ timer' = Started /\ restarts' = 0
    /\ checkAt' = [c \in Check |-> "idle"] /\ test' = "idle"
    /\ UNCHANGED <<config, stateRow, answerer, missed>>

Ends(c) == Healthy(c) \/ Failed(c) \/ Restarted(c)

HealthNext ==
    \/ \E c \in Check : CheckTick(c) \/ Answered(c) \/ Ends(c)
    \/ TestStart \/ TestAnswered \/ TestDone
    \/ \E c \in Config : Configure(c)
    \/ Change \/ Boot

\* The interval fires, a probe has a timeout, and so has docker restart.
HealthFairness ==
    /\ WF_healthVars(\E c \in Check : CheckTick(c))
    /\ \A c \in Check : WF_healthVars(Answered(c)) /\ WF_healthVars(Ends(c))

HealthSpec == HealthInit /\ [][HealthNext]_healthVars /\ HealthFairness

-----------------------------------------------------------------------------
(* However checks overlap and tests write between them: one restart in a    *)
(* row of failures, or a container that starts slowly never starts at all.  *)
OneRestartPerStreak == restarts <= 1

(* A restart is ordered, and the app called down, only when that many       *)
(* results in a row said so: late answers, tests and restarts of the server *)
(* do not add up failures across a healthy result.                          *)
ActsOnEvidence ==
    [][/\ restarts' > restarts => missed' >= timer.fail
       /\ isDown' /\ ~isDown => missed' >= timer.down]_healthVars

(* An app that stays up or down is shown so in the end, whatever late       *)
(* results, tests and restarts of the server wrote on the way; promotion to *)
(* production reads it.                                                     *)
StateSettles ==
    /\ <>[](answerer = "ok" /\ timer # NoTimer) => <>[]~isDown
    /\ <>[](answerer # "ok" /\ timer # NoTimer) => <>[]isDown

(* docs/guide.html:217: "the app auto-restarts after consecutive failures".  *)
(* (A threshold of 0 is never met: the count is compared after it has grown.) *)
RestartComes ==
    timer # NoTimer /\ timer.fail > 0 /\ missed > timer.fail => restarts > 0

=============================================================================
