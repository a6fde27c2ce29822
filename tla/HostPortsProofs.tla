-------------------------- MODULE HostPortsProofs --------------------------
(* Proofs about HostPorts: the registry agrees with its columns, a         *)
(* committed ingress change is whole, and a bound port stays reserved.     *)
EXTENDS HostPorts, TLAPS

\* A registry of the right shape.
RegistryType(r) ==
    /\ r = [owner |-> r.owner, draining |-> r.draining, col |-> r.col]
    /\ r.owner \in [Port -> Lane \cup {NoLane}]
    /\ r.draining \subseteq {p \in Port : r.owner[p] \in Lane}
    /\ r.col \in [Lane -> Port \cup {NoPort}]

\* The column of the lane mirrors its pinned row.
Mirrors(r, l) == PinnedRows(r, l) = IF r.col[l] = NoPort THEN {} ELSE {r.col[l]}

RegistryOK(r) == RegistryType(r) /\ \A l \in Lane : Mirrors(r, l)

\* What one lane has is the same in both.
SameFor(r, s, m) == s.col[m] = r.col[m] /\ \A q \in Port : s.owner[q] = m <=> r.owner[q] = m

(* NoLane is not a lane and the two environments of an app differ.         *)
LEMMA LaneFacts ==
    /\ NoLane \notin Lane
    /\ \A a \in App : Prod(a) # Sand(a) /\ Prod(a) \in Lane
    /\ \A l \in Lane : l = <<l[1], l[2]>> /\ l[1] \in App
                       /\ l[2] \in {"production", "sandbox"}
    /\ Port \subseteq Nat /\ NoPort \notin Port /\ AutoPort \subseteq Port
BY PortsAssumption DEF NoLane, Prod, Sand, NoPort

(* Claiming an insertable port gives the lane that port as its only pinned  *)
(* one, and takes nothing from another lane.                                *)
LEMMA ClaimLemma ==
    ASSUME NEW r, RegistryType(r), NEW l \in Lane, NEW p \in Port, Insertable(r, l, p),
           \A m \in Lane \ {l} : Mirrors(r, m)
    PROVE  /\ RegistryOK(Claimed(r, l, p))
           /\ Claimed(r, l, p).col = [r.col EXCEPT ![l] = p]
           /\ \A m \in Lane \ {l} : SameFor(r, Claimed(r, l, p), m)
           /\ \A q \in Port : Claimed(r, l, p).owner[q] = l
                <=> q = p \/ (r.owner[q] = l /\ q \notin PinnedRows(r, l))
<1> DEFINE c == Claimed(r, l, p)
<1>1. /\ c.owner = [q \in Port |-> IF q = p THEN l
                                   ELSE IF q \in PinnedRows(r, l) THEN NoLane
                                   ELSE r.owner[q]]
      /\ c.draining = r.draining
      /\ c.col = [r.col EXCEPT ![l] = p]
      /\ c = [owner |-> c.owner, draining |-> c.draining, col |-> c.col]
  BY DEF Claimed
<1>2. RegistryType(c)
  <2>1. c.owner \in [Port -> Lane \cup {NoLane}]
    BY <1>1 DEF RegistryType
  <2>2. c.draining \subseteq {q \in Port : c.owner[q] \in Lane}
    BY <1>1 DEF RegistryType, PinnedRows
  <2>3. c.col \in [Lane -> Port \cup {NoPort}]
    BY <1>1 DEF RegistryType
  <2> HIDE DEF c
  <2> QED BY <1>1, <2>1, <2>2, <2>3 DEF RegistryType
<1>3. p \notin r.draining
  BY LaneFacts DEF Insertable, RegistryType
<1>4. \A m \in Lane \ {l} : SameFor(r, c, m)
  BY <1>1, LaneFacts DEF SameFor, RegistryType, Insertable, PinnedRows
<1>5. ASSUME NEW m \in Lane PROVE Mirrors(c, m)
  <2>1. CASE m = l
    <3>1. PinnedRows(c, l) = {p}
      BY <1>1, <1>3, LaneFacts DEF PinnedRows
    <3> QED BY <2>1, <3>1, <1>1, LaneFacts DEF RegistryType, Mirrors
  <2>2. CASE m # l
    <3>1. PinnedRows(c, m) = PinnedRows(r, m)
      BY <2>2, <1>1, <1>4 DEF SameFor, PinnedRows
    <3> QED BY <2>2, <3>1, <1>4 DEF SameFor, Mirrors
  <2> QED BY <2>1, <2>2
<1>6. RegistryOK(c)
  <2> HIDE DEF c
  <2> QED BY <1>2, <1>5 DEF RegistryOK
<1>7. \A q \in Port : c.owner[q] = l
        <=> q = p \/ (r.owner[q] = l /\ q \notin PinnedRows(r, l))
  BY <1>1, LaneFacts
<1> QED BY <1>1, <1>4, <1>6, <1>7

(* Assigning a port leaves the lane with a port and the registry good, and  *)
(* takes nothing from another lane.  The lane keeps every number it owned   *)
(* when a container is known to be live on it or its number does not move.  *)
LEMMA AssignLemma ==
    ASSUME NEW r, RegistryOK(r), NEW l \in Lane, NEW p \in Port \cup {NoPort},
           NEW s \in AssignsTo(r, l, p)
    PROVE  /\ RegistryOK(s)
           /\ s.col[l] # NoPort
           /\ \A m \in Lane \ {l} : SameFor(r, s, m)
           /\ live[l] \/ s.col[l] = r.col[l] =>
                \A q \in Port : r.owner[q] = l => s.owner[q] = l
<1>0. RegistryType(r) /\ \A m \in Lane : Mirrors(r, m)
  BY DEF RegistryOK
<1>1. CASE p = NoPort /\ r.col[l] # NoPort
  <2>1. s = r
    BY <1>1 DEF AssignsTo
  <2> QED BY <2>1, <1>1 DEF SameFor
<1>2. CASE p = NoPort /\ r.col[l] = NoPort
  <2>1. PICK q \in LowestAuto(r, l) : s = Claimed(r, l, q)
    BY <1>2 DEF AssignsTo
  <2>2. q \in Port /\ Insertable(r, l, q)
    BY <2>1, LaneFacts DEF LowestAuto, AutoPorts
  <2>3. PinnedRows(r, l) = {}
    BY <1>0, <1>2 DEF Mirrors
  <2>4. s.col = [r.col EXCEPT ![l] = q]
    BY <1>0, <2>1, <2>2, ClaimLemma
  <2>5. s.col[l] # NoPort
    BY <1>0, <2>4, <2>2, LaneFacts DEF RegistryType
  <2>6. /\ RegistryOK(s)
        /\ \A m \in Lane \ {l} : SameFor(r, s, m)
        /\ \A n \in Port : s.owner[n] = l
                <=> n = q \/ (r.owner[n] = l /\ n \notin PinnedRows(r, l))
    <3>1. \A m \in Lane \ {l} : Mirrors(r, m)
      BY <1>0
    <3> HIDE <2>1
    <3>2. /\ RegistryOK(Claimed(r, l, q))
          /\ \A m \in Lane \ {l} : SameFor(r, Claimed(r, l, q), m)
          /\ \A n \in Port : Claimed(r, l, q).owner[n] = l
                <=> n = q \/ (r.owner[n] = l /\ n \notin PinnedRows(r, l))
      BY <1>0, <2>2, <3>1, ClaimLemma
    <3> QED BY <2>1, <3>2
  <2> QED BY <2>3, <2>5, <2>6
<1>3. CASE p \in Port /\ Published(r, l, p)
  <2> DEFINE d == Drained(r, l)
  <2>1. /\ d.owner = r.owner /\ d.col = r.col
        /\ d.draining = r.draining \cup PinnedRows(r, l)
        /\ d = [owner |-> d.owner, draining |-> d.draining, col |-> d.col]
    BY DEF Drained
  <2>2. s = Claimed(d, l, p) /\ Insertable(d, l, p)
    BY <1>3, LaneFacts DEF AssignsTo
  <2>3. RegistryType(d)
    <3> HIDE DEF d
    <3> QED BY <1>0, <2>1 DEF RegistryType, PinnedRows
  <2>4. ASSUME NEW m \in Lane \ {l} PROVE Mirrors(d, m)
    <3>1. PinnedRows(d, m) = PinnedRows(r, m)
      BY <2>1 DEF PinnedRows
    <3> QED BY <3>1, <2>1, <1>0 DEF Mirrors
  <2>5. PinnedRows(d, l) = {}
    BY <2>1 DEF PinnedRows
  <2> HIDE DEF d
  <2>6. /\ RegistryOK(s) /\ s.col = [d.col EXCEPT ![l] = p]
        /\ \A m \in Lane \ {l} : SameFor(d, s, m)
        /\ \A q \in Port : s.owner[q] = l
                <=> q = p \/ (d.owner[q] = l /\ q \notin PinnedRows(d, l))
    BY <1>3, <2>2, <2>3, <2>4, ClaimLemma
  <2>7. s.col[l] # NoPort
    BY <2>6, <2>3, <1>3, LaneFacts DEF RegistryType
  <2> QED BY <2>1, <2>5, <2>6, <2>7 DEF SameFor
<1>4. CASE p \in Port /\ ~Published(r, l, p)
  <2>1. s = Claimed(r, l, p) /\ Insertable(r, l, p)
    BY <1>4, LaneFacts DEF AssignsTo
  <2>2. /\ RegistryOK(s) /\ s.col = [r.col EXCEPT ![l] = p]
        /\ \A m \in Lane \ {l} : SameFor(r, s, m)
        /\ \A q \in Port : s.owner[q] = l
                <=> q = p \/ (r.owner[q] = l /\ q \notin PinnedRows(r, l))
    BY <1>0, <1>4, <2>1, ClaimLemma
  <2>3. s.col[l] = p /\ s.col[l] # NoPort
    BY <1>0, <2>2, <1>4, LaneFacts DEF RegistryType
  <2>4. live[l] \/ s.col[l] = r.col[l] => PinnedRows(r, l) \subseteq {p}
    BY <1>0, <1>4, <2>3 DEF Published, Mirrors
  <2> QED BY <2>2, <2>3, <2>4
<1> QED BY <1>1, <1>2, <1>3, <1>4

(* Dropping a lane leaves it nothing and the others what they had.          *)
LEMMA DropLemma ==
    ASSUME NEW r, RegistryOK(r), NEW l \in Lane
    PROVE  /\ RegistryOK(Dropped(r, l))
           /\ Dropped(r, l).col[l] = NoPort
           /\ \A q \in Port : Dropped(r, l).owner[q] # l
           /\ \A m \in Lane \ {l} : SameFor(r, Dropped(r, l), m)
<1> DEFINE d == Dropped(r, l)
<1>0. RegistryType(r) /\ \A m \in Lane : Mirrors(r, m)
  BY DEF RegistryOK
<1>1. /\ d.owner = [q \in Port |-> IF r.owner[q] = l THEN NoLane ELSE r.owner[q]]
      /\ d.draining = r.draining \ OwnedRows(r, l)
      /\ d.col = [r.col EXCEPT ![l] = NoPort]
      /\ d = [owner |-> d.owner, draining |-> d.draining, col |-> d.col]
  BY DEF Dropped
<1>2. RegistryType(d)
  <2>1. d.owner \in [Port -> Lane \cup {NoLane}]
    BY <1>0, <1>1 DEF RegistryType
  <2>2. d.draining \subseteq {q \in Port : d.owner[q] \in Lane}
    BY <1>0, <1>1 DEF RegistryType, OwnedRows
  <2>3. d.col \in [Lane -> Port \cup {NoPort}]
    BY <1>0, <1>1 DEF RegistryType
  <2> HIDE DEF d
  <2> QED BY <1>1, <2>1, <2>2, <2>3 DEF RegistryType
<1>3. \A m \in Lane \ {l} : SameFor(r, d, m)
  BY <1>0, <1>1, LaneFacts DEF SameFor, RegistryType
<1>4. d.col[l] = NoPort /\ \A q \in Port : d.owner[q] # l
  BY <1>0, <1>1, LaneFacts DEF RegistryType
<1>5. ASSUME NEW m \in Lane PROVE Mirrors(d, m)
  <2>1. CASE m = l
    BY <2>1, <1>4 DEF Mirrors, PinnedRows
  <2>2. CASE m # l
    <3>1. PinnedRows(d, m) = PinnedRows(r, m)
      BY <2>2, <1>1, <1>3 DEF SameFor, PinnedRows, OwnedRows
    <3> QED BY <2>2, <3>1, <1>3, <1>0 DEF SameFor, Mirrors
  <2> QED BY <2>1, <2>2
<1> HIDE DEF d
<1> QED BY <1>2, <1>3, <1>4, <1>5 DEF RegistryOK, d

(* Freeing the draining rows of a lane leaves it its pinned one.            *)
LEMMA FreeLemma ==
    ASSUME NEW r, RegistryOK(r), NEW l \in Lane
    PROVE  /\ RegistryOK(Freed(r, l))
           /\ Freed(r, l).col = r.col
           /\ \A q \in Port : Freed(r, l).owner[q] = l <=> q \in PinnedRows(r, l)
           /\ \A m \in Lane \ {l} : SameFor(r, Freed(r, l), m)
<1> DEFINE d == Freed(r, l)
<1>0. RegistryType(r) /\ \A m \in Lane : Mirrors(r, m)
  BY DEF RegistryOK
<1>1. /\ d.owner = [q \in Port |-> IF r.owner[q] = l /\ q \in r.draining
                                    THEN NoLane ELSE r.owner[q]]
      /\ d.draining = r.draining \ OwnedRows(r, l)
      /\ d.col = r.col
      /\ d = [owner |-> d.owner, draining |-> d.draining, col |-> d.col]
  BY DEF Freed
<1>2. RegistryType(d)
  <2>1. d.owner \in [Port -> Lane \cup {NoLane}]
    BY <1>0, <1>1 DEF RegistryType
  <2>2. d.draining \subseteq {q \in Port : d.owner[q] \in Lane}
    BY <1>0, <1>1 DEF RegistryType, OwnedRows
  <2> HIDE DEF d
  <2> QED BY <1>0, <1>1, <2>1, <2>2 DEF RegistryType
<1>3. \A m \in Lane \ {l} : SameFor(r, d, m)
  BY <1>0, <1>1, LaneFacts DEF SameFor, RegistryType
<1>4. \A q \in Port : d.owner[q] = l <=> q \in PinnedRows(r, l)
  BY <1>1, LaneFacts DEF PinnedRows
<1>5. ASSUME NEW m \in Lane PROVE Mirrors(d, m)
  <2>1. PinnedRows(d, m) = PinnedRows(r, m)
    <3>1. CASE m = l
      BY <3>1, <1>1, <1>4 DEF PinnedRows, OwnedRows
    <3>2. CASE m # l
      BY <3>2, <1>1, <1>3 DEF SameFor, PinnedRows, OwnedRows
    <3> QED BY <3>1, <3>2
  <2> QED BY <2>1, <1>1, <1>0 DEF Mirrors
<1> HIDE DEF d
<1> QED BY <1>1, <1>2, <1>3, <1>4, <1>5 DEF RegistryOK, d

-----------------------------------------------------------------------------
(* The inductive invariant.                                                *)

\* An app without a row has no ingress and owns no port.
AbsentHasNothing ==
    \A l \in Lane : l[1] \notin exists =>
        /\ type[l[1]] = "http" /\ ~dataPlane[l[1]]
        /\ col[l] = NoPort
        /\ \A p \in Port : owner[p] # l

\* A run under way was given what the row still says, or the change since then
\* is on record; the container it created binds what it was given.
RunMatchesRow ==
    \A l \in Lane : start[l] \in {"running", "created"} =>
        \/ since[l] = "loosened"
        \/ /\ since[l] = "nothing" /\ pub[l] = PublishTarget(l)
           /\ start[l] = "created" => bound[l] \in {pub[l], NoPort}

IInv == /\ TypeOK /\ MirrorAgrees /\ PublishingIsWhole /\ BoundIsReserved
        /\ NothingLeftReserved /\ AbsentHasNothing /\ RunMatchesRow

(* The state's registry is a good one, and installing a good one leaves the *)
(* columns and the registry as the invariant wants them.                    *)
LEMMA RegistryLemma ==
    ASSUME TypeOK, MirrorAgrees
    PROVE  RegistryOK(Registry)
BY DEF TypeOK, MirrorAgrees, RegistryOK, RegistryType, Mirrors, Registry

\* Writing the registry keeps its rows and its mirror in step.
LEMMA InstallLemma ==
    ASSUME NEW r, RegistryOK(r), SetRegistry(r)
    PROVE  /\ col' \in [Lane -> Port \cup {NoPort}]
           /\ owner' \in [Port -> Lane \cup {NoLane}]
           /\ draining' \subseteq {p \in Port : owner'[p] \in Lane}
           /\ MirrorAgrees'
<1>1. RegistryType(r) /\ \A l \in Lane : Mirrors(r, l)
  BY DEF RegistryOK
<1>2. \A l \in Lane : PinnedRows(Registry, l)' = PinnedRows(r, l)
  BY DEF SetRegistry, Registry, PinnedRows
<1>3. MirrorAgrees'
  BY <1>1, <1>2 DEF MirrorAgrees, Mirrors, SetRegistry
<1> QED BY <1>1, <1>3 DEF RegistryType, SetRegistry

(* The initial state satisfies the invariant.                               *)
LEMMA InitLemma == Init => IInv
<1> SUFFICES ASSUME Init PROVE IInv
  OBVIOUS
<1> USE DEF Init
<1>1. TypeOK
  BY PortsAssumption DEF TypeOK, Type, Event
<1>2. MirrorAgrees
  BY LaneFacts DEF MirrorAgrees, PinnedRows, Registry
<1>3. PublishingIsWhole
  BY DEF PublishingIsWhole
<1>4. BoundIsReserved /\ NothingLeftReserved /\ RunMatchesRow
  BY DEF BoundIsReserved, NothingLeftReserved, RunMatchesRow
<1>5. AbsentHasNothing
  BY LaneFacts DEF AbsentHasNothing
<1> QED BY <1>1, <1>2, <1>3, <1>4, <1>5 DEF IInv

(* What every request that selects an ingress does to the invariant: the    *)
(* registry r it installs is good, the lanes of other apps keep what they   *)
(* have, and a lane of the app keeps every number it owned unless it is     *)
(* dropped or is re-pinned with no live row.                                *)
LEMMA RequestLemma ==
    ASSUME IInv, NEW a \in exists, NEW t \in Type, NEW dp \in DataPlaneArg,
           NEW r, RegistryOK(r), NEW dropped,
           SetRegistry(r), SetRow(a, t, dp), Touch(a, r, t, dp, dropped),
           Accepted(a, t, dp),
           t # "http" => r.col[Prod(a)] # NoPort,
           \A l \in Lane : l[1] # a => SameFor(Registry, r, l),
           \A l \in Lane : l[1] = a /\ l \notin dropped /\ (live[l] \/ r.col[l] = col[l])
               => \A q \in Port : owner[q] = l => r.owner[q] = l
    PROVE  IInv'
<1> USE DEF IInv
<1> a \in App
  BY DEF TypeOK
<1>1. /\ type' = [type EXCEPT ![a] = t]
      /\ dataPlane' = [dataPlane EXCEPT ![a] = NextDataPlane(a, dp)]
      /\ UNCHANGED <<exists, live, bound, start, pub, deleting>>
      /\ NextDataPlane(a, dp) \in BOOLEAN
  BY DEF SetRow, hostVars, NextDataPlane, TypeOK
<1>2. /\ owner' = r.owner /\ draining' = r.draining /\ col' = r.col
  BY DEF SetRegistry
<1>3. /\ \A l \in Lane : \/ since'[l] = since[l]
                          \/ since'[l] \in {"changed", "loosened"}
      /\ since' \in [Lane -> Event]
  BY DEF Touch, TypeOK, Event
<1>4. TypeOK'
  BY <1>1, <1>3, InstallLemma DEF TypeOK, Type
<1>5. MirrorAgrees'
  BY InstallLemma
<1>6. PublishingIsWhole'
  <2> SUFFICES ASSUME NEW b \in App
               PROVE  /\ type'[b] # "http" => col'[Prod(b)] # NoPort
                      /\ type'[b] = "dual" <=> (dataPlane'[b] /\ type'[b] # "http")
    BY DEF PublishingIsWhole, Prod
  <2>1. Prod(b) \in Lane /\ Prod(b)[1] = b
    BY LaneFacts DEF Prod
  <2>2. CASE b = a
    <3>1. type'[b] = t /\ dataPlane'[b] = NextDataPlane(a, dp)
      BY <2>2, <1>1 DEF TypeOK
    <3>2. t \in {"http", "tcp", "dual"}
      BY DEF Type
    <3>3. t = "dual" <=> (NextDataPlane(a, dp) /\ t # "http")
      BY <1>1, <3>2 DEF Accepted
    <3> QED BY <2>2, <3>1, <3>3, <1>2
  <2>3. CASE b # a
    <3>1. type'[b] = type[b] /\ dataPlane'[b] = dataPlane[b]
      BY <2>3, <1>1 DEF TypeOK
    <3>2. col'[Prod(b)] = col[Prod(b)]
      BY <2>1, <2>3, <1>2 DEF SameFor, Registry
    <3> QED BY <3>1, <3>2 DEF PublishingIsWhole
  <2> QED BY <2>2, <2>3
\* A lane the request leaves alone has the same numbers and the same row.
<1>7. ASSUME NEW l \in Lane, since'[l] = since[l], since[l] # "loosened", since[l] # "changed"
      PROVE  /\ col'[l] = col[l] /\ OwnedRows(Registry, l)' = OwnedRows(Registry, l)
             /\ type'[l[1]] = type[l[1]] /\ dataPlane'[l[1]] = dataPlane[l[1]]
  <2>1. CASE l[1] # a
    BY <2>1, <1>1, <1>2, LaneFacts DEF SameFor, Registry, OwnedRows
  <2>2. CASE l[1] = a
    <3>1. /\ r.col[l] = col[l] /\ type[a] = t
          /\ OwnedRows(r, l) = OwnedRows(Registry, l)
          /\ dataPlane[a] = NextDataPlane(a, dp)
      BY <2>2, <1>7 DEF Touch
    <3> QED BY <2>2, <3>1, <1>1, <1>2 DEF OwnedRows, Registry, TypeOK
  <2> QED BY <2>1, <2>2
<1>8. ASSUME NEW l \in Lane, since'[l] # "loosened"
      PROVE  /\ since[l] # "loosened"
             /\ \A q \in Port : owner[q] = l => owner'[q] = l
  <2>1. since[l] # "loosened"
    BY <1>8 DEF Touch
  <2>2. CASE l[1] # a
    BY <2>1, <2>2, <1>2 DEF SameFor, Registry
  <2>3. CASE l[1] = a /\ OwnedRows(r, l) = OwnedRows(Registry, l)
    BY <2>1, <2>3, <1>2 DEF OwnedRows, Registry
  <2>4. CASE l[1] = a /\ OwnedRows(r, l) # OwnedRows(Registry, l)
    <3>1. l \notin dropped /\ ~(r.col[l] # col[l] /\ ~live[l])
      BY <2>4, <1>8 DEF Touch
    <3>2. live[l] \/ r.col[l] = col[l]
      BY <3>1
    <3> QED BY <2>1, <2>4, <3>1, <3>2, <1>2
  <2> QED BY <2>2, <2>3, <2>4
<1>9. BoundIsReserved'
  BY <1>1, <1>8 DEF BoundIsReserved, TypeOK
<1>10. NothingLeftReserved'
  <2> SUFFICES ASSUME NEW l \in Lane, l[2] = "production", start'[l] = "up", since'[l] = "nothing"
               PROVE  OwnedRows(Registry, l)' = {pub'[l]} \ {NoPort}
    BY DEF NothingLeftReserved
  <2>1. since[l] = "nothing" /\ start[l] = "up"
    BY <1>1, <1>3 DEF Touch
  <2> QED BY <2>1, <1>1, <1>7 DEF NothingLeftReserved
<1>11. AbsentHasNothing'
  <2> SUFFICES ASSUME NEW l \in Lane, l[1] \notin exists
               PROVE  /\ type'[l[1]] = "http" /\ ~dataPlane'[l[1]]
                      /\ col'[l] = NoPort
                      /\ \A p \in Port : owner'[p] # l
    BY <1>1 DEF AbsentHasNothing
  <2>1. l[1] # a /\ l[1] \in App
    BY LaneFacts
  <2> QED BY <2>1, <1>1, <1>2 DEF AbsentHasNothing, SameFor, Registry, TypeOK
<1>12. RunMatchesRow'
  <2> SUFFICES ASSUME NEW l \in Lane, start'[l] \in {"running", "created"},
                      since'[l] # "loosened"
               PROVE  /\ since'[l] = "nothing" /\ pub'[l] = PublishTarget(l)'
                      /\ start'[l] = "created" => bound'[l] \in {pub'[l], NoPort}
    BY DEF RunMatchesRow
  <2>1. since'[l] = since[l] /\ since[l] # "loosened"
    BY <1>1 DEF Touch
  <2>2. since[l] = "nothing" /\ pub[l] = PublishTarget(l)
        /\ (start[l] = "created" => bound[l] \in {pub[l], NoPort})
    BY <2>1, <1>1 DEF RunMatchesRow
  <2>3. PublishTarget(l)' = PublishTarget(l)
    BY <2>1, <2>2, <1>1, <1>7 DEF PublishTarget
  <2> QED BY <2>1, <2>2, <2>3, <1>1
<1> QED BY <1>4, <1>5, <1>6, <1>9, <1>10, <1>11, <1>12

(* Publish: assign production, then keep, drop or pin the sandbox.          *)
LEMMA PublishLemma ==
    ASSUME IInv, NEW a \in App, NEW t \in Type, NEW dp \in DataPlaneArg,
           NEW p \in Port \cup {NoPort}, NEW sand \in SandboxArg,
           Publish(a, t, dp, p, sand)
    PROVE  IInv'
<1>1. PICK r1 \in AssignsTo(Registry, Prod(a), p) :
      \E r2 \in CASE sand.do = "keep" -> {r1}
                  [] sand.do = "drop" -> {Dropped(r1, Sand(a))}
                  [] sand.do = "pin"  -> AssignsTo(r1, Sand(a), sand.port) :
          /\ SetRegistry(r2)
          /\ Touch(a, r2, t, dp, IF sand.do = "drop" THEN {Sand(a)} ELSE {})
  BY DEF Publish
<1>2. PICK r2 \in CASE sand.do = "keep" -> {r1}
                  [] sand.do = "drop" -> {Dropped(r1, Sand(a))}
                  [] sand.do = "pin"  -> AssignsTo(r1, Sand(a), sand.port) :
          /\ SetRegistry(r2)
          /\ Touch(a, r2, t, dp, IF sand.do = "drop" THEN {Sand(a)} ELSE {})
  BY <1>1
<1>3. /\ Prod(a) \in Lane /\ Prod(a) # Sand(a)
      /\ Prod(a)[1] = a /\ Sand(a)[1] = a
      /\ \A l \in Lane : l[1] = a => l = Prod(a) \/ l = Sand(a)
  BY LaneFacts DEF Prod, Sand
<1>4. RegistryOK(Registry) /\ Registry.col = col /\ Registry.owner = owner
  BY RegistryLemma DEF IInv, Registry
<1>5. /\ RegistryOK(r1) /\ r1.col[Prod(a)] # NoPort
      /\ \A m \in Lane \ {Prod(a)} : SameFor(Registry, r1, m)
      /\ live[Prod(a)] \/ r1.col[Prod(a)] = col[Prod(a)] =>
           \A q \in Port : owner[q] = Prod(a) => r1.owner[q] = Prod(a)
  BY <1>1, <1>3, <1>4, AssignLemma
<1>6. /\ RegistryOK(r2)
      /\ \A m \in Lane \ {Sand(a)} : SameFor(r1, r2, m)
      /\ sand.do # "drop" /\ Sand(a) \in Lane
           /\ (live[Sand(a)] \/ r2.col[Sand(a)] = r1.col[Sand(a)]) =>
           \A q \in Port : r1.owner[q] = Sand(a) => r2.owner[q] = Sand(a)
  <2>0. sand.do \in {"keep", "drop", "pin"}
    BY DEF SandboxArg
  <2>1. CASE sand.do = "keep"
    <3>1. r2 = r1
      BY <2>1, <1>2
    <3> QED BY <3>1, <1>5 DEF SameFor
  <2>2. CASE sand.do = "drop"
    <3>1. r2 = Dropped(r1, Sand(a)) /\ Sand(a) \in Lane
      BY <2>2, <1>2 DEF Publish
    <3> QED BY <2>2, <3>1, <1>5, DropLemma
  <2>3. CASE sand.do = "pin"
    <3>1. r2 \in AssignsTo(r1, Sand(a), sand.port) /\ Sand(a) \in Lane
      BY <2>3, <1>2 DEF Publish
    <3>2. sand.port \in Port \cup {NoPort}
      BY <2>3 DEF SandboxArg
    <3> QED BY <3>1, <3>2, <1>5, AssignLemma
  <2> QED BY <2>0, <2>1, <2>2, <2>3
<1>7. r2.col[Prod(a)] # NoPort
  BY <1>3, <1>5, <1>6 DEF SameFor
<1>8. \A l \in Lane : l[1] # a => SameFor(Registry, r2, l)
  BY <1>3, <1>5, <1>6 DEF SameFor
<1> DEFINE dropped == IF sand.do = "drop" THEN {Sand(a)} ELSE {}
<1>9. ASSUME NEW l \in Lane, l[1] = a, l \notin dropped, live[l] \/ r2.col[l] = col[l]
      PROVE  \A q \in Port : owner[q] = l => r2.owner[q] = l
  <2>1. CASE l = Prod(a)
    <3>1. r2.col[l] = r1.col[l] /\ \A q \in Port : r2.owner[q] = l <=> r1.owner[q] = l
      BY <2>1, <1>3, <1>6 DEF SameFor
    <3> QED BY <2>1, <3>1, <1>5, <1>9
  <2>2. CASE l = Sand(a)
    <3>1. r1.col[l] = col[l] /\ \A q \in Port : r1.owner[q] = l <=> owner[q] = l
      BY <2>2, <1>3, <1>4, <1>5 DEF SameFor
    <3> QED BY <2>2, <3>1, <1>6, <1>9
  <2> QED BY <2>1, <2>2, <1>3, <1>9
<1>10. a \in exists /\ SetRow(a, t, dp) /\ Accepted(a, t, dp)
  BY DEF Publish
<1>11. Touch(a, r2, t, dp, dropped) /\ SetRegistry(r2)
  BY <1>2
<1> HIDE DEF dropped
<1> QED BY <1>6, <1>7, <1>8, <1>9, <1>10, <1>11, RequestLemma

(* Switching to http keeps every number.                                    *)
LEMMA StopPublishingLemma ==
    ASSUME IInv, NEW a \in App, NEW dp \in DataPlaneArg, StopPublishing(a, dp)
    PROVE  IInv'
<1>1. RegistryOK(Registry) /\ SetRegistry(Registry)
  BY RegistryLemma DEF IInv, StopPublishing, SetRegistry, Registry
<1>2. \A l \in Lane : SameFor(Registry, Registry, l)
  BY DEF SameFor
<1>3. \A l \in Lane, q \in Port : owner[q] = l => Registry.owner[q] = l
  BY DEF Registry
<1>4. "http" \in Type
  BY DEF Type
<1>5. /\ a \in exists /\ Accepted(a, "http", dp) /\ SetRow(a, "http", dp)
      /\ Touch(a, Registry, "http", dp, {})
  BY DEF StopPublishing
<1> QED BY <1>1, <1>2, <1>3, <1>4, <1>5, RequestLemma

(* The MCP tool may drop the sandbox number on the way.                     *)
LEMMA McpStopPublishingLemma ==
    ASSUME IInv, NEW a \in App, NEW dp \in DataPlaneArg, McpStopPublishing(a, dp)
    PROVE  IInv'
<1> DEFINE r == Dropped(Registry, Sand(a))
<1>1. RegistryOK(Registry) /\ Sand(a) \in Lane /\ a \in exists
      /\ Accepted(a, "http", dp) /\ SetRow(a, "http", dp)
      /\ SetRegistry(r) /\ Touch(a, r, "http", dp, {Sand(a)})
  BY RegistryLemma DEF IInv, McpStopPublishing
<1>2. RegistryOK(r) /\ \A m \in Lane \ {Sand(a)} : SameFor(Registry, r, m)
  BY <1>1, DropLemma
<1>3. \A l \in Lane : l[1] # a => SameFor(Registry, r, l)
  BY <1>2 DEF Sand
<1>4. \A l \in Lane : l[1] = a /\ l \notin {Sand(a)} =>
          \A q \in Port : owner[q] = l => r.owner[q] = l
  BY <1>2 DEF SameFor, Registry
<1>5. "http" \in Type
  BY DEF Type
<1> HIDE DEF r
<1> QED BY <1>1, <1>2, <1>3, <1>4, <1>5, RequestLemma

(* A step that leaves the registry and its columns alone keeps the mirror.  *)
LEMMA MirrorKept ==
    ASSUME MirrorAgrees, UNCHANGED <<owner, draining, col>>
    PROVE  /\ MirrorAgrees'
           /\ \A l \in Lane : OwnedRows(Registry, l)' = OwnedRows(Registry, l)
BY DEF MirrorAgrees, PinnedRows, OwnedRows, Registry

(* A new app publishes nothing, so a run that found no row was told the     *)
(* same as one that finds the new row.                                      *)
LEMMA CreateAppLemma ==
    ASSUME IInv, NEW a \in App, CreateApp(a)
    PROVE  IInv'
<1> USE DEF IInv, CreateApp, hostVars
<1>1. TypeOK'
  BY DEF TypeOK
<1>2. MirrorAgrees' /\ NothingLeftReserved'
  BY MirrorKept DEF NothingLeftReserved
<1>3. PublishingIsWhole' /\ BoundIsReserved'
  BY DEF PublishingIsWhole, BoundIsReserved
<1>4. AbsentHasNothing'
  BY DEF AbsentHasNothing
<1>5. \A l \in Lane : PublishTarget(l)' = PublishTarget(l)
  BY DEF PublishTarget, AbsentHasNothing
<1>6. RunMatchesRow'
  BY <1>5 DEF RunMatchesRow
<1> QED BY <1>1, <1>2, <1>3, <1>4, <1>6

(* Stopping the containers of a deleted app only unbinds.                   *)
LEMMA DeleteStopsLemma ==
    ASSUME IInv, NEW a \in App, DeleteStops(a)
    PROVE  IInv'
<1> USE DEF IInv, DeleteStops, rowVars
<1>1. TypeOK'
  BY DEF TypeOK
<1>2. MirrorAgrees' /\ NothingLeftReserved'
  BY MirrorKept DEF NothingLeftReserved
<1>3. PublishingIsWhole' /\ AbsentHasNothing'
  BY DEF PublishingIsWhole, AbsentHasNothing
<1>4. BoundIsReserved'
  BY DEF BoundIsReserved, TypeOK
<1>5. \A l \in Lane : PublishTarget(l)' = PublishTarget(l)
  BY DEF PublishTarget
<1>6. RunMatchesRow'
  BY <1>5 DEF RunMatchesRow, TypeOK
<1> QED BY <1>1, <1>2, <1>3, <1>4, <1>6

(* Deleting the row returns the app's numbers, and puts on record that its  *)
(* lanes lost them.                                                         *)
LEMMA DeleteRowLemma ==
    ASSUME IInv, NEW a \in App, DeleteRow(a)
    PROVE  IInv'
<1> USE DEF IInv, DeleteRow
<1>0. \A p \in Port : owner[p] \in Lane \cup {NoLane}
  BY DEF TypeOK
<1>1. /\ owner' = [p \in Port |-> IF owner[p][1] = a THEN NoLane ELSE owner[p]]
      /\ \A m \in Lane : m[1] # a =>
           /\ \A p \in Port : owner'[p] = m <=> owner[p] = m
           /\ col'[m] = col[m]
      /\ \A m \in Lane : m[1] = a =>
           /\ \A p \in Port : owner'[p] # m
           /\ col'[m] = NoPort
  BY <1>0, LaneFacts DEF TypeOK
<1>2. TypeOK'
  <2>1. owner' \in [Port -> Lane \cup {NoLane}]
    BY <1>0
  <2>2. draining' \subseteq {p \in Port : owner'[p] \in Lane}
    BY <1>0 DEF TypeOK
  <2>3. col' \in [Lane -> Port \cup {NoPort}] /\ since' \in [Lane -> Event]
        /\ live' \in [Lane -> BOOLEAN]
    BY DEF TypeOK, Event
  <2>4. type' \in [App -> Type] /\ dataPlane' \in [App -> BOOLEAN]
    BY DEF TypeOK, Type
  <2> QED BY <2>1, <2>2, <2>3, <2>4 DEF TypeOK
<1>3. ASSUME NEW m \in Lane
      PROVE  PinnedRows(Registry, m)' = IF col'[m] = NoPort THEN {} ELSE {col'[m]}
  <2>1. CASE m[1] = a
    BY <2>1, <1>1 DEF PinnedRows, Registry
  <2>2. CASE m[1] # a
    <3>1. \A p \in Port : owner'[p] = m => (p \in draining' <=> p \in draining)
      BY <2>2, <1>1 DEF TypeOK
    <3>2. PinnedRows(Registry, m)' = PinnedRows(Registry, m)
      BY <2>2, <3>1, <1>1 DEF PinnedRows, Registry
    <3> QED BY <2>2, <3>2, <1>1 DEF MirrorAgrees
  <2> QED BY <2>1, <2>2
<1>4. MirrorAgrees'
  BY <1>3 DEF MirrorAgrees
<1>5. PublishingIsWhole'
  <2> SUFFICES ASSUME NEW b \in App
               PROVE  /\ type'[b] # "http" => col'[Prod(b)] # NoPort
                      /\ type'[b] = "dual" <=> (dataPlane'[b] /\ type'[b] # "http")
    BY DEF PublishingIsWhole, Prod
  <2>1. Prod(b) \in Lane /\ Prod(b)[1] = b
    BY LaneFacts DEF Prod
  <2> QED BY <2>1, <1>1 DEF PublishingIsWhole, TypeOK
<1>6. \A m \in Lane : since'[m] # "loosened" => m[1] # a /\ since'[m] = since[m]
  BY DEF TypeOK
<1>7. BoundIsReserved'
  BY <1>1, <1>6 DEF BoundIsReserved, TypeOK
<1>8. NothingLeftReserved'
  <2> SUFFICES ASSUME NEW m \in Lane, m[2] = "production", start'[m] = "up", since'[m] = "nothing"
               PROVE  OwnedRows(Registry, m)' = {pub'[m]} \ {NoPort}
    BY DEF NothingLeftReserved
  <2>1. m[1] # a /\ since[m] = "nothing"
    BY <1>6
  <2> QED BY <2>1, <1>1 DEF NothingLeftReserved, OwnedRows, Registry
<1>9. AbsentHasNothing'
  <2> SUFFICES ASSUME NEW m \in Lane, m[1] \notin exists'
               PROVE  /\ type'[m[1]] = "http" /\ ~dataPlane'[m[1]]
                      /\ col'[m] = NoPort
                      /\ \A p \in Port : owner'[p] # m
    BY DEF AbsentHasNothing
  <2>1. m[1] \in App
    BY LaneFacts
  <2>2. CASE m[1] = a
    BY <2>1, <2>2, <1>1 DEF TypeOK
  <2>3. CASE m[1] # a
    BY <2>1, <2>3, <1>1 DEF AbsentHasNothing, TypeOK
  <2> QED BY <2>2, <2>3
<1>10. RunMatchesRow'
  <2> SUFFICES ASSUME NEW m \in Lane, start'[m] \in {"running", "created"}, since'[m] # "loosened"
               PROVE  /\ since'[m] = "nothing" /\ pub'[m] = PublishTarget(m)'
                      /\ start'[m] = "created" => bound'[m] \in {pub'[m], NoPort}
    BY DEF RunMatchesRow
  <2>1. m[1] # a /\ since'[m] = since[m] /\ m[1] \in App
    BY <1>6, LaneFacts
  <2>2. PublishTarget(m)' = PublishTarget(m)
    BY <2>1, <1>1 DEF PublishTarget, TypeOK
  <2> QED BY <2>1, <2>2 DEF RunMatchesRow
<1> QED BY <1>2, <1>4, <1>5, <1>7, <1>8, <1>9, <1>10

(* A start reads the row when it issues `docker run`: from then on the row  *)
(* says what it was given until a change is on record.                      *)
LEMMA StartRunsLemma ==
    ASSUME IInv, NEW l \in Lane, StartRuns(l)
    PROVE  IInv'
<1> USE DEF IInv, StartRuns, rowVars
<1>0. PublishTarget(l) \in Port \cup {NoPort}
  BY DEF PublishTarget, TypeOK
<1>1. TypeOK'
  BY <1>0 DEF TypeOK, Event
<1>2. MirrorAgrees' /\ NothingLeftReserved'
  BY MirrorKept DEF NothingLeftReserved, TypeOK
<1>3. PublishingIsWhole' /\ AbsentHasNothing'
  BY DEF PublishingIsWhole, AbsentHasNothing
<1>4. PublishTarget(l) # NoPort => owner[PublishTarget(l)] = l
  <2>1. col[l] # NoPort => col[l] \in PinnedRows(Registry, l)
    BY DEF MirrorAgrees
  <2> QED BY <2>1 DEF PublishTarget, PinnedRows, Registry
<1>5. BoundIsReserved'
  BY <1>4 DEF BoundIsReserved, TypeOK
<1>6. \A m \in Lane : PublishTarget(m)' = PublishTarget(m)
  BY DEF PublishTarget
<1>7. RunMatchesRow'
  BY <1>6 DEF RunMatchesRow, TypeOK
<1> QED BY <1>1, <1>2, <1>3, <1>5, <1>7

(* The steps that change no row and create no container.                    *)
LEMMA StartStepsLemma ==
    ASSUME IInv, NEW l \in Lane, NEW flag \in BOOLEAN,
           \/ StartBegins(l, flag) \/ StartBinds(l)
           \/ StartFails(l) \/ StartEnds(l, flag)
    PROVE  IInv'
<1> USE DEF IInv, StartBegins, StartBinds, StartFails, StartEnds, rowVars
<1>0. /\ UNCHANGED rowVars
      /\ since' = since
      /\ \A m \in Lane \ {l} : start'[m] = start[m] /\ bound'[m] = bound[m] /\ pub'[m] = pub[m]
      /\ \/ start'[l] \in {"stopping", "none"} /\ bound'[l] = bound[l]
         \/ /\ start[l] = "running" /\ start'[l] = "created"
            /\ pub'[l] = pub[l] /\ bound'[l] = pub[l]
  BY DEF TypeOK
<1>1. TypeOK'
  BY DEF TypeOK
<1>2. MirrorAgrees' /\ NothingLeftReserved'
  BY <1>0, MirrorKept DEF NothingLeftReserved
<1>3. PublishingIsWhole' /\ AbsentHasNothing'
  BY <1>0 DEF PublishingIsWhole, AbsentHasNothing
<1>4. BoundIsReserved'
  <2> SUFFICES ASSUME NEW m \in Lane, since'[m] # "loosened"
               PROVE  /\ bound'[m] # NoPort => owner'[bound'[m]] = m
                      /\ start'[m] = "running" /\ pub'[m] # NoPort => owner'[pub'[m]] = m
    BY DEF BoundIsReserved
  <2> QED BY <1>0 DEF BoundIsReserved
<1>5. \A m \in Lane : PublishTarget(m)' = PublishTarget(m)
  BY <1>0 DEF PublishTarget
<1>6. RunMatchesRow'
  <2> SUFFICES ASSUME NEW m \in Lane, start'[m] \in {"running", "created"}, since'[m] # "loosened"
               PROVE  /\ since'[m] = "nothing" /\ pub'[m] = PublishTarget(m)'
                      /\ start'[m] = "created" => bound'[m] \in {pub'[m], NoPort}
    BY DEF RunMatchesRow
  <2> QED BY <1>0, <1>5 DEF RunMatchesRow
<1> QED BY <1>1, <1>2, <1>3, <1>4, <1>6

(* When `docker run` has returned, the draining rows go and so does the     *)
(* number of an app switched to http: what is left is what the run was      *)
(* given, unless a change since then is on record.                          *)
LEMMA StartReturnsLemma ==
    ASSUME IInv, NEW l \in Lane, StartReturns(l)
    PROVE  IInv'
<1> USE DEF IInv
<1>0. /\ start[l] = "created" /\ start' = [start EXCEPT ![l] = "up"]
      /\ UNCHANGED <<exists, type, dataPlane, live, bound, pub, deleting, since>>
      /\ l[1] \in App
  BY LaneFacts DEF StartReturns
<1>1. PICK r : /\ RegistryOK(r) /\ SetRegistry(r)
               /\ \A m \in Lane \ {l} : SameFor(Registry, r, m)
               /\ \/ /\ l[1] \in exists /\ l[2] = "production"
                     /\ type[l[1]] = "http"
                     /\ r.col[l] = NoPort /\ \A q \in Port : r.owner[q] # l
                  \/ /\ r.col[l] = col[l]
                     /\ l[1] \in exists /\ l[2] = "production" /\ type[l[1]] = "http"
                          => col[l] = NoPort
                     /\ \A q \in Port : r.owner[q] = l <=> q \in PinnedRows(Registry, l)
  <2>0. RegistryOK(Registry) /\ Registry.col = col /\ Registry.owner = owner
    BY RegistryLemma DEF Registry
  <2>1. CASE l[1] \notin exists
    <3>1. SetRegistry(Registry)
      BY <2>1 DEF StartReturns, SetRegistry, Registry
    <3>2. \A q \in Port : owner[q] # l
      BY <2>1 DEF AbsentHasNothing
    <3>3. \A q \in Port : owner[q] = l <=> q \in PinnedRows(Registry, l)
      BY <3>2 DEF PinnedRows, Registry
    <3> QED BY <2>0, <2>1, <3>1, <3>3 DEF SameFor
  <2>2. CASE l[1] \in exists /\ l[2] = "production" /\ type[l[1]] = "http" /\ col[l] # NoPort
    <3>1. SetRegistry(Dropped(Registry, l))
      BY <2>0, <2>2 DEF StartReturns, Recreated
    <3> QED BY <2>0, <2>2, <3>1, DropLemma
  <2>3. CASE l[1] \in exists
             /\ ~(l[2] = "production" /\ type[l[1]] = "http" /\ col[l] # NoPort)
    <3>1. SetRegistry(Freed(Registry, l))
      BY <2>0, <2>3 DEF StartReturns, Recreated
    <3>2. /\ RegistryOK(Freed(Registry, l)) /\ Freed(Registry, l).col = col
          /\ \A q \in Port : Freed(Registry, l).owner[q] = l <=> q \in PinnedRows(Registry, l)
          /\ \A m \in Lane \ {l} : SameFor(Registry, Freed(Registry, l), m)
      BY <2>0, FreeLemma
    <3> QED BY <2>3, <3>1, <3>2
  <2> QED BY <2>1, <2>2, <2>3
<1>2. owner' = r.owner /\ col' = r.col /\ Registry.owner = owner /\ Registry.col = col
  BY <1>1 DEF SetRegistry, Registry
<1>3. TypeOK'
  BY <1>0, <1>1, InstallLemma DEF TypeOK
<1>4. MirrorAgrees'
  BY <1>1, InstallLemma
<1>5. PublishingIsWhole'
  <2> SUFFICES ASSUME NEW b \in App
               PROVE  type[b] # "http" => col'[Prod(b)] # NoPort
    BY <1>0 DEF PublishingIsWhole, Prod
  <2>1. Prod(b) \in Lane /\ Prod(b)[1] = b
    BY LaneFacts DEF Prod
  <2>2. type[b] # "http" => col[Prod(b)] # NoPort
    BY DEF PublishingIsWhole
  <2>3. CASE Prod(b) = l
    BY <2>1, <2>2, <2>3, <1>1, <1>2
  <2>4. CASE Prod(b) # l
    BY <2>1, <2>2, <2>4, <1>1, <1>2 DEF SameFor
  <2> QED BY <2>3, <2>4
\* Without a change on record the lane owns exactly what the run was given.
<1>6. ASSUME since[l] # "loosened"
      PROVE  /\ pub[l] # NoPort => owner'[pub[l]] = l
             /\ l[2] = "production" => OwnedRows(Registry, l)' = {pub[l]} \ {NoPort}
  <2>1. pub[l] = PublishTarget(l)
    BY <1>0, <1>6 DEF RunMatchesRow
  <2>2. PinnedRows(Registry, l) = IF col[l] = NoPort THEN {} ELSE {col[l]}
    BY DEF MirrorAgrees
  <2>3. pub[l] # NoPort => /\ pub[l] = col[l] /\ type[l[1]] # "http"
                           /\ col[l] \in Port
    BY <2>1 DEF PublishTarget, TypeOK
  <2>4. pub[l] # NoPort => owner'[pub[l]] = l
    BY <2>2, <2>3, <1>1, <1>2
  <2>5. l[2] = "production" /\ pub[l] = NoPort => \A q \in Port : owner'[q] # l
    <3> SUFFICES ASSUME l[2] = "production", pub[l] = NoPort, NEW q \in Port
                 PROVE  owner'[q] # l
      OBVIOUS
    <3>1. l = Prod(l[1])
      BY LaneFacts DEF Prod
    <3>2. type[l[1]] # "http" => col[l] # NoPort
      BY <3>1, <1>0 DEF PublishingIsWhole
    <3>3. type[l[1]] = "dual" => dataPlane[l[1]]
      BY <1>0 DEF PublishingIsWhole
    <3>4. l[1] \notin exists => type[l[1]] = "http" /\ col[l] = NoPort
      BY DEF AbsentHasNothing
    <3>5. type[l[1]] = "http"
      BY <2>1, <3>2, <3>3, <3>4 DEF PublishTarget
    <3>6. CASE r.col[l] = col[l] /\ col[l] = NoPort
               /\ \A n \in Port : r.owner[n] = l <=> n \in PinnedRows(Registry, l)
      BY <3>6, <2>2, <1>2
    <3> QED BY <3>4, <3>5, <3>6, <1>1, <1>2
  <2>6. ASSUME l[2] = "production", pub[l] # NoPort, NEW q \in Port, owner'[q] = l
        PROVE  q = pub[l]
    BY <2>6, <2>2, <2>3, <1>1, <1>2
  <2>7. l[2] = "production" => \A q \in Port : owner'[q] = l <=> q = pub[l] /\ pub[l] # NoPort
    BY <2>4, <2>5, <2>6
  <2>8. pub[l] # NoPort => pub[l] \in Port
    BY DEF TypeOK
  <2>9. l[2] = "production" => OwnedRows(Registry, l)' = {pub[l]} \ {NoPort}
    BY <2>7, <2>8 DEF OwnedRows, Registry
  <2> QED BY <2>4, <2>9
<1>7. BoundIsReserved'
  <2> SUFFICES ASSUME NEW m \in Lane, since[m] # "loosened"
               PROVE  /\ bound[m] # NoPort => owner'[bound[m]] = m
                      /\ start'[m] = "running" /\ pub[m] # NoPort => owner'[pub[m]] = m
    BY <1>0 DEF BoundIsReserved
  <2>1. CASE m = l
    <3>1. bound[l] \in {pub[l], NoPort} /\ start'[l] = "up"
      BY <1>0, <2>1 DEF RunMatchesRow, TypeOK
    <3> QED BY <2>1, <3>1, <1>6
  <2>2. CASE m # l
    <3>1. start'[m] = start[m]
      BY <2>2, <1>0 DEF TypeOK
    <3>2. \A q \in Port : owner[q] = m => owner'[q] = m
      BY <2>2, <1>1, <1>2 DEF SameFor
    <3> QED BY <3>1, <3>2 DEF BoundIsReserved, TypeOK
  <2> QED BY <2>1, <2>2
<1>8. NothingLeftReserved'
  <2> SUFFICES ASSUME NEW m \in Lane, m[2] = "production", start'[m] = "up", since[m] = "nothing"
               PROVE  OwnedRows(Registry, m)' = {pub[m]} \ {NoPort}
    BY <1>0 DEF NothingLeftReserved
  <2>1. CASE m = l
    BY <2>1, <1>6
  <2>2. CASE m # l
    <3>1. start[m] = "up"
      BY <2>2, <1>0 DEF TypeOK
    <3>2. OwnedRows(Registry, m)' = OwnedRows(Registry, m)
      BY <2>2, <1>1, <1>2 DEF SameFor, OwnedRows, Registry
    <3> QED BY <3>1, <3>2 DEF NothingLeftReserved
  <2> QED BY <2>1, <2>2
<1>9. AbsentHasNothing'
  <2> SUFFICES ASSUME NEW m \in Lane, m[1] \notin exists
               PROVE  /\ type[m[1]] = "http" /\ ~dataPlane[m[1]]
                      /\ col'[m] = NoPort
                      /\ \A p \in Port : owner'[p] # m
    BY <1>0 DEF AbsentHasNothing
  <2>1. /\ type[m[1]] = "http" /\ ~dataPlane[m[1]] /\ col[m] = NoPort
        /\ \A p \in Port : owner[p] # m
    BY DEF AbsentHasNothing
  <2>2. CASE m = l
    <3>1. PinnedRows(Registry, l) = {}
      BY <2>1, <2>2 DEF PinnedRows, Registry
    <3> QED BY <2>1, <2>2, <3>1, <1>1, <1>2
  <2>3. CASE m # l
    BY <2>1, <2>3, <1>1, <1>2 DEF SameFor
  <2> QED BY <2>2, <2>3
<1>10. RunMatchesRow'
  <2> SUFFICES ASSUME NEW m \in Lane, start'[m] \in {"running", "created"}, since[m] # "loosened"
               PROVE  /\ since[m] = "nothing" /\ pub[m] = PublishTarget(m)'
                      /\ start'[m] = "created" => bound[m] \in {pub[m], NoPort}
    BY <1>0 DEF RunMatchesRow
  <2>1. m # l /\ start'[m] = start[m]
    BY <1>0 DEF TypeOK
  <2>2. col'[m] = col[m]
    BY <2>1, <1>1, <1>2 DEF SameFor
  <2>3. PublishTarget(m)' = PublishTarget(m)
    BY <2>2, <1>0 DEF PublishTarget
  <2> QED BY <2>1, <2>3 DEF RunMatchesRow
<1> QED BY <1>3, <1>4, <1>5, <1>7, <1>8, <1>9, <1>10

(* A crash may leave containers of runs that were under way; they bind what *)
(* those runs were given, which is still reserved.                          *)
LEMMA CrashLemma ==
    ASSUME IInv, Crash
    PROVE  IInv'
<1> USE DEF IInv, rowVars
<1>0. /\ UNCHANGED rowVars /\ since' = since /\ live' = live
      /\ start' = [m \in Lane |-> "none"] /\ pub' = [m \in Lane |-> NoPort]
      /\ deleting' = {}
      /\ bound' \in [Lane -> Port \cup {NoPort}]
      /\ \A m \in Lane : \/ bound'[m] = bound[m]
                         \/ start[m] = "running" /\ bound'[m] = pub[m]
  <2>1. PICK L \in SUBSET {m \in Lane : start[m] = "running" /\ Bindable(m)} :
            bound' = [m \in Lane |-> IF m \in L THEN pub[m] ELSE bound[m]]
    BY DEF Crash
  <2> QED BY <2>1 DEF Crash, TypeOK
<1>1. TypeOK'
  BY <1>0 DEF TypeOK
<1>2. MirrorAgrees' /\ NothingLeftReserved'
  BY <1>0, MirrorKept DEF NothingLeftReserved
<1>3. PublishingIsWhole' /\ AbsentHasNothing'
  BY <1>0 DEF PublishingIsWhole, AbsentHasNothing
<1>4. BoundIsReserved'
  BY <1>0 DEF BoundIsReserved
<1>5. RunMatchesRow'
  BY <1>0 DEF RunMatchesRow
<1> QED BY <1>1, <1>2, <1>3, <1>4, <1>5

(* Every step keeps the invariant.                                          *)
LEMMA StepLemma == IInv /\ [Next]_vars => IInv'
<1> SUFFICES ASSUME IInv, [Next]_vars PROVE IInv'
  OBVIOUS
<1>1. ASSUME NEW a \in App, CreateApp(a) \/ DeleteStops(a) \/ DeleteRow(a) PROVE IInv'
  BY <1>1, CreateAppLemma, DeleteStopsLemma, DeleteRowLemma
<1>2. ASSUME NEW a \in App, NEW dp \in DataPlaneArg,
             StopPublishing(a, dp) \/ McpStopPublishing(a, dp)
      PROVE  IInv'
  BY <1>2, StopPublishingLemma, McpStopPublishingLemma
<1>3. ASSUME NEW a \in App, NEW dp \in DataPlaneArg, NEW t \in Type,
             NEW p \in Port \cup {NoPort}, NEW sand \in SandboxArg,
             Publish(a, t, dp, p, sand)
      PROVE  IInv'
  BY <1>3, PublishLemma
<1>4. ASSUME NEW l \in Lane, StartRuns(l) \/ StartReturns(l) PROVE IInv'
  BY <1>4, StartRunsLemma, StartReturnsLemma
<1>5. ASSUME NEW l \in Lane, NEW flag \in BOOLEAN,
             \/ StartBegins(l, flag) \/ StartBinds(l)
             \/ StartFails(l) \/ StartEnds(l, flag)
      PROVE  IInv'
  BY <1>5, StartStepsLemma
<1>6. CASE Crash
  BY <1>6, CrashLemma
<1>7. CASE UNCHANGED vars
  <2>1. UNCHANGED <<exists, type, dataPlane, col, owner, draining, live, bound,
                    start, pub, deleting, since>>
    BY <1>7 DEF vars, rowVars, hostVars
  <2>2. \A m \in Lane : PublishTarget(m)' = PublishTarget(m)
    BY <2>1 DEF PublishTarget
  <2> QED BY <2>1, <2>2, MirrorKept DEF IInv, TypeOK, PublishingIsWhole, BoundIsReserved,
        NothingLeftReserved, AbsentHasNothing, RunMatchesRow
<1>8. TRUE \in BOOLEAN
  OBVIOUS
<1> QED BY <1>1, <1>2, <1>3, <1>4, <1>5, <1>6, <1>7, <1>8 DEF Next

(* The invariant holds of every behaviour, for any apps, lanes and ports.   *)
THEOREM InvariantHolds == Spec => []IInv
BY InitLemma, StepLemma, PTL DEF Spec

(* Rows, containers and starts under way always hold what the schema and    *)
(* the code put there.                                                      *)
THEOREM TypeTheorem == Spec => []TypeOK
<1>1. IInv => TypeOK
  BY DEF IInv
<1> QED BY <1>1, InvariantHolds, PTL

(* The registry and the columns never disagree about who holds a port.      *)
THEOREM MirrorTheorem == Spec => []MirrorAgrees
<1>1. IInv => MirrorAgrees
  BY DEF IInv
<1> QED BY <1>1, InvariantHolds, PTL

(* An ingress change is taken whole or not at all.                          *)
THEOREM WholeTheorem == Spec => []PublishingIsWhole
<1>1. IInv => PublishingIsWhole
  BY DEF IInv
<1> QED BY <1>1, InvariantHolds, PTL

(* A port a container binds is reserved to its lane, except after the three *)
(* kinds of change that are put on record.                                  *)
THEOREM BoundTheorem == Spec => []BoundIsReserved
<1>1. IInv => BoundIsReserved
  BY DEF IInv
<1> QED BY <1>1, InvariantHolds, PTL

(* No `docker run` is refused because another lane answers on its port.     *)
THEOREM NoClashTheorem == Spec => []NoPortClash
<1>1. IInv => NoPortClash
  BY DEF IInv, BoundIsReserved, NoPortClash
<1> QED BY <1>1, InvariantHolds, PTL

(* A recreated production container leaves nothing else reserved.           *)
THEOREM NothingLeftTheorem == Spec => []NothingLeftReserved
<1>1. IInv => NothingLeftReserved
  BY DEF IInv
<1> QED BY <1>1, InvariantHolds, PTL
=============================================================================
