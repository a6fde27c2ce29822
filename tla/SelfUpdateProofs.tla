-------------------------- MODULE SelfUpdateProofs --------------------------
(***************************************************************************)
(* The schema a server serves, the verdict on an update and the snapshot   *)
(* to restore from, for any releases, migrations, requests and crashes.    *)
(***************************************************************************)
EXTENDS SelfUpdate, SequenceTheorems, TLAPS

\* The tree only follows origin/main, and a booting process has what it holds.
TreeFollows ==
    /\ fetched <= origin /\ tree <= fetched /\ code <= tree
    /\ proc \in {"loading", "migrating", "recording"} => code = tree

\* A request knows the release it came from.
RequestHasPrev == \A u \in Update : at[u] # "idle" => prev[u] \in Release

\* At most one migration has run without its row or was left in the middle of its
\* file, and then no older release can be served: the tree that shipped it is
\* still there.
OneAhead ==
    /\ applied <= effect /\ effect <= applied + 1 /\ effect <= Ships[tree]
    /\ torn => applied < Ships[tree]
    /\ proc = "recording" => effect = applied + 1 /\ ~torn

\* A boot that may migrate has taken its snapshot; the one of the release that
\* came up last is then no deeper than the boots that failed since.
BaseAt(n) == \E i \in 1 .. Len(snaps) : i <= n /\ snaps[i] = base

BaseIsNear ==
    /\ proc = "up" => opened = 0
    /\ proc \in {"migrating", "recording"} /\ applied < Ships[code] => opened > 0
    /\ opened = 0 => applied = base
    /\ opened > 0 /\ opened <= Keep => BaseAt(opened)

IInv == TypeOK /\ TreeFollows /\ RequestHasPrev /\ OneAhead /\ BaseIsNear
          /\ ServesItsSchema /\ SuccessIsTrue

\* A later release has the migrations of an earlier one.
LEMMA ShipsGrow ==
    ASSUME NEW r \in Release, NEW s \in Release, r <= s
    PROVE  Ships[r] \in Nat /\ Ships[s] \in Nat /\ Ships[r] <= Ships[s]
  BY UpdateAssumption

\* The prune keeps the newest: what it lists stays in its place.
LEMMA KeptFacts ==
    ASSUME NEW s \in Seq(Nat)
    PROVE  /\ Kept(s) \in Seq(Nat) /\ Len(Kept(s)) <= Keep
           /\ Len(Kept(s)) = IF Len(s) < Keep THEN Len(s) ELSE Keep
           /\ \A i \in 1 .. Len(Kept(s)) : Kept(s)[i] = s[i]
  <1> DEFINE n == IF Len(s) < Keep THEN Len(s) ELSE Keep
  <1>1. n \in Nat /\ n <= Len(s) /\ n <= Keep
    BY UpdateAssumption
  <1>2. \A i \in 1 .. n : s[i] \in Nat
    BY <1>1
  <1>3. /\ SubSeq(s, 1, n) \in Seq(Nat)
        /\ Len(SubSeq(s, 1, n)) = IF 1 <= n THEN n - 1 + 1 ELSE 0
        /\ \A i \in 1 .. n - 1 + 1 : SubSeq(s, 1, n)[i] = s[1 + i - 1]
    BY <1>1, <1>2, SubSeqProperties
  <1>4. Kept(s) = SubSeq(s, 1, n)
    BY DEF Kept
  <1> HIDE DEF n
  <1>5. Len(Kept(s)) = n /\ \A i \in 1 .. n : Kept(s)[i] = s[i]
    BY <1>1, <1>3, <1>4
  <1>6. QED
    BY <1>1, <1>3, <1>4, <1>5 DEF n

\* A snapshot: what was listed is one place deeper, or pruned.
LEMMA SnapshotFacts ==
    ASSUME snaps \in Seq(Nat), Len(snaps) <= Keep, applied \in Nat,
           createPreUpdateSnapshot
    PROVE  /\ snaps' \in Seq(Nat) /\ Len(snaps') <= Keep /\ Len(snaps') > 0
           /\ snaps'[1] = applied
           /\ \A i \in 1 .. Len(snaps) : i < Keep =>
                 i + 1 \in 1 .. Len(snaps') /\ snaps'[i + 1] = snaps[i]
  <1> DEFINE s == <<applied>> \o snaps
  <1>1. s \in Seq(Nat) /\ Len(s) = Len(snaps) + 1 /\ s[1] = applied
    BY SMT
  <1>2. \A i \in 1 .. Len(snaps) : s[i + 1] = snaps[i]
    BY SMT
  <1>3. snaps' = Kept(s)
    BY DEF createPreUpdateSnapshot
  <1> HIDE DEF s
  <1>4. /\ snaps' \in Seq(Nat) /\ Len(snaps') <= Keep
        /\ Len(snaps') = IF Len(s) < Keep THEN Len(s) ELSE Keep
        /\ \A i \in 1 .. Len(snaps') : snaps'[i] = s[i]
    BY <1>1, <1>3, KeptFacts
  <1>5. Len(snaps') > 0 /\ snaps'[1] = applied
    BY <1>1, <1>4, UpdateAssumption
  <1>6. ASSUME NEW i \in 1 .. Len(snaps), i < Keep
        PROVE  i + 1 \in 1 .. Len(snaps') /\ snaps'[i + 1] = snaps[i]
    <2>1. i + 1 \in 1 .. Len(snaps')
      BY <1>1, <1>4, <1>6, UpdateAssumption
    <2>2. snaps'[i + 1] = s[i + 1] /\ s[i + 1] = snaps[i]
      BY <2>1, <1>2, <1>4
    <2>3. QED
      BY <2>1, <2>2
  <1>7. QED
    BY <1>4, <1>5, <1>6

LEMMA InitInv == Init => IInv
  <1> SUFFICES ASSUME Init PROVE IInv
    OBVIOUS
  <1>1. 1 \in Release /\ Ships[1] \in Nat /\ Keep \in Nat
        /\ MaxCrashes \in Nat /\ MaxRelease \in Nat
    BY UpdateAssumption DEF Release
  <1>2. 0 \in 0 .. MaxRelease /\ 0 \in 0 .. Keep + 1
        /\ 0 \in 0 .. MaxCrashes
    BY <1>1
  <1>3. <<>> \in Seq(Nat) /\ Len(<<>>) = 0
    BY SMT
  <1>9. torn \in BOOLEAN /\ node \in BOOLEAN
    BY Zenon DEF Init
  <1>4. TypeOK
    BY <1>1, <1>2, <1>3, <1>9 DEF Init, Idle, TypeOK
  <1>5. NoRecord \notin Record
    BY UpdateAssumption
  <1>6. TreeFollows /\ RequestHasPrev /\ OneAhead /\ BaseIsNear
    BY <1>1 DEF Init, Idle, TreeFollows, RequestHasPrev, OneAhead, BaseIsNear
  <1>7. ServesItsSchema /\ SuccessIsTrue
    BY <1>1, <1>5 DEF Init, ServesItsSchema, SuccessIsTrue
  <1>8. QED
    BY <1>4, <1>6, <1>7 DEF IInv

\* The process ends, whatever it was at: an exit, a restart or a crash, which may
\* leave the next migration in the middle of its file.
LEMMA DownStep ==
    ASSUME IInv, Down, proc # "down", crashes' \in 0 .. MaxCrashes,
           torn' \in BOOLEAN, torn' => applied < Ships[tree],
           UNCHANGED <<origin, fetched, hostVars, applied, effect, snaps, record, code,
                       historyVars>>
    PROVE  IInv'
  <1>1. 0 \in 0 .. MaxRelease
    BY UpdateAssumption
  <1>2. TypeOK'
    BY <1>1 DEF IInv, TypeOK, Down, hostVars, historyVars
  <1>3. TreeFollows' /\ RequestHasPrev' /\ OneAhead' /\ SuccessIsTrue'
    BY DEF IInv, TreeFollows, RequestHasPrev, OneAhead, SuccessIsTrue, Down, hostVars,
           historyVars
  <1>4. BaseIsNear' /\ ServesItsSchema'
    BY DEF IInv, BaseIsNear, BaseAt, ServesItsSchema, Down, hostVars, historyVars
  <1>5. QED
    BY <1>2, <1>3, <1>4 DEF IInv

\* A step of a request: only what is checked out, the snapshots and the record
\* of the update can change, while the server is up.
LEMMA RequestStep ==
    ASSUME IInv, NEW u \in Update,
           Capture(u) \/ Fetch(u) \/ Reset(u) \/ Install(u) \/ WriteRecord(u)
    PROVE  IInv'
  <1>1. proc = "up" /\ opened = 0 /\ applied = base
    BY DEF IInv, BaseIsNear, Capture, Fetch, Reset, Install, WriteRecord, Free
  <1>2. /\ {origin, fetched, tree, deps, code} \subseteq Release /\ Release \subseteq Nat
        /\ Release \subseteq 0 .. MaxRelease /\ 0 \in 0 .. MaxRelease
        /\ 0 \in 0 .. MaxTries
    BY UpdateAssumption DEF IInv, TypeOK, Release
  <1>12. /\ origin \in Release /\ fetched \in Release /\ tree \in Release
         /\ code \in Release /\ origin \in Nat /\ fetched \in Nat /\ tree \in Nat
         /\ code \in Nat
    BY <1>2
  <1>3. \A r, s \in Release : r <= s => Ships[r] \in Nat /\ Ships[s] \in Nat
                                          /\ Ships[r] <= Ships[s]
    BY ShipsGrow
  <1>4. NoRecord \notin Record
    BY UpdateAssumption
  <1>5. UNCHANGED <<applied, effect, torn, base, opened, proc, code, crashes, origin>>
    BY DEF Capture, Fetch, Reset, Install, WriteRecord, hostVars, dbVars, historyVars
  <1>6. CASE Capture(u)
    <2>1. TypeOK'
      BY <1>2, <1>6 DEF IInv, TypeOK, Capture, To, hostVars, dbVars, historyVars
    <2>2. TreeFollows' /\ RequestHasPrev' /\ OneAhead' /\ SuccessIsTrue'
      BY <1>2, <1>6 DEF IInv, TypeOK, TreeFollows, RequestHasPrev, OneAhead,
         SuccessIsTrue, Capture, To, hostVars, dbVars, historyVars
    <2>3. BaseIsNear' /\ ServesItsSchema'
      BY <1>6 DEF IInv, BaseIsNear, BaseAt, ServesItsSchema, Capture, hostVars, dbVars,
         historyVars
    <2>4. QED
      BY <2>1, <2>2, <2>3 DEF IInv
  <1>7. CASE Fetch(u)
    <2>1. snaps' \in Seq(Nat) /\ Len(snaps') <= Keep
      BY <1>7, SnapshotFacts DEF IInv, TypeOK, Fetch
    <2>2. TypeOK'
      <3>1. fetched' \in Release /\ tree' \in Release /\ deps' \in Release
            /\ origin' \in Release /\ code' \in Release
        BY <1>2, <1>12, <1>7 DEF Fetch, hostVars
      <3>2. at' \in [Update -> {"idle", "captured", "fetched", "installing", "building",
                                "exiting"}]
            /\ prev' \in [Update -> 0 .. MaxRelease]
        BY <1>2, <1>7 DEF IInv, TypeOK, Fetch, To, Ended
      <3>3. floor' \in [Update -> BOOLEAN]
        <4>1. floor \in [Update -> BOOLEAN]
          BY DEF IInv, TypeOK
        <4>2. \E b \in BOOLEAN : floor' = [floor EXCEPT ![u] = b]
          <5>1. \A r : (r \in Modern) \in BOOLEAN
            OBVIOUS
          <5>2. QED
            BY <1>7, <5>1, Zenon DEF Fetch, Ended
        <4>3. QED
          BY <4>1, <4>2
      <3>4. node' = node /\ record' = record
        BY <1>7 DEF Fetch, hostVars
      <3>5. QED
        BY <1>5, <2>1, <3>1, <3>2, <3>3, <3>4 DEF IInv, TypeOK
    <2>3. TreeFollows' /\ RequestHasPrev' /\ OneAhead' /\ SuccessIsTrue'
      <3>1. fetched' \in {origin, fetched} /\ tree' = tree /\ record' = record
            /\ origin' = origin
        BY <1>7 DEF Fetch, hostVars
      <3>2. TreeFollows'
        BY <1>1, <1>12, <1>5, <3>1 DEF IInv, TreeFollows
      <3>3. RequestHasPrev'
        BY <1>7 DEF IInv, TypeOK, RequestHasPrev, Fetch, To, Ended
      <3>4. QED
        BY <1>5, <3>1, <3>2, <3>3 DEF IInv, OneAhead, SuccessIsTrue
    <2>4. BaseIsNear' /\ ServesItsSchema'
      BY <1>1, <1>5 DEF IInv, BaseIsNear, ServesItsSchema
    <2>5. QED
      BY <2>2, <2>3, <2>4 DEF IInv
  <1>8. CASE Reset(u)
    <2>1. TypeOK'
      <3>1. fetched' \in Release /\ tree' \in Release /\ deps' \in Release
            /\ origin' \in Release /\ code' \in Release
        BY <1>2, <1>12, <1>8 DEF Reset
      <3>2. at' \in [Update -> {"idle", "captured", "fetched", "installing", "building",
                                "exiting"}]
            /\ prev' \in [Update -> 0 .. MaxRelease]
        BY <1>2, <1>8 DEF IInv, TypeOK, Reset, To, Ended
      <3>3. floor' \in [Update -> BOOLEAN]
        BY <1>8 DEF IInv, TypeOK, Reset, Ended
      <3>4. node' \in BOOLEAN
        <4>1. PICK plan \in planNodeUpgrade(u) : node' = (node \/ plan = "upgrade")
          BY <1>8 DEF Reset
        <4>2. QED
          BY <4>1
      <3>5. record' = record /\ snaps' = snaps
        BY <1>8 DEF Reset, dbVars
      <3>6. QED
        BY <1>5, <3>1, <3>2, <3>3, <3>4, <3>5 DEF IInv, TypeOK
    <2>2. /\ tree' \in {tree, fetched} /\ fetched' = fetched /\ record' = record
          /\ snaps' = snaps
      BY <1>8 DEF Reset, dbVars
    <2>3. TreeFollows'
      BY <1>1, <1>12, <1>5, <2>2 DEF IInv, TreeFollows
    <2>4. RequestHasPrev'
      BY <1>8 DEF IInv, TypeOK, RequestHasPrev, Reset, To, Ended
    <2>5. OneAhead'
      <3>1. Ships[tree] \in Nat /\ Ships[fetched] \in Nat /\ Ships[tree] <= Ships[fetched]
        BY <1>2, <1>3 DEF IInv, TreeFollows
      <3>2. applied \in Nat /\ effect \in Nat
        BY DEF IInv, TypeOK
      <3>3. QED
        BY <1>5, <2>2, <3>1, <3>2 DEF IInv, OneAhead
    <2>6. BaseIsNear' /\ ServesItsSchema' /\ SuccessIsTrue'
      BY <1>1, <1>5, <2>2 DEF IInv, BaseIsNear, ServesItsSchema, SuccessIsTrue
    <2>7. QED
      BY <2>1, <2>3, <2>4, <2>5, <2>6 DEF IInv
  <1>9. CASE Install(u)
    <2>1. TypeOK'
      BY <1>2, <1>9 DEF IInv, TypeOK, Install, To, Ended, dbVars, historyVars
    <2>2. UNCHANGED <<fetched, tree, record, snaps>>
      BY <1>9 DEF Install, dbVars
    <2>3. RequestHasPrev'
      BY <1>9 DEF IInv, TypeOK, RequestHasPrev, Install, To, Ended
    <2>4. TreeFollows' /\ OneAhead' /\ BaseIsNear' /\ ServesItsSchema' /\ SuccessIsTrue'
      BY <1>1, <1>5, <2>2 DEF IInv, TreeFollows, OneAhead, BaseIsNear, ServesItsSchema,
         SuccessIsTrue
    <2>5. QED
      BY <2>1, <2>3, <2>4 DEF IInv
  <1>10. CASE WriteRecord(u)
    <2>1. prev[u] \in Release
      BY <1>10 DEF IInv, RequestHasPrev, WriteRecord
    <2>2. record' \in Record /\ ~record'.ok
      BY <1>2, <1>10, <2>1 DEF WriteRecord, Record
    <2>3. TypeOK'
      BY <1>2, <1>10, <2>2 DEF IInv, TypeOK, WriteRecord, To, hostVars, dbVars, historyVars
    <2>4. RequestHasPrev'
      BY <1>10 DEF IInv, TypeOK, RequestHasPrev, WriteRecord, To
    <2>5. UNCHANGED <<fetched, tree, snaps>>
      BY <1>10 DEF WriteRecord, hostVars, dbVars
    <2>6. TreeFollows' /\ OneAhead' /\ BaseIsNear' /\ ServesItsSchema'
      BY <1>1, <1>5, <2>5 DEF IInv, TreeFollows, OneAhead, BaseIsNear, ServesItsSchema
    <2>7. SuccessIsTrue'
      BY <2>2 DEF SuccessIsTrue
    <2>8. QED
      BY <2>3, <2>4, <2>6, <2>7 DEF IInv
  <1>11. QED
    BY <1>6, <1>7, <1>8, <1>9, <1>10

\* The wrapper finds no record, so that a failed boot always ends the process.
LEMMA WrapperFindsNothing ==
    ASSUME attempt_rollback
    PROVE  proc' = "down" /\ UNCHANGED <<record, tree, deps, code>>
  BY UpdateAssumption DEF attempt_rollback, SeenByWrapper

\* A start, with what the wrapper repairs before it.
LEMMA StartStep ==
    ASSUME IInv, Start
    PROVE  IInv'
  <1>1. /\ UNCHANGED <<origin, fetched, tree, applied, effect, torn, snaps, record, base,
                       opened, crashes, at, prev, floor>>
        /\ code' = tree /\ proc' = "loading" /\ proc = "down"
    BY DEF Start, dbVars, reqVars, historyVars
  <1>2. node' \in BOOLEAN /\ deps' \in {deps, tree}
    BY DEF IInv, TypeOK, Start
  <1>4. TypeOK'
    BY <1>1, <1>2 DEF IInv, TypeOK
  <1>5. TreeFollows'
    <2>1. tree \in Nat
      BY UpdateAssumption DEF IInv, TypeOK, Release
    <2>2. QED
      BY <1>1, <2>1 DEF IInv, TreeFollows
  <1>6. RequestHasPrev' /\ OneAhead' /\ SuccessIsTrue'
    BY <1>1 DEF IInv, RequestHasPrev, OneAhead, SuccessIsTrue
  <1>7. BaseIsNear' /\ ServesItsSchema'
    BY <1>1 DEF IInv, BaseIsNear, BaseAt, ServesItsSchema
  <1>8. QED
    BY <1>4, <1>5, <1>6, <1>7 DEF IInv

LEMMA FailStep ==
    ASSUME IInv, LoadFails \/ MigrationFails
    PROVE  IInv'
  <1>1. attempt_rollback
    BY DEF LoadFails, MigrationFails
  <1>2. proc' = "down" /\ UNCHANGED <<record, tree, deps, code>>
    BY <1>1, WrapperFindsNothing
  <1>3. UNCHANGED <<origin, fetched, node, applied, effect, torn, snaps, at, prev, floor,
                    base, opened, crashes>>
    BY DEF LoadFails, MigrationFails, dbVars, reqVars, historyVars
  <1>4. TypeOK'
    BY <1>2, <1>3 DEF IInv, TypeOK
  <1>5. TreeFollows' /\ RequestHasPrev' /\ OneAhead' /\ SuccessIsTrue'
    BY <1>2, <1>3 DEF IInv, TreeFollows, RequestHasPrev, OneAhead, SuccessIsTrue
  <1>6. BaseIsNear' /\ ServesItsSchema'
    BY <1>2, <1>3 DEF IInv, BaseIsNear, BaseAt, ServesItsSchema
  <1>7. QED
    BY <1>4, <1>5, <1>6 DEF IInv

\* A boot opens the database: when migrations wait, the newest snapshot is of
\* what is applied, and the one of the last release that came up one deeper.
LEMMA OpenStep ==
    ASSUME IInv, OpenDb
    PROVE  IInv'
  <1>1. /\ UNCHANGED <<origin, fetched, tree, deps, node, applied, effect, torn, record, code,
                       at, prev, floor, base, crashes>>
        /\ proc = "loading" /\ proc' = "migrating" /\ Opened
    BY DEF OpenDb, hostVars, reqVars
  <1>2. /\ snaps \in Seq(Nat) /\ Len(snaps) <= Keep /\ applied \in Nat /\ base \in Nat
        /\ opened \in Nat /\ opened <= Keep + 1 /\ Keep \in Nat /\ Keep > 0
        /\ code \in Release
    BY UpdateAssumption DEF IInv, TypeOK
  <1>3. Ships[code] \in Nat
    BY <1>2, UpdateAssumption
  <1>4. CASE applied < Ships[code]
    <2>1. createPreUpdateSnapshot /\ opened' = IF opened > Keep THEN opened ELSE opened + 1
      BY <1>1, <1>4 DEF Opened
    <2>2. /\ snaps' \in Seq(Nat) /\ Len(snaps') <= Keep /\ Len(snaps') > 0
          /\ snaps'[1] = applied
          /\ \A i \in 1 .. Len(snaps) : i < Keep =>
                i + 1 \in 1 .. Len(snaps') /\ snaps'[i + 1] = snaps[i]
      BY <2>1, <1>2, SnapshotFacts
    <2>3. opened' \in 0 .. Keep + 1 /\ opened' > 0
      BY <2>1, <1>2
    <2>4. TypeOK'
      BY <1>1, <2>2, <2>3 DEF IInv, TypeOK
    <2>5. ASSUME opened' <= Keep PROVE BaseAt(opened)'
      <3>1. opened' = opened + 1 /\ opened < Keep
        BY <2>1, <2>5, <1>2
      <3>2. CASE opened = 0
        <4>1. applied = base
          BY <3>2 DEF IInv, BaseIsNear
        <4>2. 1 \in 1 .. Len(snaps') /\ 1 <= opened' /\ snaps'[1] = base'
          BY <4>1, <1>1, <2>2, <3>1, <3>2
        <4>3. QED
          BY <4>2 DEF BaseAt
      <3>3. CASE opened > 0
        <4>1. PICK i \in 1 .. Len(snaps) : i <= opened /\ snaps[i] = base
          BY <3>1, <3>3, <1>2 DEF IInv, BaseIsNear, BaseAt
        <4>2. i \in Nat /\ i < Keep
          BY <4>1, <3>1, <1>2
        <4>3. i + 1 \in 1 .. Len(snaps') /\ snaps'[i + 1] = base' /\ i + 1 <= opened'
          BY <4>1, <4>2, <2>2, <3>1, <1>1, <1>2
        <4>4. QED
          BY <4>3 DEF BaseAt
      <3>4. QED
        BY <3>2, <3>3, <1>2
    <2>6. BaseIsNear'
      BY <1>1, <2>3, <2>5 DEF BaseIsNear
    <2>7. QED
      BY <1>1, <2>4, <2>6 DEF IInv, TreeFollows, RequestHasPrev, OneAhead, SuccessIsTrue,
         ServesItsSchema
  <1>5. CASE ~(applied < Ships[code])
    <2>1. UNCHANGED <<snaps, opened>>
      BY <1>1, <1>5 DEF Opened
    <2>2. TypeOK'
      BY <1>1, <2>1 DEF IInv, TypeOK
    <2>3. BaseIsNear'
      BY <1>1, <1>5, <2>1 DEF IInv, BaseIsNear, BaseAt
    <2>4. QED
      BY <1>1, <2>2, <2>3 DEF IInv, TreeFollows, RequestHasPrev, OneAhead, SuccessIsTrue,
         ServesItsSchema
  <1>6. QED
    BY <1>4, <1>5

LEMMA MigrateStep ==
    ASSUME IInv, Migrate
    PROVE  IInv'
  <1>1. /\ UNCHANGED <<origin, fetched, tree, deps, node, torn, snaps, record, code,
                       at, prev, floor, base, opened, crashes>>
        /\ proc \in {"migrating", "recording"} /\ proc' \in {"migrating", "recording"}
    BY DEF Migrate, SqlFirst, hostVars, reqVars, historyVars
  <1>2. applied \in Nat /\ effect \in Nat /\ code = tree /\ code \in Release
    BY <1>1 DEF IInv, TypeOK, TreeFollows
  <1>3. Ships[code] \in Nat
    BY <1>2, UpdateAssumption
  <1>4. applied < Ships[code] /\ ~torn
    <2>1. CASE proc = "migrating"
      <3>1. applied < Ships[code] /\ ~Fails(applied + 1)
        BY <2>1 DEF Migrate
      <3>2. ~torn
        BY <3>1, Zenon DEF Fails
      <3>3. QED
        BY <3>1, <3>2
    <2>2. CASE proc = "recording"
      BY <1>2, <1>3, <2>2 DEF IInv, OneAhead
    <2>3. QED
      BY <1>1, <2>1, <2>2
  <1>5. \/ effect' = applied + 1 /\ applied' \in {applied, applied + 1}
           /\ (proc' = "recording" => applied' = applied)
        \/ /\ proc = "recording" /\ proc' = "migrating"
           /\ effect' = effect /\ applied' = applied + 1
    BY <1>2 DEF Migrate, SqlFirst
  <1>6. applied' \in {applied, applied + 1} /\ effect' = applied + 1
        /\ (proc' = "recording" => applied' = applied)
    BY <1>5 DEF IInv, OneAhead
  <1>7. TypeOK'
    BY <1>1, <1>2, <1>6 DEF IInv, TypeOK
  <1>8. OneAhead'
    <2>1. applied + 1 <= Ships[code]
      BY <1>2, <1>3, <1>4
    <2>2. applied' <= effect' /\ effect' <= applied' + 1
      <3>1. CASE applied' = applied
        BY <1>2, <1>6, <3>1
      <3>2. CASE applied' = applied + 1
        BY <1>2, <1>6, <3>2
      <3>3. QED
        BY <1>6, <3>1, <3>2
    <2>3. QED
      BY <1>1, <1>2, <1>4, <1>6, <2>1, <2>2 DEF OneAhead
  <1>11. opened > 0
    BY <1>1, <1>4 DEF IInv, BaseIsNear
  <1>12. BaseIsNear'
    BY <1>1, <1>11 DEF IInv, BaseIsNear, BaseAt, TypeOK
  <1>9. SuccessIsTrue'
    <2>1. ASSUME record \in Record, record.ok
          PROVE  record.done /\ applied' >= Ships[record.target]
      <3>1. record.done /\ applied >= Ships[record.target]
        BY <2>1 DEF IInv, SuccessIsTrue
      <3>2. Ships[record.target] \in Nat
        BY <2>1, UpdateAssumption DEF Record
      <3>3. QED
        BY <3>1, <3>2, <1>2, <1>6
    <2>2. QED
      BY <1>1, <2>1 DEF SuccessIsTrue
  <1>10. QED
    BY <1>1, <1>2, <1>7, <1>8, <1>12, <1>9 DEF IInv, TreeFollows, RequestHasPrev, ServesItsSchema

\* The server comes up: nothing is ahead of its rows, because the tree that
\* shipped it is the one that runs.
LEMMA UpStep ==
    ASSUME IInv, ComeUp
    PROVE  IInv'
  <1>1. /\ UNCHANGED <<origin, fetched, tree, deps, node, applied, effect, torn, snaps, code,
                       at, prev, floor, crashes>>
        /\ proc = "migrating" /\ proc' = "up" /\ applied >= Ships[code]
        /\ record' = Reconciled(record) /\ base' = applied /\ opened' = 0
    BY DEF ComeUp, hostVars, dbVars, reqVars
  <1>2. applied \in Nat /\ effect \in Nat /\ code = tree /\ code \in Release /\ 0 <= Keep + 1
    BY <1>1, UpdateAssumption DEF IInv, TypeOK, TreeFollows
  <1>3. Ships[code] \in Nat
    BY <1>2, UpdateAssumption
  <1>4. /\ record' \in Record \cup {NoRecord}
        /\ record' \in Record /\ record'.ok => record'.done /\ applied >= Ships[record'.target]
    <2>1. CASE record \in Record /\ ~record.done
      <3>1. record' = [record EXCEPT !.done = TRUE, !.ok = record.target = code]
        BY <1>1, <2>1 DEF Reconciled
      <3>2. (record.target = code) \in BOOLEAN
        OBVIOUS
      <3>3. record' \in Record /\ record'.done /\ record'.target = record.target
            /\ record'.ok = (record.target = code)
        BY <2>1, <3>1, <3>2 DEF Record
      <3>4. QED
        BY <3>3, <1>1
    <2>2. CASE ~(record \in Record /\ ~record.done)
      <3>1. record' = record
        BY <1>1, <2>2 DEF Reconciled
      <3>2. QED
        BY <3>1 DEF IInv, TypeOK, SuccessIsTrue
    <2>3. QED
      BY <2>1, <2>2
  <1>5. TypeOK'
    <2>1. 0 \in 0 .. Keep + 1
      BY UpdateAssumption
    <2>2. QED
      BY <1>1, <1>4, <2>1 DEF IInv, TypeOK
  <1>6. ServesItsSchema'
    BY <1>1, <1>2, <1>3 DEF IInv, OneAhead, ServesItsSchema
  <1>7. BaseIsNear' /\ SuccessIsTrue'
    BY <1>1, <1>4 DEF BaseIsNear, SuccessIsTrue
  <1>8. QED
    BY <1>1, <1>5, <1>6, <1>7 DEF IInv, TreeFollows, RequestHasPrev, OneAhead

\* What leaves the host, its database and its requests alone.
LEMMA OtherStep ==
    ASSUME IInv, Push \/ UNCHANGED vars
    PROVE  IInv'
  <1>1. UNCHANGED <<fetched, tree, deps, node, applied, effect, torn, snaps, record, proc,
                    code, at, prev, floor, base, opened, crashes>>
    BY DEF Push, vars, hostVars, dbVars, reqVars, historyVars
  <1>2. origin \in Release /\ fetched \in Release /\ MaxRelease \in Nat
    BY UpdateAssumption DEF IInv, TypeOK
  <1>3. origin \in Nat /\ fetched \in Nat
    BY <1>2 DEF Release
  <1>4. origin' \in Release /\ origin' >= origin
    <2>1. CASE Push
      BY <1>2, <2>1 DEF Push, Release
    <2>2. CASE UNCHANGED vars
      BY <1>2, <1>3, <2>2 DEF vars
    <2>3. QED
      BY <2>1, <2>2
  <1>5. TypeOK'
    BY <1>1, <1>4 DEF IInv, TypeOK
  <1>6. TreeFollows'
    <2>1. fetched' <= origin'
      BY <1>1, <1>2, <1>3, <1>4 DEF IInv, TreeFollows, Release
    <2>2. QED
      BY <1>1, <2>1 DEF IInv, TreeFollows
  <1>7. RequestHasPrev' /\ OneAhead' /\ SuccessIsTrue' /\ ServesItsSchema'
    BY <1>1 DEF IInv, RequestHasPrev, OneAhead, SuccessIsTrue, ServesItsSchema
  <1>8. BaseIsNear'
    BY <1>1 DEF IInv, BaseIsNear, BaseAt
  <1>9. QED
    BY <1>5, <1>6, <1>7, <1>8 DEF IInv

LEMMA NextInv == IInv /\ [Next]_vars => IInv'
  <1> SUFFICES ASSUME IInv, [Next]_vars PROVE IInv'
    OBVIOUS
  <1>1. crashes \in 0 .. MaxCrashes
    BY DEF IInv, TypeOK
  <1>2. torn \in BOOLEAN /\ (torn => applied < Ships[tree])
    BY DEF IInv, TypeOK, OneAhead
  <1>3. CASE Exit \/ restart \/ Crash
    <2>1. /\ Down /\ proc # "down" /\ crashes' \in 0 .. MaxCrashes
          /\ UNCHANGED <<origin, fetched, hostVars, dbVars, record, code, historyVars>>
      BY <1>1, <1>3, UpdateAssumption DEF Exit, restart, Free, Crash
    <2>2. QED
      BY <2>1, <1>2, DownStep DEF dbVars, hostVars
  <1>8. CASE DiesInFile
    <2>1. /\ Down /\ proc # "down" /\ crashes' \in 0 .. MaxCrashes /\ torn' = TRUE
          /\ UNCHANGED <<origin, fetched, hostVars, applied, effect, snaps, record, code,
                         historyVars>>
      BY <1>1, <1>8, UpdateAssumption DEF DiesInFile
    <2>2. applied < Ships[tree]
      BY <1>8 DEF IInv, TreeFollows, DiesInFile
    <2>3. QED
      BY <2>1, <2>2, DownStep
  <1>4. CASE \E u \in Update :
                Capture(u) \/ Fetch(u) \/ Reset(u) \/ Install(u) \/ WriteRecord(u)
    BY <1>4, RequestStep
  <1>5. CASE Boot
    BY <1>5, StartStep, FailStep, OpenStep, MigrateStep, UpStep DEF Boot
  <1>6. CASE Push \/ UNCHANGED vars
    BY <1>6, OtherStep
  <1>7. QED
    BY <1>3, <1>4, <1>5, <1>6, <1>8 DEF Next

(* The inductive invariant of the server that updates itself.               *)
THEOREM InvTheorem == Spec => []IInv
  BY InitInv, NextInv, PTL DEF Spec

(* The variables keep their types, for every value of the constants.        *)
THEOREM TypeTheorem == Spec => []TypeOK
  <1>1. IInv => TypeOK
    BY DEF IInv
  <1>2. QED
    BY InvTheorem, <1>1, PTL

(* However boots crashed, a server that is up has the schema its rows say   *)
(* and its release needs.                                                   *)
THEOREM SchemaTheorem == Spec => []ServesItsSchema
  <1>1. IInv => ServesItsSchema
    BY DEF IInv
  <1>2. QED
    BY InvTheorem, <1>1, PTL

(* No update is called a success before its migrations are applied.         *)
THEOREM SuccessTheorem == Spec => []SuccessIsTrue
  <1>1. IInv => SuccessIsTrue
    BY DEF IInv
  <1>2. QED
    BY InvTheorem, <1>1, PTL

(* Fewer than Keep failed boots cannot push out the database as the last    *)
(* release that came up left it.                                            *)
THEOREM RestoreTheorem == Spec => []RestorePointKept
  <1>1. IInv => RestorePointKept
    <2> SUFFICES ASSUME IInv, applied # base, opened <= Keep
                 PROVE  \E i \in DOMAIN snaps : snaps[i] = base
      BY DEF RestorePointKept
    <2>1. opened \in Nat /\ snaps \in Seq(Nat)
      BY DEF IInv, TypeOK
    <2>2. opened > 0
      BY <2>1 DEF IInv, BaseIsNear
    <2>3. PICK i \in 1 .. Len(snaps) : snaps[i] = base
      BY <2>2 DEF IInv, BaseIsNear, BaseAt
    <2>4. QED
      BY <2>1, <2>3
  <1>2. QED
    BY InvTheorem, <1>1, PTL
=============================================================================
