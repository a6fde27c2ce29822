-------------------------- MODULE ManagedDbProofs --------------------------
(***************************************************************************)
(* The superuser password survives every fate of the container, and an app *)
(* whose requests come one at a time has row, role and database together   *)
(* or none of them: for any apps, requests under way and restarts.         *)
(***************************************************************************)
EXTENDS ManagedDb, TLAPS

Places == {"stop", "gone"} \cup Ensuring \cup Making \cup Dropping

\* Every copy of the superuser password is the row's.
Passwords ==
    /\ boxPw \in {None, srv} /\ cred \in {None, srv} /\ volume \in {None, srv}
    /\ \A p \in Proc : req[p].admin \in {None, srv}

\* What a request is for, by where it is.
Jobs ==
    \A p \in Proc :
        /\ req[p].at \in Making => req[p].job = "provision"
        /\ req[p].at \in {"stop", "gone"} => req[p].job = "delete"

\* What a request that is alone with its app has done so far.
Phase(p, a) ==
    LET r == req[p] IN
    /\ r.at \in Ensuring \cup {"look", "stop"} => Whole(a)
    /\ r.at \in Ensuring /\ r.job # "provision" => rows[a] = r.row /\ r.row # 0
    /\ r.at \in {"role", "base", "schema"} => rows[a] = r.row /\ r.row # 0
    /\ r.at = "role" => roles[a] = 0 /\ a \notin dbs
    /\ r.at \in {"base", "schema"} => roles[a] = r.row
    /\ r.at = "base" => a \notin dbs
    /\ r.at = "schema" => a \in dbs
    /\ r.at \in Dropping =>
          IF r.job = "provision" THEN rows[a] = 0 ELSE rows[a] = r.row /\ r.row # 0
    /\ r.at = "dropRole" => a \notin dbs
    /\ r.at = "gone" => rows[a] = 0 /\ roles[a] = 0 /\ a \notin dbs

Alone(a) ==
    /\ \A p, q \in Proc : req[p].app = a /\ req[q].app = a => p = q
    /\ \A p \in Proc : req[p].app = a => Phase(p, a)
    /\ (\A p \in Proc : req[p].app # a) => Whole(a)

AppInv == \A a \in App \ stained : Alone(a)

IInv == TypeOK /\ Passwords /\ Jobs /\ AppInv

-----------------------------------------------------------------------------
(* Requests move, end and begin.                                           *)

Typed == req \in [Proc -> Request \cup {Idle}]

\* A request is somewhere, for an app; an idle one is for none.
LEMMA RequestFacts ==
    ASSUME Typed, NEW p \in Proc
    PROVE  /\ req[p] = Idle \/ req[p] \in Request
           /\ req[p].at # "idle" => req[p] \in Request
           /\ req[p] \in Request => /\ req[p].at \in Places /\ req[p].app \in App
                                    /\ req[p].row \in 0 .. MaxRows
                                    /\ req[p].admin \in AdminPw \cup {None}
                                    /\ req[p].job \in {"provision", "deprovision", "delete"}
           /\ req[p].app \in App => req[p] \in Request
           /\ req[p] = Idle => req[p].app = None /\ req[p].admin = None /\ req[p].at = "idle"
  BY ManagedDbAssumption DEF Typed, Request, Idle, Places

Moved(p, w) ==
    /\ Typed' /\ req'[p] \in Request
    /\ req'[p].at = w /\ req'[p].job = req[p].job /\ req'[p].app = req[p].app
    /\ req'[p].row = req[p].row /\ req'[p].admin = req[p].admin
    /\ \A q \in Proc \ {p} : req'[q] = req[q]

LEMMA GoesToMoves ==
    ASSUME Typed, NEW p \in Proc, req[p] \in Request, NEW w \in Places, GoesTo(p, w)
    PROVE  Moved(p, w)
  <1> DEFINE r == [req[p] EXCEPT !.at = w]
  <1>1. /\ r \in Request /\ r.at = w /\ r.job = req[p].job /\ r.app = req[p].app
        /\ r.row = req[p].row /\ r.admin = req[p].admin
    BY DEF Request, Places
  <1>2. req' = [req EXCEPT ![p] = r]
    BY DEF GoesTo
  <1> HIDE DEF r
  <1>3. req'[p] = r /\ \A q \in Proc \ {p} : req'[q] = req[q]
    BY <1>2 DEF Typed
  <1>4. Typed'
    BY <1>1, <1>2 DEF Typed
  <1>5. QED
    BY <1>1, <1>3, <1>4 DEF Moved

Ended(p) ==
    /\ Typed' /\ req'[p] = Idle
    /\ \A q \in Proc \ {p} : req'[q] = req[q]

LEMMA EndsEnds ==
    ASSUME Typed, NEW p \in Proc, Ends(p)
    PROVE  Ended(p)
  BY DEF Typed, Ends, Ended

LEMMA DroplessFacts ==
    ASSUME Typed, NEW p \in Proc, req[p] \in Request, Dropless(p)
    PROVE  IF req[p].job = "delete" THEN Moved(p, "gone") ELSE Ended(p)
  <1>1. CASE req[p].job = "delete"
    BY <1>1, GoesToMoves DEF Dropless, Places
  <1>2. CASE req[p].job # "delete"
    BY <1>2, EndsEnds DEF Dropless
  <1>3. QED
    BY <1>1, <1>2

\* What is true of one app and its requests stays true while neither changes.
LEMMA AloneStays ==
    ASSUME NEW a \in App, Typed, Typed', Alone(a),
           rows'[a] = rows[a], roles'[a] = roles[a], a \in dbs' <=> a \in dbs,
           \A q \in Proc : req[q].app = a \/ req'[q].app = a => req'[q] = req[q]
    PROVE  Alone(a)'
  BY DEF Alone, Phase, Whole

\* A step of request p for app a leaves the other apps alone.
LEMMA OwnStep ==
    ASSUME AppInv, Typed, Typed', NEW p \in Proc, NEW a \in App, req[p].app = a,
           stained \subseteq stained',
           \A q \in Proc \ {p} : req'[q] = req[q],
           req'[p] = Idle \/ req'[p].app = a,
           \A b \in App \ {a} :
               rows'[b] = rows[b] /\ roles'[b] = roles[b] /\ (b \in dbs' <=> b \in dbs),
           a \notin stained' => IF req'[p] = Idle THEN Whole(a)' ELSE Phase(p, a)'
    PROVE  AppInv'
  <1> SUFFICES ASSUME NEW b \in App, b \notin stained' PROVE Alone(b)'
    BY DEF AppInv
  <1>1. Alone(b)
    BY DEF AppInv
  <1>2. Idle.app \notin App
    BY ManagedDbAssumption DEF Idle
  <1>3. CASE b # a
    <2>1. \A q \in Proc : req[q].app = b \/ req'[q].app = b => req'[q] = req[q]
      BY <1>2, <1>3
    <2>2. QED
      BY <1>1, <1>3, <2>1, AloneStays
  <1>4. CASE b = a
    <2>1. \A q \in Proc \ {p} : req'[q].app # a
      BY <1>1, <1>4 DEF Alone
    <2>2. CASE req'[p] = Idle
      BY <1>2, <1>4, <2>1, <2>2 DEF Alone
    <2>3. CASE req'[p] # Idle
      BY <1>4, <2>1, <2>3 DEF Alone
    <2>4. QED
      BY <2>2, <2>3
  <1>5. QED
    BY <1>3, <1>4

-----------------------------------------------------------------------------
(* ensureServer touches passwords and the request, nothing of the apps.     *)

LEMMA MovedKeeps ==
    ASSUME Jobs, NEW p \in Proc, NEW w \in Places, Moved(p, w), UNCHANGED srv,
           \A q \in Proc : req[q].admin \in {None, srv},
           w \in Making => req[p].job = "provision",
           w \in {"stop", "gone"} => req[p].job = "delete"
    PROVE  Jobs' /\ (\A q \in Proc : req'[q].admin \in {None, srv'})
  BY DEF Jobs, Moved

LEMMA EndedKeeps ==
    ASSUME Jobs, NEW p \in Proc, Ended(p), UNCHANGED srv,
           \A q \in Proc : req[q].admin \in {None, srv}
    PROVE  Jobs' /\ (\A q \in Proc : req'[q].admin \in {None, srv'})
  BY DEF Jobs, Ended, Idle, Making

\* Within ensureServer a request moves on, or throws.
Ensured(p) ==
    \/ /\ \E w \in Ensuring : Moved(p, w)
       /\ UNCHANGED stained
    \/ /\ req[p].at = "ready" /\ UNCHANGED stained
       /\ Moved(p, IF req[p].job = "provision" THEN "look" ELSE "dropBase")
    \/ /\ req[p].job = "delete" /\ stained' = stained \cup {req[p].app}
       /\ Moved(p, "gone")
    \/ /\ req[p].job # "delete" /\ UNCHANGED stained
       /\ Ended(p)

LEMMA ThrowsEnsured ==
    ASSUME Typed, NEW p \in Proc, req[p] \in Request, Throws(p)
    PROVE  Ensured(p)
  <1>1. IF req[p].job = "delete" THEN Moved(p, "gone") ELSE Ended(p)
    BY DroplessFacts DEF Throws
  <1>2. QED
    BY <1>1 DEF Throws, Stain, Ensured

LEMMA EnsuredKeeps ==
    ASSUME IInv, NEW p \in Proc, req[p].at \in Ensuring, Ensured(p),
           UNCHANGED <<fixed, table, inside, crashes>>
    PROVE  Typed' /\ Jobs' /\ AppInv' /\ (\A q \in Proc : req'[q].admin \in {None, srv'})
  <1>1. Typed /\ Jobs /\ AppInv /\ (\A q \in Proc : req[q].admin \in {None, srv})
    BY DEF IInv, TypeOK, Typed, Passwords
  <1>2. req[p] \in Request /\ req[p].app \in App
        /\ req[p].job \in {"provision", "deprovision", "delete"}
    BY <1>1, RequestFacts DEF Ensuring
  <1>3. /\ UNCHANGED srv /\ UNCHANGED rows /\ UNCHANGED roles /\ UNCHANGED dbs
    BY DEF table, inside
  <1>4. PICK a \in App : req[p].app = a
    BY <1>2
  <1>5. a \notin stained => Phase(p, a)
    BY <1>1, <1>4 DEF AppInv, Alone
  <1>6. a \notin stained => Whole(a) /\ (req[p].job # "provision" => rows[a] = req[p].row /\ req[p].row # 0)
    BY <1>5 DEF Phase
  <1>7. Whole(a)' <=> Whole(a)
    BY <1>3 DEF Whole
  <1>8. CASE /\ \E w \in Ensuring : Moved(p, w)
             /\ UNCHANGED stained
    <2>1. PICK w \in Ensuring : Moved(p, w)
      BY <1>8
    <2>2. w \in Places /\ w \notin Making /\ w \notin {"stop", "gone"} /\ w \notin Dropping
      BY DEF Places, Ensuring, Making, Dropping
    <2>3. a \notin stained' => Phase(p, a)'
      BY <1>3, <1>6, <1>7, <1>8, <2>1, <2>2 DEF Phase, Moved, Making, Dropping
    <2>4. AppInv' /\ Typed'
      BY <1>1, <1>3, <1>4, <1>8, <2>1, <2>3, OwnStep, ManagedDbAssumption DEF Moved, Idle
    <2>5. QED
      BY <1>1, <1>3, <2>1, <2>2, <2>4, MovedKeeps
  <1>9. CASE /\ req[p].at = "ready" /\ UNCHANGED stained
             /\ Moved(p, IF req[p].job = "provision" THEN "look" ELSE "dropBase")
    <2>1. CASE req[p].job = "provision"
      <3>1. Moved(p, "look")
        BY <1>9, <2>1
      <3>2. a \notin stained' => Phase(p, a)'
        BY <1>3, <1>6, <1>7, <1>9, <3>1 DEF Phase, Moved, Ensuring, Dropping
      <3>3. AppInv' /\ Typed'
        BY <1>1, <1>3, <1>4, <1>9, <3>1, <3>2, OwnStep, ManagedDbAssumption DEF Moved, Idle
      <3>4. QED
        BY <1>1, <1>3, <2>1, <3>1, <3>3, MovedKeeps DEF Places, Making
    <2>2. CASE req[p].job # "provision"
      <3>1. Moved(p, "dropBase")
        BY <1>9, <2>2
      <3>2. a \notin stained' => Phase(p, a)'
        BY <1>3, <1>6, <1>9, <2>2, <3>1 DEF Phase, Moved, Ensuring
      <3>3. AppInv' /\ Typed'
        BY <1>1, <1>3, <1>4, <1>9, <3>1, <3>2, OwnStep, ManagedDbAssumption DEF Moved, Idle
      <3>4. QED
        BY <1>1, <1>3, <3>1, <3>3, MovedKeeps DEF Places, Making, Dropping
    <2>3. QED
      BY <2>1, <2>2
  <1>10. CASE /\ req[p].job = "delete" /\ stained' = stained \cup {req[p].app}
              /\ Moved(p, "gone")
    <2>1. AppInv' /\ Typed'
      BY <1>1, <1>3, <1>4, <1>10, OwnStep, ManagedDbAssumption DEF Moved, Idle
    <2>2. QED
      BY <1>1, <1>3, <1>10, <2>1, MovedKeeps DEF Places, Making
  <1>11. CASE /\ req[p].job # "delete" /\ UNCHANGED stained
              /\ Ended(p)
    <2>1. AppInv' /\ Typed'
      BY <1>1, <1>3, <1>4, <1>6, <1>7, <1>11, OwnStep, ManagedDbAssumption DEF Ended, Idle
    <2>2. QED
      BY <1>1, <1>3, <1>11, <2>1, EndedKeeps
  <1>12. QED
    BY <1>8, <1>9, <1>10, <1>11 DEF Ensured

\* The container and its passwords along the way.
LEMMA EnsureStep ==
    ASSUME IInv, NEW p \in Proc, Ensure(p)
    PROVE  IInv'
  <1>1. Typed /\ req[p].at \in Ensuring /\ req[p] \in Request
    <2>1. Typed
      BY DEF IInv, TypeOK, Typed
    <2>2. req[p].at \in Ensuring
      BY DEF Ensure, Inspect, Start, Remove, Run, Ready, Ensuring
    <2>3. QED
      BY <2>1, <2>2, RequestFacts DEF Ensuring
  <1>2. req[p].admin \in {None, srv} /\ req[p].admin \in AdminPw \cup {None}
        /\ boxPw \in {None, srv} /\ cred \in {None, srv} /\ volume \in {None, srv}
    BY <1>1, RequestFacts DEF IInv, Passwords
  <1>3. UNCHANGED <<fixed, table, inside, crashes>>
    BY DEF Ensure, Inspect, Start, Remove, Run, Ready
  <1>4. Ensured(p)
    <2>1. ASSUME NEW w \in Ensuring, GoesTo(p, w), UNCHANGED stained PROVE Ensured(p)
      BY <1>1, <2>1, GoesToMoves DEF Ensured, Places
    <2>2. CASE Inspect(p)
      BY <2>1, <2>2 DEF Inspect, Ensuring
    <2>3. CASE Start(p)
      BY <1>1, <2>1, <2>3, ThrowsEnsured DEF Start, Ensuring
    <2>4. CASE Remove(p)
      BY <2>1, <2>4 DEF Remove, Ensuring
    <2>5. CASE Run(p)
      BY <1>1, <2>1, <2>5, ThrowsEnsured DEF Run, Ensuring
    <2>6. CASE Ready(p)
      <3>1. CASE Throws(p)
        BY <1>1, <3>1, ThrowsEnsured
      <3>2. CASE /\ GoesTo(p, IF req[p].job = "provision" THEN "look" ELSE "dropBase")
                 /\ UNCHANGED stained
        <4>1. (IF req[p].job = "provision" THEN "look" ELSE "dropBase") \in Places
          BY DEF Places, Making, Dropping
        <4>2. Moved(p, IF req[p].job = "provision" THEN "look" ELSE "dropBase")
          BY <1>1, <3>2, <4>1, GoesToMoves
        <4>3. QED
          BY <2>6, <3>2, <4>2 DEF Ensured, Ready
      <3>3. QED
        BY <2>6, <3>1, <3>2 DEF Ready
    <2>7. QED
      BY <2>2, <2>3, <2>4, <2>5, <2>6 DEF Ensure
  <1>5. Typed' /\ Jobs' /\ AppInv' /\ (\A q \in Proc : req'[q].admin \in {None, srv'})
    BY <1>1, <1>3, <1>4, EnsuredKeeps
  <1>6. /\ box' \in {"none", "created", "stopped", "running"}
        /\ boxPw' \in {None, srv} /\ cred' \in {None, srv} /\ volume' \in {None, srv}
        /\ boxPw' \in AdminPw \cup {None} /\ cred' \in AdminPw \cup {None}
        /\ volume' \in AdminPw \cup {None}
    <2>0. /\ boxPw \in AdminPw \cup {None} /\ cred \in AdminPw \cup {None}
          /\ volume \in AdminPw \cup {None} /\ box \in {"none", "created", "stopped", "running"}
      BY DEF IInv, TypeOK
    <2>2. CASE Inspect(p)
      BY <1>2, <2>0, <2>2 DEF Inspect, server
    <2>3. CASE Start(p)
      BY <1>2, <2>0, <2>3 DEF Start, Runs, server
    <2>4. CASE Remove(p)
      BY <1>2, <2>0, <2>4 DEF Remove, server
    <2>5. CASE Run(p)
      BY <1>2, <2>0, <2>5 DEF Run, Runs, server
    <2>6. CASE Ready(p)
      BY <1>2, <2>0, <2>6 DEF Ready
    <2>7. QED
      BY <2>2, <2>3, <2>4, <2>5, <2>6 DEF Ensure
  <1>7. stained' \subseteq App
    <2>1. req[p].app \in App /\ stained \subseteq App
      BY <1>1, RequestFacts DEF IInv, TypeOK
    <2>2. QED
      BY <1>4, <2>1 DEF Ensured
  <1>8. TypeOK'
    BY <1>3, <1>5, <1>6, <1>7 DEF IInv, TypeOK, Typed, fixed, table, inside
  <1>9. Passwords'
    BY <1>3, <1>5, <1>6 DEF Passwords, table
  <1>10. QED
    BY <1>5, <1>8, <1>9 DEF IInv


-----------------------------------------------------------------------------
(* A new request finds its app whole, or meets another one.                *)

\* The password that a request reads is everyone's.
LEMMA PasswordKeeps ==
    ASSUME TypeOK, Passwords, NEW w \in AdminPw, Password(w),
           UNCHANGED server
    PROVE  /\ srv' = w /\ srv' \in AdminPw
           /\ boxPw' \in {None, srv'} /\ cred' \in {None, srv'} /\ volume' \in {None, srv'}
           /\ \A q \in Proc : req[q].admin \in {None, srv'}
  BY DEF Passwords, Password, server

LEMMA BeginAlone ==
    ASSUME IInv, NEW p \in Proc, NEW a \in App, NEW r \in Request,
           r.app = a, r.at \in {"inspect", "stop"}, Begin(p, a, r),
           r.at = "inspect" /\ r.job # "provision" => r.row = rows[a] /\ r.row # 0,
           r.at = "stop" => r.job = "delete",
           UNCHANGED <<rows, roles, dbs>>
    PROVE  /\ Typed' /\ Jobs' /\ AppInv' /\ stained' \subseteq App
           /\ req'[p] = r /\ \A q \in Proc \ {p} : req'[q] = req[q]
  <1>1. Typed /\ Jobs /\ AppInv /\ stained \subseteq App
    BY DEF IInv, TypeOK, Typed
  <1>2. req[p] = Idle /\ req' = [req EXCEPT ![p] = r]
        /\ stained' = IF AtWork(a) THEN stained \cup {a} ELSE stained
    BY DEF Begin
  <1>3. /\ req'[p] = r /\ \A q \in Proc \ {p} : req'[q] = req[q]
        /\ Typed' /\ stained' \subseteq App
    BY <1>1, <1>2 DEF Typed
  <1>4. Jobs'
    BY <1>1, <1>3 DEF Jobs, Making
  <1>5. ASSUME NEW b \in App, b \notin stained' PROVE Alone(b)'
    <2>1. Alone(b)
      BY <1>1, <1>2, <1>5 DEF AppInv
    <2>2. Idle.app \notin App
      BY ManagedDbAssumption DEF Idle
    <2>3. CASE b # a
      <3>1. \A q \in Proc : req[q].app = b \/ req'[q].app = b => req'[q] = req[q]
        BY <1>2, <1>3, <2>2, <2>3
      <3>2. QED
        BY <1>1, <1>3, <2>1, <3>1, AloneStays
    <2>4. CASE b = a
      <3>1. \A q \in Proc : req[q].app # a
        BY <1>2, <1>5, <2>4 DEF AtWork
      <3>2. Whole(a) /\ Whole(a)'
        BY <2>1, <2>4, <3>1 DEF Alone, Whole
      <3>3. \A q \in Proc \ {p} : req'[q].app # a
        BY <1>3, <3>1
      <3>4. Phase(p, a)'
        BY <1>3, <3>2 DEF Phase, Ensuring, Dropping
      <3>5. QED
        BY <1>3, <2>4, <3>3, <3>4 DEF Alone
    <2>5. QED
      BY <2>3, <2>4
  <1>6. QED
    BY <1>1, <1>3, <1>4, <1>5 DEF AppInv

LEMMA ProvisionStep ==
    ASSUME IInv, NEW p \in Proc, NEW a \in App, Provision(p, a)
    PROVE  IInv'
  <1>1. PICK w \in AdminPw :
            /\ Password(w)
            /\ Begin(p, a, [at |-> "inspect", job |-> "provision", app |-> a,
                            row |-> 0, admin |-> w])
    BY DEF Provision
  <1> DEFINE r == [at |-> "inspect", job |-> "provision", app |-> a, row |-> 0, admin |-> w]
  <1>2. UNCHANGED <<fixed, apps, rows, lastRow, server, inside, crashes>>
    BY DEF Provision
  <1>3. 0 \in 0 .. MaxRows
    BY ManagedDbAssumption
  <1>4. /\ r \in Request /\ r.app = a /\ r.at = "inspect" /\ r.job = "provision"
        /\ r.admin = w
    BY <1>3 DEF Request, Ensuring
  <1>5. Begin(p, a, r)
    BY <1>1
  <1> HIDE DEF r
  <1>6. /\ Typed' /\ Jobs' /\ AppInv' /\ stained' \subseteq App
        /\ req'[p] = r /\ \A q \in Proc \ {p} : req'[q] = req[q]
    BY <1>2, <1>4, <1>5, BeginAlone DEF inside
  <1>7. /\ srv' = w /\ srv' \in AdminPw
        /\ boxPw' \in {None, srv'} /\ cred' \in {None, srv'} /\ volume' \in {None, srv'}
        /\ \A q \in Proc : req[q].admin \in {None, srv'}
    BY <1>1, <1>2, PasswordKeeps DEF IInv
  <1>8. Passwords'
    BY <1>4, <1>6, <1>7 DEF Passwords
  <1>9. TypeOK'
    BY <1>2, <1>6, <1>7 DEF IInv, TypeOK, Typed, fixed, server, inside
  <1>10. QED
    BY <1>6, <1>8, <1>9 DEF IInv

LEMMA DeprovisionStep ==
    ASSUME IInv, NEW p \in Proc, NEW a \in App, Deprovision(p, a)
    PROVE  IInv'
  <1>1. PICK w \in AdminPw :
            /\ Password(w)
            /\ Begin(p, a, [at |-> "inspect", job |-> "deprovision", app |-> a,
                            row |-> rows[a], admin |-> w])
    BY DEF Deprovision
  <1> DEFINE r == [at |-> "inspect", job |-> "deprovision", app |-> a,
                   row |-> rows[a], admin |-> w]
  <1>2. UNCHANGED <<fixed, apps, rows, lastRow, server, inside, crashes>> /\ rows[a] # 0
    BY DEF Deprovision
  <1>3. rows[a] \in 0 .. MaxRows
    BY DEF IInv, TypeOK
  <1>4. /\ r \in Request /\ r.app = a /\ r.at = "inspect" /\ r.job = "deprovision"
        /\ r.admin = w /\ r.row = rows[a] /\ r.row # 0
    BY <1>2, <1>3 DEF Request, Ensuring
  <1>5. Begin(p, a, r)
    BY <1>1
  <1> HIDE DEF r
  <1>6. /\ Typed' /\ Jobs' /\ AppInv' /\ stained' \subseteq App
        /\ req'[p] = r /\ \A q \in Proc \ {p} : req'[q] = req[q]
    BY <1>2, <1>4, <1>5, BeginAlone DEF inside
  <1>7. /\ srv' = w /\ srv' \in AdminPw
        /\ boxPw' \in {None, srv'} /\ cred' \in {None, srv'} /\ volume' \in {None, srv'}
        /\ \A q \in Proc : req[q].admin \in {None, srv'}
    BY <1>1, <1>2, PasswordKeeps DEF IInv
  <1>8. Passwords'
    BY <1>4, <1>6, <1>7 DEF Passwords
  <1>9. TypeOK'
    BY <1>2, <1>6, <1>7 DEF IInv, TypeOK, Typed, fixed, server, inside
  <1>10. QED
    BY <1>6, <1>8, <1>9 DEF IInv

LEMMA DeleteAppStep ==
    ASSUME IInv, NEW p \in Proc, NEW a \in App, DeleteApp(p, a)
    PROVE  IInv'
  <1> DEFINE r == [at |-> "stop", job |-> "delete", app |-> a, row |-> 0, admin |-> None]
  <1>1. 0 \in 0 .. MaxRows
    BY ManagedDbAssumption
  <1>2. /\ r \in Request /\ r.app = a /\ r.at = "stop" /\ r.job = "delete"
        /\ r.admin = None
    BY <1>1 DEF Request
  <1>3. Begin(p, a, r) /\ UNCHANGED <<fixed, table, server, inside, crashes>>
    BY DEF DeleteApp
  <1> HIDE DEF r
  <1>4. /\ Typed' /\ Jobs' /\ AppInv' /\ stained' \subseteq App
        /\ req'[p] = r /\ \A q \in Proc \ {p} : req'[q] = req[q]
    BY <1>2, <1>3, BeginAlone DEF table, inside
  <1>5. Passwords'
    BY <1>2, <1>3, <1>4 DEF IInv, Passwords, table, server
  <1>6. TypeOK'
    BY <1>3, <1>4 DEF IInv, TypeOK, Typed, fixed, table, server, inside
  <1>7. QED
    BY <1>4, <1>5, <1>6 DEF IInv


-----------------------------------------------------------------------------
(* One step of a request outside ensureServer, for its own app.            *)

\* Where a step may take the request p.
Onward(p) ==
    /\ Typed' /\ \A q \in Proc \ {p} : req'[q] = req[q]
    /\ \/ req'[p] = Idle
       \/ /\ req'[p].app = req[p].app /\ req'[p].admin \in {None, srv'}
          /\ req'[p].at \in Making => req'[p].job = "provision"
          /\ req'[p].at \in {"stop", "gone"} => req'[p].job = "delete"

\* The passwords in use before the step are the row's after it.
Secrets ==
    /\ boxPw' \in {None, srv'} /\ cred' \in {None, srv'} /\ volume' \in {None, srv'}
    /\ \A q \in Proc : req[q].admin \in {None, srv'}

LEMMA SecretsStay ==
    ASSUME Passwords, UNCHANGED <<srv, server>>
    PROVE  Secrets
  BY DEF Passwords, Secrets, server

LEMMA MovedOnward ==
    ASSUME NEW p \in Proc, NEW w \in Places, Moved(p, w), Secrets,
           w \in Making => req[p].job = "provision",
           w \in {"stop", "gone"} => req[p].job = "delete"
    PROVE  Onward(p)
  BY DEF Moved, Onward, Secrets

LEMMA EndedOnward ==
    ASSUME NEW p \in Proc, Ended(p)
    PROVE  Onward(p)
  BY DEF Ended, Onward

LEMMA WorkStep ==
    ASSUME IInv, NEW p \in Proc, NEW a \in App, req[p].app = a,
           Onward(p), Secrets, TypeOK', stained \subseteq stained',
           \A b \in App \ {a} :
               rows'[b] = rows[b] /\ roles'[b] = roles[b] /\ (b \in dbs' <=> b \in dbs),
           a \notin stained' => IF req'[p] = Idle THEN Whole(a)' ELSE Phase(p, a)'
    PROVE  IInv'
  <1>1. AppInv /\ Typed /\ Jobs
    BY DEF IInv, TypeOK, Typed
  <1>2. Typed' /\ (\A q \in Proc \ {p} : req'[q] = req[q])
        /\ (req'[p] = Idle \/ req'[p].app = a)
    BY DEF Onward
  <1>3. AppInv'
    BY <1>1, <1>2, OwnStep
  <1>4. Jobs'
    BY <1>1 DEF Jobs, Onward, Idle, Making
  <1>5. Passwords'
    BY DEF Passwords, Onward, Secrets, Idle
  <1>6. QED
    BY <1>3, <1>4, <1>5 DEF IInv

\* What a request that is anywhere but idle brings to its step.
LEMMA AtStep ==
    ASSUME IInv, NEW p \in Proc, req[p].at # "idle"
    PROVE  /\ Typed /\ Jobs /\ Passwords /\ req[p] \in Request /\ req[p].app \in App
           /\ req[p].job \in {"provision", "deprovision", "delete"}
           /\ req[p].row \in 0 .. MaxRows
           /\ req[p].app \notin stained => Phase(p, req[p].app)
  <1>1. Typed /\ Jobs /\ Passwords /\ AppInv
    BY DEF IInv, TypeOK, Typed
  <1>2. /\ req[p] \in Request /\ req[p].app \in App /\ req[p].row \in 0 .. MaxRows
        /\ req[p].job \in {"provision", "deprovision", "delete"}
    BY <1>1, RequestFacts
  <1>3. QED
    BY <1>1, <1>2 DEF AppInv, Alone

LEMMA StoppedStep ==
    ASSUME IInv, NEW p \in Proc, Stopped(p)
    PROVE  IInv'
  <1>1. PICK a \in App : req[p].app = a
    BY AtStep DEF Stopped
  <1>2. /\ Typed /\ Jobs /\ Passwords /\ req[p] \in Request /\ req[p].job = "delete"
        /\ a \notin stained => Whole(a)
    BY <1>1, AtStep DEF Stopped, Jobs, Phase
  <1>3. UNCHANGED <<fixed, apps, rows, lastRow, server, inside, stained, crashes>>
    BY DEF Stopped
  <1>4. CASE rows[a] = 0 /\ GoesTo(p, "gone") /\ UNCHANGED srv
    <2>1. Moved(p, "gone")
      BY <1>2, <1>4, GoesToMoves DEF Places
    <2>2. Secrets
      BY <1>2, <1>3, <1>4, SecretsStay
    <2>3. Onward(p)
      BY <1>2, <2>1, <2>2, MovedOnward DEF Places, Making
    <2>4. TypeOK'
      BY <1>3, <1>4, <2>1 DEF IInv, TypeOK, Moved, Typed, fixed, server, inside
    <2>5. a \notin stained' => Phase(p, a)'
      BY <1>2, <1>3, <1>4, <2>1 DEF Phase, Moved, Whole, inside, Ensuring, Dropping
    <2>6. req'[p] # Idle
      BY <2>1 DEF Moved, Idle
    <2>7. QED
      BY <1>1, <1>3, <2>2, <2>3, <2>4, <2>5, <2>6, WorkStep DEF inside
  <1>5. ASSUME rows[a] # 0, NEW w \in AdminPw, Password(w),
               req' = [req EXCEPT ![p].at = "inspect", ![p].row = rows[a], ![p].admin = w]
        PROVE IInv'
    <2> DEFINE r == [req[p] EXCEPT !.at = "inspect", !.row = rows[a], !.admin = w]
    <2>1. rows[a] \in 0 .. MaxRows
      BY DEF IInv, TypeOK
    <2>2. /\ r \in Request /\ r.at = "inspect" /\ r.app = a /\ r.row = rows[a] /\ r.admin = w
          /\ r.job = "delete"
      BY <1>1, <1>2, <2>1 DEF Request, Ensuring
    <2>3. req' = [req EXCEPT ![p] = r]
      BY <1>5 DEF Typed
    <2> HIDE DEF r
    <2>4. req'[p] = r /\ Typed' /\ (\A q \in Proc \ {p} : req'[q] = req[q])
      BY <1>2, <2>2, <2>3 DEF Typed
    <2>5. /\ srv' = w /\ srv' \in AdminPw
          /\ boxPw' \in {None, srv'} /\ cred' \in {None, srv'} /\ volume' \in {None, srv'}
          /\ \A q \in Proc : req[q].admin \in {None, srv'}
      BY <1>3, <1>5, PasswordKeeps DEF IInv
    <2>6. Secrets
      BY <2>5 DEF Secrets
    <2>7. Onward(p)
      BY <1>1, <2>2, <2>4, <2>5 DEF Onward, Making
    <2>8. TypeOK'
      BY <1>3, <2>4, <2>5 DEF IInv, TypeOK, Typed, fixed, server, inside
    <2>9. a \notin stained' => Phase(p, a)'
      BY <1>2, <1>3, <1>5, <2>2, <2>4 DEF Phase, Whole, inside, Ensuring, Dropping
    <2>10. req'[p] # Idle
      BY <2>2, <2>4 DEF Idle
    <2>11. QED
      BY <1>1, <1>3, <2>6, <2>7, <2>8, <2>9, <2>10, WorkStep DEF inside
  <1>6. QED
    BY <1>1, <1>4, <1>5 DEF Stopped

LEMMA GoneStep ==
    ASSUME IInv, NEW p \in Proc, Gone(p)
    PROVE  IInv'
  <1>1. PICK a \in App : req[p].app = a
    BY AtStep DEF Gone
  <1>2. /\ Typed /\ Passwords
        /\ a \notin stained => rows[a] = 0 /\ roles[a] = 0 /\ a \notin dbs
    BY <1>1, AtStep DEF Gone, Phase
  <1>3. /\ UNCHANGED <<fixed, srv, lastRow, server, inside, stained, crashes>>
        /\ apps' = apps \ {a} /\ rows' = [rows EXCEPT ![a] = 0]
    BY <1>1 DEF Gone
  <1>4. Ended(p)
    BY <1>2, EndsEnds DEF Gone
  <1>5. Secrets /\ Onward(p)
    BY <1>2, <1>3, <1>4, SecretsStay, EndedOnward
  <1>6. /\ rows' \in [App -> 0 .. MaxRows] /\ rows'[a] = 0
        /\ \A b \in App \ {a} : rows'[b] = rows[b]
    <2>1. 0 \in 0 .. MaxRows
      BY ManagedDbAssumption
    <2>2. QED
      BY <1>3, <2>1 DEF IInv, TypeOK
  <1>7. TypeOK'
    BY <1>3, <1>4, <1>6 DEF IInv, TypeOK, Ended, Typed, fixed, server, inside
  <1>8. a \notin stained' => Whole(a)'
    BY <1>2, <1>3, <1>6 DEF Whole, inside
  <1>9. req'[p] = Idle
    BY <1>4 DEF Ended
  <1>10. QED
    BY <1>1, <1>3, <1>5, <1>6, <1>7, <1>8, <1>9, WorkStep DEF inside

LEMMA LookStep ==
    ASSUME IInv, NEW p \in Proc, Look(p)
    PROVE  IInv'
  <1>1. PICK a \in App : req[p].app = a
    BY AtStep DEF Look
  <1>2. /\ Typed /\ Jobs /\ Passwords /\ req[p] \in Request /\ req[p].job = "provision"
        /\ a \notin stained => Whole(a)
    BY <1>1, AtStep DEF Look, Jobs, Making, Phase
  <1>3. UNCHANGED <<fixed, apps, srv, server, inside, stained, crashes>>
    BY DEF Look
  <1>4. Secrets
    BY <1>2, <1>3, SecretsStay
  <1>5. CASE Ends(p) /\ UNCHANGED <<rows, lastRow>>
    <2>1. Ended(p)
      BY <1>2, <1>5, EndsEnds
    <2>2. TypeOK'
      BY <1>3, <1>5, <2>1 DEF IInv, TypeOK, Ended, Typed, fixed, server, inside
    <2>3. a \notin stained' => Whole(a)'
      BY <1>2, <1>3, <1>5 DEF Whole, inside
    <2>4. req'[p] = Idle /\ Onward(p)
      BY <2>1, EndedOnward DEF Ended
    <2>5. QED
      BY <1>1, <1>3, <1>4, <1>5, <2>2, <2>3, <2>4, WorkStep DEF inside
  <1>6. CASE /\ rows[a] = 0 /\ a \in apps /\ lastRow < MaxRows
             /\ lastRow' = lastRow + 1 /\ rows' = [rows EXCEPT ![a] = lastRow + 1]
             /\ req' = [req EXCEPT ![p].at = "role", ![p].row = lastRow + 1]
    <2> DEFINE r == [req[p] EXCEPT !.at = "role", !.row = lastRow + 1]
    <2>1. lastRow + 1 \in 0 .. MaxRows /\ lastRow + 1 # 0
      BY <1>6, ManagedDbAssumption DEF IInv, TypeOK
    <2>2. /\ r \in Request /\ r.at = "role" /\ r.app = a /\ r.row = lastRow + 1
          /\ r.admin = req[p].admin /\ r.job = "provision"
      BY <1>1, <1>2, <2>1 DEF Request, Making
    <2>3. req' = [req EXCEPT ![p] = r]
      BY <1>6 DEF Typed
    <2> HIDE DEF r
    <2>4. req'[p] = r /\ Typed' /\ (\A q \in Proc \ {p} : req'[q] = req[q])
      BY <1>2, <2>2, <2>3 DEF Typed
    <2>5. Onward(p)
      BY <1>1, <1>4, <2>2, <2>4 DEF Onward, Secrets
    <2>6. /\ rows' \in [App -> 0 .. MaxRows] /\ rows'[a] = lastRow + 1
          /\ \A b \in App \ {a} : rows'[b] = rows[b]
      BY <1>6, <2>1 DEF IInv, TypeOK
    <2>7. TypeOK'
      BY <1>3, <1>6, <2>1, <2>4, <2>6 DEF IInv, TypeOK, Typed, fixed, server, inside
    <2>8. a \notin stained' => Phase(p, a)'
      BY <1>2, <1>3, <1>6, <2>1, <2>2, <2>4, <2>6 DEF Phase, Whole, inside, Ensuring, Dropping
    <2>9. req'[p] # Idle
      BY <2>2, <2>4 DEF Idle
    <2>10. QED
      BY <1>1, <1>3, <1>4, <2>5, <2>6, <2>7, <2>8, <2>9, WorkStep DEF inside
  <1>7. QED
    BY <1>1, <1>5, <1>6 DEF Look


-----------------------------------------------------------------------------
(* Statements inside the engine.                                           *)

\* The catch of provision leaves no row of the app and goes on to the engine.
LEMMA RollbackFacts ==
    ASSUME IInv, NEW p \in Proc, NEW a \in App, req[p].app = a, req[p] \in Request,
           Rollback(p)
    PROVE  /\ Moved(p, "dropBase")
           /\ rows' \in [App -> 0 .. MaxRows] /\ rows'[a] = 0
           /\ \A b \in App \ {a} : rows'[b] = rows[b]
  <1>1. Moved(p, "dropBase")
    BY GoesToMoves DEF IInv, TypeOK, Typed, Rollback, Places, Dropping
  <1>2. 0 \in 0 .. MaxRows
    BY ManagedDbAssumption
  <1>3. QED
    BY <1>1, <1>2 DEF Rollback, IInv, TypeOK

LEMMA MakeRoleStep ==
    ASSUME IInv, NEW p \in Proc, MakeRole(p)
    PROVE  IInv'
  <1>1. PICK a \in App : req[p].app = a
    BY AtStep DEF MakeRole
  <1>2. /\ Typed /\ Jobs /\ Passwords /\ req[p] \in Request /\ req[p].job = "provision"
        /\ req[p].row \in 0 .. MaxRows
        /\ a \notin stained => rows[a] = req[p].row /\ req[p].row # 0 /\ a \notin dbs
    BY <1>1, AtStep DEF MakeRole, Jobs, Making, Phase
  <1>3. UNCHANGED <<fixed, apps, srv, lastRow, server, dbs, stained, crashes>>
    BY DEF MakeRole
  <1>4. Secrets
    BY <1>2, <1>3, SecretsStay
  <1>5. /\ roles' \in [App -> 0 .. MaxRows]
        /\ \A b \in App \ {a} : roles'[b] = roles[b]
    BY <1>1, <1>2 DEF MakeRole, IInv, TypeOK
  <1>6. CASE /\ roles' = [roles EXCEPT ![a] = req[p].row]
             /\ GoesTo(p, "base") /\ UNCHANGED rows
    <2>1. Moved(p, "base")
      BY <1>2, <1>6, GoesToMoves DEF Places, Making
    <2>2. Onward(p)
      BY <1>2, <1>4, <2>1, MovedOnward DEF Places, Making
    <2>3. TypeOK'
      BY <1>3, <1>5, <1>6, <2>1 DEF IInv, TypeOK, Moved, Typed, fixed, server
    <2>4. roles'[a] = req[p].row
      BY <1>6 DEF IInv, TypeOK
    <2>5. a \notin stained' => Phase(p, a)'
      BY <1>2, <1>3, <1>6, <2>1, <2>4 DEF Phase, Moved, Ensuring, Dropping
    <2>6. req'[p] # Idle
      BY <2>1 DEF Moved, Idle
    <2>7. QED
      BY <1>1, <1>3, <1>4, <1>5, <1>6, <2>2, <2>3, <2>5, <2>6, WorkStep
  <1>7. CASE Rollback(p)
    <2>1. /\ Moved(p, "dropBase")
          /\ rows' \in [App -> 0 .. MaxRows] /\ rows'[a] = 0
          /\ \A b \in App \ {a} : rows'[b] = rows[b]
      BY <1>1, <1>2, <1>7, RollbackFacts
    <2>2. Onward(p)
      BY <1>4, <2>1, MovedOnward DEF Places, Making, Dropping
    <2>3. TypeOK'
      BY <1>3, <1>5, <2>1 DEF IInv, TypeOK, Moved, Typed, fixed, server
    <2>4. a \notin stained' => Phase(p, a)'
      BY <1>2, <2>1 DEF Phase, Moved, Ensuring, Dropping
    <2>5. req'[p] # Idle
      BY <2>1 DEF Moved, Idle
    <2>6. QED
      BY <1>1, <1>3, <1>4, <1>5, <2>1, <2>2, <2>3, <2>4, <2>5, WorkStep
  <1>8. QED
    BY <1>1, <1>6, <1>7 DEF MakeRole

LEMMA MakeDatabaseStep ==
    ASSUME IInv, NEW p \in Proc, MakeDatabase(p)
    PROVE  IInv'
  <1>1. PICK a \in App : req[p].app = a
    BY AtStep DEF MakeDatabase
  <1>2. /\ Typed /\ Jobs /\ Passwords /\ req[p] \in Request /\ req[p].job = "provision"
        /\ a \notin stained => rows[a] = req[p].row /\ req[p].row # 0 /\ roles[a] = req[p].row
    BY <1>1, AtStep DEF MakeDatabase, Jobs, Making, Phase
  <1>3. UNCHANGED <<fixed, apps, srv, lastRow, server, roles, stained, crashes>>
    BY DEF MakeDatabase
  <1>4. Secrets
    BY <1>2, <1>3, SecretsStay
  <1>5. dbs' \subseteq App /\ \A b \in App \ {a} : b \in dbs' <=> b \in dbs
    BY <1>1 DEF MakeDatabase, IInv, TypeOK
  <1>6. CASE /\ dbs' = dbs \cup {a} /\ UNCHANGED rows
             /\ IF engine = "postgres" THEN GoesTo(p, "schema") ELSE Ends(p)
    <2>1. CASE engine = "postgres"
      <3>1. Moved(p, "schema")
        BY <1>2, <1>6, <2>1, GoesToMoves DEF Places, Making
      <3>2. Onward(p)
        BY <1>2, <1>4, <3>1, MovedOnward DEF Places, Making
      <3>3. TypeOK'
        BY <1>3, <1>5, <1>6, <3>1 DEF IInv, TypeOK, Moved, Typed, fixed, server
      <3>4. a \notin stained' => Phase(p, a)'
        BY <1>2, <1>3, <1>6, <3>1 DEF Phase, Moved, Ensuring, Dropping
      <3>5. req'[p] # Idle
        BY <3>1 DEF Moved, Idle
      <3>6. QED
        BY <1>1, <1>3, <1>4, <1>5, <1>6, <3>2, <3>3, <3>4, <3>5, WorkStep
    <2>2. CASE engine # "postgres"
      <3>1. Ended(p)
        BY <1>2, <1>6, <2>2, EndsEnds
      <3>2. Onward(p) /\ req'[p] = Idle
        BY <3>1, EndedOnward DEF Ended
      <3>3. TypeOK'
        BY <1>3, <1>5, <1>6, <3>1 DEF IInv, TypeOK, Ended, Typed, fixed, server
      <3>4. a \notin stained' => Whole(a)'
        BY <1>2, <1>3, <1>6 DEF Whole
      <3>5. QED
        BY <1>1, <1>3, <1>4, <1>5, <1>6, <3>2, <3>3, <3>4, WorkStep
    <2>3. QED
      BY <2>1, <2>2
  <1>7. CASE Rollback(p)
    <2>1. /\ Moved(p, "dropBase")
          /\ rows' \in [App -> 0 .. MaxRows] /\ rows'[a] = 0
          /\ \A b \in App \ {a} : rows'[b] = rows[b]
      BY <1>1, <1>2, <1>7, RollbackFacts
    <2>2. Onward(p)
      BY <1>4, <2>1, MovedOnward DEF Places, Making, Dropping
    <2>3. TypeOK'
      BY <1>3, <1>5, <2>1 DEF IInv, TypeOK, Moved, Typed, fixed, server
    <2>4. a \notin stained' => Phase(p, a)'
      BY <1>2, <2>1 DEF Phase, Moved, Ensuring, Dropping
    <2>5. req'[p] # Idle
      BY <2>1 DEF Moved, Idle
    <2>6. QED
      BY <1>1, <1>3, <1>4, <1>5, <2>1, <2>2, <2>3, <2>4, <2>5, WorkStep
  <1>8. QED
    BY <1>1, <1>6, <1>7 DEF MakeDatabase

LEMMA MakeSchemaStep ==
    ASSUME IInv, NEW p \in Proc, MakeSchema(p)
    PROVE  IInv'
  <1>1. PICK a \in App : req[p].app = a
    BY AtStep DEF MakeSchema
  <1>2. /\ Typed /\ Passwords /\ req[p] \in Request
        /\ a \notin stained => Whole(a)
        /\ Jobs /\ req[p].job = "provision"
    BY <1>1, AtStep DEF MakeSchema, Jobs, Making, Phase, Whole
  <1>3. UNCHANGED <<fixed, apps, srv, lastRow, server, inside, stained, crashes>>
    BY DEF MakeSchema
  <1>4. Secrets
    BY <1>2, <1>3, SecretsStay
  <1>5. CASE Ends(p) /\ UNCHANGED rows
    <2>1. Ended(p)
      BY <1>2, <1>5, EndsEnds
    <2>2. Onward(p) /\ req'[p] = Idle
      BY <2>1, EndedOnward DEF Ended
    <2>3. TypeOK'
      BY <1>3, <1>5, <2>1 DEF IInv, TypeOK, Ended, Typed, fixed, server, inside
    <2>4. a \notin stained' => Whole(a)'
      BY <1>2, <1>3, <1>5 DEF Whole, inside
    <2>5. QED
      BY <1>1, <1>3, <1>4, <1>5, <2>2, <2>3, <2>4, WorkStep DEF inside
  <1>6. CASE Rollback(p)
    <2>1. /\ Moved(p, "dropBase")
          /\ rows' \in [App -> 0 .. MaxRows] /\ rows'[a] = 0
          /\ \A b \in App \ {a} : rows'[b] = rows[b]
      BY <1>1, <1>2, <1>6, RollbackFacts
    <2>2. Onward(p)
      BY <1>4, <2>1, MovedOnward DEF Places, Making, Dropping
    <2>3. TypeOK'
      BY <1>3, <2>1 DEF IInv, TypeOK, Moved, Typed, fixed, server, inside
    <2>4. a \notin stained' => Phase(p, a)'
      BY <1>2, <2>1 DEF Phase, Moved, Ensuring, Dropping
    <2>5. req'[p] # Idle
      BY <2>1 DEF Moved, Idle
    <2>6. QED
      BY <1>1, <1>3, <1>4, <2>1, <2>2, <2>3, <2>4, <2>5, WorkStep DEF inside
  <1>7. QED
    BY <1>5, <1>6 DEF MakeSchema

\* Where a drop leaves the request when its app is not to be trusted any more.
LEMMA DroplessOnward ==
    ASSUME Typed, NEW p \in Proc, req[p] \in Request, Dropless(p), Secrets
    PROVE  Onward(p)
  <1>1. IF req[p].job = "delete" THEN Moved(p, "gone") ELSE Ended(p)
    BY DroplessFacts
  <1>2. QED
    BY <1>1, MovedOnward, EndedOnward DEF Places, Making

LEMMA DropDatabaseStep ==
    ASSUME IInv, NEW p \in Proc, DropDatabase(p)
    PROVE  IInv'
  <1>1. PICK a \in App : req[p].app = a
    BY AtStep DEF DropDatabase
  <1>2. /\ Typed /\ Passwords /\ req[p] \in Request
        /\ a \notin stained => IF req[p].job = "provision" THEN rows[a] = 0
                               ELSE rows[a] = req[p].row /\ req[p].row # 0
    BY <1>1, AtStep DEF DropDatabase, Phase, Dropping
  <1>3. UNCHANGED <<fixed, table, server, roles, crashes>>
    BY DEF DropDatabase
  <1>4. Secrets
    BY <1>2, <1>3, SecretsStay DEF table
  <1>5. dbs' \subseteq App /\ \A b \in App \ {a} : b \in dbs' <=> b \in dbs
    BY <1>1 DEF DropDatabase, IInv, TypeOK
  <1>6. CASE dbs' = dbs \ {a} /\ GoesTo(p, "dropRole") /\ UNCHANGED stained
    <2>1. Moved(p, "dropRole")
      BY <1>2, <1>6, GoesToMoves DEF Places, Dropping
    <2>2. Onward(p)
      BY <1>4, <2>1, MovedOnward DEF Places, Making, Dropping
    <2>3. TypeOK'
      BY <1>3, <1>5, <1>6, <2>1 DEF IInv, TypeOK, Moved, Typed, fixed, server, table
    <2>4. a \notin stained' => Phase(p, a)'
      BY <1>2, <1>3, <1>6, <2>1 DEF Phase, Moved, Ensuring, table
    <2>5. req'[p] # Idle
      BY <2>1 DEF Moved, Idle
    <2>6. QED
      BY <1>1, <1>3, <1>4, <1>5, <1>6, <2>2, <2>3, <2>4, <2>5, WorkStep DEF table
  <1>7. CASE Stain(a) /\ Dropless(p)
    <2>1. Onward(p)
      BY <1>2, <1>4, <1>7, DroplessOnward
    <2>2. TypeOK'
      BY <1>3, <1>5, <1>7, <2>1 DEF IInv, TypeOK, Onward, Typed, Stain, fixed, server, table
    <2>3. QED
      BY <1>1, <1>3, <1>4, <1>5, <1>7, <2>1, <2>2, WorkStep DEF table, Stain
  <1>8. QED
    BY <1>1, <1>6, <1>7 DEF DropDatabase

LEMMA DropRoleStep ==
    ASSUME IInv, NEW p \in Proc, DropRole(p)
    PROVE  IInv'
  <1>1. PICK a \in App : req[p].app = a
    BY AtStep DEF DropRole
  <1>2. /\ Typed /\ Passwords /\ req[p] \in Request
        /\ a \notin stained =>
              /\ a \notin dbs
              /\ IF req[p].job = "provision" THEN rows[a] = 0 ELSE rows[a] = req[p].row
    BY <1>1, AtStep DEF DropRole, Phase, Dropping
  <1>3. UNCHANGED <<fixed, apps, srv, lastRow, server, dbs, crashes>> /\ Dropless(p)
    BY DEF DropRole
  <1>4. Secrets
    BY <1>2, <1>3, SecretsStay
  <1>5. Onward(p)
    BY <1>2, <1>3, <1>4, DroplessOnward
  <1>6. CASE /\ roles' = [roles EXCEPT ![a] = 0] /\ UNCHANGED stained
             /\ rows' = IF req[p].job # "provision" /\ rows[a] = req[p].row
                        THEN [rows EXCEPT ![a] = 0] ELSE rows
    <2>1. 0 \in 0 .. MaxRows
      BY ManagedDbAssumption
    <2>2. /\ roles' \in [App -> 0 .. MaxRows] /\ roles'[a] = 0
          /\ \A b \in App \ {a} : roles'[b] = roles[b]
      BY <1>6, <2>1 DEF IInv, TypeOK
    <2>3. /\ rows' \in [App -> 0 .. MaxRows]
          /\ \A b \in App \ {a} : rows'[b] = rows[b]
          /\ \A b \in App : rows'[b] # 0 => b \in apps
          /\ a \notin stained => rows'[a] = 0
      BY <1>2, <1>6, <2>1 DEF IInv, TypeOK
    <2>4. TypeOK'
      BY <1>3, <1>5, <1>6, <2>2, <2>3 DEF IInv, TypeOK, Onward, Typed, fixed, server
    <2>5. a \notin stained' => Whole(a)'
      BY <1>2, <1>3, <1>6, <2>2, <2>3 DEF Whole
    <2>6. CASE req[p].job = "delete"
      <3>1. Moved(p, "gone")
        BY <1>2, <1>3, <2>6, DroplessFacts
      <3>2. a \notin stained' => Phase(p, a)'
        BY <1>2, <1>3, <1>6, <2>2, <2>3, <3>1 DEF Phase, Moved, Ensuring, Dropping
      <3>3. req'[p] # Idle
        BY <3>1 DEF Moved, Idle
      <3>4. QED
        BY <1>1, <1>3, <1>4, <1>5, <1>6, <2>2, <2>3, <2>4, <3>2, <3>3, WorkStep
    <2>7. CASE req[p].job # "delete"
      <3>1. req'[p] = Idle
        BY <1>2, <1>3, <2>7, DroplessFacts DEF Ended
      <3>2. QED
        BY <1>1, <1>3, <1>4, <1>5, <1>6, <2>2, <2>3, <2>4, <2>5, <3>1, WorkStep
    <2>8. QED
      BY <2>6, <2>7
  <1>7. CASE /\ roles' = [roles EXCEPT ![a] = 0] \/ UNCHANGED roles
             /\ Stain(a) /\ UNCHANGED rows
    <2>1. 0 \in 0 .. MaxRows
      BY ManagedDbAssumption
    <2>2. /\ roles' \in [App -> 0 .. MaxRows]
          /\ \A b \in App \ {a} : roles'[b] = roles[b]
      BY <1>7, <2>1 DEF IInv, TypeOK
    <2>3. TypeOK'
      BY <1>3, <1>5, <1>7, <2>2 DEF IInv, TypeOK, Onward, Typed, Stain, fixed, server
    <2>4. QED
      BY <1>1, <1>3, <1>4, <1>5, <1>7, <2>2, <2>3, WorkStep DEF Stain
  <1>8. QED
    BY <1>1, <1>6, <1>7 DEF DropRole


-----------------------------------------------------------------------------
(* Everything else, and the theorems.                                      *)

LEMMA StopsStep ==
    ASSUME IInv, Stops
    PROVE  IInv'
  <1>1. UNCHANGED <<fixed, table, boxPw, cred, volume, inside, req, stained, crashes>>
        /\ box' = "stopped"
    BY DEF Stops
  <1>2. TypeOK'
    BY <1>1 DEF IInv, TypeOK, fixed, table, inside
  <1>3. Passwords' /\ Jobs'
    BY <1>1 DEF IInv, Passwords, Jobs, table
  <1>4. AppInv'
    BY <1>1 DEF IInv, AppInv, Alone, Phase, Whole, table, inside
  <1>5. QED
    BY <1>2, <1>3, <1>4 DEF IInv

LEMMA CrashStep ==
    ASSUME IInv, Crash
    PROVE  IInv'
  <1>1. /\ UNCHANGED <<fixed, table, server, inside>>
        /\ crashes < MaxCrashes /\ crashes' = crashes + 1
        /\ req' = [p \in Proc |-> Idle]
        /\ stained' = stained \cup {a \in App : AtWork(a)}
    BY DEF Crash
  <1>2. /\ \A p \in Proc : req'[p] = Idle
        /\ req' \in [Proc -> Request \cup {Idle}]
    BY <1>1
  <1>3. crashes' \in 0 .. MaxCrashes
    BY <1>1, ManagedDbAssumption DEF IInv, TypeOK
  <1>4. TypeOK'
    BY <1>1, <1>2, <1>3 DEF IInv, TypeOK, fixed, table, server, inside
  <1>5. Passwords' /\ Jobs'
    BY <1>1, <1>2 DEF IInv, Passwords, Jobs, Idle, Making, table, server
  <1>6. ASSUME NEW a \in App, a \notin stained' PROVE Alone(a)'
    <2>1. Alone(a) /\ \A p \in Proc : req[p].app # a
      BY <1>1, <1>6 DEF IInv, AppInv, AtWork
    <2>2. Whole(a)'
      BY <1>1, <2>1 DEF Alone, Whole, table, inside
    <2>3. Idle.app # a
      BY ManagedDbAssumption DEF Idle
    <2>4. QED
      BY <1>2, <2>2, <2>3 DEF Alone
  <1>7. QED
    BY <1>4, <1>5, <1>6 DEF IInv, AppInv

LEMMA InitInv == Init => IInv
  <1> SUFFICES ASSUME Init PROVE IInv
    OBVIOUS
  <1>1. 0 \in 0 .. MaxRows /\ 0 \in 0 .. MaxCrashes /\ Idle.app \notin App
    BY ManagedDbAssumption DEF Idle
  <1>2. TypeOK
    BY <1>1 DEF Init, TypeOK
  <1>3. Passwords /\ Jobs
    BY DEF Init, Passwords, Jobs, Idle, Making
  <1>4. AppInv
    BY <1>1 DEF Init, AppInv, Alone, Whole
  <1>5. QED
    BY <1>2, <1>3, <1>4 DEF IInv

LEMMA StepInv == IInv /\ [Next]_vars => IInv'
  <1> SUFFICES ASSUME IInv, [Next]_vars PROVE IInv'
    OBVIOUS
  <1>1. ASSUME NEW p \in Proc, NEW a \in App,
               Provision(p, a) \/ Deprovision(p, a) \/ DeleteApp(p, a)
        PROVE IInv'
    BY <1>1, ProvisionStep, DeprovisionStep, DeleteAppStep
  <1>2. ASSUME NEW p \in Proc, Ensure(p) \/ Look(p) \/ Stopped(p) \/ Gone(p)
        PROVE IInv'
    BY <1>2, EnsureStep, LookStep, StoppedStep, GoneStep
  <1>3. ASSUME NEW p \in Proc, Engine(p)
        PROVE IInv'
    BY <1>3, MakeRoleStep, MakeDatabaseStep, MakeSchemaStep, DropDatabaseStep,
       DropRoleStep DEF Engine
  <1>4. CASE Stops \/ Crash
    BY <1>4, StopsStep, CrashStep
  <1>5. CASE UNCHANGED vars
    <2>1. TypeOK'
      BY <1>5 DEF IInv, TypeOK, vars, fixed, table, server, inside
    <2>2. Passwords' /\ Jobs'
      BY <1>5 DEF IInv, Passwords, Jobs, vars, table, server
    <2>3. AppInv'
      BY <1>5 DEF IInv, AppInv, Alone, Phase, Whole, vars, table, inside
    <2>4. QED
      BY <2>1, <2>2, <2>3 DEF IInv
  <1>6. QED
    BY <1>1, <1>2, <1>3, <1>4, <1>5 DEF Next

THEOREM InvTheorem == Spec => []IInv
  BY InitInv, StepInv, PTL DEF Spec

\* Every variable keeps its type; no row outlives its app.
THEOREM TypeTheorem == Spec => []TypeOK
  BY InvTheorem, PTL DEF IInv

\* Whatever removes, recreates or restarts the container, the password of its
\* data directory is the one in the row and in every request (AdminGetsIn).
THEOREM AdminTheorem == Spec => []AdminGetsIn
  <1>1. IInv => AdminGetsIn
    <2> SUFFICES ASSUME IInv, volume # None PROVE AdminGetsIn
      BY DEF AdminGetsIn
    <2>1. srv = volume
      BY DEF IInv, Passwords
    <2>2. QED
      BY <2>1 DEF IInv, Passwords, AdminGetsIn
  <1>2. QED
    BY <1>1, InvTheorem, PTL

\* Requests that come one at a time, and drop what they drop, leave an app
\* with row, role and database, or with none (OneAtATimeIsWhole).
THEOREM WholeTheorem == Spec => []OneAtATimeIsWhole
  <1>1. IInv => OneAtATimeIsWhole
    BY DEF IInv, AppInv, Alone, OneAtATimeIsWhole, AtWork
  <1>2. QED
    BY <1>1, InvTheorem, PTL
=============================================================================
