---------------------------- MODULE DeployProofs ----------------------------
(***************************************************************************)
(* Theorems about the deployment lane, for every number of deployments,    *)
(* artifacts and kept releases.                                            *)
(***************************************************************************)
EXTENDS Deploy, FiniteSetTheorems, WellFoundedInduction, TLAPS

-----------------------------------------------------------------------------
(* Helpers.                                                                *)

\* A prune only removes.
LEMMA PruneRemoves ==
    ASSUME NEW dirs, NEW live
    PROVE  pruneOldReleases(dirs, live) \subseteq dirs
BY DEF pruneOldReleases

\* A prune never removes the live release.
LEMMA PruneKeepsLive ==
    ASSUME NEW dirs, NEW live \in dirs
    PROVE  live \in pruneOldReleases(dirs, live)
BY DEF pruneOldReleases

\* A failing run that works on the live release leaves it there.
LEMMA FailKeepsLive ==
    ASSUME NEW d, NEW dirs, NEW live \in dirs, FailRun(d, dirs, live)
    PROVE  live \in disk'
<1>1. live \in IF art[d] = live THEN dirs ELSE dirs \ {art[d]}
  OBVIOUS
<1> QED
  BY <1>1, PruneKeepsLive DEF FailRun

\* The retired and the swept rows have a status.
LEMMA RowsTyped ==
    ASSUME TypeOK
    PROVE  /\ Retired \in [Id -> Status] /\ Swept \in [Id -> Status]
           /\ [d \in Id |-> IF d \in Flying THEN "failed" ELSE status[d]] \in [Id -> Status]
BY DEF TypeOK, Retired, Swept, Status, Published

\* An inserted row is a row.
LEMMA InsertTyped ==
    ASSUME TypeOK, NEW st \in Status, NEW a \in 0 .. MaxArts, NEW p \in 0 .. MaxArts,
           NEW before \in [Id -> Status], Insert(st, a, p, before)
    PROVE  /\ source' \in Sources /\ count' \in 0 .. MaxDeploys
           /\ status' \in [Id -> Status] /\ fresh' \in [Id -> BOOLEAN]
           /\ path' \in [Id -> 0 .. MaxArts] /\ pc' \in [Id -> Pc]
           /\ art' \in [Id -> 0 .. MaxArts] /\ prev' \in [Id -> 0 .. MaxArts]
           /\ count + 1 \in Id
BY DeployAssumption DEF Insert, TypeOK, Id, Pc, Working

\* A run that ends leaves typed run variables.
LEMMA EndRunTyped ==
    ASSUME TypeOK, NEW d \in Id, EndRun(d)
    PROVE  /\ pc' \in [Id -> Pc] /\ art' \in [Id -> 0 .. MaxArts]
           /\ prev' \in [Id -> 0 .. MaxArts]
BY DeployAssumption DEF EndRun, TypeOK, Pc

\* A run that fails leaves typed rows and files.
LEMMA FailRunTyped ==
    ASSUME TypeOK, NEW d \in Id, NEW dirs \in SUBSET Artifact, NEW live, FailRun(d, dirs, live)
    PROVE  /\ status' \in [Id -> Status] /\ disk' \subseteq Artifact
           /\ pc' \in [Id -> Pc] /\ art' \in [Id -> 0 .. MaxArts]
           /\ prev' \in [Id -> 0 .. MaxArts]
<1>1. status' \in [Id -> Status]
  BY DEF FailRun, TypeOK, Status
<1>2. disk' \subseteq Artifact
  BY PruneRemoves DEF FailRun
<1> QED
  BY <1>1, <1>2, EndRunTyped DEF FailRun

-----------------------------------------------------------------------------
(* Every variable stays within its type.  One step per action.             *)

\* The initial state is typed.
LEMMA InitTyped == Init => TypeOK
BY DeployAssumption DEF Init, TypeOK, Id, Artifact, Status, InFlight, Published, Pc, Working

\* No step leaves the types.
LEMMA NextTyped == TypeOK /\ [Next]_vars => TypeOK'
<1> SUFFICES ASSUME TypeOK, [Next]_vars PROVE TypeOK'
  OBVIOUS
<1> USE DeployAssumption DEF rowVars, runVars, treeVars
<1>1. CASE GuardedDeploy
  BY <1>1, InsertTyped, RowsTyped
  DEF GuardedDeploy, TypeOK, Flying, Artifact, Status, InFlight
<1>2. CASE UnguardedDeploy
  BY <1>2, InsertTyped, RowsTyped
  DEF UnguardedDeploy, TypeOK, Artifact, Status, InFlight
<1>3. CASE ExtractUpload
  BY <1>3
  DEF ExtractUpload, TypeOK, Artifact, Status, InFlight, Published, Pc, Working
<1>4. ASSUME NEW a \in Artifact, ExtractFails(a) PROVE TypeOK'
  BY <1>4
  DEF ExtractFails, TypeOK, Artifact, Status, InFlight, Published, Pc, Working
<1>5. ASSUME NEW a \in Artifact, DeployUpload(a) PROVE TypeOK'
  BY <1>5, InsertTyped, RowsTyped
  DEF DeployUpload, TypeOK, Artifact, Status, InFlight
<1>6. ASSUME NEW t \in Id, rollbackApp(t) PROVE TypeOK'
  BY <1>6, InsertTyped, RowsTyped
  DEF rollbackApp, TypeOK, Retired, Artifact, Status, InFlight
<1>7. CASE promoteApp
  <2>1. made + 1 \in Artifact /\ made + 1 \in 0 .. MaxArts /\ "deploying" \in Status
    BY <1>7 DEF promoteApp, TypeOK, Artifact, Status, InFlight
  <2> QED
    BY <1>7, <2>1, InsertTyped, RowsTyped DEF promoteApp, TypeOK
<1>8. CASE promoteAppFails
  <2>1. made + 1 \in Artifact /\ made + 1 \in 0 .. MaxArts /\ count + 1 \in 0 .. MaxDeploys
    BY <1>8 DEF promoteAppFails, TypeOK, Artifact
  <2>2. status' \in [Id -> Status]
    BY <1>8 DEF promoteAppFails, TypeOK, Status
  <2> QED
    BY <1>8, <2>1, <2>2 DEF promoteAppFails, TypeOK
<1>9. ASSUME NEW d \in Id, BeginThrows(d) PROVE TypeOK'
  BY <1>9, EndRunTyped
  DEF BeginThrows, TypeOK, Artifact, Status, InFlight, Published, Pc, Working
<1>10. ASSUME NEW d \in Id, BeginGiven(d) PROVE TypeOK'
  BY <1>10, PruneRemoves
  DEF BeginGiven, TypeOK, appendLog, Artifact, Status, InFlight, Published, Pc, Working
<1>11. ASSUME NEW d \in Id, BeginFresh(d) PROVE TypeOK'
  <2>1. made + 1 \in Artifact /\ made + 1 \in 0 .. MaxArts
    BY <1>11 DEF BeginFresh, TypeOK, Artifact
  <2>2. status' \in [Id -> Status] /\ pc' \in [Id -> Pc]
    BY <1>11 DEF BeginFresh, appendLog, TypeOK, Status, InFlight, Pc, Working
  <2>3. path' \in [Id -> 0 .. MaxArts] /\ art' \in [Id -> 0 .. MaxArts]
    BY <1>11, <2>1 DEF BeginFresh, TypeOK
  <2>4. disk' \subseteq Artifact
    BY <1>11, <2>1, PruneRemoves DEF BeginFresh, TypeOK
  <2> QED
    BY <1>11, <2>1, <2>2, <2>3, <2>4 DEF BeginFresh, TypeOK
<1>12. ASSUME NEW d \in Id, BeginReplay(d) PROVE TypeOK'
  <2>1. status' \in [Id -> Status] /\ pc' \in [Id -> Pc]
    BY <1>12 DEF BeginReplay, appendLog, TypeOK, Status, InFlight, Pc, Working
  <2>2. PICK r \in Artifact : art' = [art EXCEPT ![d] = r]
    BY <1>12 DEF BeginReplay
  <2>3. art' \in [Id -> 0 .. MaxArts]
    BY <2>2 DEF TypeOK, Artifact
  <2>4. disk' \subseteq Artifact
    BY <1>12, PruneRemoves DEF BeginReplay, TypeOK
  <2> QED
    BY <1>12, <2>1, <2>3, <2>4 DEF BeginReplay, TypeOK
<1>13. ASSUME NEW d \in Id, BeginFails(d) PROVE TypeOK'
  BY <1>13, FailRunTyped, PruneRemoves
  DEF BeginFails, TypeOK, Artifact, Status, InFlight, Pc, Working
<1>14. ASSUME NEW d \in Id, Prepare(d) PROVE TypeOK'
  BY <1>14
  DEF Prepare, TypeOK, Artifact, Status, InFlight, Published, Pc, Working
<1>15. ASSUME NEW d \in Id, Build(d) PROVE TypeOK'
  BY <1>15
  DEF Build, TypeOK, appendLog, Artifact, Status, InFlight, Published, Pc, Working
<1>16. ASSUME NEW d \in Id, Inspect(d) PROVE TypeOK'
  BY <1>16
  DEF Inspect, TypeOK, appendLog, Artifact, Status, InFlight, Published, Pc, Working
<1>17. ASSUME NEW d \in Id, Stop(d) PROVE TypeOK'
  BY <1>17
  DEF Stop, TypeOK, stopApp, appendLog, Artifact, Status, InFlight, Published, Pc, Working
<1>18. ASSUME NEW d \in Id, Clear(d) PROVE TypeOK'
  BY <1>18
  DEF Clear, TypeOK, stopApp, Artifact, Status, InFlight, Published, Pc, Working
<1>19. ASSUME NEW d \in Id, Run(d) PROVE TypeOK'
  BY <1>19
  DEF Run, TypeOK, appendLog, Artifact, Status, InFlight, Published, Pc, Working
<1>20. ASSUME NEW d \in Id, Fail(d) PROVE TypeOK'
  BY <1>20, FailRunTyped, PruneRemoves
  DEF Fail, TypeOK, Artifact, Status, InFlight, Pc, Working
<1>21. ASSUME NEW d \in Id, Publish(d) PROVE TypeOK'
  BY <1>21
  DEF Publish, TypeOK, Artifact, Status, InFlight, Published, Pc, Working
<1>22. ASSUME NEW d \in Id, Reject(d) PROVE TypeOK'
  BY <1>22, FailRunTyped, PruneRemoves
  DEF Reject, TypeOK, Artifact, Status, InFlight, Pc, Working
<1>23. ASSUME NEW d \in Id, Unhealthy(d) PROVE TypeOK'
  BY <1>23
  DEF Unhealthy, TypeOK, appendLog, Artifact, Status, InFlight, Published, Pc, Working
<1>24. ASSUME NEW d \in Id, RevertStop(d) PROVE TypeOK'
  <2>1. ctr' \in 0 .. MaxArts
    BY <1>24 DEF RevertStop, stopApp, TypeOK
  <2>2. CASE prev[d] = 0
    BY <1>24, <2>1, <2>2, FailRunTyped DEF RevertStop, TypeOK
  <2>3. CASE prev[d] # 0
    <3>1. status' \in [Id -> Status] /\ pc' \in [Id -> Pc]
      BY <1>24, <2>3 DEF RevertStop, appendLog, TypeOK, Status, InFlight, Pc, Working
    <3> QED
      BY <1>24, <2>1, <2>3, <3>1 DEF RevertStop, TypeOK
  <2> QED
    BY <2>2, <2>3
<1>25. ASSUME NEW d \in Id, RevertClear(d) PROVE TypeOK'
  BY <1>25
  DEF RevertClear, TypeOK, stopApp, Artifact, Status, InFlight, Published, Pc, Working
<1>26. ASSUME NEW d \in Id, RevertRun(d) PROVE TypeOK'
  <2>1. ctr' \in 0 .. MaxArts
    BY <1>26 DEF RevertRun, TypeOK
  <2> QED
    BY <1>26, <2>1, FailRunTyped DEF RevertRun, TypeOK
<1>27. ASSUME NEW d \in Id, Finish(d) PROVE TypeOK'
  BY <1>27, EndRunTyped, PruneRemoves
  DEF Finish, TypeOK, Artifact, Status, InFlight, Published, Pc, Working
<1>28. ASSUME NEW d \in Id, Age(d) PROVE TypeOK'
  BY <1>28
  DEF Age, TypeOK, Flying, Artifact, Status, InFlight, Published, Pc, Working
<1>29. CASE Crash
  <2>1. /\ pc' \in [Id -> Pc] /\ art' \in [Id -> 0 .. MaxArts]
        /\ prev' \in [Id -> 0 .. MaxArts]
    BY <1>29 DEF Crash, Pc
  <2>2. ctr' \in 0 .. MaxArts
    BY <1>29, DeployAssumption DEF Crash, TypeOK
  <2>3. /\ source' = source /\ count' = count /\ status' = status /\ fresh' = fresh
        /\ path' = path /\ guarded' = guarded /\ made' = made /\ uploads' = uploads
        /\ extracting' = {} /\ disk' = disk /\ current' = current /\ up' = FALSE
    BY <1>29 DEF Crash
  <2> QED
    BY <2>1, <2>2, <2>3 DEF TypeOK
<1>30. CASE Boot
  BY <1>30, RowsTyped
  DEF Boot, TypeOK, Swept, Artifact, Status, InFlight, Published, Pc, Working
<1>31. CASE BootHeals
  BY <1>31, InsertTyped, RowsTyped
  DEF BootHeals, TypeOK, Swept, Artifact, Status, InFlight
<1>32. CASE UNCHANGED vars
  BY <1>32 DEF vars, TypeOK
<1> QED
  BY <1>1, <1>2, <1>3, <1>4, <1>5, <1>6, <1>7, <1>8, <1>9, <1>10, <1>11, <1>12, <1>13, <1>14, <1>15, <1>16, <1>17, <1>18, <1>19, <1>20, <1>21, <1>22, <1>23, <1>24, <1>25, <1>26, <1>27, <1>28, <1>29, <1>30, <1>31, <1>32
  DEF Next, deployApp

\* Type correctness of the lane.
THEOREM TypeCorrect == Spec => []TypeOK
BY InitTyped, NextTyped, PTL DEF Spec

-----------------------------------------------------------------------------
(* The rows and the runs: LaneOK is inductive, given the types.            *)

\* No row exists at the start.
LEMMA InitLane == Init => LaneOK
BY DEF Init, LaneOK, FreshnessFollowsId, BlankBeyondCount, WorkingIsVisible,
       FinishingIsPublished, BuildingHasProcess, DownMeansNoRun, CalledIsQuiet, Working

\* No step breaks it.  A step that moves a run touches the row of that run
\* only; an insertion, a retirement and a sweep touch many.
LEMMA NextLane == TypeOK /\ LaneOK /\ [Next]_vars => LaneOK'
<1> SUFFICES ASSUME TypeOK, LaneOK, [Next]_vars PROVE LaneOK'
  OBVIOUS
<1> USE DEF LaneOK, FreshnessFollowsId, BlankBeyondCount, WorkingIsVisible,
            FinishingIsPublished, BuildingHasProcess, DownMeansNoRun, CalledIsQuiet, Working,
            InFlight, Published, rowVars, runVars, treeVars
<1>0. /\ count \in Nat /\ status \in [Id -> Status] /\ fresh \in [Id -> BOOLEAN]
      /\ pc \in [Id -> Pc] /\ guarded \subseteq Id /\ up \in BOOLEAN /\ Id \subseteq Nat
  BY DeployAssumption DEF TypeOK, Id
<1>1. CASE GuardedDeploy
  <2>1. \A e \in Flying : ~fresh[e]
    BY <1>0, <1>1 DEF GuardedDeploy, assertNoInflightDeploy, IsNewest, Flying, Id
  <2> QED
    BY <1>0, <1>1, <2>1 DEF GuardedDeploy, Insert, Flying, Id
<1>2. CASE UnguardedDeploy
  BY <1>0, <1>2 DEF UnguardedDeploy, Insert, Id
<1>3. CASE ExtractUpload
  BY <1>0, <1>3 DEF ExtractUpload
<1>4. ASSUME NEW a \in Artifact, ExtractFails(a) PROVE LaneOK'
  BY <1>0, <1>4 DEF ExtractFails
<1>5. ASSUME NEW a \in Artifact, DeployUpload(a) PROVE LaneOK'
  BY <1>0, <1>5 DEF DeployUpload, Insert, Id
<1>6. ASSUME NEW t \in Id, rollbackApp(t) PROVE LaneOK'
  BY <1>0, <1>6 DEF rollbackApp, Insert, Retired, Id
<1>7. CASE promoteApp
  BY <1>0, <1>7 DEF promoteApp, Insert, Retired, Id
<1>8. CASE promoteAppFails
  BY <1>0, <1>8 DEF promoteAppFails, Id
<1>9. ASSUME NEW d \in Id, BeginThrows(d) PROVE LaneOK'
  BY <1>0, <1>9 DEF BeginThrows, EndRun
<1>10. ASSUME NEW d \in Id, BeginGiven(d) PROVE LaneOK'
  BY <1>0, <1>10 DEF BeginGiven, appendLog
<1>11. ASSUME NEW d \in Id, BeginFresh(d) PROVE LaneOK'
  BY <1>0, <1>11 DEF BeginFresh, appendLog
<1>12. ASSUME NEW d \in Id, BeginReplay(d) PROVE LaneOK'
  BY <1>0, <1>12 DEF BeginReplay, appendLog
<1>13. ASSUME NEW d \in Id, BeginFails(d) PROVE LaneOK'
  BY <1>0, <1>13 DEF BeginFails, FailRun, EndRun
<1>14. ASSUME NEW d \in Id, Prepare(d) PROVE LaneOK'
  BY <1>0, <1>14 DEF Prepare
<1>15. ASSUME NEW d \in Id, Build(d) PROVE LaneOK'
  BY <1>0, <1>15 DEF Build, appendLog
<1>16. ASSUME NEW d \in Id, Inspect(d) PROVE LaneOK'
  BY <1>0, <1>16 DEF Inspect, appendLog
<1>17. ASSUME NEW d \in Id, Stop(d) PROVE LaneOK'
  BY <1>0, <1>17 DEF Stop, appendLog
<1>18. ASSUME NEW d \in Id, Clear(d) PROVE LaneOK'
  BY <1>0, <1>18 DEF Clear
<1>19. ASSUME NEW d \in Id, Run(d) PROVE LaneOK'
  BY <1>0, <1>19 DEF Run, appendLog
<1>20. ASSUME NEW d \in Id, Fail(d) PROVE LaneOK'
  BY <1>0, <1>20 DEF Fail, FailRun, EndRun
<1>21. ASSUME NEW d \in Id, Publish(d) PROVE LaneOK'
  BY <1>0, <1>21 DEF Publish
<1>22. ASSUME NEW d \in Id, Reject(d) PROVE LaneOK'
  BY <1>0, <1>22 DEF Reject, FailRun, EndRun
<1>23. ASSUME NEW d \in Id, Unhealthy(d) PROVE LaneOK'
  BY <1>0, <1>23 DEF Unhealthy, appendLog
<1>24. ASSUME NEW d \in Id, RevertStop(d) PROVE LaneOK'
  BY <1>0, <1>24 DEF RevertStop, FailRun, EndRun, appendLog
<1>25. ASSUME NEW d \in Id, RevertClear(d) PROVE LaneOK'
  BY <1>0, <1>25 DEF RevertClear
<1>26. ASSUME NEW d \in Id, RevertRun(d) PROVE LaneOK'
  BY <1>0, <1>26 DEF RevertRun, FailRun, EndRun
<1>27. ASSUME NEW d \in Id, Finish(d) PROVE LaneOK'
  BY <1>0, <1>27 DEF Finish, EndRun
<1>28. ASSUME NEW d \in Id, Age(d) PROVE LaneOK'
  BY <1>0, <1>28 DEF Age, Flying
<1>29. CASE Crash
  BY <1>0, <1>29 DEF Crash
<1>30. CASE Boot
  BY <1>0, <1>30 DEF Boot, Swept, Flying
<1>31. CASE BootHeals
  BY <1>0, <1>31 DEF BootHeals, Insert, Swept, Flying, Id
<1>32. CASE UNCHANGED vars
  BY <1>32 DEF vars
<1> QED
  BY <1>1, <1>2, <1>3, <1>4, <1>5, <1>6, <1>7, <1>8, <1>9, <1>10, <1>11, <1>12, <1>13, <1>14, <1>15, <1>16, <1>17, <1>18, <1>19, <1>20, <1>21, <1>22, <1>23, <1>24, <1>25, <1>26, <1>27, <1>28, <1>29, <1>30, <1>31, <1>32
  DEF Next, deployApp

\* What the guard, the log and the boot sweep rely on holds for any number of
\* deployments.
THEOREM LaneCorrect == Spec => []LaneOK
BY TypeCorrect, InitLane, NextLane, PTL DEF Spec

\* In particular no row reads 'building' without a run behind it once the server
\* is up.
THEOREM BuildingCorrect == Spec => []BuildingHasProcess
<1>1. LaneOK => BuildingHasProcess
  BY DEF LaneOK
<1> QED
  BY <1>1, LaneCorrect, PTL

-----------------------------------------------------------------------------
(* The lane implements the lease.                                          *)

\* A step that lets holders go and ages nobody is a release.
LEMMA ReleaseStep ==
    ASSUME NEW S \in SUBSET Id, Holders' = Holders \ S, Expired' = Expired
    PROVE  Lease!Next
BY DEF Lease!Next, Lease!Release

\* Letting nobody go is one, too.
LEMMA KeepStep ==
    ASSUME Holders' = Holders, Expired' = Expired PROVE Lease!Next
<1>1. {} \in SUBSET Id /\ Holders' = Holders \ {}
  OBVIOUS
<1> QED
  BY <1>1, ReleaseStep

\* A run that moves on, ends or is past its working part releases at most its
\* own hold.
LEMMA MoveStep ==
    ASSUME TypeOK, NEW d \in Id, NEW next, pc' = [pc EXCEPT ![d] = next],
           pc[d] \in Working \/ next \notin Working,
           guarded' = guarded, fresh' = fresh
    PROVE  Lease!Next
<1>1. Expired' = Expired
  BY DEF Expired
<1>2. CASE next \in Working
  <2>1. Holders' = Holders
    BY <1>2 DEF Holders, TypeOK
  <2> QED
    BY <1>1, <2>1, KeepStep
<1>3. CASE next \notin Working
  <2>1. Holders' = Holders \ {d}
    BY <1>3 DEF Holders, TypeOK
  <2> QED
    BY <1>1, <2>1, ReleaseStep
<1> QED
  BY <1>2, <1>3

\* A row inserted without the guard holds nothing.
LEMMA UnguardedStep ==
    ASSUME TypeOK, LaneOK, pc' = [pc EXCEPT ![count + 1] = "called"],
           guarded' = guarded, fresh' = fresh
    PROVE  Lease!Next
<1>1. Holders' = Holders
  BY DeployAssumption DEF Holders, TypeOK, LaneOK, BlankBeyondCount, Id
<1>2. Expired' = Expired
  BY DEF Expired
<1> QED
  BY <1>1, <1>2, KeepStep

\* Neither a row nor a run moves.
LEMMA StillStep ==
    ASSUME pc' = pc, guarded' = guarded, fresh' = fresh PROVE Lease!Next
<1>1. Holders' = Holders /\ Expired' = Expired
  BY DEF Holders, Expired
<1> QED
  BY <1>1, KeepStep

\* The guard takes the lease: whoever still works on the lane is late.
LEMMA AcquireStep ==
    ASSUME TypeOK, LaneOK, GuardedDeploy PROVE Lease!Next
<1>0. Id \subseteq Nat /\ \A d, e \in Id : e < d /\ fresh[e] => fresh[d]
  BY DeployAssumption DEF Id, LaneOK, FreshnessFollowsId
<1>1. \A e \in Flying : ~fresh[e]
  BY <1>0 DEF GuardedDeploy, assertNoInflightDeploy, IsNewest, Flying
<1>2. count + 1 \in Id /\ fresh[count + 1] /\ count + 1 \notin guarded
  BY DeployAssumption
  DEF GuardedDeploy, Insert, Id, LaneOK, BlankBeyondCount, TypeOK
<1>3. Holders \subseteq Expired
  BY <1>1 DEF Holders, Expired, Flying, LaneOK, WorkingIsVisible, TypeOK
<1>4. Holders' = Holders \cup {count + 1}
  BY <1>2 DEF GuardedDeploy, Insert, Holders, TypeOK, Working
<1>5. Expired' = Expired
  BY DEF GuardedDeploy, Insert, Expired
<1>6. count + 1 \notin Holders \cup Expired
  BY <1>2 DEF Holders, Expired
<1> QED
  BY <1>2, <1>3, <1>4, <1>5, <1>6 DEF Lease!Next, Lease!Acquire

\* Time makes clients late.
LEMMA AgeStep ==
    ASSUME TypeOK, NEW d \in Id, Age(d) PROVE Lease!Next
<1>1. Holders' = Holders
  BY DEF Age, Holders, runVars
<1>2. Expired' = Expired \cup Expired'
  BY DEF Age, Expired, TypeOK
<1>3. Expired' \in SUBSET Id
  BY DEF Expired
<1> QED
  BY <1>1, <1>2, <1>3 DEF Lease!Next, Lease!Expire

\* A crash lets every hold go.
LEMMA CrashStep ==
    ASSUME TypeOK, Crash PROVE Lease!Next
<1>1. Holders' = Holders \ Holders
  BY DEF Crash, Holders, rowVars, TypeOK, Working
<1>2. Expired' = Expired
  BY DEF Crash, Expired, rowVars
<1>3. Holders \in SUBSET Id
  BY DEF Holders, TypeOK
<1> QED
  BY <1>1, <1>2, <1>3, ReleaseStep

\* Nobody holds the lease at the start.
LEMMA InitLease == Init => Lease!Init
BY DEF Init, Lease!Init, Holders, Expired

\* Every step of the lane is a step of the lease or leaves it alone.
LEMMA NextLease == TypeOK /\ LaneOK /\ [Next]_vars => [Lease!Next]_Lease!leaseVars
<1> SUFFICES ASSUME TypeOK, LaneOK, [Next]_vars
             PROVE  Lease!Next \/ UNCHANGED Lease!leaseVars
  OBVIOUS
<1> USE DEF rowVars, runVars, treeVars
<1>1. CASE GuardedDeploy
  BY <1>1, AcquireStep
<1>2. CASE UnguardedDeploy
  BY <1>2, UnguardedStep DEF UnguardedDeploy, Insert
<1>3. ASSUME NEW a \in Artifact, DeployUpload(a) PROVE Lease!Next
  BY <1>3, UnguardedStep DEF DeployUpload, Insert
<1>4. ASSUME NEW t \in Id, rollbackApp(t) PROVE Lease!Next
  BY <1>4, UnguardedStep DEF rollbackApp, Insert
<1>5. CASE promoteApp
  BY <1>5, UnguardedStep DEF promoteApp, Insert
<1>6. CASE BootHeals
  BY <1>6, UnguardedStep DEF BootHeals, Insert
<1>7. CASE ExtractUpload
  BY <1>7, StillStep DEF ExtractUpload
<1>8. ASSUME NEW a \in Artifact, ExtractFails(a) PROVE Lease!Next
  BY <1>8, StillStep DEF ExtractFails
<1>9. CASE promoteAppFails
  BY <1>9, StillStep DEF promoteAppFails
<1>10. CASE Boot
  BY <1>10, StillStep DEF Boot
<1>11. ASSUME NEW d \in Id, BeginThrows(d) PROVE Lease!Next
  BY <1>11, MoveStep DEF BeginThrows, EndRun, Working
<1>12. ASSUME NEW d \in Id, BeginGiven(d) PROVE Lease!Next
  BY <1>12, MoveStep DEF BeginGiven, Working
<1>13. ASSUME NEW d \in Id, BeginFresh(d) PROVE Lease!Next
  BY <1>13, MoveStep DEF BeginFresh, Working
<1>14. ASSUME NEW d \in Id, BeginReplay(d) PROVE Lease!Next
  BY <1>14, MoveStep DEF BeginReplay, Working
<1>15. ASSUME NEW d \in Id, BeginFails(d) PROVE Lease!Next
  BY <1>15, MoveStep DEF BeginFails, FailRun, EndRun, Working
<1>16. ASSUME NEW d \in Id, Prepare(d) PROVE Lease!Next
  BY <1>16, MoveStep DEF Prepare, Working
<1>17. ASSUME NEW d \in Id, Build(d) PROVE Lease!Next
  BY <1>17, MoveStep DEF Build, Working
<1>18. ASSUME NEW d \in Id, Inspect(d) PROVE Lease!Next
  BY <1>18, MoveStep DEF Inspect, Working
<1>19. ASSUME NEW d \in Id, Stop(d) PROVE Lease!Next
  BY <1>19, MoveStep DEF Stop, Working
<1>20. ASSUME NEW d \in Id, Clear(d) PROVE Lease!Next
  BY <1>20, MoveStep DEF Clear, Working
<1>21. ASSUME NEW d \in Id, Run(d) PROVE Lease!Next
  BY <1>21, MoveStep DEF Run, Working
<1>22. ASSUME NEW d \in Id, Fail(d) PROVE Lease!Next
  BY <1>22, MoveStep DEF Fail, FailRun, EndRun, Working
<1>23. ASSUME NEW d \in Id, Publish(d) PROVE Lease!Next
  BY <1>23, MoveStep DEF Publish, Working
<1>24. ASSUME NEW d \in Id, Reject(d) PROVE Lease!Next
  BY <1>24, MoveStep DEF Reject, FailRun, EndRun, Working
<1>25. ASSUME NEW d \in Id, Unhealthy(d) PROVE Lease!Next
  BY <1>25, MoveStep DEF Unhealthy, Working
<1>26. ASSUME NEW d \in Id, RevertStop(d) PROVE Lease!Next
  BY <1>26, MoveStep DEF RevertStop, FailRun, EndRun, Working
<1>27. ASSUME NEW d \in Id, RevertClear(d) PROVE Lease!Next
  BY <1>27, MoveStep DEF RevertClear, Working
<1>28. ASSUME NEW d \in Id, RevertRun(d) PROVE Lease!Next
  BY <1>28, MoveStep DEF RevertRun, FailRun, EndRun, Working
<1>29. ASSUME NEW d \in Id, Finish(d) PROVE Lease!Next
  BY <1>29, MoveStep DEF Finish, EndRun, Working
<1>30. ASSUME NEW d \in Id, Age(d) PROVE Lease!Next
  BY <1>30, AgeStep
<1>31. CASE Crash
  BY <1>31, CrashStep
<1>32. CASE UNCHANGED vars
  BY <1>32 DEF vars, Lease!leaseVars, Holders, Expired
<1> QED
  BY <1>1, <1>2, <1>3, <1>4, <1>5, <1>6, <1>7, <1>8, <1>9, <1>10, <1>11, <1>12, <1>13, <1>14, <1>15, <1>16, <1>17, <1>18, <1>19, <1>20, <1>21, <1>22, <1>23, <1>24, <1>25, <1>26, <1>27, <1>28, <1>29, <1>30, <1>31, <1>32
  DEF Next, deployApp

\* Any number of callers, runs, failures and crashes: the guard implements the
\* lease.
THEOREM GuardIsLease == Spec => ImplementsLease
BY TypeCorrect, LaneCorrect, InitLease, NextLease, PTL
DEF Spec, ImplementsLease, Lease!Spec

\* A step of the lease keeps it exclusive.
LEMMA LeaseIsExclusive ==
    OneFreshDeploy /\ [Lease!Next]_Lease!leaseVars => OneFreshDeploy'
BY DEF OneFreshDeploy, Lease!OneFreshHolder, Lease!Next, Lease!Acquire,
       Lease!Release, Lease!Expire, Lease!leaseVars

\* Hence two deployments within their half hour never work on the lane at once,
\* provided both came through assertNoInflightDeploy.
THEOREM OneFreshDeployCorrect == Spec => []OneFreshDeploy
<1>1. Init => OneFreshDeploy
  BY DEF Init, OneFreshDeploy, Lease!OneFreshHolder, Holders
<1> QED
  BY <1>1, TypeCorrect, LaneCorrect, NextLease, LeaseIsExclusive, PTL DEF Spec

-----------------------------------------------------------------------------
(* Published rows stay published.                                          *)

\* A run that still writes its status has not published, and an inserted row
\* was no row before.
LEMMA NextRowsStay == TypeOK /\ LaneOK /\ [Next]_vars => RowsStay
<1> SUFFICES ASSUME TypeOK, LaneOK, [Next]_vars PROVE RowsStay
  OBVIOUS
<1> USE DEF RowsStay, Published, InFlight, Working, rowVars, runVars, treeVars
<1>0. /\ count \in Nat /\ status \in [Id -> Status] /\ Id \subseteq Nat
      /\ \A d \in Id : d > count => status[d] = "absent"
      /\ \A d \in Id : pc[d] \in Working => status[d] \in InFlight \cup {"failed"}
  BY DeployAssumption DEF TypeOK, Id, LaneOK, BlankBeyondCount, WorkingIsVisible
<1>1. CASE GuardedDeploy
  BY <1>0, <1>1 DEF GuardedDeploy, Insert, Flying, Id
<1>2. CASE UnguardedDeploy
  BY <1>0, <1>2 DEF UnguardedDeploy, Insert, Id
<1>3. CASE ExtractUpload
  BY <1>0, <1>3 DEF ExtractUpload
<1>4. ASSUME NEW a \in Artifact, ExtractFails(a) PROVE RowsStay
  BY <1>0, <1>4 DEF ExtractFails
<1>5. ASSUME NEW a \in Artifact, DeployUpload(a) PROVE RowsStay
  BY <1>0, <1>5 DEF DeployUpload, Insert, Id
<1>6. ASSUME NEW t \in Id, rollbackApp(t) PROVE RowsStay
  BY <1>0, <1>6 DEF rollbackApp, Insert, Retired, Id
<1>7. CASE promoteApp
  BY <1>0, <1>7 DEF promoteApp, Insert, Retired, Id
<1>8. CASE promoteAppFails
  BY <1>0, <1>8 DEF promoteAppFails, Id
<1>9. ASSUME NEW d \in Id, BeginThrows(d) PROVE RowsStay
  BY <1>0, <1>9 DEF BeginThrows, EndRun
<1>10. ASSUME NEW d \in Id, BeginGiven(d) PROVE RowsStay
  BY <1>0, <1>10 DEF BeginGiven, appendLog
<1>11. ASSUME NEW d \in Id, BeginFresh(d) PROVE RowsStay
  BY <1>0, <1>11 DEF BeginFresh, appendLog
<1>12. ASSUME NEW d \in Id, BeginReplay(d) PROVE RowsStay
  BY <1>0, <1>12 DEF BeginReplay, appendLog
<1>13. ASSUME NEW d \in Id, BeginFails(d) PROVE RowsStay
  BY <1>0, <1>13 DEF BeginFails, FailRun, EndRun
<1>14. ASSUME NEW d \in Id, Prepare(d) PROVE RowsStay
  BY <1>0, <1>14 DEF Prepare
<1>15. ASSUME NEW d \in Id, Build(d) PROVE RowsStay
  BY <1>0, <1>15 DEF Build, appendLog
<1>16. ASSUME NEW d \in Id, Inspect(d) PROVE RowsStay
  BY <1>0, <1>16 DEF Inspect, appendLog
<1>17. ASSUME NEW d \in Id, Stop(d) PROVE RowsStay
  BY <1>0, <1>17 DEF Stop, appendLog
<1>18. ASSUME NEW d \in Id, Clear(d) PROVE RowsStay
  BY <1>0, <1>18 DEF Clear
<1>19. ASSUME NEW d \in Id, Run(d) PROVE RowsStay
  BY <1>0, <1>19 DEF Run, appendLog
<1>20. ASSUME NEW d \in Id, Fail(d) PROVE RowsStay
  BY <1>0, <1>20 DEF Fail, FailRun, EndRun
<1>21. ASSUME NEW d \in Id, Publish(d) PROVE RowsStay
  BY <1>0, <1>21 DEF Publish
<1>22. ASSUME NEW d \in Id, Reject(d) PROVE RowsStay
  BY <1>0, <1>22 DEF Reject, FailRun, EndRun
<1>23. ASSUME NEW d \in Id, Unhealthy(d) PROVE RowsStay
  BY <1>0, <1>23 DEF Unhealthy, appendLog
<1>24. ASSUME NEW d \in Id, RevertStop(d) PROVE RowsStay
  BY <1>0, <1>24 DEF RevertStop, FailRun, EndRun, appendLog
<1>25. ASSUME NEW d \in Id, RevertClear(d) PROVE RowsStay
  BY <1>0, <1>25 DEF RevertClear
<1>26. ASSUME NEW d \in Id, RevertRun(d) PROVE RowsStay
  BY <1>0, <1>26 DEF RevertRun, FailRun, EndRun
<1>27. ASSUME NEW d \in Id, Finish(d) PROVE RowsStay
  BY <1>0, <1>27 DEF Finish, EndRun
<1>28. ASSUME NEW d \in Id, Age(d) PROVE RowsStay
  BY <1>0, <1>28 DEF Age, Flying
<1>29. CASE Crash
  BY <1>0, <1>29 DEF Crash
<1>30. CASE Boot
  BY <1>0, <1>30 DEF Boot, Swept, Flying
<1>31. CASE BootHeals
  BY <1>0, <1>31 DEF BootHeals, Insert, Swept, Flying, Id
<1>32. CASE UNCHANGED vars
  BY <1>32 DEF vars
<1> QED
  BY <1>1, <1>2, <1>3, <1>4, <1>5, <1>6, <1>7, <1>8, <1>9, <1>10, <1>11, <1>12, <1>13, <1>14, <1>15, <1>16, <1>17, <1>18, <1>19, <1>20, <1>21, <1>22, <1>23, <1>24, <1>25, <1>26, <1>27, <1>28, <1>29, <1>30, <1>31, <1>32
  DEF Next, deployApp

\* A published row stays published and a retired one retired, for any number of
\* runs, callers, crashes and boots.
THEOREM PublishedStays == Spec => PublishedRowsStay
<1>1. TypeOK /\ LaneOK /\ [Next]_vars => [RowsStay]_vars
  BY NextRowsStay
<1> QED
  BY <1>1, TypeCorrect, LaneCorrect, PTL DEF Spec, PublishedRowsStay

-----------------------------------------------------------------------------
(* The live release is never removed from under `current`.                 *)

\* What a step may not do to the live release.
LiveStays == (current \in disk /\ current' = current) => (current \in disk')

\* Only prunes and failing runs remove trees, and both spare the live one.
LEMMA NextLiveStays == [Next]_vars => LiveStays
<1> SUFFICES ASSUME [Next]_vars, current \in disk, current' = current
             PROVE  current \in disk'
  BY DEF LiveStays
<1> USE DEF rowVars, runVars, treeVars
<1>0. current \in pruneOldReleases(disk, current)
  BY PruneKeepsLive
<1>1. CASE GuardedDeploy
  BY <1>0, <1>1 DEF GuardedDeploy
<1>2. CASE UnguardedDeploy
  BY <1>0, <1>2 DEF UnguardedDeploy
<1>3. CASE ExtractUpload
  BY <1>0, <1>3 DEF ExtractUpload
<1>4. ASSUME NEW a \in Artifact, ExtractFails(a) PROVE current \in disk'
  BY <1>0, <1>4 DEF ExtractFails
<1>5. ASSUME NEW a \in Artifact, DeployUpload(a) PROVE current \in disk'
  BY <1>0, <1>5 DEF DeployUpload
<1>6. ASSUME NEW t \in Id, rollbackApp(t) PROVE current \in disk'
  BY <1>0, <1>6 DEF rollbackApp
<1>7. CASE promoteApp
  BY <1>0, <1>7 DEF promoteApp
<1>8. CASE promoteAppFails
  BY <1>0, <1>8 DEF promoteAppFails
<1>9. ASSUME NEW d \in Id, BeginThrows(d) PROVE current \in disk'
  BY <1>0, <1>9 DEF BeginThrows
<1>10. ASSUME NEW d \in Id, BeginGiven(d) PROVE current \in disk'
  BY <1>0, <1>10 DEF BeginGiven
<1>11. ASSUME NEW d \in Id, BeginFresh(d) PROVE current \in disk'
  BY <1>0, <1>11 DEF BeginFresh
<1>12. ASSUME NEW d \in Id, BeginReplay(d) PROVE current \in disk'
  BY <1>0, <1>12 DEF BeginReplay
<1>13. ASSUME NEW d \in Id, BeginFails(d) PROVE current \in disk'
  BY <1>0, <1>13, FailKeepsLive DEF BeginFails
<1>14. ASSUME NEW d \in Id, Prepare(d) PROVE current \in disk'
  BY <1>0, <1>14 DEF Prepare
<1>15. ASSUME NEW d \in Id, Build(d) PROVE current \in disk'
  BY <1>0, <1>15 DEF Build
<1>16. ASSUME NEW d \in Id, Inspect(d) PROVE current \in disk'
  BY <1>0, <1>16 DEF Inspect
<1>17. ASSUME NEW d \in Id, Stop(d) PROVE current \in disk'
  BY <1>0, <1>17 DEF Stop
<1>18. ASSUME NEW d \in Id, Clear(d) PROVE current \in disk'
  BY <1>0, <1>18 DEF Clear
<1>19. ASSUME NEW d \in Id, Run(d) PROVE current \in disk'
  BY <1>0, <1>19 DEF Run
<1>20. ASSUME NEW d \in Id, Fail(d) PROVE current \in disk'
  BY <1>0, <1>20, FailKeepsLive DEF Fail
<1>21. ASSUME NEW d \in Id, Publish(d) PROVE current \in disk'
  BY <1>0, <1>21 DEF Publish
<1>22. ASSUME NEW d \in Id, Reject(d) PROVE current \in disk'
  BY <1>0, <1>22, FailKeepsLive DEF Reject
<1>23. ASSUME NEW d \in Id, Unhealthy(d) PROVE current \in disk'
  BY <1>0, <1>23 DEF Unhealthy
<1>24. ASSUME NEW d \in Id, RevertStop(d) PROVE current \in disk'
  BY <1>0, <1>24, FailKeepsLive DEF RevertStop
<1>25. ASSUME NEW d \in Id, RevertClear(d) PROVE current \in disk'
  BY <1>0, <1>25 DEF RevertClear
<1>26. ASSUME NEW d \in Id, RevertRun(d) PROVE current \in disk'
  BY <1>0, <1>26, FailKeepsLive DEF RevertRun
<1>27. ASSUME NEW d \in Id, Finish(d) PROVE current \in disk'
  BY <1>0, <1>27 DEF Finish
<1>28. ASSUME NEW d \in Id, Age(d) PROVE current \in disk'
  BY <1>0, <1>28 DEF Age
<1>29. CASE Crash
  BY <1>0, <1>29 DEF Crash
<1>30. CASE Boot
  BY <1>0, <1>30 DEF Boot
<1>31. CASE BootHeals
  BY <1>0, <1>31 DEF BootHeals
<1>32. CASE UNCHANGED vars
  BY <1>32 DEF vars
<1> QED
  BY <1>1, <1>2, <1>3, <1>4, <1>5, <1>6, <1>7, <1>8, <1>9, <1>10, <1>11, <1>12, <1>13, <1>14, <1>15, <1>16, <1>17, <1>18, <1>19, <1>20, <1>21, <1>22, <1>23, <1>24, <1>25, <1>26, <1>27, <1>28, <1>29, <1>30, <1>31, <1>32
  DEF Next, deployApp

\* No prune and no failing run removes the release `current` points at, however
\* many releases there are and however few are kept.
THEOREM CurrentStaysOnDisk == Spec => CurrentNeverDeleted
<1>1. [Next]_vars => [LiveStays]_vars
  BY NextLiveStays
<1> QED
  BY <1>1, PTL DEF Spec, CurrentNeverDeleted, LiveStays

-----------------------------------------------------------------------------
(* A prune leaves the newest Keep releases beside the live one.            *)

\* The releases of dirs, but for the live one, that are newer than r.
Newer(dirs, live, r) == {q \in dirs \ {live} : q > r}

\* Sets of releases are finite, and a larger one has more members.
LEMMA NewerFinite ==
    ASSUME NEW dirs \in SUBSET Artifact, NEW live, NEW r
    PROVE  /\ IsFiniteSet(Newer(dirs, live, r)) /\ Cardinality(Newer(dirs, live, r)) \in Nat
           /\ \A T \in SUBSET Newer(dirs, live, r) :
                 /\ IsFiniteSet(T) /\ Cardinality(T) \in Nat
                 /\ Cardinality(T) <= Cardinality(Newer(dirs, live, r))
<1>1. IsFiniteSet(Artifact)
  BY DeployAssumption, FS_Interval DEF Artifact
<1>2. Newer(dirs, live, r) \in SUBSET Artifact
  BY DEF Newer
<1>3. IsFiniteSet(Newer(dirs, live, r))
  BY <1>1, <1>2, FS_Subset
<1> HIDE DEF Newer
<1> QED
  BY <1>3, FS_Subset, FS_CardinalityType

\* A set of releases has a newest one.
LEMMA NewestExists ==
    ASSUME NEW S \in SUBSET Artifact, S # {}
    PROVE  \E a \in S : IsNewest(a, S)
<1> DEFINE T == {MaxArts - a : a \in S}
<1>1. \A a \in S : a \in Nat /\ a <= MaxArts /\ MaxArts - a \in Nat
  BY DeployAssumption DEF Artifact
<1>2. T \subseteq Nat /\ T # {}
  BY <1>1
<1>3. PICK x \in T : \A y \in T : ~(<<y, x>> \in OpToRel(<, Nat))
  <2> HIDE DEF T
  <2> QED
    BY <1>2, NatLessThanWellFounded, WFMin
<1>4. \A y \in T : ~(y < x)
  <2> HIDE DEF T
  <2> QED
    BY <1>2, <1>3 DEF OpToRel
<1>5. PICK a \in S : x = MaxArts - a
  OBVIOUS
<1>6. \A b \in S : b <= a
  <2> TAKE b \in S
  <2>1. ~(MaxArts - b < MaxArts - a)
    BY <1>4, <1>5
  <2> QED
    BY <1>1, <2>1, DeployAssumption
<1> QED
  BY <1>6 DEF IsNewest

\* If Keep releases are newer than r, a prune leaves Keep that are newer than r:
\* the newest release it took away would have had too few above it.
LEMMA PruneLeavesNewer ==
    ASSUME NEW dirs \in SUBSET Artifact, NEW live, NEW r \in Nat,
           Cardinality(Newer(dirs, live, r)) >= Keep
    PROVE  Cardinality(Newer(pruneOldReleases(dirs, live), live, r)) >= Keep
<1> DEFINE B == Newer(dirs, live, r)
           K == Newer(pruneOldReleases(dirs, live), live, r)
<1>1. K = {q \in B : Cardinality(Newer(dirs, live, q)) < Keep}
  BY DEF Newer, pruneOldReleases
<1>2. K \in SUBSET B /\ B \in SUBSET Artifact
  BY <1>1 DEF Newer
<1>3. /\ IsFiniteSet(B) /\ Cardinality(B) \in Nat
      /\ IsFiniteSet(K) /\ Cardinality(K) \in Nat
  BY <1>2, NewerFinite
<1> SUFFICES ASSUME Cardinality(K) < Keep PROVE FALSE
  BY <1>3, DeployAssumption
<1> HIDE DEF B, K
<1>4. B \ K # {}
  <2>1. Cardinality(B) # Cardinality(K)
    BY <1>3, DeployAssumption DEF B
  <2> QED
    BY <1>2, <2>1
<1>5. PICK a \in B \ K : \A b \in B \ K : b <= a
  BY <1>2, <1>4, NewestExists DEF IsNewest
<1>6. Newer(dirs, live, a) \subseteq K
  <2> SUFFICES ASSUME NEW q \in Newer(dirs, live, a) PROVE q \in K
    OBVIOUS
  <2>1. q \in dirs \ {live} /\ q > a /\ a > r /\ q \in Nat /\ a \in Nat
    BY <1>2, <1>5 DEF Newer, B, Artifact
  <2>2. q \in B
    BY <2>1 DEF Newer, B
  <2>3. ~(q <= a)
    BY <2>1
  <2> QED
    BY <1>5, <2>2, <2>3
<1>7. /\ Cardinality(Newer(dirs, live, a)) \in Nat
      /\ Cardinality(Newer(dirs, live, a)) <= Cardinality(K)
  BY <1>3, <1>6, NewerFinite, FS_Subset
<1>8. Cardinality(Newer(dirs, live, a)) < Keep
  BY <1>3, <1>7, DeployAssumption
<1> QED
  BY <1>1, <1>5, <1>8

\* What a prune takes away has Keep newer releases among what it leaves.
LEMMA PrunedIsOld ==
    ASSUME NEW dirs \in SUBSET Artifact, NEW live,
           NEW r \in dirs \ pruneOldReleases(dirs, live)
    PROVE  Cardinality(Newer(pruneOldReleases(dirs, live), live, r)) >= Keep
<1>1. ~(Cardinality(Newer(dirs, live, r)) < Keep)
  BY DEF pruneOldReleases, Newer
<1>2. Cardinality(Newer(dirs, live, r)) >= Keep /\ r \in Nat
  BY <1>1, NewerFinite, DeployAssumption DEF Artifact
<1> QED
  BY <1>2, PruneLeavesNewer

\* So it is when a prune follows a prune: what the first one took away is older
\* than Keep releases, of which the second one leaves Keep.
LEMMA PrunedTwiceIsOld ==
    ASSUME NEW dirs \in SUBSET Artifact, NEW live, NEW kept, NEW left,
           kept = pruneOldReleases(dirs, live), left = pruneOldReleases(kept, live),
           NEW r \in dirs \ left
    PROVE  Cardinality(Newer(left, live, r)) >= Keep
<1>1. kept \in SUBSET Artifact
  BY PruneRemoves
<1>2. CASE r \in kept
  BY <1>1, <1>2, PrunedIsOld
<1>3. CASE r \notin kept
  <2>1. Cardinality(Newer(kept, live, r)) >= Keep /\ r \in Nat
    BY <1>3, PrunedIsOld DEF Artifact
  <2> QED
    BY <1>1, <2>1, PruneLeavesNewer
<1> QED
  BY <1>2, <1>3

\* Where a tree that disappears in a step goes.
OwnRunFails(r) == \E d \in Id : art[d] = r /\ pc[d] # "none" /\ pc'[d] = "none"
GoesRightly(r) == OwnRunFails(r) \/ Cardinality(Newer(disk', current', r)) >= Keep
TreesGoRightly == \A r \in disk \ disk' : GoesRightly(r)

\* A failing run removes its own checkout and what a prune removes.
LEMMA FailGoesRightly ==
    ASSUME TypeOK, NEW d \in Id, NEW live, FailRun(d, disk, live), pc[d] # "none",
           current' = live
    PROVE  TreesGoRightly
<1> SUFFICES ASSUME NEW r \in disk \ disk' PROVE GoesRightly(r)
  BY DEF TreesGoRightly
<1> DEFINE dirs == IF art[d] = live THEN disk ELSE disk \ {art[d]}
<1>1. disk' = pruneOldReleases(dirs, live) /\ dirs \in SUBSET Artifact
  BY DEF FailRun, TypeOK
<1>2. pc'[d] = "none"
  BY DEF FailRun, EndRun, TypeOK
<1>3. CASE r = art[d] /\ r \notin dirs
  BY <1>2, <1>3 DEF GoesRightly, OwnRunFails
<1>4. CASE r \in dirs
  <2> HIDE DEF dirs
  <2> QED
    BY <1>1, <1>4, PrunedIsOld DEF GoesRightly
<1> QED
  BY <1>3, <1>4

\* A prune removes what is older than Keep releases that it leaves, whatever is
\* made beside it.
LEMMA PruneGoesRightly ==
    ASSUME TypeOK, NEW more, disk' = pruneOldReleases(disk, current) \cup more,
           disk' \in SUBSET Artifact, current' = current
    PROVE  TreesGoRightly
<1> SUFFICES ASSUME NEW r \in disk \ disk' PROVE GoesRightly(r)
  BY DEF TreesGoRightly
<1> DEFINE kept == pruneOldReleases(disk, current)
<1>1. disk \in SUBSET Artifact /\ r \in disk \ kept
  BY DEF TypeOK
<1>2. Cardinality(Newer(kept, current, r)) >= Keep
  BY <1>1, PrunedIsOld
<1>3. Newer(kept, current, r) \in SUBSET Newer(disk', current', r)
  BY DEF Newer
<1>4. /\ Cardinality(Newer(disk', current', r)) \in Nat
      /\ Cardinality(Newer(kept, current, r)) \in Nat
      /\ Cardinality(Newer(kept, current, r)) <= Cardinality(Newer(disk', current', r))
  <2> HIDE DEF kept
  <2> QED
    BY <1>3, NewerFinite
<1> HIDE DEF kept
<1> QED
  BY <1>2, <1>4, DeployAssumption DEF GoesRightly

\* A step that removes no tree needs no excuse.
LEMMA NothingGoes ==
    ASSUME disk \subseteq disk'
    PROVE  TreesGoRightly
BY DEF TreesGoRightly

\* Trees go only in the prunes at the begin and at the end of a run, and when a
\* run fails.
LEMMA NextTreesGo == TypeOK /\ TypeOK' /\ [Next]_vars => TreesGoRightly
<1> SUFFICES ASSUME TypeOK, TypeOK', [Next]_vars PROVE TreesGoRightly
  OBVIOUS
<1> USE DEF rowVars, runVars, treeVars
<1>0. disk' \in SUBSET Artifact
  BY DEF TypeOK
<1>1. CASE GuardedDeploy \/ UnguardedDeploy \/ ExtractUpload \/ promoteApp \/ promoteAppFails
  BY <1>1, NothingGoes
  DEF GuardedDeploy, UnguardedDeploy, ExtractUpload, promoteApp, promoteAppFails
<1>2. ASSUME NEW a \in Artifact, ExtractFails(a) \/ DeployUpload(a) PROVE TreesGoRightly
  BY <1>2, NothingGoes DEF ExtractFails, DeployUpload
<1>3. ASSUME NEW t \in Id, rollbackApp(t) PROVE TreesGoRightly
  BY <1>3, NothingGoes DEF rollbackApp
<1>4. ASSUME NEW d \in Id, BeginThrows(d) PROVE TreesGoRightly
  BY <1>4, NothingGoes DEF BeginThrows
<1>5. ASSUME NEW d \in Id, BeginGiven(d) PROVE TreesGoRightly
  <2>1. disk' = pruneOldReleases(disk, current) \cup {} /\ current' = current
    BY <1>5 DEF BeginGiven
  <2> QED
    BY <1>0, <2>1, PruneGoesRightly
<1>6. ASSUME NEW d \in Id, BeginFresh(d) PROVE TreesGoRightly
  <2>1. PICK more : disk' = pruneOldReleases(disk, current) \cup more
    BY <1>6 DEF BeginFresh
  <2>2. current' = current
    BY <1>6 DEF BeginFresh
  <2> QED
    BY <1>0, <2>1, <2>2, PruneGoesRightly
<1>7. ASSUME NEW d \in Id, BeginReplay(d) PROVE TreesGoRightly
  <2>1. disk' = pruneOldReleases(disk, current) \cup {} /\ current' = current
    BY <1>7 DEF BeginReplay
  <2> QED
    BY <1>0, <2>1, PruneGoesRightly
<1>8. ASSUME NEW d \in Id, BeginFails(d) PROVE TreesGoRightly
  <2> SUFFICES ASSUME NEW r \in disk \ disk' PROVE GoesRightly(r)
    BY DEF TreesGoRightly
  <2> DEFINE kept == pruneOldReleases(disk, current)
  <2>1. kept \in SUBSET Artifact /\ disk \in SUBSET Artifact
    BY PruneRemoves DEF TypeOK
  <2>2. art[d] \notin kept /\ current' = current
    BY <1>8, <2>1 DEF BeginFails, Artifact
  <2>3. disk' = pruneOldReleases(kept, current)
    <3>1. disk' = pruneOldReleases(IF art[d] = current THEN kept ELSE kept \ {art[d]}, current)
      BY <1>8 DEF BeginFails, FailRun
    <3>2. kept \ {art[d]} = kept
      BY <2>2
    <3> HIDE DEF kept
    <3> QED
      BY <3>1, <3>2
  <2>4. Cardinality(Newer(disk', current, r)) >= Keep
    <3>1. kept = pruneOldReleases(disk, current)
      OBVIOUS
    <3> HIDE DEF kept
    <3> QED
      BY <2>1, <2>3, <3>1, PrunedTwiceIsOld
  <2> QED
    BY <2>2, <2>4 DEF GoesRightly
<1>9. ASSUME NEW d \in Id, Prepare(d) \/ Build(d) \/ Inspect(d) \/ Stop(d) \/ Clear(d)
                           \/ Run(d) \/ Publish(d) \/ Unhealthy(d) \/ RevertClear(d)
      PROVE  TreesGoRightly
  BY <1>9, NothingGoes
  DEF Prepare, Build, Inspect, Stop, Clear, Run, Publish, Unhealthy, RevertClear
<1>10. ASSUME NEW d \in Id, Fail(d) PROVE TreesGoRightly
  BY <1>10, FailGoesRightly DEF Fail
<1>11. ASSUME NEW d \in Id, Reject(d) PROVE TreesGoRightly
  BY <1>11, FailGoesRightly DEF Reject
<1>12. ASSUME NEW d \in Id, RevertStop(d) PROVE TreesGoRightly
  <2>1. CASE prev[d] = 0
    BY <1>12, <2>1, FailGoesRightly DEF RevertStop
  <2>2. CASE prev[d] # 0
    BY <1>12, <2>2, NothingGoes DEF RevertStop
  <2> QED
    BY <2>1, <2>2
<1>13. ASSUME NEW d \in Id, RevertRun(d) PROVE TreesGoRightly
  BY <1>13, FailGoesRightly DEF RevertRun
<1>14. ASSUME NEW d \in Id, Finish(d) PROVE TreesGoRightly
  <2>1. disk' = pruneOldReleases(disk, current) \cup {} /\ current' = current
    BY <1>14 DEF Finish
  <2> QED
    BY <1>0, <2>1, PruneGoesRightly
<1>15. ASSUME NEW d \in Id, Age(d) PROVE TreesGoRightly
  BY <1>15, NothingGoes DEF Age
<1>16. CASE Crash \/ Boot \/ BootHeals
  BY <1>16, NothingGoes DEF Crash, Boot, BootHeals
<1>17. CASE UNCHANGED vars
  BY <1>17, NothingGoes DEF vars
<1> QED
  BY <1>1, <1>2, <1>3, <1>4, <1>5, <1>6, <1>7, <1>8, <1>9, <1>10, <1>11, <1>12, <1>13,
     <1>14, <1>15, <1>16, <1>17
  DEF Next, deployApp

\* Every tree that disappears belongs to a run that fails, or is older than Keep
\* releases that stay beside the live one, for any number of releases, runs that
\* prune at once, and any Keep.
THEOREM PruneCorrect == Spec => PruneKeepsNewest
<1>1. TypeOK /\ TypeOK' /\ [Next]_vars => [TreesGoRightly]_vars
  BY NextTreesGo
<1>2. TreesGoRightly =>
        \A r \in disk \ disk' :
          \/ \E d \in Id : art[d] = r /\ pc[d] # "none" /\ pc'[d] = "none"
          \/ Cardinality({q \in disk' \ {current'} : q > r}) >= Keep
  BY DEF TreesGoRightly, GoesRightly, OwnRunFails, Newer
<1> QED
  BY <1>1, <1>2, TypeCorrect, PTL DEF Spec, PruneKeepsNewest

=============================================================================
