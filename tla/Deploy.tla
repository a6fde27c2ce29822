------------------------------- MODULE Deploy -------------------------------
(***************************************************************************)
(* The deployment lane of one app in one environment: the deployments      *)
(* table, the release directories, the `current` symlink, the container,   *)
(* and the deployApp() runs that share them (server/services/deployer.js). *)
(* The server is one Node process, so code between two awaits is one step; *)
(* any number of deployApp() runs interleave at their awaits.              *)
(*                                                                         *)
(* A tree of source files and a pulled image are both an artifact, numbered *)
(* in the order they were made; 0 stands for none.  A tree is on `disk`    *)
(* until something removes it, a pulled image never is.                    *)
(***************************************************************************)
EXTENDS Naturals, FiniteSets

CONSTANTS Sources,      \* apps.source_type values considered
          MaxDeploys,   \* bound on the rows of the deployments table
          MaxArts,      \* bound on the artifacts made
          Keep          \* releases kept beside the live one (5 in the code)

ASSUME DeployAssumption ==
    /\ Sources \subseteq {"git", "upload", "image"}
    /\ MaxDeploys \in Nat /\ MaxArts \in Nat /\ Keep \in Nat

VARIABLES
    source,     \* apps.source_type
    count,      \* rows inserted so far; ids are 1 .. count
    status,     \* deployments.status
    fresh,      \* started less than STALE_DEPLOY_SECONDS ago
    path,       \* deployments.release_path, or image_ref for an image app
    guarded,    \* rows inserted behind assertNoInflightDeploy
    pc,         \* where the deployApp() run of a row is
    art,        \* the artifact that run works on
    prev,       \* the image it captured to revert to
    made,       \* artifacts made so far
    uploads,    \* artifacts whose directory name contains 'upload'
    extracting, \* uploads still being extracted
    disk,       \* release directories that exist
    current,    \* target of the `current` symlink
    ctr,        \* artifact the container runs, 0 when there is none
    up          \* the server process is running

rowVars  == <<count, status, fresh, path, guarded>>
runVars  == <<pc, art, prev>>
treeVars == <<made, uploads, extracting, disk, current>>
vars == <<source, rowVars, runVars, treeVars, ctr, up>>

Id       == 1 .. MaxDeploys
Artifact == 1 .. MaxArts

\* Faulty: the status a run has while docker is asked is forgotten.
InFlightButDeploying == {"pending", "building"}

InFlight  == {"pending", "building", "deploying"}
Published == {"live", "rolled_back"}
Status    == InFlight \cup Published \cup {"absent", "failed"}

\* A run is working until it has published or failed.  Each name is the await
\* the run is suspended at.
Working == {"called", "staged", "checking", "building", "inspected", "stopped",
            "starting", "probing", "reverting", "reverted", "restarting"}
Pc      == Working \cup {"none", "finishing"}

\* The rows, runs, trees and container are what the tables and directories hold:
\* in particular no status outside the CHECK constraint is ever written, and no
\* artifact number is used that was not made within the bound.
TypeOK ==
    /\ source \in Sources
    /\ count \in 0 .. MaxDeploys
    /\ status \in [Id -> Status]
    /\ fresh \in [Id -> BOOLEAN]
    /\ path \in [Id -> 0 .. MaxArts]
    /\ guarded \subseteq Id
    /\ pc \in [Id -> Pc]
    /\ art \in [Id -> 0 .. MaxArts]
    /\ prev \in [Id -> 0 .. MaxArts]
    /\ made \in 0 .. MaxArts
    /\ uploads \subseteq Artifact
    /\ extracting \subseteq Artifact
    /\ disk \subseteq Artifact
    /\ current \in 0 .. MaxArts
    /\ ctr \in 0 .. MaxArts
    /\ up \in BOOLEAN

Init ==
    /\ source \in Sources
    /\ count = 0
    /\ status = [d \in Id |-> "absent"]
    /\ fresh = [d \in Id |-> TRUE]
    /\ path = [d \in Id |-> 0]
    /\ guarded = {}
    /\ pc = [d \in Id |-> "none"]
    /\ art = [d \in Id |-> 0]
    /\ prev = [d \in Id |-> 0]
    /\ made = 0
    /\ uploads = {} /\ extracting = {} /\ disk = {}
    /\ current = 0
    /\ ctr = 0
    /\ up = TRUE

-----------------------------------------------------------------------------
(* Helpers.                                                                *)

\* Faulty: the live release competes for the Keep places like any other.
PruneCountingLive(dirs, live) ==
    {r \in dirs : Cardinality({q \in dirs : q > r}) < Keep}

\* Faulty: the live release uses up one of the Keep places.
PruneOneTooMany(dirs, live) ==
    {r \in dirs : r = live \/ Cardinality({q \in dirs : q > r}) < Keep}

\* The directories left by a prune: the newest Keep beside the live one.
pruneOldReleases(dirs, live) ==
    {r \in dirs : r = live \/ Cardinality({q \in dirs \ {live} : q > r}) < Keep}

IsNewest(d, S) == d \in S /\ \A e \in S : e <= d

Flying == {d \in Id : status[d] \in InFlight}

\* appendLog rewrites the row's status on every line until deployFinished.
appendLog(d) == status' = [status EXCEPT ![d] = "building"]

\* A row is inserted and its deployApp() run called on artifact a (0: to be
\* resolved by the run itself).
Insert(st, a, p, before) ==
    /\ count < MaxDeploys
    /\ count' = count + 1
    /\ status' = [before EXCEPT ![count + 1] = st]
    /\ path' = [path EXCEPT ![count + 1] = p]
    /\ pc' = [pc EXCEPT ![count + 1] = "called"]
    /\ art' = [art EXCEPT ![count + 1] = a]
    /\ UNCHANGED <<source, fresh, prev>>

\* The run is over and its local variables with it.
EndRun(d) ==
    /\ pc' = [pc EXCEPT ![d] = "none"]
    /\ art' = [art EXCEPT ![d] = 0]
    /\ prev' = [prev EXCEPT ![d] = 0]

\* The catch block of deployApp(): remove the run's own checkout unless it is
\* live, prune, mark the row.
FailRun(d, dirs, live) ==
    /\ status' = [status EXCEPT ![d] = "failed"]
    /\ EndRun(d)
    /\ disk' = pruneOldReleases(IF art[d] = live THEN dirs ELSE dirs \ {art[d]}, live)

Retired == [d \in Id |-> IF status[d] = "live" THEN "rolled_back" ELSE status[d]]

-----------------------------------------------------------------------------
(* Callers.                                                                *)

\* Faulty: rows in flight block however old they are.
NothingInFlight == Flying = {}

\* POST /deploy/:env and appcrane_deploy.  The guard refuses while the newest
\* row in flight is fresh and fails every stale one.
assertNoInflightDeploy ==
    Flying = {} \/ \E d \in Id : IsNewest(d, Flying) /\ ~fresh[d]

GuardedDeploy ==
    /\ up
    /\ assertNoInflightDeploy
    /\ Insert("pending", 0, 0,
              [d \in Id |-> IF d \in Flying THEN "failed" ELSE status[d]])
    /\ guarded' = guarded \cup {count + 1}
    /\ UNCHANGED <<treeVars, ctr, up>>

\* Every caller without the guard that names no artifact: webhook, rename,
\* bulk redeploy, studio, promotion of a git or image app.
UnguardedDeploy ==
    /\ up
    /\ Insert("pending", 0, 0, status)
    /\ UNCHANGED <<guarded, treeVars, ctr, up>>

\* deployUploadedArtifact: the directory exists while the bundle is extracted,
\* and stays behind when the extraction fails.
ExtractUpload ==
    /\ up /\ source = "upload" /\ made < MaxArts
    /\ made' = made + 1
    /\ uploads' = uploads \cup {made + 1}
    /\ extracting' = extracting \cup {made + 1}
    /\ disk' = disk \cup {made + 1}
    /\ UNCHANGED <<source, rowVars, runVars, current, ctr, up>>

ExtractFails(a) ==
    /\ a \in extracting
    /\ extracting' = extracting \ {a}
    /\ UNCHANGED <<source, rowVars, runVars, made, uploads, disk, current, ctr, up>>

DeployUpload(a) ==
    /\ a \in extracting
    /\ Insert("pending", a, 0, status)
    /\ extracting' = extracting \ {a}
    /\ UNCHANGED <<guarded, made, uploads, disk, current, ctr, up>>

\* rollbackApp: the target is any published row whose artifact is still there.
\* `current` moves and the live rows are retired before the target has run.
rollbackApp(t) ==
    /\ up
    /\ status[t] \in Published
    /\ path[t] # 0
    /\ source # "image" => path[t] \in disk
    /\ Insert("pending", path[t], path[t], Retired)
    /\ current' = IF source = "image" THEN current ELSE path[t]
    /\ UNCHANGED <<guarded, made, uploads, extracting, disk, ctr, up>>

\* promoteApp for an upload app: a copy of the sandbox tree becomes `current`
\* and the live rows are retired before the copy has run.  The sandbox row and
\* its health are inputs.
promoteApp ==
    /\ up /\ source = "upload" /\ made < MaxArts
    /\ made' = made + 1
    /\ disk' = disk \cup {made + 1}
    /\ current' = made + 1
    /\ Insert("deploying", made + 1, made + 1, Retired)
    /\ UNCHANGED <<guarded, uploads, extracting, ctr, up>>

\* The copy fails half way: the row fails, the partial tree stays.
promoteAppFails ==
    /\ up /\ source = "upload" /\ made < MaxArts /\ count < MaxDeploys
    /\ made' = made + 1
    /\ disk' = disk \cup {made + 1}
    /\ count' = count + 1
    /\ status' = [status EXCEPT ![count + 1] = "failed"]
    /\ UNCHANGED <<source, fresh, path, guarded, runVars, uploads, extracting,
                   current, ctr, up>>

-----------------------------------------------------------------------------
(* deployApp(), from its call to its last effect.                          *)

\* mkdirSync or chown bookkeeping throws before the try: the row keeps the
\* status it was inserted with and no run is left to change it.
BeginThrows(d) ==
    /\ pc[d] = "called"
    /\ EndRun(d)
    /\ UNCHANGED <<source, rowVars, treeVars, ctr, up>>

\* An artifact given by the caller: rollback, promotion, upload.
BeginGiven(d) ==
    /\ pc[d] = "called" /\ art[d] # 0
    /\ pc' = [pc EXCEPT ![d] = "staged"]
    /\ appendLog(d)
    /\ disk' = pruneOldReleases(disk, current)
    /\ UNCHANGED <<source, count, fresh, path, guarded, art, prev, made, uploads,
                   extracting, current, ctr, up>>

\* A fresh clone of the branch (git), or a fresh pull whose digest is recorded
\* at once (image).
BeginFresh(d) ==
    /\ pc[d] = "called" /\ art[d] = 0 /\ source # "upload" /\ made < MaxArts
    /\ made' = made + 1
    /\ pc' = [pc EXCEPT ![d] = "staged"]
    /\ art' = [art EXCEPT ![d] = made + 1]
    /\ appendLog(d)
    /\ path' = [path EXCEPT ![d] = IF source = "image" THEN made + 1 ELSE @]
    /\ disk' = pruneOldReleases(disk, current)
                 \cup (IF source = "git" THEN {made + 1} ELSE {})
    /\ UNCHANGED <<source, count, fresh, guarded, prev, uploads, extracting,
                   current, ctr, up>>

\* A redeploy of an upload app replays the newest directory named 'upload'.
BeginReplay(d) ==
    /\ pc[d] = "called" /\ art[d] = 0 /\ source = "upload"
    /\ LET kept == pruneOldReleases(disk, current) IN
       \E r \in Artifact :
          /\ IsNewest(r, uploads \cap kept)
          /\ art' = [art EXCEPT ![d] = r]
          /\ disk' = kept
    /\ pc' = [pc EXCEPT ![d] = "staged"]
    /\ appendLog(d)
    /\ UNCHANGED <<source, count, fresh, path, guarded, prev, made, uploads,
                   extracting, current, ctr, up>>

\* The clone or the pull fails, or no upload is left to replay.
BeginFails(d) ==
    /\ pc[d] = "called" /\ art[d] = 0
    /\ source = "upload" => uploads \cap pruneOldReleases(disk, current) = {}
    /\ FailRun(d, pruneOldReleases(disk, current), current)
    /\ UNCHANGED <<source, count, fresh, path, guarded, made, uploads,
                   extracting, current, ctr, up>>

\* Commit verified and manifest read (a missing one only warns): the row says
\* 'deploying' while docker is asked whether it is there.
Prepare(d) ==
    /\ pc[d] = "staged"
    /\ pc' = [pc EXCEPT ![d] = "checking"]
    /\ status' = [status EXCEPT ![d] = "deploying"]
    /\ UNCHANGED <<source, count, fresh, path, guarded, art, prev, treeVars, ctr, up>>

\* The build starts from the tree; one pruned meanwhile fails it.
Build(d) ==
    /\ pc[d] = "checking"
    /\ source # "image" => art[d] \in disk
    /\ pc' = [pc EXCEPT ![d] = "building"]
    /\ appendLog(d)
    /\ UNCHANGED <<source, count, fresh, path, guarded, art, prev, treeVars, ctr, up>>

\* Image built and pre-flight passed; the image to revert to is captured.  A
\* failing docker inspect captures none.
Inspect(d) ==
    /\ pc[d] = "building"
    /\ pc' = [pc EXCEPT ![d] = "inspected"]
    /\ \E image \in {ctr, 0} : prev' = [prev EXCEPT ![d] = image]
    /\ appendLog(d)
    /\ UNCHANGED <<source, count, fresh, path, guarded, art, treeVars, ctr, up>>

\* stopApp swallows the errors of docker stop and docker rm.
stopApp == \E left \in {0, ctr} : ctr' = left

Stop(d) ==
    /\ pc[d] = "inspected"
    /\ pc' = [pc EXCEPT ![d] = "stopped"]
    /\ stopApp
    /\ appendLog(d)
    /\ UNCHANGED <<source, count, fresh, path, guarded, art, prev, treeVars, up>>

\* startApp removes whatever holds the container's name ...
Clear(d) ==
    /\ pc[d] = "stopped"
    /\ pc' = [pc EXCEPT ![d] = "starting"]
    /\ stopApp
    /\ UNCHANGED <<source, rowVars, art, prev, treeVars, up>>

\* ... and then runs the new one, which fails while the name is taken.
Run(d) ==
    /\ pc[d] = "starting" /\ ctr = 0
    /\ ctr' = art[d]
    /\ pc' = [pc EXCEPT ![d] = "probing"]
    /\ appendLog(d)
    /\ UNCHANGED <<source, count, fresh, path, guarded, art, prev, treeVars, up>>

\* A throw at any await before the probe: verification, docker, build,
\* pre-flight, network, docker run.  None of them reverts the container.
Fail(d) ==
    /\ pc[d] \in {"staged", "checking", "building", "stopped", "starting"}
    /\ FailRun(d, disk, current)
    /\ UNCHANGED <<source, count, fresh, path, guarded, made, uploads,
                   extracting, current, ctr, up>>

\* The probe asks a port, so whatever container is up answers it.
Publish(d) ==
    /\ pc[d] = "probing" /\ ctr # 0
    /\ source # "image" => art[d] \in disk
    /\ current' = IF source = "image" THEN current ELSE art[d]
    /\ pc' = [pc EXCEPT ![d] = "finishing"]
    /\ status' = [status EXCEPT ![d] = "live"]
    /\ path' = [path EXCEPT ![d] = art[d]]
    /\ UNCHANGED <<source, count, fresh, guarded, art, prev, made, uploads,
                   extracting, disk, ctr, up>>

\* The symlink is verified after it was moved: its target is gone, or holds
\* neither package.json nor deployhub.json.
Reject(d) ==
    /\ pc[d] = "probing" /\ ctr # 0 /\ source # "image"
    /\ current' = art[d]
    /\ FailRun(d, disk, art[d])
    /\ UNCHANGED <<source, count, fresh, path, guarded, made, uploads,
                   extracting, ctr, up>>

\* The probe timed out or boot-watch saw the container die.
Unhealthy(d) ==
    /\ pc[d] = "probing"
    /\ pc' = [pc EXCEPT ![d] = "reverting"]
    /\ appendLog(d)
    /\ UNCHANGED <<source, count, fresh, path, guarded, art, prev, treeVars, ctr, up>>

RevertStop(d) ==
    /\ pc[d] = "reverting"
    /\ stopApp
    /\ IF prev[d] = 0
       THEN FailRun(d, disk, current)
       ELSE /\ pc' = [pc EXCEPT ![d] = "reverted"]
            /\ appendLog(d)
            /\ UNCHANGED <<art, prev, disk>>
    /\ UNCHANGED <<source, count, fresh, path, guarded, made, uploads,
                   extracting, current, up>>

RevertClear(d) ==
    /\ pc[d] = "reverted"
    /\ pc' = [pc EXCEPT ![d] = "restarting"]
    /\ stopApp
    /\ UNCHANGED <<source, rowVars, art, prev, treeVars, up>>

\* An error of the reverting start is swallowed.
RevertRun(d) ==
    /\ pc[d] = "restarting"
    /\ \E runs \in BOOLEAN : ctr' = IF runs /\ ctr = 0 THEN prev[d] ELSE ctr
    /\ FailRun(d, disk, current)
    /\ UNCHANGED <<source, count, fresh, path, guarded, made, uploads,
                   extracting, current, up>>

\* Faulty: the log lines after publication still write the status.
FinishLogging(d) ==
    /\ pc[d] = "finishing"
    /\ EndRun(d)
    /\ appendLog(d)
    /\ disk' = pruneOldReleases(disk, current)
    /\ UNCHANGED <<source, count, fresh, path, guarded, made, uploads, extracting,
                   current, ctr, up>>

\* After the row went live: Caddy, the asset probe, the last prune.  The log
\* no longer touches the status.
Finish(d) ==
    /\ pc[d] = "finishing"
    /\ EndRun(d)
    /\ disk' = pruneOldReleases(disk, current)
    /\ UNCHANGED <<source, rowVars, made, uploads, extracting,
                   current, ctr, up>>

-----------------------------------------------------------------------------
(* Time, crash and boot.                                                   *)

\* Half an hour passes: row d and every older one are stale.
Age(d) ==
    /\ d \in Flying /\ fresh[d]
    /\ fresh' = [e \in Id |-> fresh[e] /\ e > d]
    /\ UNCHANGED <<source, count, status, path, guarded, runVars, treeVars, ctr, up>>

\* The server process dies, alone or with the host: files survive it, and the
\* container only alone, since nothing but the server starts it again.
Crash ==
    /\ up
    /\ up' = FALSE
    /\ pc' = [d \in Id |-> "none"]
    /\ art' = [d \in Id |-> 0]
    /\ prev' = [d \in Id |-> 0]
    /\ extracting' = {}
    /\ ctr' \in {0, ctr}
    /\ UNCHANGED <<source, rowVars, made, uploads, disk, current>>

\* Faulty: the boot sweep forgets the rows whose build was running.
SweptButBuilding ==
    [d \in Id |-> IF status[d] \in {"pending", "deploying"} THEN "failed" ELSE status[d]]

Swept == [d \in Id |-> IF d \in Flying THEN "failed" ELSE status[d]]

Boot ==
    /\ ~up
    /\ up' = TRUE
    /\ status' = Swept
    /\ UNCHANGED <<source, count, fresh, path, guarded, runVars, treeVars, ctr>>

\* Boot also redeploys the app when its newest row is live, more than five
\* minutes old, and no container runs.
BootHeals ==
    /\ ~up /\ ctr = 0
    /\ \E d \in Id : d = count /\ Swept[d] = "live"
    /\ up' = TRUE
    /\ Insert("pending", 0, 0, Swept)
    /\ UNCHANGED <<guarded, treeVars, ctr>>

-----------------------------------------------------------------------------

deployApp(d) ==
    \/ BeginThrows(d) \/ BeginGiven(d) \/ BeginFresh(d) \/ BeginReplay(d)
    \/ BeginFails(d) \/ Prepare(d) \/ Build(d) \/ Inspect(d) \/ Stop(d)
    \/ Clear(d) \/ Run(d) \/ Fail(d) \/ Publish(d) \/ Reject(d) \/ Unhealthy(d) \/ RevertStop(d)
    \/ RevertClear(d) \/ RevertRun(d) \/ Finish(d)

Next ==
    \/ GuardedDeploy \/ UnguardedDeploy
    \/ ExtractUpload
    \/ \E a \in Artifact : ExtractFails(a) \/ DeployUpload(a)
    \/ \E t \in Id : rollbackApp(t)
    \/ promoteApp \/ promoteAppFails
    \/ \E d \in Id : deployApp(d) \/ Age(d)
    \/ Crash \/ Boot \/ BootHeals

\* Time passes and systemd restarts the server.  No run is assumed to make
\* progress: a docker build has no timeout.
Fairness == WF_vars(\E d \in Id : Age(d)) /\ WF_vars(Boot)

Spec == Init /\ [][Next]_vars /\ Fairness

-----------------------------------------------------------------------------
(* What holds of the rows and the runs.                                    *)

\* Younger rows are the fresher ones: started_at follows the id.
FreshnessFollowsId == \A d, e \in Id : e < d /\ fresh[e] => fresh[d]

\* Rows not inserted yet are blank, and only inserted rows carry a run.
BlankBeyondCount ==
    /\ \A d \in Id : d > count => status[d] = "absent" /\ fresh[d] /\ pc[d] = "none"
    /\ guarded \subseteq 1 .. count

\* A run that is still working is visible to the guard as a row in flight,
\* unless its row was reclaimed, and then its time had run out.
WorkingIsVisible ==
    \A d \in Id : pc[d] \in Working =>
        status[d] \in InFlight \/ (status[d] = "failed" /\ ~fresh[d])

\* After publication a run no longer touches the status of its row.
FinishingIsPublished == \A d \in Id : pc[d] = "finishing" => status[d] \in Published

\* A row reads 'building' only while a run of this process stands behind it:
\* the boot sweep leaves no orphan of the previous process.
BuildingHasProcess ==
    up => \A d \in Id : status[d] = "building" => pc[d] # "none"

\* A dead server runs nothing.
DownMeansNoRun == ~up => extracting = {} /\ \A d \in Id : pc[d] = "none"

\* A run that has not begun has logged nothing.
CalledIsQuiet == \A d \in Id : pc[d] = "called" => status[d] # "building"

\* Everything the guard, the log and the boot sweep rely on together.
LaneOK ==
    /\ FreshnessFollowsId /\ BlankBeyondCount /\ WorkingIsVisible
    /\ FinishingIsPublished /\ BuildingHasProcess /\ DownMeansNoRun
    /\ CalledIsQuiet

\* The deployments that hold the lane, and those whose half hour is over.
Holders == {d \in guarded : pc[d] \in Working}
Expired == {d \in Id : ~fresh[d]}

Lease == INSTANCE DeployLease WITH
            Client <- Id, holders <- Holders, expired <- Expired

\* assertNoInflightDeploy grants a lease on the lane to the deployments that ask
\* it: they acquire it only when every earlier holder is late, whatever the rows
\* of other callers, failures, crashes and boots do to the table it reads.
ImplementsLease == Lease!Spec

\* Hence no two deployments that came through assertNoInflightDeploy work on the
\* lane at once while both are within their half hour (the deploy storm).
OneFreshDeploy == Lease!OneFreshHolder

\* What a step may not do to a published or retired row.
RowsStay == \A d \in Id :
    /\ status[d] \in Published => status'[d] \in Published
    /\ status[d] = "rolled_back" => status'[d] = "rolled_back"

\* A published row stays published, and a retired one stays retired, whatever
\* its own run (whose log lines write the status), other runs, a reclaim, a
\* crash or a boot do afterwards.
PublishedRowsStay == [][RowsStay]_vars

\* The release `current` points at is never removed from under it, neither by
\* a prune nor by the removal of a failed checkout.
CurrentNeverDeleted ==
    [][(current \in disk /\ current' = current) => (current \in disk')]_vars

\* A tree disappears only with its own failed run, or when Keep newer ones
\* beside the live one remain.
PruneKeepsNewest ==
    [][\A r \in disk \ disk' :
          \/ \E d \in Id : art[d] = r /\ pc[d] # "none" /\ pc'[d] = "none"
          \/ Cardinality({q \in disk' \ {current'} : q > r}) >= Keep]_vars

\* Whatever builds hang, runs crash at their start or servers die, the guard
\* admits a deployment again and again ("can't wedge an app's deploys").
NeverWedged == []<>(up /\ assertNoInflightDeploy)

-----------------------------------------------------------------------------
(* What the comments and messages of the code say, and the code does not.  *)

RunFails(d) == pc[d] # "none" /\ pc'[d] = "none" /\ status'[d] = "failed"

\* No other run is there to disturb this one.
Alone(d) == up /\ \A e \in Id \ {d} : pc[e] = "none"

\* An artifact some row was published with.
WasGood(a) == \E e \in Id : status[e] \in Published /\ path[e] = a

\* "reverts to the previous prod image on failure, so a bad promote can't take
\* production down": a run that captured the image of a good release and fails
\* leaves a container running.
FailureKeepsServing ==
    [][\A d \in Id : Alone(d) /\ WasGood(prev[d]) /\ RunFails(d) => ctr' # 0]_vars

\* "the live `current` symlink still points at the last-good release" when a
\* run fails: current is the tree of some row that was published.
CurrentIsLastGood ==
    [][\A d \in Id : Alone(d) /\ RunFails(d) /\ current' # 0 => WasGood(current') ]_vars

\* "redeploy an upload app from the release it is already running".
RedeployReplaysRunning ==
    [][\A d \in Id : Alone(d) /\ BeginReplay(d) /\ WasGood(ctr) => art'[d] = ctr]_vars

\* "stale in-flight deploy superseded by a newer deploy": a row marked failed
\* does not come back and publish.
SupersededStaysFailed ==
    [][\A d \in Id : status[d] = "failed" => status'[d] # "live"]_vars

=============================================================================
