------------------------------- MODULE Studio -------------------------------
(***************************************************************************)
(* AppStudio: change requests of one app, the jobs that plan, code, build  *)
(* and ship them, and the worker that runs the jobs                        *)
(* (server/services/appstudio/worker.js, the requests of                   *)
(* server/routes/appstudio.js, plan.js and enhancements.js, and            *)
(* server/services/githubPoller.js).                                       *)
(*                                                                         *)
(* Requests and jobs are rows and survive a crash; handlers are promises   *)
(* and do not; an agent's container survives without anyone to await it.   *)
(* A handler is cut at its awaits.  The end of the coding agent, the push  *)
(* and the insertion of the build job happen in one turn of the event      *)
(* loop; only a crash can come between them.                               *)
(*                                                                         *)
(* A plan is `proposed' when the agent wrote it and `approved' when        *)
(* somebody allowed to approve it did so: the code keeps only the plan.    *)
(* Left out: comments, costs, the names of branches, validated_at.         *)
(***************************************************************************)
EXTENDS Naturals, FiniteSets

CONSTANTS Enh,          \* requests, numbered
          MaxJobs,      \* rows of enhancement_jobs considered
          MaxPlanParallel,
          MaxAsks,      \* requests of users considered
          MaxCrashes

ASSUME StudioAssumption ==
    /\ Enh \subseteq Nat /\ IsFiniteSet(Enh) /\ Enh # {}
    /\ MaxJobs \in Nat /\ MaxAsks \in Nat /\ MaxCrashes \in Nat
    /\ MaxPlanParallel \in Nat \ {0}

Job == 1 .. MaxJobs

PlanPhase == {"plan", "revise_plan"}
CodePhase == {"code", "build", "open_pr"}

Status == {"new", "planning", "pending_user_review_plan", "plan_approved",
           "coding", "pushing", "building", "sandbox_ready", "pr_open",
           "merged", "auto_failed", "no_changes_needed", "in_progress", "done",
           "gone"}

\* The statuses that say AppCrane is at work.
Working == {"planning", "plan_approved", "coding", "pushing", "building"}

VARIABLES
    status,    \* enhancement_requests.status; "gone" once the row is deleted
    auto,      \* requests in mode 'auto'
    plan,      \* ai_plan_json: none, proposed or approved
    branch,    \* requests with a branch_name
    made,      \* rows of enhancement_jobs inserted so far
    job,       \* those rows
    at,        \* where the handler of a job is
    rogue,     \* coding handlers that read a plan nobody approved
    recoding,  \* recode requests that are tearing the old branch down
    ctr,       \* jobs whose coding container runs
    up,        \* the server process lives, and its worker with it
    spared,    \* jobs the last boot left 'running' because of their container
    excused,   \* requests whose rows an administrator set against their jobs
    asks, crashes

rows == <<status, auto, plan, branch, made, job>>
vars == <<rows, at, rogue, recoding, ctr, up, spared, excused, asks, crashes>>

\* A handler at "autodeploying" read its request in mode 'auto'.
Stage == {"none", "planning", "waiting", "coding", "deploying", "autodeploying",
          "opening", "merging", "releasing"}

\* A handler is at a stage of its own phase.
StageFits(j) ==
    /\ at[j] = "planning" => job[j].phase \in PlanPhase
    /\ at[j] \in {"waiting", "coding"} => job[j].phase = "code"
    /\ at[j] \in {"deploying", "autodeploying"} => job[j].phase = "build"
    /\ at[j] \in {"opening", "merging", "releasing"} => job[j].phase = "open_pr"

Row == [of : Enh, phase : PlanPhase \cup CodePhase,
        st : {"none", "queued", "running", "done", "failed", "deleted"}]

\* Rows and handlers hold what the schema and the phases allow; a handler is at
\* a stage of its own phase, and no id is used before the table hands it out.
TypeOK ==
    /\ status \in [Enh -> Status]
    /\ auto \subseteq Enh /\ branch \subseteq Enh
    /\ plan \in [Enh -> {"none", "proposed", "approved"}]
    /\ made \in 0 .. MaxJobs
    /\ job \in [Job -> Row]
    /\ \A j \in Job : job[j].st = "none" <=> j > made
    /\ at \in [Job -> Stage]
    /\ rogue \subseteq Job /\ ctr \subseteq Job /\ spared \subseteq Job
    /\ recoding \subseteq Enh /\ excused \subseteq Enh
    /\ up \in BOOLEAN
    /\ asks \in 0 .. MaxAsks /\ crashes \in 0 .. MaxCrashes
    /\ \A j \in Job : StageFits(j)

NoJob == [of |-> CHOOSE e \in Enh : TRUE, phase |-> "plan", st |-> "none"]

Init ==
    /\ status = [e \in Enh |-> "new"] /\ plan = [e \in Enh |-> "none"]
    /\ auto = {} /\ branch = {}
    /\ made = 0 /\ job = [j \in Job |-> NoJob]
    /\ at = [j \in Job |-> "none"]
    /\ rogue = {} /\ recoding = {} /\ ctr = {} /\ spared = {} /\ excused = {}
    /\ up = TRUE /\ asks = 0 /\ crashes = 0

-----------------------------------------------------------------------------
Active(j) == job[j].st \in {"queued", "running"}
Busy(j)   == at[j] # "none"
JobsOf(e) == {j \in 1 .. made : job[j].of = e}

\* The table after inserting one job of phase ph.
Inserted(e, ph) ==
    [job EXCEPT ![made + 1] = [of |-> e, phase |-> ph, st |-> "queued"]]

\* An UPDATE of a deleted request changes nothing.
Set(e, s) == IF status[e] = "gone" THEN status ELSE [status EXCEPT ![e] = s]

\* A request of a user reaches the server.
Ask(e) ==
    /\ up /\ status[e] # "gone"
    /\ asks < MaxAsks /\ asks' = asks + 1

QueueFor(e, ph) ==
    /\ made < MaxJobs /\ made' = made + 1
    /\ job' = Inserted(e, ph)

Unqueued == UNCHANGED <<made, job>>

host == <<at, rogue, ctr, up, spared, crashes>>

-----------------------------------------------------------------------------
(* The requests of users.                                                  *)

\* POST /:id/plan
PlanAsked(e) ==
    /\ Ask(e) /\ QueueFor(e, "plan")
    /\ status' = Set(e, "planning") /\ auto' = auto \cup {e}
    /\ UNCHANGED <<plan, branch, host, recoding, excused>>

\* POST /:id/approve-plan, and the build button of /api/plan
Approve(e) ==
    /\ Ask(e) /\ plan[e] # "none" /\ QueueFor(e, "code")
    /\ status' = Set(e, "plan_approved")
    /\ plan' = [plan EXCEPT ![e] = "approved"]
    /\ UNCHANGED <<auto, branch, host, recoding, excused>>

\* POST /:id/plan-feedback: the plan stays until the next one replaces it.
Feedback(e) ==
    /\ Ask(e) /\ QueueFor(e, "revise_plan")
    /\ status' = Set(e, "planning")
    /\ UNCHANGED <<auto, plan, branch, host, recoding, excused>>

\* Faulty: the plan is wiped and the request stays up for review.
RedoKeepingStatus(e, reset) ==
    /\ Ask(e) /\ QueueFor(e, "plan")
    /\ plan' = [plan EXCEPT ![e] = "none"]
    /\ branch' = IF reset THEN branch \ {e} ELSE branch
    /\ UNCHANGED <<status, auto, host, recoding, excused>>

\* POST /:id/redo
Redo(e, reset) ==
    /\ Ask(e) /\ QueueFor(e, "plan")
    /\ status' = Set(e, "planning") /\ plan' = [plan EXCEPT ![e] = "none"]
    /\ branch' = IF reset THEN branch \ {e} ELSE branch
    /\ UNCHANGED <<auto, host, recoding, excused>>

\* POST /:id/recode asks for the plan that stands, then awaits GitHub.
RecodeAsked(e) ==
    /\ Ask(e) /\ plan[e] # "none" /\ e \notin recoding
    /\ plan' = [plan EXCEPT ![e] = "approved"]
    /\ recoding' = recoding \cup {e}
    /\ Unqueued
    /\ UNCHANGED <<status, auto, branch, host, excused>>

RecodeQueued(e) ==
    /\ up /\ e \in recoding /\ recoding' = recoding \ {e}
    /\ IF status[e] = "gone" THEN Unqueued ELSE QueueFor(e, "code")
    /\ status' = Set(e, "plan_approved") /\ branch' = branch \ {e}
    /\ UNCHANGED <<auto, plan, host, excused, asks>>

\* POST /:id/approve-sandbox: no status is asked for, a branch name is derived.
ApproveSandbox(e) ==
    /\ Ask(e) /\ QueueFor(e, "open_pr")
    /\ branch' = branch \cup {e}
    /\ UNCHANGED <<status, auto, plan, host, recoding, excused>>

\* mark-done, set-status, the buckets and the build button of somebody who may
\* not approve ('selected', written 'in_progress' here: nothing tells them
\* apart); 'planning' by hand has no job.
SetStatus(e, s) ==
    /\ Ask(e) /\ status' = Set(e, s)
    /\ excused' = IF s = "planning" THEN excused \cup {e} ELSE excused
    /\ Unqueued
    /\ UNCHANGED <<auto, plan, branch, host, recoding>>

\* POST /:id/reject: rows only; a handler that runs is not told.
Reject(e) ==
    /\ Ask(e)
    /\ status' = Set(e, "done")
    /\ job' = [j \in Job |-> IF j \in JobsOf(e) /\ Active(j)
                             THEN [job[j] EXCEPT !.st = "failed"] ELSE job[j]]
    /\ excused' = IF \E j \in JobsOf(e) : Busy(j) THEN excused \cup {e} ELSE excused
    /\ spared' = spared \ JobsOf(e)
    /\ UNCHANGED <<auto, plan, branch, made, at, rogue, ctr, up, crashes, recoding>>

\* Faulty: the row itself goes back to the queue.
RetryInPlace(j) ==
    LET e == job[j].of
    IN /\ job[j].st = "failed" /\ Ask(e)
       /\ job' = [job EXCEPT ![j].st = "queued"]
       /\ status' = IF status[e] = "auto_failed" THEN Set(e, "plan_approved") ELSE status
       /\ UNCHANGED <<auto, plan, branch, made, host, recoding, excused>>

\* POST /jobs/:id/retry
Retry(j) ==
    LET e == job[j].of
    IN /\ job[j].st = "failed" /\ Ask(e) /\ QueueFor(e, job[j].phase)
       /\ status' = IF status[e] = "auto_failed" THEN Set(e, "plan_approved") ELSE status
       /\ UNCHANGED <<auto, plan, branch, host, recoding, excused>>

\* DELETE /jobs/:id
DeleteJob(j) ==
    LET e == job[j].of
    IN /\ job[j].st \in {"queued", "done", "failed"} /\ Ask(e)
       /\ job' = [job EXCEPT ![j].st = "deleted"]
       /\ excused' = IF job[j].st = "queued" THEN excused \cup {e} ELSE excused
       /\ UNCHANGED <<status, auto, plan, branch, made, host, recoding>>

\* POST /api/enhancements/:id/delete
DeleteRequest(e) ==
    /\ Ask(e) /\ \A j \in JobsOf(e) : ~Active(j)
    /\ status' = Set(e, "gone")
    /\ job' = [j \in Job |-> IF j \in JobsOf(e) THEN [job[j] EXCEPT !.st = "deleted"]
                             ELSE job[j]]
    /\ UNCHANGED <<auto, plan, branch, made, host, recoding, excused>>

\* The poller has found a pull request that names the request.
Poll(e, isMerged) ==
    /\ Ask(e)
    /\ branch' = branch \cup {e}
    /\ status' = IF isMerged
                 THEN IF status[e] \in {"merged", "done", "sandbox_ready", "no_changes_needed"}
                      THEN status ELSE Set(e, "done")
                 ELSE IF status[e] \in {"new", "auto_failed", "pr_open"}
                      THEN Set(e, "in_progress") ELSE status
    /\ Unqueued
    /\ UNCHANGED <<auto, plan, host, recoding, excused>>

-----------------------------------------------------------------------------
(* The worker.                                                             *)

Oldest(j, phases) ==
    /\ job[j].st = "queued" /\ job[j].phase \in phases
    /\ \A k \in Job : job[k].st = "queued" /\ job[k].phase \in phases => j <= k

claim == <<auto, branch, made, recoding, ctr, up, spared, excused, asks, crashes>>

ClaimPlan(j) ==
    /\ up /\ Oldest(j, PlanPhase)
    /\ Cardinality({k \in Job : at[k] = "planning"}) < MaxPlanParallel
    /\ job' = [job EXCEPT ![j].st = "running"]
    /\ at' = [at EXCEPT ![j] = "planning"]
    /\ UNCHANGED <<claim, status, plan, rogue>>

\* What the phase needs before its first await.
Ready(j) ==
    CASE job[j].phase = "code"    -> plan[job[j].of] # "none"
      [] job[j].phase = "build"   -> job[j].of \in branch
      [] job[j].phase = "open_pr" -> job[j].of \in branch

\* Where the handler of j is at its first await.
FirstStage(j) ==
    CASE job[j].phase = "code"    -> "waiting"
      [] job[j].phase = "build"   -> IF job[j].of \in auto THEN "autodeploying"
                                                          ELSE "deploying"
      [] job[j].phase = "open_pr" -> "opening"

\* One code, build or open_pr job at a time.
ClaimCode(j) ==
    LET e == job[j].of
    IN /\ up /\ Oldest(j, CodePhase)
       /\ \A k \in Job : at[k] \in {"none", "planning"}
       /\ IF Ready(j)
          THEN /\ job' = [job EXCEPT ![j].st = "running"]
               /\ at' = [at EXCEPT ![j] = FirstStage(j)]
               /\ status' = CASE job[j].phase = "code"  -> Set(e, "coding")
                              [] job[j].phase = "build" -> Set(e, "building")
                              [] OTHER                  -> status
               /\ rogue' = IF job[j].phase = "code" /\ plan[e] = "proposed"
                           THEN rogue \cup {j} ELSE rogue
          ELSE /\ job' = [job EXCEPT ![j].st = "failed"]
               /\ status' = Set(e, "auto_failed")
               /\ UNCHANGED <<at, rogue>>
       /\ UNCHANGED <<claim, plan>>

\* finishJob: whatever the row says by now; a deleted row stays deleted.
Finished(js, j, s) ==
    IF js[j].st = "deleted" THEN js ELSE [js EXCEPT ![j].st = s]

\* The handler of j is gone, and with it the container it awaited.
Ends(j) ==
    /\ at' = [at EXCEPT ![j] = "none"]
    /\ rogue' = rogue \ {j} /\ ctr' = IF at[j] = "coding" THEN ctr \ {j} ELSE ctr
    /\ UNCHANGED <<up, spared, crashes, recoding, excused, asks>>

HandlerFails(j) ==
    /\ up /\ at[j] \in Stage \ {"none", "releasing"}
    /\ job' = Finished(job, j, "failed") /\ status' = Set(job[j].of, "auto_failed")
    /\ Ends(j)
    /\ UNCHANGED <<auto, plan, branch, made>>

PlanDone(j) ==
    /\ up /\ at[j] = "planning"
    /\ status' = Set(job[j].of, "pending_user_review_plan")
    /\ plan' = [plan EXCEPT ![job[j].of] = IF status[job[j].of] = "gone" THEN @ ELSE "proposed"]
    /\ job' = Finished(job, j, "done")
    /\ Ends(j)
    /\ UNCHANGED <<auto, branch, made>>

\* The app's queue grants the turn; the repository is cloned, the agent starts
\* unless a container of the job is there from before a boot, and the name taken.
CodeStarts(j) ==
    /\ up /\ at[j] = "waiting" /\ j \notin ctr
    /\ at' = [at EXCEPT ![j] = "coding"] /\ ctr' = ctr \cup {j}
    /\ UNCHANGED <<rows, rogue, recoding, up, spared, excused, asks, crashes>>

NothingChanged(j) ==
    /\ up /\ at[j] = "coding"
    /\ status' = Set(job[j].of, "no_changes_needed")
    /\ job' = Finished(job, j, "done")
    /\ Ends(j)
    /\ UNCHANGED <<auto, plan, branch, made>>

\* The branch has diverged: plan again.
PushConflict(j) ==
    LET e == job[j].of
    IN /\ up /\ at[j] = "coding" /\ made < MaxJobs
       /\ status[e] # "gone"
       /\ status' = Set(e, "planning") /\ plan' = [plan EXCEPT ![e] = "none"]
       /\ made' = made + 1 /\ job' = Finished(Inserted(e, "revise_plan"), j, "done")
       /\ Ends(j)
       /\ UNCHANGED <<auto, branch>>

\* The other requests whose plan is from before this push.
Stale(e) == {s \in Enh \ {e} : status[s] = "pending_user_review_plan"}

StaleJob(e, s) == made + 2 + Cardinality({t \in Stale(e) : t < s})

\* Faulty: the stale plans are wiped and nothing plans them again.
PushedForgettingReplans(j) ==
    LET e == job[j].of
    IN /\ up /\ at[j] = "coding" /\ made < MaxJobs /\ status[e] # "gone"
       /\ branch' = branch \cup {e} /\ made' = made + 1
       /\ status' = [s \in Enh |-> IF s = e THEN "pushing"
                                   ELSE IF s \in Stale(e) THEN "planning" ELSE status[s]]
       /\ plan' = [s \in Enh |-> IF s \in Stale(e) THEN "none" ELSE plan[s]]
       /\ job' = Finished(Inserted(e, "build"), j, "done")
       /\ Ends(j)
       /\ UNCHANGED <<auto>>

\* Pushed: a build job, and a new plan for every stale one.
Pushed(j) ==
    LET e == job[j].of
    IN /\ up /\ at[j] = "coding"
       /\ status[e] # "gone" /\ made + 1 + Cardinality(Stale(e)) <= MaxJobs
       /\ branch' = branch \cup {e}
       /\ status' = [s \in Enh |-> IF s = e THEN "pushing"
                                   ELSE IF s \in Stale(e) THEN "planning" ELSE status[s]]
       /\ plan' = [s \in Enh |-> IF s \in Stale(e) THEN "none" ELSE plan[s]]
       /\ made' = made + 1 + Cardinality(Stale(e))
       /\ job' = Finished([k \in Job |->
                     IF \E s \in Stale(e) : k = StaleJob(e, s)
                     THEN [of |-> CHOOSE s \in Stale(e) : k = StaleJob(e, s),
                           phase |-> "plan", st |-> "queued"]
                     ELSE Inserted(e, "build")[k]], j, "done")
       /\ Ends(j)
       /\ UNCHANGED <<auto>>

\* deployApp has put the branch into the sandbox.
BuildDone(j) ==
    LET e == job[j].of
    IN /\ up /\ status' = Set(e, "sandbox_ready")
       /\ \/ /\ at[j] = "autodeploying" /\ status[e] # "gone"
             /\ made < MaxJobs /\ made' = made + 1
             /\ job' = Finished(Inserted(e, "open_pr"), j, "done")
          \/ /\ at[j] = "deploying"
             /\ job' = Finished(job, j, "done") /\ UNCHANGED made
       /\ Ends(j)
       /\ UNCHANGED <<auto, plan, branch>>

\* The pull request exists, made now or found; its merge is asked for.
PrOpened(j) ==
    /\ up /\ at[j] = "opening"
    /\ status' = Set(job[j].of, "pr_open")
    /\ at' = [at EXCEPT ![j] = "merging"]
    /\ UNCHANGED <<auto, plan, branch, made, job, rogue, recoding, ctr, up,
                   spared, excused, asks, crashes>>

\* Merged; the deployment to production starts.
PrMerged(j) ==
    /\ up /\ at[j] = "merging"
    /\ status' = Set(job[j].of, "merged")
    /\ at' = [at EXCEPT ![j] = "releasing"]
    /\ UNCHANGED <<auto, plan, branch, made, job, rogue, recoding, ctr, up,
                   spared, excused, asks, crashes>>

\* An error of that deployment is only logged.
Released(j) ==
    /\ up /\ at[j] = "releasing"
    /\ job' = Finished(job, j, "done")
    /\ Ends(j)
    /\ UNCHANGED <<status, auto, plan, branch, made>>

-----------------------------------------------------------------------------
(* Crash and boot.                                                         *)

\* The coding container has ended and nobody of this server awaits it.
ContainerEnds(j) ==
    /\ j \in ctr /\ at[j] # "coding"
    /\ ctr' = ctr \ {j}
    /\ UNCHANGED <<rows, at, rogue, recoding, up, spared, excused, asks, crashes>>

\* The server dies; for the jobs in half, between the push and the build job.
Crash ==
    /\ up /\ crashes < MaxCrashes /\ crashes' = crashes + 1
    /\ \E half \in SUBSET {j \in Job : at[j] = "coding"} :
        /\ status' = [e \in Enh |-> IF status[e] # "gone" /\ \E j \in half : job[j].of = e
                                    THEN "pushing" ELSE status[e]]
        /\ branch' = branch \cup {job[j].of : j \in half}
        /\ ctr' = ctr \ half
    /\ up' = FALSE
    /\ at' = [j \in Job |-> "none"]
    /\ rogue' = {} /\ recoding' = {}
    /\ UNCHANGED <<auto, plan, made, job, spared, excused, asks>>

\* The status a request goes back to with its job.
RecoveredStatus(ph) ==
    CASE ph \in PlanPhase -> "planning"
      [] ph = "code"      -> "plan_approved"
      [] ph = "build"     -> "pushing"
      [] ph = "open_pr"   -> "sandbox_ready"

\* Faulty: any container of the request keeps a job of it from being recovered.
OrphansByRequest(seen) == {j \in Job : /\ job[j].st = "running"
                                       /\ \A k \in seen : job[k].of # job[j].of}

\* Running rows without a container that was seen.
Orphans(seen) == {j \in Job : job[j].st = "running" /\ j \notin seen}

\* recoverOrphanedJobs, in the order of ids.
Recover(seen) ==
    /\ job' = [j \in Job |-> IF j \in Orphans(seen) THEN [job[j] EXCEPT !.st = "queued"]
                             ELSE job[j]]
    /\ status' = [e \in Enh |->
          LET mine == {j \in Orphans(seen) : job[j].of = e}
          IN IF mine = {} \/ status[e] = "gone" THEN status[e]
             ELSE RecoveredStatus(job[CHOOSE j \in mine : \A k \in mine : k <= j].phase)]
    /\ spared' = {j \in seen : job[j].st = "running"}

\* startWorker.  When `docker ps' fails, no container is seen.
Boot ==
    /\ ~up /\ up' = TRUE
    /\ Recover(ctr) \/ Recover({})
    /\ UNCHANGED <<auto, plan, branch, made, at, rogue, recoding, ctr, excused, asks, crashes>>

ManualStatus == {"new", "planning", "in_progress", "done", "no_changes_needed"}

HandlerStep(j) ==
    \/ PlanDone(j) \/ HandlerFails(j)
    \/ CodeStarts(j) \/ NothingChanged(j) \/ PushConflict(j) \/ Pushed(j)
    \/ BuildDone(j) \/ PrOpened(j) \/ PrMerged(j) \/ Released(j)

Next ==
    \/ \E e \in Enh :
        \/ PlanAsked(e) \/ Approve(e) \/ Feedback(e)
        \/ RecodeAsked(e) \/ RecodeQueued(e) \/ ApproveSandbox(e)
        \/ Reject(e) \/ DeleteRequest(e)
        \/ \E reset \in BOOLEAN : Redo(e, reset)
        \/ \E s \in ManualStatus : SetStatus(e, s)
        \/ \E isMerged \in BOOLEAN : Poll(e, isMerged)
    \/ \E j \in Job :
        \/ Retry(j) \/ DeleteJob(j)
        \/ ClaimPlan(j) \/ ClaimCode(j) \/ HandlerStep(j) \/ ContainerEnds(j)
    \/ Crash \/ Boot

\* The worker ticks every few seconds, agents and GitHub calls have timeouts,
\* systemd restarts the server.  That the deployments and the queue of the
\* application end is assumed here.
Fairness ==
    /\ WF_vars(Boot)
    /\ \A j \in Job : WF_vars(ClaimPlan(j)) /\ WF_vars(ClaimCode(j)) /\ WF_vars(HandlerStep(j))

Spec == Init /\ [][Next]_vars /\ Fairness

-----------------------------------------------------------------------------
(* Properties.                                                             *)

(* recoverOrphanedJobs leaves nothing behind: while the server is up a row  *)
(* 'running' has a handler that will finish it, except the jobs this boot   *)
(* spared because it saw their own container.                               *)
RunningHasHandler ==
    up => \A j \in Job : job[j].st = "running" => Busy(j) \/ j \in spared

(* No handler works for a job that the queue would hand out again: a job is *)
(* run by one process at a time, across retries, rejections and crashes.    *)
HandlerOwnsJob ==
    \A j \in Job : Busy(j) => job[j].st # "queued"

(* A request that says AppCrane is at work has a job that will move it on:  *)
(* replans of stale plans, push conflicts, retries, double approvals and    *)
(* crashes never leave one 'planning' or 'pushing' with nothing queued.     *)
WorkingHasJob ==
    \A e \in Enh \ excused : status[e] \in Working =>
        \E j \in JobsOf(e) : Active(j) \/ Busy(j)

(* A request put up for review has the plan to be reviewed, although other  *)
(* requests, a redo and a diverged branch wipe plans at any time.           *)
ReviewHasPlan ==
    \A e \in Enh : status[e] = "pending_user_review_plan" => plan[e] # "none"

(* Every request in progress comes back to a person: to a review, an end or *)
(* a failure, unless its rows were set by hand or its job is one the last   *)
(* boot spared, which nothing will finish.                                  *)
RequestsSettle ==
    \A e \in Enh : status[e] \in Working ~>
        \/ status[e] \notin Working
        \/ e \in excused \/ \E j \in spared : job[j].of = e

(* README.md:68: "you review and approve before anything ships"; the prompt *)
(* of the coder says "the approved plan" (generator.js).                    *)
OnlyApprovedPlansAreCoded == rogue = {}

=============================================================================
