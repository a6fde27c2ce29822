---------------------------- MODULE StudioProofs ----------------------------
(***************************************************************************)
(* Theorems about AppStudio, for any number of requests, jobs, planners,   *)
(* asks and crashes.                                                       *)
(***************************************************************************)
EXTENDS Studio, TLAPS, FiniteSetTheorems, WellFoundedInduction

\* A handler works for a row that is 'running' unless somebody rejected or
\* deleted it, and never for a row that is not there.
BusyRuns ==
    \A j \in Job : Busy(j) =>
        /\ job[j].st \notin {"none", "queued"}
        /\ job[j].st = "running" \/ job[j].of \in excused \/ status[job[j].of] = "gone"

\* A server that is down has no handlers.
DownIsIdle == ~up => \A j \in Job : ~Busy(j)

\* A request at work has an active job, and one that is past the merge does not
\* count: its handler ends without another look at the request.
WorkingHasQueue ==
    \A e \in Enh \ excused : status[e] \in Working =>
        \E j \in JobsOf(e) : Active(j) /\ at[j] # "releasing"

IInv == /\ TypeOK /\ RunningHasHandler /\ BusyRuns /\ DownIsIdle
        /\ WorkingHasQueue /\ ReviewHasPlan

-----------------------------------------------------------------------------
(* Helpers.                                                                *)

\* An inserted job takes a free id and is queued; the other rows stay.
LEMMA InsertedLemma ==
    ASSUME TypeOK, made < MaxJobs, NEW e \in Enh, NEW ph \in PlanPhase \cup CodePhase
    PROVE  /\ made + 1 \in Job /\ made + 1 \in 0 .. MaxJobs
           /\ job[made + 1].st = "none"
           /\ Inserted(e, ph) \in [Job -> Row]
           /\ Inserted(e, ph)[made + 1] = [of |-> e, phase |-> ph, st |-> "queued"]
           /\ \A k \in Job \ {made + 1} : Inserted(e, ph)[k] = job[k]
           /\ \A k \in Job : Inserted(e, ph)[k].st = "none" <=> k > made + 1
<1>1. made + 1 \in Job /\ made + 1 \in 0 .. MaxJobs
  BY StudioAssumption DEF TypeOK, Job
<1>2. job \in [Job -> Row] /\ \A k \in Job : job[k].st = "none" <=> k > made
  BY DEF TypeOK, Row
<1>3. [of |-> e, phase |-> ph, st |-> "queued"] \in Row
  BY DEF Row
<1>4. \A k \in Job \ {made + 1} : Inserted(e, ph)[k] = job[k]
  BY <1>2 DEF Inserted
<1>5. Inserted(e, ph)[made + 1] = [of |-> e, phase |-> ph, st |-> "queued"]
  BY <1>1, <1>2 DEF Inserted
<1>6. Inserted(e, ph) \in [Job -> Row]
  BY <1>1, <1>2, <1>3 DEF Inserted
<1>7. made \in Nat /\ \A k \in Job : k \in Nat
  BY StudioAssumption DEF TypeOK, Job
<1>8. \A k \in Job : Inserted(e, ph)[k].st = "none" <=> k > made + 1
  <2> TAKE k \in Job
  <2>1. CASE k = made + 1
    BY <2>1, <1>5, <1>7
  <2>2. CASE k # made + 1
    BY <2>2, <1>4, <1>2, <1>7
  <2> QED BY <2>1, <2>2
<1> QED
  BY <1>1, <1>2, <1>4, <1>5, <1>6, <1>7, <1>8

\* What an update of one request's status does.
LEMMA SetLemma ==
    ASSUME TypeOK, NEW e \in Enh, NEW s \in Status
    PROVE  /\ Set(e, s) \in [Enh -> Status]
           /\ \A f \in Enh \ {e} : Set(e, s)[f] = status[f]
           /\ Set(e, s)[e] = IF status[e] = "gone" THEN "gone" ELSE s
BY DEF TypeOK, Set

\* A finished job is neither active nor absent, and the rest of its row stays.
LEMMA FinishedLemma ==
    ASSUME NEW js \in [Job -> Row], NEW j \in Job, NEW s \in {"done", "failed"}
    PROVE  /\ Finished(js, j, s) \in [Job -> Row]
           /\ \A k \in Job \ {j} : Finished(js, j, s)[k] = js[k]
           /\ Finished(js, j, s)[j].of = js[j].of
           /\ Finished(js, j, s)[j].phase = js[j].phase
           /\ Finished(js, j, s)[j].st \in {"done", "failed", "deleted"}
BY DEF Finished, Row

\* A handler that ends leaves the host typed.
LEMMA EndsTyped ==
    ASSUME TypeOK, NEW j \in Job, Ends(j)
    PROVE  /\ at' \in [Job -> Stage] /\ at'[j] = "none"
           /\ \A k \in Job \ {j} : at'[k] = at[k]
           /\ rogue' \subseteq Job /\ ctr' \subseteq Job /\ spared' \subseteq Job
           /\ recoding' \subseteq Enh /\ excused' \subseteq Enh /\ up' \in BOOLEAN
           /\ asks' \in 0 .. MaxAsks /\ crashes' \in 0 .. MaxCrashes
           /\ up' = up /\ spared' = spared /\ excused' = excused
BY DEF Ends, TypeOK, Stage

\* A request counts against the bound on requests.
LEMMA AskTyped ==
    ASSUME TypeOK, NEW e \in Enh, Ask(e)
    PROVE  asks' \in 0 .. MaxAsks
BY StudioAssumption DEF Ask, TypeOK

-----------------------------------------------------------------------------
(* The three ways rows and handlers change together.                       *)

\* A request of a user queues a job for e and changes the status of e alone.
LEMMA QueueKeeps ==
    ASSUME IInv, NEW e \in Enh, NEW ph \in PlanPhase \cup CodePhase,
           QueueFor(e, ph), UNCHANGED <<host, excused>>,
           \A f \in Enh \ {e} : status'[f] = status[f],
           status[e] = "gone" => status'[e] = "gone"
    PROVE  /\ made' \in 0 .. MaxJobs /\ job' \in [Job -> Row]
           /\ \A j \in Job : (job[j].st = "none")' <=> j > made'
           /\ \A j \in Job : StageFits(j)'
           /\ RunningHasHandler' /\ BusyRuns' /\ DownIsIdle' /\ WorkingHasQueue'
<1> USE DEF IInv, QueueFor, host, Busy, Active
<1>1. /\ made' = made + 1 /\ made + 1 \in Job /\ made + 1 \in 0 .. MaxJobs
      /\ job[made + 1].st = "none" /\ job' \in [Job -> Row]
      /\ job'[made + 1] = [of |-> e, phase |-> ph, st |-> "queued"]
      /\ \A k \in Job \ {made + 1} : job'[k] = job[k]
      /\ \A k \in Job : job'[k].st = "none" <=> k > made + 1
  BY InsertedLemma
<1>2. at[made + 1] = "none"
  BY <1>1 DEF BusyRuns
<1>3. \A j \in Job : StageFits(j)'
  <2> TAKE j \in Job
  <2>1. CASE j = made + 1
    BY <1>2, <2>1 DEF StageFits
  <2>2. CASE j # made + 1
    BY <1>1, <2>2 DEF StageFits, TypeOK
  <2> QED BY <2>1, <2>2
<1>4. RunningHasHandler'
  BY <1>1 DEF RunningHasHandler
<1>5. BusyRuns'
  <2> SUFFICES ASSUME NEW j \in Job, at[j] # "none"
               PROVE  /\ job'[j].st \notin {"none", "queued"}
                      /\ \/ job'[j].st = "running" \/ job'[j].of \in excused
                         \/ status'[job'[j].of] = "gone"
    BY DEF BusyRuns
  <2>1. j # made + 1 /\ job'[j] = job[j]
    BY <1>1, <1>2
  <2>2. job[j].of \in Enh
    BY DEF TypeOK, Row
  <2> QED BY <2>1, <2>2 DEF BusyRuns
<1>6. DownIsIdle'
  BY DEF DownIsIdle
<1>7. WorkingHasQueue'
  <2> SUFFICES ASSUME NEW f \in Enh \ excused, status'[f] \in Working
               PROVE  \E j \in 1 .. made' : /\ job'[j].of = f
                                            /\ job'[j].st \in {"queued", "running"}
                                            /\ at[j] # "releasing"
    BY DEF WorkingHasQueue, JobsOf
  <2>1. made \in Nat
    BY StudioAssumption DEF TypeOK
  <2>2. CASE f = e
    <3>1. made + 1 \in 1 .. made'
      BY <1>1, <2>1
    <3> QED BY <3>1, <1>1, <1>2, <2>2
  <2>3. CASE f # e
    <3>1. PICK j \in 1 .. made : /\ job[j].of = f /\ job[j].st \in {"queued", "running"}
                                 /\ at[j] # "releasing"
      BY <2>3 DEF WorkingHasQueue, JobsOf
    <3>2. j \in 1 .. made' /\ j \in Job \ {made + 1}
      BY <1>1, <2>1, StudioAssumption DEF Job
    <3> QED BY <3>1, <3>2, <1>1
  <2> QED BY <2>2, <2>3
<1> QED BY <1>1, <1>3, <1>4, <1>5, <1>6, <1>7

\* No row of the job table changes, and no request is put to work.
LEMMA UnqueuedKeeps ==
    ASSUME IInv, Unqueued, UNCHANGED host, excused \subseteq excused',
           \A f \in Enh \ excused' : status'[f] \in Working => status[f] \in Working,
           \A f \in Enh : status[f] = "gone" => status'[f] = "gone"
    PROVE  /\ made' \in 0 .. MaxJobs /\ job' \in [Job -> Row]
           /\ \A j \in Job : (job[j].st = "none")' <=> j > made'
           /\ \A j \in Job : StageFits(j)'
           /\ RunningHasHandler' /\ BusyRuns' /\ DownIsIdle' /\ WorkingHasQueue'
<1> USE DEF IInv, Unqueued, host, Busy, Active
<1>1. \A j \in Job : StageFits(j)'
  BY DEF StageFits, TypeOK
<1>2. BusyRuns'
  BY DEF BusyRuns, TypeOK, Row
<1>3. WorkingHasQueue'
  BY DEF WorkingHasQueue, JobsOf
<1> QED BY <1>1, <1>2, <1>3 DEF TypeOK, Row, RunningHasHandler, DownIsIdle

\* The handler of j ends: its job leaves the active ones, queued jobs may appear,
\* and whatever request is at work now was so before or has one of them.
JobEnded(j) ==
    /\ made' \in 0 .. MaxJobs /\ made' >= made /\ job' \in [Job -> Row]
    /\ \A k \in Job : (job[k].st = "none")' <=> k > made'
    /\ job'[j].st \notin {"queued", "running"} /\ job'[j].of = job[j].of
    /\ \A k \in Job \ {j} :
           \/ job'[k] = job[k]
           \/ job[k].st = "none" /\ job'[k].st \in {"none", "queued"}
    /\ \A f \in Enh : status[f] = "gone" => status'[f] = "gone"
    /\ \A f \in Enh : status'[f] \in Working =>
           \/ status[f] \in Working /\ (f # job[j].of \/ at[j] = "releasing")
           \/ \E k \in Job : job[k].st = "none" /\ job'[k].of = f /\ job'[k].st = "queued"

\* The end of a handler keeps all but what the row of its request says.
LEMMA EndKeeps ==
    ASSUME IInv, NEW j \in Job, at[j] # "none", Ends(j), JobEnded(j)
    PROVE  /\ \A k \in Job : StageFits(k)'
           /\ RunningHasHandler' /\ BusyRuns' /\ DownIsIdle' /\ WorkingHasQueue'
<1> USE DEF IInv, Busy, Active, JobEnded
<1>1. /\ at'[j] = "none" /\ \A k \in Job \ {j} : at'[k] = at[k]
      /\ spared' = spared /\ excused' = excused /\ up' = up
  BY EndsTyped
<1>2. \A k \in Job : at'[k] # "none" => k # j /\ job'[k] = job[k] /\ at'[k] = at[k]
  BY <1>1 DEF BusyRuns
<1>3. \A k \in Job : StageFits(k)'
  <2> TAKE k \in Job
  <2>1. CASE at'[k] = "none"
    BY <2>1 DEF StageFits
  <2>2. CASE at'[k] # "none"
    BY <1>2, <2>2 DEF StageFits, TypeOK
  <2> QED BY <2>1, <2>2
<1>4. RunningHasHandler'
  <2> SUFFICES ASSUME up', NEW k \in Job, job'[k].st = "running"
               PROVE  at'[k] # "none" \/ k \in spared'
    BY DEF RunningHasHandler
  <2>1. k # j /\ job'[k] = job[k]
    OBVIOUS
  <2> QED BY <1>1, <2>1 DEF RunningHasHandler
<1>5. BusyRuns'
  <2> SUFFICES ASSUME NEW k \in Job, at'[k] # "none"
               PROVE  /\ job'[k].st \notin {"none", "queued"}
                      /\ \/ job'[k].st = "running" \/ job'[k].of \in excused'
                         \/ status'[job'[k].of] = "gone"
    BY DEF BusyRuns
  <2>1. job[k].of \in Enh
    BY DEF TypeOK, Row
  <2> QED BY <1>1, <1>2, <2>1 DEF BusyRuns
<1>6. DownIsIdle'
  BY <1>1 DEF DownIsIdle
<1>7. WorkingHasQueue'
  <2> SUFFICES ASSUME NEW f \in Enh \ excused', status'[f] \in Working
               PROVE  \E k \in 1 .. made' : /\ job'[k].of = f
                                            /\ job'[k].st \in {"queued", "running"}
                                            /\ at'[k] # "releasing"
    BY DEF WorkingHasQueue, JobsOf
  <2>1. made \in Nat /\ made' \in Nat /\ made <= MaxJobs /\ MaxJobs \in Nat
    BY StudioAssumption DEF TypeOK
  <2>2. CASE status[f] \in Working /\ (f # job[j].of \/ at[j] = "releasing")
    <3>1. PICK k \in 1 .. made : /\ job[k].of = f /\ job[k].st \in {"queued", "running"}
                                 /\ at[k] # "releasing"
      BY <1>1, <2>2 DEF WorkingHasQueue, JobsOf
    <3>2. k \in Job /\ k \in 1 .. made'
      BY <2>1 DEF Job
    <3>3. k # j
      BY <2>2, <3>1
    <3> QED BY <1>1, <3>1, <3>2, <3>3
  <2>3. ASSUME NEW k \in Job, job[k].st = "none", job'[k].of = f, job'[k].st = "queued"
        PROVE  \E i \in 1 .. made' : /\ job'[i].of = f
                                     /\ job'[i].st \in {"queued", "running"}
                                     /\ at'[i] # "releasing"
    <3>1. at'[k] # "releasing"
      BY <1>2, <2>3
    <3>2. k \in 1 .. made'
      BY <2>1, <2>3 DEF Job
    <3> QED BY <2>3, <3>1, <3>2
  <2> QED BY <2>2, <2>3
<1> QED BY <1>3, <1>4, <1>5, <1>6, <1>7

-----------------------------------------------------------------------------
(* The requests of users keep the invariant.                               *)

\* A plan asked for comes with its job.
LEMMA PlanAskedStep ==
    ASSUME IInv, NEW e \in Enh, PlanAsked(e)
    PROVE  IInv'
<1> USE DEF IInv
<1>1. "plan" \in PlanPhase \cup CodePhase /\ "planning" \in Status /\ "plan_approved" \in Status
  BY DEF PlanPhase, CodePhase, Status, TypeOK
<1>2. /\ status' \in [Enh -> Status] /\ \A f \in Enh \ {e} : status'[f] = status[f]
      /\ status[e] = "gone" => status'[e] = "gone"
      /\ status'[e] = "pending_user_review_plan" => status[e] = "pending_user_review_plan"
  BY <1>1, SetLemma DEF PlanAsked, TypeOK
<1>3. QueueFor(e, "plan") /\ UNCHANGED <<host, excused>>
  BY DEF PlanAsked
<1>4. /\ made' \in 0 .. MaxJobs /\ job' \in [Job -> Row]
      /\ \A j \in Job : (job[j].st = "none")' <=> j > made'
      /\ \A j \in Job : StageFits(j)'
      /\ RunningHasHandler' /\ BusyRuns' /\ DownIsIdle' /\ WorkingHasQueue'
  BY <1>1, <1>2, <1>3, QueueKeeps
<1>5. TypeOK'
  <2>1. asks' \in 0 .. MaxAsks
    BY AskTyped DEF PlanAsked
  <2> QED BY <1>2, <1>3, <1>4, <2>1 DEF PlanAsked, TypeOK, host
<1>6. ReviewHasPlan'
  BY <1>2, <1>1, SetLemma DEF PlanAsked, ReviewHasPlan, TypeOK
<1> QED BY <1>4, <1>5, <1>6

\* An approved plan comes with its coding job.
LEMMA ApproveStep ==
    ASSUME IInv, NEW e \in Enh, Approve(e)
    PROVE  IInv'
<1> USE DEF IInv
<1>1. "code" \in PlanPhase \cup CodePhase /\ "planning" \in Status /\ "plan_approved" \in Status
  BY DEF PlanPhase, CodePhase, Status, TypeOK
<1>2. /\ status' \in [Enh -> Status] /\ \A f \in Enh \ {e} : status'[f] = status[f]
      /\ status[e] = "gone" => status'[e] = "gone"
      /\ status'[e] = "pending_user_review_plan" => status[e] = "pending_user_review_plan"
  BY <1>1, SetLemma DEF Approve, TypeOK
<1>3. QueueFor(e, "code") /\ UNCHANGED <<host, excused>>
  BY DEF Approve
<1>4. /\ made' \in 0 .. MaxJobs /\ job' \in [Job -> Row]
      /\ \A j \in Job : (job[j].st = "none")' <=> j > made'
      /\ \A j \in Job : StageFits(j)'
      /\ RunningHasHandler' /\ BusyRuns' /\ DownIsIdle' /\ WorkingHasQueue'
  BY <1>1, <1>2, <1>3, QueueKeeps
<1>5. TypeOK'
  <2>1. asks' \in 0 .. MaxAsks
    BY AskTyped DEF Approve
  <2> QED BY <1>2, <1>3, <1>4, <2>1 DEF Approve, TypeOK, host
<1>6. ReviewHasPlan'
  BY <1>2 DEF Approve, ReviewHasPlan, TypeOK
<1> QED BY <1>4, <1>5, <1>6

\* Feedback wipes the plan and queues another planner in the same step.
LEMMA FeedbackStep ==
    ASSUME IInv, NEW e \in Enh, Feedback(e)
    PROVE  IInv'
<1> USE DEF IInv
<1>1. "revise_plan" \in PlanPhase \cup CodePhase /\ "planning" \in Status /\ "plan_approved" \in Status
  BY DEF PlanPhase, CodePhase, Status, TypeOK
<1>2. /\ status' \in [Enh -> Status] /\ \A f \in Enh \ {e} : status'[f] = status[f]
      /\ status[e] = "gone" => status'[e] = "gone"
      /\ status'[e] = "pending_user_review_plan" => status[e] = "pending_user_review_plan"
  BY <1>1, SetLemma DEF Feedback, TypeOK
<1>3. QueueFor(e, "revise_plan") /\ UNCHANGED <<host, excused>>
  BY DEF Feedback
<1>4. /\ made' \in 0 .. MaxJobs /\ job' \in [Job -> Row]
      /\ \A j \in Job : (job[j].st = "none")' <=> j > made'
      /\ \A j \in Job : StageFits(j)'
      /\ RunningHasHandler' /\ BusyRuns' /\ DownIsIdle' /\ WorkingHasQueue'
  BY <1>1, <1>2, <1>3, QueueKeeps
<1>5. TypeOK'
  <2>1. asks' \in 0 .. MaxAsks
    BY AskTyped DEF Feedback
  <2> QED BY <1>2, <1>3, <1>4, <2>1 DEF Feedback, TypeOK, host
<1>6. ReviewHasPlan'
  BY <1>2 DEF Feedback, ReviewHasPlan, TypeOK
<1> QED BY <1>4, <1>5, <1>6

\* Redo wipes the plan only together with the status that shows it.
LEMMA RedoStep ==
    ASSUME IInv, NEW e \in Enh, NEW reset \in BOOLEAN, Redo(e, reset)
    PROVE  IInv'
<1> USE DEF IInv
<1>1. "plan" \in PlanPhase \cup CodePhase /\ "planning" \in Status /\ "plan_approved" \in Status
  BY DEF PlanPhase, CodePhase, Status, TypeOK
<1>2. /\ status' \in [Enh -> Status] /\ \A f \in Enh \ {e} : status'[f] = status[f]
      /\ status[e] = "gone" => status'[e] = "gone"
      /\ status'[e] = "pending_user_review_plan" => status[e] = "pending_user_review_plan"
  BY <1>1, SetLemma DEF Redo, TypeOK
<1>3. QueueFor(e, "plan") /\ UNCHANGED <<host, excused>>
  BY DEF Redo
<1>4. /\ made' \in 0 .. MaxJobs /\ job' \in [Job -> Row]
      /\ \A j \in Job : (job[j].st = "none")' <=> j > made'
      /\ \A j \in Job : StageFits(j)'
      /\ RunningHasHandler' /\ BusyRuns' /\ DownIsIdle' /\ WorkingHasQueue'
  BY <1>1, <1>2, <1>3, QueueKeeps
<1>5. TypeOK'
  <2>1. asks' \in 0 .. MaxAsks
    BY AskTyped DEF Redo
  <2> QED BY <1>2, <1>3, <1>4, <2>1 DEF Redo, TypeOK, host
<1>6. ReviewHasPlan'
  BY <1>2, <1>1, SetLemma DEF Redo, ReviewHasPlan, TypeOK
<1> QED BY <1>4, <1>5, <1>6

\* An approved sandbox comes with its pull request job.
LEMMA ApproveSandboxStep ==
    ASSUME IInv, NEW e \in Enh, ApproveSandbox(e)
    PROVE  IInv'
<1> USE DEF IInv
<1>1. "open_pr" \in PlanPhase \cup CodePhase /\ "planning" \in Status /\ "plan_approved" \in Status
  BY DEF PlanPhase, CodePhase, Status, TypeOK
<1>2. /\ status' \in [Enh -> Status] /\ \A f \in Enh \ {e} : status'[f] = status[f]
      /\ status[e] = "gone" => status'[e] = "gone"
      /\ status'[e] = "pending_user_review_plan" => status[e] = "pending_user_review_plan"
  BY <1>1, SetLemma DEF ApproveSandbox, TypeOK
<1>3. QueueFor(e, "open_pr") /\ UNCHANGED <<host, excused>>
  BY DEF ApproveSandbox
<1>4. /\ made' \in 0 .. MaxJobs /\ job' \in [Job -> Row]
      /\ \A j \in Job : (job[j].st = "none")' <=> j > made'
      /\ \A j \in Job : StageFits(j)'
      /\ RunningHasHandler' /\ BusyRuns' /\ DownIsIdle' /\ WorkingHasQueue'
  BY <1>1, <1>2, <1>3, QueueKeeps
<1>5. TypeOK'
  <2>1. asks' \in 0 .. MaxAsks
    BY AskTyped DEF ApproveSandbox
  <2> QED BY <1>2, <1>3, <1>4, <2>1 DEF ApproveSandbox, TypeOK, host
<1>6. ReviewHasPlan'
  BY <1>2 DEF ApproveSandbox, ReviewHasPlan, TypeOK
<1> QED BY <1>4, <1>5, <1>6

\* The teardown of the old branch changes no status.
LEMMA RecodeAskedStep ==
    ASSUME IInv, NEW e \in Enh, RecodeAsked(e)
    PROVE  IInv'
<1> USE DEF IInv
<1>1. /\ status' \in [Enh -> Status] /\ excused \subseteq excused' /\ excused' \subseteq Enh
      /\ plan' \in [Enh -> {"none", "proposed", "approved"}]
      /\ branch' \subseteq Enh /\ recoding' \subseteq Enh
      /\ \A f \in Enh \ excused' : status'[f] \in Working => status[f] \in Working
      /\ \A f \in Enh : status[f] = "gone" => status'[f] = "gone"
      /\ ReviewHasPlan'
  BY DEF RecodeAsked, Set, TypeOK, Status, Working, ReviewHasPlan
<1>2. Unqueued /\ UNCHANGED host
  BY DEF RecodeAsked
<1>3. /\ made' \in 0 .. MaxJobs /\ job' \in [Job -> Row]
      /\ \A j \in Job : (job[j].st = "none")' <=> j > made'
      /\ \A j \in Job : StageFits(j)'
      /\ RunningHasHandler' /\ BusyRuns' /\ DownIsIdle' /\ WorkingHasQueue'
  BY <1>1, <1>2, UnqueuedKeeps
<1>4. asks' \in 0 .. MaxAsks
  BY AskTyped DEF RecodeAsked
<1>5. TypeOK'
  BY <1>1, <1>2, <1>3, <1>4 DEF RecodeAsked, TypeOK, host
<1> QED BY <1>1, <1>3, <1>5

\* A status set by hand excuses the request.
LEMMA SetStatusStep ==
    ASSUME IInv, NEW e \in Enh, NEW s \in ManualStatus, SetStatus(e, s)
    PROVE  IInv'
<1> USE DEF IInv
<1>1. /\ status' \in [Enh -> Status] /\ excused \subseteq excused' /\ excused' \subseteq Enh
      /\ plan' \in [Enh -> {"none", "proposed", "approved"}]
      /\ branch' \subseteq Enh /\ recoding' \subseteq Enh
      /\ \A f \in Enh \ excused' : status'[f] \in Working => status[f] \in Working
      /\ \A f \in Enh : status[f] = "gone" => status'[f] = "gone"
      /\ ReviewHasPlan'
  BY DEF SetStatus, Set, TypeOK, Status, Working, ReviewHasPlan, ManualStatus
<1>2. Unqueued /\ UNCHANGED host
  BY DEF SetStatus
<1>3. /\ made' \in 0 .. MaxJobs /\ job' \in [Job -> Row]
      /\ \A j \in Job : (job[j].st = "none")' <=> j > made'
      /\ \A j \in Job : StageFits(j)'
      /\ RunningHasHandler' /\ BusyRuns' /\ DownIsIdle' /\ WorkingHasQueue'
  BY <1>1, <1>2, UnqueuedKeeps
<1>4. asks' \in 0 .. MaxAsks
  BY AskTyped DEF SetStatus
<1>5. TypeOK'
  BY <1>1, <1>2, <1>3, <1>4 DEF SetStatus, TypeOK, host
<1> QED BY <1>1, <1>3, <1>5

\* The poller writes statuses nobody works under.
LEMMA PollStep ==
    ASSUME IInv, NEW e \in Enh, NEW isMerged \in BOOLEAN, Poll(e, isMerged)
    PROVE  IInv'
<1> USE DEF IInv
<1>1. /\ status' \in [Enh -> Status] /\ excused \subseteq excused' /\ excused' \subseteq Enh
      /\ plan' \in [Enh -> {"none", "proposed", "approved"}]
      /\ branch' \subseteq Enh /\ recoding' \subseteq Enh
      /\ \A f \in Enh \ excused' : status'[f] \in Working => status[f] \in Working
      /\ \A f \in Enh : status[f] = "gone" => status'[f] = "gone"
      /\ ReviewHasPlan'
  BY DEF Poll, Set, TypeOK, Status, Working, ReviewHasPlan
<1>2. Unqueued /\ UNCHANGED host
  BY DEF Poll
<1>3. /\ made' \in 0 .. MaxJobs /\ job' \in [Job -> Row]
      /\ \A j \in Job : (job[j].st = "none")' <=> j > made'
      /\ \A j \in Job : StageFits(j)'
      /\ RunningHasHandler' /\ BusyRuns' /\ DownIsIdle' /\ WorkingHasQueue'
  BY <1>1, <1>2, UnqueuedKeeps
<1>4. asks' \in 0 .. MaxAsks
  BY AskTyped DEF Poll
<1>5. TypeOK'
  BY <1>1, <1>2, <1>3, <1>4 DEF Poll, TypeOK, host
<1> QED BY <1>1, <1>3, <1>5

\* The new coding job is queued with its status.
LEMMA RecodeQueuedStep ==
    ASSUME IInv, NEW e \in Enh, RecodeQueued(e)
    PROVE  IInv'
<1> USE DEF IInv
<1>1. /\ status' \in [Enh -> Status] /\ \A f \in Enh \ {e} : status'[f] = status[f]
      /\ status[e] = "gone" => status'[e] = "gone"
      /\ status' = Set(e, "plan_approved") /\ branch' \subseteq Enh
      /\ recoding' \subseteq Enh /\ UNCHANGED <<host, excused, auto, plan, asks>>
  BY SetLemma DEF RecodeQueued, TypeOK, Status
<1>2. /\ made' \in 0 .. MaxJobs /\ job' \in [Job -> Row]
      /\ \A j \in Job : (job[j].st = "none")' <=> j > made'
      /\ \A j \in Job : StageFits(j)'
      /\ RunningHasHandler' /\ BusyRuns' /\ DownIsIdle' /\ WorkingHasQueue'
  <2>1. CASE status[e] = "gone"
    <3>1. Unqueued /\ status' = status
      BY <1>1, <2>1 DEF RecodeQueued, Set
    <3> QED BY <1>1, <3>1, UnqueuedKeeps
  <2>2. CASE status[e] # "gone"
    <3>1. QueueFor(e, "code") /\ "code" \in PlanPhase \cup CodePhase
      BY <2>2 DEF RecodeQueued, CodePhase
    <3> QED BY <1>1, <3>1, QueueKeeps
  <2> QED BY <2>1, <2>2
<1>3. TypeOK'
  BY <1>1, <1>2 DEF TypeOK, host
<1>4. ReviewHasPlan'
  BY <1>1 DEF Set, ReviewHasPlan, TypeOK
<1> QED BY <1>2, <1>3, <1>4

\* A retry is a new row; the failed one and its handler stay as they were.
LEMMA RetryStep ==
    ASSUME IInv, NEW j \in Job, Retry(j)
    PROVE  IInv'
<1> USE DEF IInv
<1> DEFINE e == job[j].of
<1>1. e \in Enh /\ job[j].phase \in PlanPhase \cup CodePhase
  BY DEF TypeOK, Row
<1>2. /\ status' \in [Enh -> Status] /\ \A f \in Enh \ {e} : status'[f] = status[f]
      /\ status[e] = "gone" => status'[e] = "gone"
      /\ status'[e] = "pending_user_review_plan" => status[e] = "pending_user_review_plan"
  BY <1>1, SetLemma DEF Retry, TypeOK, Status
<1>3. QueueFor(e, job[j].phase) /\ UNCHANGED <<host, excused, auto, plan, branch, recoding>>
  BY DEF Retry
<1>4. /\ made' \in 0 .. MaxJobs /\ job' \in [Job -> Row]
      /\ \A k \in Job : (job[k].st = "none")' <=> k > made'
      /\ \A k \in Job : StageFits(k)'
      /\ RunningHasHandler' /\ BusyRuns' /\ DownIsIdle' /\ WorkingHasQueue'
  BY <1>1, <1>2, <1>3, QueueKeeps
<1>5. asks' \in 0 .. MaxAsks
  BY <1>1, AskTyped DEF Retry
<1>6. TypeOK'
  BY <1>2, <1>3, <1>4, <1>5 DEF TypeOK, host
<1>7. ReviewHasPlan'
  BY <1>2, <1>3 DEF ReviewHasPlan, TypeOK
<1> QED BY <1>4, <1>6, <1>7

\* Rows are rejected or deleted, never put to work; a handler whose row is taken
\* away belongs to a request that is excused or gone.
LEMMA WithdrawnKeeps ==
    ASSUME IInv, NEW J \in SUBSET Job, UNCHANGED <<made, at, up>>,
           job' \in [Job -> Row], excused \subseteq excused',
           \A k \in Job : job'[k].of = job[k].of /\ job'[k].phase = job[k].phase,
           \A k \in Job \ J : job'[k] = job[k],
           \A k \in J : job[k].st # "none" /\ job'[k].st \in {"failed", "deleted"},
           \A k \in spared : job'[k].st = "running" => k \in spared',
           \A k \in J : \/ at[k] = "none" \/ job[k].of \in excused'
                        \/ status'[job[k].of] = "gone",
           \A f \in Enh : status[f] = "gone" => status'[f] = "gone",
           \A f \in Enh \ excused' : status'[f] \in Working =>
               status[f] \in Working /\ \A k \in J : Active(k) => job[k].of # f
    PROVE  /\ \A j \in Job : (job[j].st = "none")' <=> j > made'
           /\ \A j \in Job : StageFits(j)'
           /\ RunningHasHandler' /\ BusyRuns' /\ DownIsIdle' /\ WorkingHasQueue'
<1> USE DEF IInv, Busy, Active
<1>1. \A j \in Job : (job[j].st = "none")' <=> j > made'
  BY DEF TypeOK
<1>2. \A j \in Job : StageFits(j)'
  BY DEF StageFits, TypeOK
<1>3. RunningHasHandler'
  <2> SUFFICES ASSUME up', NEW k \in Job, job'[k].st = "running"
               PROVE  at'[k] # "none" \/ k \in spared'
    BY DEF RunningHasHandler
  <2>1. k \notin J /\ job'[k] = job[k]
    OBVIOUS
  <2> QED BY <2>1 DEF RunningHasHandler
<1>4. BusyRuns'
  <2> SUFFICES ASSUME NEW k \in Job, at[k] # "none"
               PROVE  /\ job'[k].st \notin {"none", "queued"}
                      /\ \/ job'[k].st = "running" \/ job'[k].of \in excused'
                         \/ status'[job'[k].of] = "gone"
    BY DEF BusyRuns
  <2>1. job[k].of \in Enh
    BY DEF TypeOK, Row
  <2>2. CASE k \in J
    BY <2>2
  <2>3. CASE k \notin J
    BY <2>1, <2>3 DEF BusyRuns
  <2> QED BY <2>2, <2>3
<1>5. DownIsIdle'
  BY DEF DownIsIdle
<1>6. WorkingHasQueue'
  <2> SUFFICES ASSUME NEW f \in Enh \ excused', status'[f] \in Working
               PROVE  \E k \in 1 .. made : /\ job'[k].of = f
                                           /\ job'[k].st \in {"queued", "running"}
                                           /\ at[k] # "releasing"
    BY DEF WorkingHasQueue, JobsOf
  <2>1. PICK k \in 1 .. made : /\ job[k].of = f /\ job[k].st \in {"queued", "running"}
                               /\ at[k] # "releasing"
    BY DEF WorkingHasQueue, JobsOf
  <2>2. k \in Job
    BY StudioAssumption DEF TypeOK, Job
  <2> QED BY <2>1, <2>2
<1> QED BY <1>1, <1>2, <1>3, <1>4, <1>5, <1>6

\* Rejection fails rows, not handlers, and leaves no status of work.
LEMMA RejectStep ==
    ASSUME IInv, NEW e \in Enh, Reject(e)
    PROVE  IInv'
<1> USE DEF IInv
<1> DEFINE J == {j \in JobsOf(e) : Active(j)}
<1>1. 1 .. made \subseteq Job
  BY StudioAssumption DEF TypeOK, Job
<1>2. J \subseteq Job /\ \A k \in J : job[k].of = e /\ job[k].st \in {"queued", "running"}
  BY <1>1 DEF JobsOf, Active
<1>3. /\ job' \in [Job -> Row]
      /\ \A k \in Job : job'[k].of = job[k].of /\ job'[k].phase = job[k].phase
      /\ \A k \in Job \ J : job'[k] = job[k]
      /\ \A k \in J : job'[k].st = "failed"
  BY <1>2 DEF Reject, TypeOK, Row
<1>4. /\ status' = Set(e, "done") /\ status' \in [Enh -> Status]
      /\ \A f \in Enh \ {e} : status'[f] = status[f]
      /\ status'[e] \notin Working
      /\ status[e] = "gone" => status'[e] = "gone"
  BY SetLemma DEF Reject, Status, Working
<1>5. /\ excused \subseteq excused' /\ excused' \subseteq Enh
      /\ \A k \in J : at[k] = "none" \/ e \in excused'
  BY <1>2 DEF Reject, Busy, TypeOK
<1>6. UNCHANGED <<auto, plan, branch, made, at, rogue, ctr, up, crashes, recoding>>
  BY DEF Reject
<1>7. \A k \in spared : job'[k].st = "running" => k \in spared'
  <2> SUFFICES ASSUME NEW k \in spared, job'[k].st = "running" PROVE k \in spared'
    OBVIOUS
  <2>1. k \notin JobsOf(e)
    BY <1>3 DEF Active, TypeOK
  <2> QED BY <2>1 DEF Reject
<1>8. /\ \A j \in Job : (job[j].st = "none")' <=> j > made'
      /\ \A j \in Job : StageFits(j)'
      /\ RunningHasHandler' /\ BusyRuns' /\ DownIsIdle' /\ WorkingHasQueue'
  <2>1. \A f \in Enh \ excused' : status'[f] \in Working =>
            status[f] \in Working /\ \A k \in J : Active(k) => job[k].of # f
    BY <1>2, <1>4
  <2>2. \A f \in Enh : status[f] = "gone" => status'[f] = "gone"
    BY <1>4
  <2>3. \A k \in J : at[k] = "none" \/ job[k].of \in excused'
    BY <1>2, <1>5
  <2>4. \A k \in J : job[k].st # "none" /\ job'[k].st \in {"failed", "deleted"}
    BY <1>2, <1>3
  <2> HIDE DEF J
  <2> QED BY <1>2, <1>3, <1>5, <1>6, <1>7, <2>1, <2>2, <2>3, <2>4, WithdrawnKeeps
<1>9. asks' \in 0 .. MaxAsks
  BY AskTyped DEF Reject
<1>10. spared' \subseteq Job
  BY DEF Reject, TypeOK
<1>11. TypeOK'
  BY <1>3, <1>4, <1>5, <1>6, <1>8, <1>9, <1>10 DEF TypeOK
<1>12. ReviewHasPlan'
  BY <1>4, <1>6 DEF Set, ReviewHasPlan, TypeOK
<1> QED BY <1>8, <1>11, <1>12

\* Deleting a row by hand excuses its request.
LEMMA DeleteJobStep ==
    ASSUME IInv, NEW j \in Job, DeleteJob(j)
    PROVE  IInv'
<1> USE DEF IInv
<1> DEFINE e == job[j].of
           J == {j}
<1>1. e \in Enh
  BY DEF TypeOK, Row
<1>2. /\ job' \in [Job -> Row]
      /\ \A k \in Job : job'[k].of = job[k].of /\ job'[k].phase = job[k].phase
      /\ \A k \in Job \ J : job'[k] = job[k]
      /\ \A k \in J : job[k].st # "none" /\ job'[k].st = "deleted"
  BY DEF DeleteJob, TypeOK, Row
<1>3. UNCHANGED <<status, auto, plan, branch, made, host, recoding>>
  BY DEF DeleteJob
<1>4. /\ excused \subseteq excused' /\ excused' \subseteq Enh
      /\ job[j].st = "queued" => e \in excused'
  BY <1>1 DEF DeleteJob, TypeOK
<1>5. \A k \in J : at[k] = "none" \/ job[k].of \in excused' \/ status'[job[k].of] = "gone"
  BY <1>3, <1>4 DEF BusyRuns, Busy, DeleteJob, host
<1>6. \A f \in Enh \ excused' : status'[f] \in Working =>
          status[f] \in Working /\ \A k \in J : Active(k) => job[k].of # f
  BY <1>3, <1>4 DEF DeleteJob, Active
<1>7. /\ \A k \in Job : (job[k].st = "none")' <=> k > made'
      /\ \A k \in Job : StageFits(k)'
      /\ RunningHasHandler' /\ BusyRuns' /\ DownIsIdle' /\ WorkingHasQueue'
  <2>1. UNCHANGED <<made, at, up>> /\ spared' = spared /\ status' = status
    BY <1>3 DEF host
  <2>2. J \in SUBSET Job
    OBVIOUS
  <2> HIDE DEF J, e
  <2> QED BY <1>2, <1>4, <1>5, <1>6, <2>1, <2>2, WithdrawnKeeps
<1>8. asks' \in 0 .. MaxAsks
  BY <1>1, AskTyped DEF DeleteJob
<1>9. TypeOK'
  BY <1>2, <1>3, <1>4, <1>7, <1>8 DEF TypeOK, host
<1>10. ReviewHasPlan'
  BY <1>3 DEF ReviewHasPlan
<1> QED BY <1>7, <1>9, <1>10

\* A deleted request is at work no more.
LEMMA DeleteRequestStep ==
    ASSUME IInv, NEW e \in Enh, DeleteRequest(e)
    PROVE  IInv'
<1> USE DEF IInv
<1> DEFINE J == JobsOf(e)
<1>1. /\ J \in SUBSET Job /\ \A k \in J : job[k].of = e /\ k \in Job /\ k <= made
  BY StudioAssumption DEF TypeOK, Job, JobsOf
<1>2. /\ job' \in [Job -> Row]
      /\ \A k \in Job : job'[k].of = job[k].of /\ job'[k].phase = job[k].phase
      /\ \A k \in Job \ J : job'[k] = job[k]
      /\ \A k \in J : job[k].st # "none" /\ job'[k].st = "deleted"
  <2>1. \A k \in J : job[k].st # "none"
    <3> TAKE k \in J
    <3>1. k \in Nat /\ made \in Nat
      BY <1>1, StudioAssumption DEF TypeOK, Job
    <3> QED BY <1>1, <3>1 DEF TypeOK
  <2> QED BY <1>1, <2>1 DEF DeleteRequest, TypeOK, Row
<1>3. /\ UNCHANGED <<auto, plan, branch, made, host, recoding, excused>>
      /\ status' = Set(e, "gone") /\ status' \in [Enh -> Status]
      /\ \A f \in Enh \ {e} : status'[f] = status[f]
      /\ status'[e] = "gone"
  BY SetLemma DEF DeleteRequest, Status
<1>4. \A k \in J : ~Active(k)
  BY DEF DeleteRequest
<1>5. \A f \in Enh \ excused' : status'[f] \in Working =>
          status[f] \in Working /\ \A k \in J : Active(k) => job[k].of # f
  BY <1>3, <1>4 DEF Working
<1>6. /\ \A k \in Job : (job[k].st = "none")' <=> k > made'
      /\ \A k \in Job : StageFits(k)'
      /\ RunningHasHandler' /\ BusyRuns' /\ DownIsIdle' /\ WorkingHasQueue'
  <2>1. UNCHANGED <<made, at, up, excused>> /\ spared' = spared
    BY <1>3 DEF host
  <2>2. \A k \in J : status'[job[k].of] = "gone"
    BY <1>1, <1>3
  <2>3. \A f \in Enh : status[f] = "gone" => status'[f] = "gone"
    BY <1>3
  <2> HIDE DEF J
  <2> QED BY <1>1, <1>2, <1>5, <2>1, <2>2, <2>3, WithdrawnKeeps
<1>7. asks' \in 0 .. MaxAsks
  BY AskTyped DEF DeleteRequest
<1>8. TypeOK'
  BY <1>2, <1>3, <1>6, <1>7 DEF TypeOK, host
<1>9. ReviewHasPlan'
  BY <1>3 DEF ReviewHasPlan, TypeOK
<1> QED BY <1>6, <1>8, <1>9

-----------------------------------------------------------------------------
(* The steps of the worker and of its handlers keep the invariant.         *)

\* A claimed job is queued and has no handler.
LEMMA ClaimPlanStep ==
    ASSUME IInv, NEW j \in Job, ClaimPlan(j)
    PROVE  IInv'
<1> USE DEF IInv
<1>1. /\ job[j].st = "queued" /\ job[j].phase \in PlanPhase /\ at[j] = "none" /\ up
  BY DEF ClaimPlan, Oldest, BusyRuns, Busy
<1>2. /\ job' \in [Job -> Row] /\ job'[j].st = "running"
      /\ job'[j].of = job[j].of /\ job'[j].phase = job[j].phase
      /\ \A k \in Job \ {j} : job'[k] = job[k]
      /\ at' \in [Job -> Stage] /\ at'[j] = "planning"
      /\ \A k \in Job \ {j} : at'[k] = at[k]
      /\ UNCHANGED <<claim, status, plan, rogue>>
  BY DEF ClaimPlan, TypeOK, Row, Stage
<1>3. \A k \in Job : (job[k].st = "none")' <=> k > made'
  BY <1>1, <1>2 DEF TypeOK, claim
<1>4. \A k \in Job : StageFits(k)'
  BY <1>1, <1>2 DEF TypeOK, StageFits
<1>5. TypeOK'
  BY <1>2, <1>3, <1>4 DEF TypeOK, claim
<1>6. RunningHasHandler'
  BY <1>2 DEF RunningHasHandler, Busy, claim
<1>7. BusyRuns'
  BY <1>2 DEF BusyRuns, Busy, claim
<1>8. DownIsIdle'
  BY <1>1, <1>2 DEF DownIsIdle, claim
<1>9. WorkingHasQueue'
  <2>1. 1 .. made \subseteq Job
    BY StudioAssumption DEF TypeOK, Job
  <2> QED BY <1>2, <2>1 DEF WorkingHasQueue, JobsOf, Active, claim
<1>10. ReviewHasPlan'
  BY <1>2 DEF ReviewHasPlan
<1> QED BY <1>5, <1>6, <1>7, <1>8, <1>9, <1>10

\* The coder claims a queued row, which nothing handles.
LEMMA ClaimCodeStep ==
    ASSUME IInv, NEW j \in Job, ClaimCode(j)
    PROVE  IInv'
<1> USE DEF IInv
<1> DEFINE e == job[j].of
<1>1. /\ job[j].st = "queued" /\ job[j].phase \in CodePhase /\ at[j] = "none" /\ up
      /\ e \in Enh
  BY DEF ClaimCode, Oldest, BusyRuns, Busy, TypeOK, Row
<1>2. /\ job' \in [Job -> Row] /\ job'[j].st \in {"running", "failed"}
      /\ job'[j].of = job[j].of /\ job'[j].phase = job[j].phase
      /\ \A k \in Job \ {j} : job'[k] = job[k]
      /\ UNCHANGED <<claim, plan>>
  BY DEF ClaimCode, TypeOK, Row
<1>3. /\ at' \in [Job -> Stage] /\ \A k \in Job \ {j} : at'[k] = at[k]
      /\ at'[j] # "releasing" /\ StageFits(j)'
      /\ job'[j].st = "running" <=> at'[j] # "none"
  <2>1. CASE Ready(j)
    <3>1. at' = [at EXCEPT ![j] = FirstStage(j)]
      BY <2>1 DEF ClaimCode
    <3>2. job'[j].st = "running"
      BY <2>1 DEF ClaimCode, TypeOK, Row
    <3>3. /\ FirstStage(j) \in {"waiting", "deploying", "autodeploying", "opening"}
          /\ FirstStage(j) = "waiting" => job[j].phase = "code"
          /\ FirstStage(j) \in {"deploying", "autodeploying"} => job[j].phase = "build"
          /\ FirstStage(j) = "opening" => job[j].phase = "open_pr"
      BY <1>1 DEF FirstStage, CodePhase
    <3> QED BY <1>1, <1>2, <3>1, <3>2, <3>3 DEF TypeOK, Stage, StageFits
  <2>2. CASE ~Ready(j)
    <3>1. at' = at /\ job'[j].st = "failed"
      BY <2>2 DEF ClaimCode, TypeOK, Row
    <3> QED BY <1>1, <1>2, <3>1 DEF TypeOK, StageFits
  <2> QED BY <2>1, <2>2
<1>4. /\ status' \in [Enh -> Status] /\ \A f \in Enh \ {e} : status'[f] = status[f]
      /\ status[e] = "gone" => status'[e] = "gone"
      /\ status'[e] = "pending_user_review_plan" => status[e] = "pending_user_review_plan"
      /\ job'[j].st = "failed" => status'[e] \notin Working
  <2>1. \/ \E s \in {"coding", "building"} : status' = Set(e, s) /\ job'[j].st = "running"
        \/ status' = status /\ job'[j].st = "running"
        \/ status' = Set(e, "auto_failed")
    BY DEF ClaimCode, TypeOK, Row
  <2> QED BY <1>1, <2>1, SetLemma DEF Status, TypeOK, Working
<1>5. \A k \in Job : (job[k].st = "none")' <=> k > made'
  BY <1>1, <1>2 DEF TypeOK, claim
<1>6. \A k \in Job : StageFits(k)'
  <2> TAKE k \in Job
  <2>1. CASE k = j
    BY <2>1, <1>3
  <2>2. CASE k # j
    BY <2>2, <1>2, <1>3 DEF TypeOK, StageFits
  <2> QED BY <2>1, <2>2
<1>7. rogue' \subseteq Job
  BY DEF ClaimCode, TypeOK
<1>8. TypeOK'
  BY <1>2, <1>3, <1>4, <1>5, <1>6, <1>7 DEF TypeOK, claim
<1>9. RunningHasHandler'
  BY <1>2, <1>3 DEF RunningHasHandler, Busy, claim
<1>10. BusyRuns'
  <2> SUFFICES ASSUME NEW k \in Job, at'[k] # "none"
               PROVE  /\ job'[k].st \notin {"none", "queued"}
                      /\ \/ job'[k].st = "running" \/ job'[k].of \in excused'
                         \/ status'[job'[k].of] = "gone"
    BY DEF BusyRuns, Busy
  <2>1. job[k].of \in Enh
    BY DEF TypeOK, Row
  <2>2. CASE k = j
    BY <2>2, <1>3
  <2>3. CASE k # j
    BY <2>1, <2>3, <1>2, <1>3, <1>4 DEF BusyRuns, Busy, claim
  <2> QED BY <2>2, <2>3
<1>11. DownIsIdle'
  BY <1>1, <1>2 DEF DownIsIdle, claim
<1>12. WorkingHasQueue'
  <2> SUFFICES ASSUME NEW f \in Enh \ excused, status'[f] \in Working
               PROVE  \E k \in 1 .. made : /\ job'[k].of = f
                                           /\ job'[k].st \in {"queued", "running"}
                                           /\ at'[k] # "releasing"
    BY <1>2 DEF WorkingHasQueue, JobsOf, Active, claim
  <2>1. 1 .. made \subseteq Job /\ j \in 1 .. made
    BY <1>1, StudioAssumption DEF TypeOK, Job
  <2>2. CASE f = e
    <3>1. job'[j].st = "running"
      BY <1>2, <1>4, <2>2
    <3> QED BY <1>2, <1>3, <2>1, <2>2, <3>1
  <2>3. CASE f # e
    <3>1. PICK k \in 1 .. made : /\ job[k].of = f /\ job[k].st \in {"queued", "running"}
                                 /\ at[k] # "releasing"
      BY <1>4, <2>3 DEF WorkingHasQueue, JobsOf, Active
    <3> QED BY <1>2, <1>3, <2>1, <2>3, <3>1
  <2> QED BY <2>2, <2>3
<1>13. ReviewHasPlan'
  BY <1>2, <1>4 DEF ReviewHasPlan
<1> QED BY <1>8, <1>9, <1>10, <1>11, <1>12, <1>13

\* A handler that fails takes its row and its request along.
LEMMA HandlerFailsStep ==
    ASSUME IInv, NEW j \in Job, HandlerFails(j)
    PROVE  IInv'
<1> USE DEF IInv
<1> DEFINE e == job[j].of
<1>1. /\ e \in Enh /\ at[j] # "none" /\ Ends(j) /\ job \in [Job -> Row]
      /\ job' = Finished(job, j, "failed") /\ UNCHANGED <<auto, branch, made>>
  BY DEF HandlerFails, TypeOK, Row
<1>2. /\ status' \in [Enh -> Status] /\ \A f \in Enh \ {e} : status'[f] = status[f]
      /\ status[e] = "gone" => status'[e] = "gone"
      /\ status'[e] \notin Working
  BY <1>1, SetLemma DEF HandlerFails, Status, Working
<1>3. plan' \in [Enh -> {"none", "proposed", "approved"}] /\ ReviewHasPlan'
  <2>1. plan' \in [Enh -> {"none", "proposed", "approved"}]
    BY <1>1 DEF HandlerFails, TypeOK
  <2>2. plan' = plan /\ status'[e] # "pending_user_review_plan"
    BY <1>1, SetLemma DEF HandlerFails, Status, TypeOK
  <2> QED BY <1>1, <1>2, <2>1, <2>2 DEF TypeOK, ReviewHasPlan
<1>4. /\ job' \in [Job -> Row] /\ job'[j].of = job[j].of
      /\ \A k \in Job \ {j} : job'[k] = job[k]
      /\ job'[j].st \in {"done", "failed", "deleted"}
  BY <1>1, FinishedLemma
<1>5. \A k \in Job : (job[k].st = "none")' <=> k > made'
  BY <1>1, <1>4 DEF TypeOK, BusyRuns, Busy
<1>6. made' \in 0 .. MaxJobs /\ made' >= made
  BY <1>1, StudioAssumption DEF TypeOK
<1>7. /\ \A k \in Job : StageFits(k)'
      /\ RunningHasHandler' /\ BusyRuns' /\ DownIsIdle' /\ WorkingHasQueue'
  <2>1. \A f \in Enh : status[f] = "gone" => status'[f] = "gone"
    BY <1>2
  <2>2. \A f \in Enh : status'[f] \in Working =>
            \/ status[f] \in Working /\ (f # job[j].of \/ at[j] = "releasing")
            \/ \E k \in Job : job[k].st = "none" /\ job'[k].of = f /\ job'[k].st = "queued"
    BY <1>2
  <2>3. job'[j].st \notin {"queued", "running"}
    BY <1>4
  <2>4. \A k \in Job \ {j} :
            \/ job'[k] = job[k]
            \/ job[k].st = "none" /\ job'[k].st \in {"none", "queued"}
    BY <1>4
  <2>5. job' \in [Job -> Row] /\ job'[j].of = job[j].of
    BY <1>4
  <2> HIDE DEF e, IInv
  <2>6. JobEnded(j)
    BY <1>5, <1>6, <2>1, <2>2, <2>3, <2>4, <2>5 DEF JobEnded
  <2> QED BY <1>1, <2>6, EndKeeps
<1>8. TypeOK'
  BY <1>1, <1>2, <1>3, <1>4, <1>5, <1>6, <1>7, EndsTyped DEF TypeOK
<1> QED BY <1>3, <1>7, <1>8

\* A planner that ends leaves a plan to review.
LEMMA PlanDoneStep ==
    ASSUME IInv, NEW j \in Job, PlanDone(j)
    PROVE  IInv'
<1> USE DEF IInv
<1> DEFINE e == job[j].of
<1>1. /\ e \in Enh /\ at[j] # "none" /\ Ends(j) /\ job \in [Job -> Row]
      /\ job' = Finished(job, j, "done") /\ UNCHANGED <<auto, branch, made>>
  BY DEF PlanDone, TypeOK, Row
<1>2. /\ status' \in [Enh -> Status] /\ \A f \in Enh \ {e} : status'[f] = status[f]
      /\ status[e] = "gone" => status'[e] = "gone"
      /\ status'[e] \notin Working
  BY <1>1, SetLemma DEF PlanDone, Status, Working
<1>3. plan' \in [Enh -> {"none", "proposed", "approved"}] /\ ReviewHasPlan'
  <2>1. plan' \in [Enh -> {"none", "proposed", "approved"}]
    BY <1>1 DEF PlanDone, TypeOK
  <2>2. plan'[e] # "none" \/ status'[e] = "gone"
    BY <1>1, SetLemma DEF PlanDone, Status, TypeOK
  <2>3. \A f \in Enh \ {e} : plan'[f] = plan[f]
    BY <1>1, SetLemma DEF PlanDone, Status, TypeOK
  <2> QED BY <1>1, <1>2, <2>1, <2>2, <2>3 DEF TypeOK, ReviewHasPlan
<1>4. /\ job' \in [Job -> Row] /\ job'[j].of = job[j].of
      /\ \A k \in Job \ {j} : job'[k] = job[k]
      /\ job'[j].st \in {"done", "failed", "deleted"}
  BY <1>1, FinishedLemma
<1>5. \A k \in Job : (job[k].st = "none")' <=> k > made'
  BY <1>1, <1>4 DEF TypeOK, BusyRuns, Busy
<1>6. made' \in 0 .. MaxJobs /\ made' >= made
  BY <1>1, StudioAssumption DEF TypeOK
<1>7. /\ \A k \in Job : StageFits(k)'
      /\ RunningHasHandler' /\ BusyRuns' /\ DownIsIdle' /\ WorkingHasQueue'
  <2>1. \A f \in Enh : status[f] = "gone" => status'[f] = "gone"
    BY <1>2
  <2>2. \A f \in Enh : status'[f] \in Working =>
            \/ status[f] \in Working /\ (f # job[j].of \/ at[j] = "releasing")
            \/ \E k \in Job : job[k].st = "none" /\ job'[k].of = f /\ job'[k].st = "queued"
    BY <1>2
  <2>3. job'[j].st \notin {"queued", "running"}
    BY <1>4
  <2>4. \A k \in Job \ {j} :
            \/ job'[k] = job[k]
            \/ job[k].st = "none" /\ job'[k].st \in {"none", "queued"}
    BY <1>4
  <2>5. job' \in [Job -> Row] /\ job'[j].of = job[j].of
    BY <1>4
  <2> HIDE DEF e, IInv
  <2>6. JobEnded(j)
    BY <1>5, <1>6, <2>1, <2>2, <2>3, <2>4, <2>5 DEF JobEnded
  <2> QED BY <1>1, <2>6, EndKeeps
<1>8. TypeOK'
  BY <1>1, <1>2, <1>3, <1>4, <1>5, <1>6, <1>7, EndsTyped DEF TypeOK
<1> QED BY <1>3, <1>7, <1>8

\* A coding job without changes settles its request.
LEMMA NothingChangedStep ==
    ASSUME IInv, NEW j \in Job, NothingChanged(j)
    PROVE  IInv'
<1> USE DEF IInv
<1> DEFINE e == job[j].of
<1>1. /\ e \in Enh /\ at[j] # "none" /\ Ends(j) /\ job \in [Job -> Row]
      /\ job' = Finished(job, j, "done") /\ UNCHANGED <<auto, branch, made>>
  BY DEF NothingChanged, TypeOK, Row
<1>2. /\ status' \in [Enh -> Status] /\ \A f \in Enh \ {e} : status'[f] = status[f]
      /\ status[e] = "gone" => status'[e] = "gone"
      /\ status'[e] \notin Working
  BY <1>1, SetLemma DEF NothingChanged, Status, Working
<1>3. plan' \in [Enh -> {"none", "proposed", "approved"}] /\ ReviewHasPlan'
  <2>1. plan' \in [Enh -> {"none", "proposed", "approved"}]
    BY <1>1 DEF NothingChanged, TypeOK
  <2>2. plan' = plan /\ status'[e] # "pending_user_review_plan"
    BY <1>1, SetLemma DEF NothingChanged, Status, TypeOK
  <2> QED BY <1>1, <1>2, <2>1, <2>2 DEF TypeOK, ReviewHasPlan
<1>4. /\ job' \in [Job -> Row] /\ job'[j].of = job[j].of
      /\ \A k \in Job \ {j} : job'[k] = job[k]
      /\ job'[j].st \in {"done", "failed", "deleted"}
  BY <1>1, FinishedLemma
<1>5. \A k \in Job : (job[k].st = "none")' <=> k > made'
  BY <1>1, <1>4 DEF TypeOK, BusyRuns, Busy
<1>6. made' \in 0 .. MaxJobs /\ made' >= made
  BY <1>1, StudioAssumption DEF TypeOK
<1>7. /\ \A k \in Job : StageFits(k)'
      /\ RunningHasHandler' /\ BusyRuns' /\ DownIsIdle' /\ WorkingHasQueue'
  <2>1. \A f \in Enh : status[f] = "gone" => status'[f] = "gone"
    BY <1>2
  <2>2. \A f \in Enh : status'[f] \in Working =>
            \/ status[f] \in Working /\ (f # job[j].of \/ at[j] = "releasing")
            \/ \E k \in Job : job[k].st = "none" /\ job'[k].of = f /\ job'[k].st = "queued"
    BY <1>2
  <2>3. job'[j].st \notin {"queued", "running"}
    BY <1>4
  <2>4. \A k \in Job \ {j} :
            \/ job'[k] = job[k]
            \/ job[k].st = "none" /\ job'[k].st \in {"none", "queued"}
    BY <1>4
  <2>5. job' \in [Job -> Row] /\ job'[j].of = job[j].of
    BY <1>4
  <2> HIDE DEF e, IInv
  <2>6. JobEnded(j)
    BY <1>5, <1>6, <2>1, <2>2, <2>3, <2>4, <2>5 DEF JobEnded
  <2> QED BY <1>1, <2>6, EndKeeps
<1>8. TypeOK'
  BY <1>1, <1>2, <1>3, <1>4, <1>5, <1>6, <1>7, EndsTyped DEF TypeOK
<1> QED BY <1>3, <1>7, <1>8

\* A stage of the same handler follows; its row stays as it is, and a request at
\* work was so before.
LEMMA AdvanceKeeps ==
    ASSUME IInv, NEW j \in Job, at[j] # "none", NEW s \in Stage \ {"none"},
           at' = [at EXCEPT ![j] = s], UNCHANGED <<made, job, up, spared, excused>>,
           \A f \in Enh : status[f] = "gone" => status'[f] = "gone",
           \A f \in Enh : status'[f] \in Working =>
               status[f] \in Working /\ (s = "releasing" => f # job[j].of)
    PROVE  /\ at' \in [Job -> Stage]
           /\ RunningHasHandler' /\ BusyRuns' /\ DownIsIdle' /\ WorkingHasQueue'
<1> USE DEF IInv, Busy, Active
<1>1. at' \in [Job -> Stage] /\ at'[j] = s /\ \A k \in Job \ {j} : at'[k] = at[k]
  BY DEF TypeOK
<1>2. \A k \in Job : at'[k] # "none" <=> at[k] # "none"
  BY <1>1
<1>3. RunningHasHandler' /\ DownIsIdle'
  BY <1>2 DEF RunningHasHandler, DownIsIdle
<1>4. BusyRuns'
  <2> SUFFICES ASSUME NEW k \in Job, at'[k] # "none"
               PROVE  /\ job[k].st \notin {"none", "queued"}
                      /\ \/ job[k].st = "running" \/ job[k].of \in excused
                         \/ status'[job[k].of] = "gone"
    BY DEF BusyRuns
  <2>1. job[k].of \in Enh
    BY DEF TypeOK, Row
  <2> QED BY <1>2, <2>1 DEF BusyRuns
<1>5. WorkingHasQueue'
  <2> SUFFICES ASSUME NEW f \in Enh \ excused, status'[f] \in Working
               PROVE  \E k \in 1 .. made : /\ job[k].of = f
                                           /\ job[k].st \in {"queued", "running"}
                                           /\ at'[k] # "releasing"
    BY DEF WorkingHasQueue, JobsOf
  <2>1. PICK k \in 1 .. made : /\ job[k].of = f /\ job[k].st \in {"queued", "running"}
                               /\ at[k] # "releasing"
    BY DEF WorkingHasQueue, JobsOf
  <2>2. k \in Job
    BY StudioAssumption DEF TypeOK, Job
  <2> QED BY <1>1, <2>1, <2>2
<1> QED BY <1>1, <1>3, <1>4, <1>5

\* The container belongs to the handler that starts it.
LEMMA CodeStartsStep ==
    ASSUME IInv, NEW j \in Job, CodeStarts(j)
    PROVE  IInv'
<1> USE DEF IInv
<1> DEFINE e == job[j].of
<1>1. /\ e \in Enh /\ at[j] = "waiting" /\ at' = [at EXCEPT ![j] = "coding"]
      /\ UNCHANGED <<auto, plan, branch, made, job, rogue, recoding, up, spared,
                     excused, asks, crashes>>
  BY DEF CodeStarts, TypeOK, Row, rows
<1>2. /\ status' \in [Enh -> Status]
      /\ \A f \in Enh : status[f] = "gone" => status'[f] = "gone"
      /\ \A f \in Enh : status'[f] \in Working =>
             status[f] \in Working /\ ("coding" = "releasing" => f # e)
      /\ \A f \in Enh : status'[f] = "pending_user_review_plan" =>
             status[f] = "pending_user_review_plan"
  <2>1. status' = status
    BY DEF CodeStarts, rows
  <2>2. status'[e] \in {status[e], "gone", "pr_open", "merged"}
    BY <1>1, <2>1, SetLemma DEF Status, TypeOK
  <2>3. status' \in [Enh -> Status] /\ \A f \in Enh \ {e} : status'[f] = status[f]
    BY <1>1, <2>1, SetLemma DEF Status, TypeOK
  <2>4. status[e] = "gone" => status'[e] = "gone"
    BY <1>1, <2>1, SetLemma DEF Status, TypeOK
  <2>5. "coding" = "releasing" => status'[e] \in {"gone", "merged"}
    BY <1>1, <2>1, SetLemma DEF Status, TypeOK
  <2> HIDE DEF e
  <2> QED BY <2>2, <2>3, <2>4, <2>5 DEF Working
<1>3. "coding" \in Stage \ {"none"}
  BY DEF Stage
<1>4. /\ at' \in [Job -> Stage]
      /\ RunningHasHandler' /\ BusyRuns' /\ DownIsIdle' /\ WorkingHasQueue'
  <2> HIDE DEF IInv
  <2> QED BY <1>1, <1>2, <1>3, AdvanceKeeps
<1>5. \A k \in Job : StageFits(k)'
  BY <1>1 DEF TypeOK, StageFits
<1>6. ctr' \subseteq Job
  BY DEF CodeStarts, TypeOK
<1>7. TypeOK'
  BY <1>1, <1>2, <1>4, <1>5, <1>6 DEF TypeOK
<1>8. ReviewHasPlan'
  BY <1>1, <1>2 DEF ReviewHasPlan
<1> QED BY <1>4, <1>7, <1>8

\* The pull request is open while its handler goes on to merge.
LEMMA PrOpenedStep ==
    ASSUME IInv, NEW j \in Job, PrOpened(j)
    PROVE  IInv'
<1> USE DEF IInv
<1> DEFINE e == job[j].of
<1>1. /\ e \in Enh /\ at[j] = "opening" /\ at' = [at EXCEPT ![j] = "merging"]
      /\ UNCHANGED <<auto, plan, branch, made, job, rogue, recoding, up, spared,
                     excused, asks, crashes>>
  BY DEF PrOpened, TypeOK, Row, rows
<1>2. /\ status' \in [Enh -> Status]
      /\ \A f \in Enh : status[f] = "gone" => status'[f] = "gone"
      /\ \A f \in Enh : status'[f] \in Working =>
             status[f] \in Working /\ ("merging" = "releasing" => f # e)
      /\ \A f \in Enh : status'[f] = "pending_user_review_plan" =>
             status[f] = "pending_user_review_plan"
  <2>1. status' = Set(e, "pr_open")
    BY DEF PrOpened, rows
  <2>2. status'[e] \in {status[e], "gone", "pr_open", "merged"}
    BY <1>1, <2>1, SetLemma DEF Status, TypeOK
  <2>3. status' \in [Enh -> Status] /\ \A f \in Enh \ {e} : status'[f] = status[f]
    BY <1>1, <2>1, SetLemma DEF Status, TypeOK
  <2>4. status[e] = "gone" => status'[e] = "gone"
    BY <1>1, <2>1, SetLemma DEF Status, TypeOK
  <2>5. "merging" = "releasing" => status'[e] \in {"gone", "merged"}
    BY <1>1, <2>1, SetLemma DEF Status, TypeOK
  <2> HIDE DEF e
  <2> QED BY <2>2, <2>3, <2>4, <2>5 DEF Working
<1>3. "merging" \in Stage \ {"none"}
  BY DEF Stage
<1>4. /\ at' \in [Job -> Stage]
      /\ RunningHasHandler' /\ BusyRuns' /\ DownIsIdle' /\ WorkingHasQueue'
  <2> HIDE DEF IInv
  <2> QED BY <1>1, <1>2, <1>3, AdvanceKeeps
<1>5. \A k \in Job : StageFits(k)'
  BY <1>1 DEF TypeOK, StageFits
<1>6. ctr' \subseteq Job
  BY DEF PrOpened, TypeOK
<1>7. TypeOK'
  BY <1>1, <1>2, <1>4, <1>5, <1>6 DEF TypeOK
<1>8. ReviewHasPlan'
  BY <1>1, <1>2 DEF ReviewHasPlan
<1> QED BY <1>4, <1>7, <1>8

\* A merge settles the request while the release goes on.
LEMMA PrMergedStep ==
    ASSUME IInv, NEW j \in Job, PrMerged(j)
    PROVE  IInv'
<1> USE DEF IInv
<1> DEFINE e == job[j].of
<1>1. /\ e \in Enh /\ at[j] = "merging" /\ at' = [at EXCEPT ![j] = "releasing"]
      /\ UNCHANGED <<auto, plan, branch, made, job, rogue, recoding, up, spared,
                     excused, asks, crashes>>
  BY DEF PrMerged, TypeOK, Row, rows
<1>2. /\ status' \in [Enh -> Status]
      /\ \A f \in Enh : status[f] = "gone" => status'[f] = "gone"
      /\ \A f \in Enh : status'[f] \in Working =>
             status[f] \in Working /\ ("releasing" = "releasing" => f # e)
      /\ \A f \in Enh : status'[f] = "pending_user_review_plan" =>
             status[f] = "pending_user_review_plan"
  <2>1. status' = Set(e, "merged")
    BY DEF PrMerged, rows
  <2>2. status'[e] \in {status[e], "gone", "pr_open", "merged"}
    BY <1>1, <2>1, SetLemma DEF Status, TypeOK
  <2>3. status' \in [Enh -> Status] /\ \A f \in Enh \ {e} : status'[f] = status[f]
    BY <1>1, <2>1, SetLemma DEF Status, TypeOK
  <2>4. status[e] = "gone" => status'[e] = "gone"
    BY <1>1, <2>1, SetLemma DEF Status, TypeOK
  <2>5. "releasing" = "releasing" => status'[e] \in {"gone", "merged"}
    BY <1>1, <2>1, SetLemma DEF Status, TypeOK
  <2> HIDE DEF e
  <2> QED BY <2>2, <2>3, <2>4, <2>5 DEF Working
<1>3. "releasing" \in Stage \ {"none"}
  BY DEF Stage
<1>4. /\ at' \in [Job -> Stage]
      /\ RunningHasHandler' /\ BusyRuns' /\ DownIsIdle' /\ WorkingHasQueue'
  <2> HIDE DEF IInv
  <2> QED BY <1>1, <1>2, <1>3, AdvanceKeeps
<1>5. \A k \in Job : StageFits(k)'
  BY <1>1 DEF TypeOK, StageFits
<1>6. ctr' \subseteq Job
  BY DEF PrMerged, TypeOK
<1>7. TypeOK'
  BY <1>1, <1>2, <1>4, <1>5, <1>6 DEF TypeOK
<1>8. ReviewHasPlan'
  BY <1>1, <1>2 DEF ReviewHasPlan
<1> QED BY <1>4, <1>7, <1>8

\* The deployment ends: the request keeps whatever status it has by now.
LEMMA ReleasedStep ==
    ASSUME IInv, NEW j \in Job, Released(j)
    PROVE  IInv'
<1> USE DEF IInv
<1>1. /\ at[j] = "releasing" /\ Ends(j) /\ job \in [Job -> Row]
      /\ job' = Finished(job, j, "done") /\ UNCHANGED <<status, auto, plan, branch, made>>
  BY DEF Released, TypeOK
<1>2. /\ job' \in [Job -> Row] /\ job'[j].of = job[j].of
      /\ \A k \in Job \ {j} : job'[k] = job[k]
      /\ job'[j].st \in {"done", "failed", "deleted"}
  BY <1>1, FinishedLemma
<1>3. \A k \in Job : (job[k].st = "none")' <=> k > made'
  BY <1>1, <1>2 DEF TypeOK, BusyRuns, Busy
<1>4. made' \in 0 .. MaxJobs /\ made' >= made
  BY <1>1, StudioAssumption DEF TypeOK
<1>5. JobEnded(j)
  BY <1>1, <1>2, <1>3, <1>4 DEF JobEnded
<1>6. /\ \A k \in Job : StageFits(k)'
      /\ RunningHasHandler' /\ BusyRuns' /\ DownIsIdle' /\ WorkingHasQueue'
  <2> HIDE DEF IInv
  <2> QED BY <1>1, <1>5, EndKeeps
<1>7. TypeOK'
  BY <1>1, <1>2, <1>3, <1>6, EndsTyped DEF TypeOK
<1>8. ReviewHasPlan'
  BY <1>1 DEF ReviewHasPlan
<1> QED BY <1>6, <1>7, <1>8

\* A handler that ends and queues the next job of its request.
LEMMA QueueAndEnd ==
    ASSUME IInv, NEW j \in Job, at[j] # "none", NEW e \in Enh, e = job[j].of,
           NEW ph \in PlanPhase \cup CodePhase, made < MaxJobs, made' = made + 1,
           job' = Finished(Inserted(e, ph), j, "done"),
           \A f \in Enh : status[f] = "gone" => status'[f] = "gone",
           \A f \in Enh \ {e} : status'[f] = status[f]
    PROVE  JobEnded(j)
<1> USE DEF IInv
<1>1. /\ made + 1 \in Job /\ made + 1 \in 0 .. MaxJobs
      /\ job[made + 1].st = "none" /\ Inserted(e, ph) \in [Job -> Row]
      /\ Inserted(e, ph)[made + 1] = [of |-> e, phase |-> ph, st |-> "queued"]
      /\ \A k \in Job \ {made + 1} : Inserted(e, ph)[k] = job[k]
      /\ \A k \in Job : Inserted(e, ph)[k].st = "none" <=> k > made + 1
  BY InsertedLemma
<1>2. j # made + 1 /\ job[j].st # "none"
  BY <1>1 DEF BusyRuns, Busy
<1>3. /\ job' \in [Job -> Row]
      /\ \A k \in Job \ {j} : job'[k] = Inserted(e, ph)[k]
      /\ job'[j].of = Inserted(e, ph)[j].of
      /\ job'[j].st \in {"done", "failed", "deleted"}
  BY <1>1, FinishedLemma
<1>4. \A k \in Job : (job[k].st = "none")' <=> k > made'
  BY <1>1, <1>2, <1>3
<1>5. made' >= made /\ made' \in 0 .. MaxJobs
  BY <1>1, StudioAssumption DEF TypeOK
<1>6. \A f \in Enh : status'[f] \in Working =>
          \/ status[f] \in Working /\ (f # job[j].of \/ at[j] = "releasing")
          \/ \E k \in Job : job[k].st = "none" /\ job'[k].of = f /\ job'[k].st = "queued"
  <2> SUFFICES ASSUME NEW f \in Enh, status'[f] \in Working, ~(status[f] \in Working /\ f # e)
               PROVE  \E k \in Job : job[k].st = "none" /\ job'[k].of = f /\ job'[k].st = "queued"
    OBVIOUS
  <2>1. f = e
    OBVIOUS
  <2>2. job'[made + 1].of = e /\ job'[made + 1].st = "queued"
    BY <1>1, <1>2, <1>3
  <2> QED BY <1>1, <2>1, <2>2
<1>7. \A k \in Job \ {j} : \/ job'[k] = job[k]
                           \/ job[k].st = "none" /\ job'[k].st \in {"none", "queued"}
  <2> TAKE k \in Job \ {j}
  <2>1. CASE k = made + 1
    BY <1>1, <1>3, <2>1
  <2>2. CASE k # made + 1
    BY <1>1, <1>3, <2>2
  <2> QED BY <2>1, <2>2
<1> QED
  <2>1. job'[j].of = job[j].of
    BY <1>1, <1>2, <1>3
  <2>2. job'[j].st \notin {"queued", "running"}
    BY <1>3
  <2> HIDE DEF IInv
  <2> QED BY <1>3, <1>4, <1>5, <1>6, <1>7, <2>1, <2>2 DEF JobEnded

\* A push that conflicts fails row and request.
LEMMA PushConflictStep ==
    ASSUME IInv, NEW j \in Job, PushConflict(j)
    PROVE  IInv'
<1> USE DEF IInv
<1> DEFINE e == job[j].of
<1>1. /\ e \in Enh /\ at[j] # "none" /\ Ends(j) /\ made < MaxJobs /\ made' = made + 1
      /\ job' = Finished(Inserted(e, "revise_plan"), j, "done")
      /\ UNCHANGED <<auto, branch>>
  BY DEF PushConflict, TypeOK, Row
<1>2. /\ status' \in [Enh -> Status] /\ \A f \in Enh \ {e} : status'[f] = status[f]
      /\ \A f \in Enh : status[f] = "gone" => status'[f] = "gone"
      /\ status'[e] # "pending_user_review_plan"
  BY <1>1, SetLemma DEF PushConflict, Status, TypeOK
<1>3. "revise_plan" \in PlanPhase \cup CodePhase
  BY DEF PlanPhase
<1>4. JobEnded(j)
  <2> HIDE DEF IInv, e
  <2> QED BY <1>1, <1>2, <1>3, QueueAndEnd DEF e
<1>5. /\ \A k \in Job : StageFits(k)'
      /\ RunningHasHandler' /\ BusyRuns' /\ DownIsIdle' /\ WorkingHasQueue'
  <2> HIDE DEF IInv
  <2> QED BY <1>1, <1>4, EndKeeps
<1>6. /\ plan' \in [Enh -> {"none", "proposed", "approved"}]
      /\ \A f \in Enh \ {e} : plan'[f] = plan[f]
  BY <1>1 DEF PushConflict, TypeOK
<1>7. TypeOK'
  BY <1>1, <1>2, <1>4, <1>5, <1>6, EndsTyped DEF TypeOK, JobEnded
<1>8. ReviewHasPlan'
  BY <1>2, <1>6 DEF ReviewHasPlan
<1> QED BY <1>5, <1>7, <1>8

\* A build either waits for a person or has queued its pull request.
LEMMA BuildDoneStep ==
    ASSUME IInv, NEW j \in Job, BuildDone(j)
    PROVE  IInv'
<1> USE DEF IInv
<1> DEFINE e == job[j].of
<1>1. /\ e \in Enh /\ at[j] # "none" /\ Ends(j) /\ job \in [Job -> Row]
      /\ UNCHANGED <<auto, plan, branch>>
  BY DEF BuildDone, TypeOK, Row
<1>2. /\ status' \in [Enh -> Status] /\ \A f \in Enh \ {e} : status'[f] = status[f]
      /\ \A f \in Enh : status[f] = "gone" => status'[f] = "gone"
      /\ status'[e] # "pending_user_review_plan" /\ status'[e] \notin Working
  BY <1>1, SetLemma DEF BuildDone, Status, TypeOK, Working
<1>3. JobEnded(j)
  <2>1. CASE at[j] = "autodeploying"
    <3>1. made < MaxJobs /\ made' = made + 1
      BY <2>1 DEF BuildDone
    <3>2. job' = Finished(Inserted(e, "open_pr"), j, "done")
      BY <2>1 DEF BuildDone
    <3>3. "open_pr" \in PlanPhase \cup CodePhase
      BY DEF CodePhase
    <3> HIDE DEF IInv, e
    <3> QED BY <1>1, <1>2, <3>1, <3>2, <3>3, QueueAndEnd DEF e
  <2>2. CASE at[j] = "deploying"
    <3>1. job' = Finished(job, j, "done") /\ made' = made
      BY <2>2 DEF BuildDone
    <3>2. /\ job' \in [Job -> Row] /\ job'[j].of = job[j].of
          /\ \A k \in Job \ {j} : job'[k] = job[k]
          /\ job'[j].st \in {"done", "failed", "deleted"}
      BY <1>1, <3>1, FinishedLemma
    <3>3. \A k \in Job : (job[k].st = "none")' <=> k > made'
      BY <1>1, <3>1, <3>2 DEF TypeOK, BusyRuns, Busy
    <3>4. made' \in 0 .. MaxJobs /\ made' >= made
      BY <3>1, StudioAssumption DEF TypeOK
    <3>5. \A f \in Enh : status'[f] \in Working => status[f] \in Working /\ f # e
      BY <1>2
    <3> HIDE DEF IInv
    <3> QED BY <1>2, <3>2, <3>3, <3>4, <3>5 DEF JobEnded
  <2> QED BY <2>1, <2>2 DEF BuildDone
<1>4. /\ \A k \in Job : StageFits(k)'
      /\ RunningHasHandler' /\ BusyRuns' /\ DownIsIdle' /\ WorkingHasQueue'
  <2> HIDE DEF IInv
  <2> QED BY <1>1, <1>3, EndKeeps
<1>5. TypeOK'
  BY <1>1, <1>2, <1>3, <1>4, EndsTyped DEF TypeOK, JobEnded
<1>6. ReviewHasPlan'
  BY <1>1, <1>2 DEF ReviewHasPlan
<1> QED BY <1>4, <1>5, <1>6

\* The new jobs of stale requests take exactly the ids after the build job, one
\* for each request: a rank in a finite set of numbers is a bijection.
LEMMA StaleIds ==
    ASSUME TypeOK, NEW e \in Enh
    PROVE  /\ Cardinality(Stale(e)) \in Nat
           /\ \A s \in Stale(e) :
                  StaleJob(e, s) \in made + 2 .. made + 1 + Cardinality(Stale(e))
           /\ \A s, t \in Stale(e) : StaleJob(e, s) = StaleJob(e, t) => s = t
           /\ \A k \in made + 2 .. made + 1 + Cardinality(Stale(e)) :
                  \E s \in Stale(e) : k = StaleJob(e, s)
<1> DEFINE S == Stale(e)
           n == Cardinality(S)
           Below(s) == {t \in S : t < s}
           T == made + 2 .. made + 1 + n
           f == [s \in S |-> StaleJob(e, s)]
<1>1. S \in SUBSET Enh /\ S \subseteq Nat /\ IsFiniteSet(S) /\ made \in Nat
  <2>1. S \in SUBSET Enh
    BY DEF Stale
  <2>2. IsFiniteSet(S)
    BY <2>1, FS_Subset, StudioAssumption
  <2>3. made \in Nat
    BY StudioAssumption DEF TypeOK
  <2> HIDE DEF S
  <2> QED BY <2>1, <2>2, <2>3, StudioAssumption
<1>2. n \in Nat
  BY <1>1, FS_CardinalityType
<1>3. \A s \in S : /\ IsFiniteSet(Below(s)) /\ Cardinality(Below(s)) \in Nat
                   /\ Cardinality(Below(s)) < n
  <2> SUFFICES ASSUME NEW s \in S
               PROVE  /\ IsFiniteSet(Below(s)) /\ Cardinality(Below(s)) \in Nat
                      /\ Cardinality(Below(s)) < n
    OBVIOUS
  <2>1. Below(s) \in SUBSET S /\ s \notin Below(s)
    BY <1>1
  <2>2. IsFiniteSet(Below(s)) /\ Cardinality(Below(s)) <= n /\ Below(s) # S
        /\ (n = Cardinality(Below(s)) => S = Below(s))
    BY <1>1, <2>1, FS_Subset
  <2>3. Cardinality(Below(s)) \in Nat
    BY <2>2, FS_CardinalityType
  <2> QED BY <1>2, <2>2, <2>3
<1>4. \A s, t \in S : s < t => Cardinality(Below(s)) < Cardinality(Below(t))
  <2> SUFFICES ASSUME NEW s \in S, NEW t \in S, s < t
               PROVE  Cardinality(Below(s)) < Cardinality(Below(t))
    OBVIOUS
  <2>1. Below(s) \in SUBSET Below(t) /\ s \in Below(t) /\ s \notin Below(s)
    <3>1. \A u \in S : u \in Nat
      BY <1>1
    <3> QED BY <3>1
  <2>2. /\ IsFiniteSet(Below(s)) /\ IsFiniteSet(Below(t))
        /\ Cardinality(Below(s)) \in Nat /\ Cardinality(Below(t)) \in Nat
    BY <1>3
  <2>3. Cardinality(Below(s)) <= Cardinality(Below(t))
        /\ (Cardinality(Below(t)) = Cardinality(Below(s)) => Below(t) = Below(s))
    BY <2>1, <2>2, FS_Subset
  <2> HIDE DEF Below
  <2> QED BY <2>1, <2>2, <2>3
<1>5. \A s \in S : StaleJob(e, s) = made + 2 + Cardinality(Below(s))
  BY DEF StaleJob
<1>6. \A s \in S : StaleJob(e, s) \in T
  <2> HIDE DEF S, n, Below
  <2> QED BY <1>1, <1>2, <1>3, <1>5
<1>7. \A s, t \in S : StaleJob(e, s) = StaleJob(e, t) => s = t
  <2> SUFFICES ASSUME NEW s \in S, NEW t \in S, StaleJob(e, s) = StaleJob(e, t)
               PROVE  s = t
    OBVIOUS
  <2>1. Cardinality(Below(s)) = Cardinality(Below(t))
    <3> HIDE DEF S, Below
    <3> QED BY <1>1, <1>3, <1>5
  <2>2. s \in Nat /\ t \in Nat
    BY <1>1
  <2>3. ~(s < t) /\ ~(t < s)
    <3>1. Cardinality(Below(s)) \in Nat
      BY <1>3
    <3> HIDE DEF S, Below
    <3> QED BY <1>4, <2>1, <3>1
  <2> QED BY <2>2, <2>3
<1>8. f \in Injection(S, T)
  BY <1>6, <1>7 DEF Injection, IsInjective
<1>9. IsFiniteSet(T) /\ Cardinality(T) = n
  <2> HIDE DEF n
  <2> QED BY <1>1, <1>2, FS_Interval
<1>10. f \in Surjection(S, T)
  <2> HIDE DEF f, S, T, n
  <2>1. Cardinality(S) = n
    BY DEF n
  <2> QED BY <1>8, <1>9, <2>1, FS_Injection
<1>11. \A k \in T : \E s \in S : k = StaleJob(e, s)
  BY <1>10 DEF Surjection
<1> QED BY <1>2, <1>6, <1>7, <1>11

\* A push queues the build, and a new plan for every plan it wipes.
LEMMA PushedStep ==
    ASSUME IInv, NEW j \in Job, Pushed(j)
    PROVE  IInv'
<1> USE DEF IInv
<1> DEFINE e == job[j].of
           S == Stale(e)
           n == Cardinality(S)
           js == [k \in Job |->
                     IF \E s \in S : k = StaleJob(e, s)
                     THEN [of |-> CHOOSE s \in S : k = StaleJob(e, s),
                           phase |-> "plan", st |-> "queued"]
                     ELSE Inserted(e, "build")[k]]
<1>1. /\ e \in Enh /\ at[j] = "coding" /\ Ends(j) /\ status[e] # "gone"
      /\ made + 1 + n <= MaxJobs /\ made' = made + 1 + n
      /\ branch' = branch \cup {e} /\ UNCHANGED auto
      /\ status' = [s \in Enh |-> IF s = e THEN "pushing"
                                  ELSE IF s \in S THEN "planning" ELSE status[s]]
      /\ plan' = [s \in Enh |-> IF s \in S THEN "none" ELSE plan[s]]
      /\ job' = Finished(js, j, "done")
  BY DEF Pushed, TypeOK, Row
<1>2. /\ n \in Nat /\ S \subseteq Enh
      /\ \A s \in S : StaleJob(e, s) \in made + 2 .. made + 1 + n
      /\ \A s, t \in S : StaleJob(e, s) = StaleJob(e, t) => s = t
      /\ \A k \in made + 2 .. made + 1 + n : \E s \in S : k = StaleJob(e, s)
  BY <1>1, StaleIds DEF Stale
<1>3. made \in Nat /\ MaxJobs \in Nat /\ made < MaxJobs /\ \A k \in Job : k \in Nat
  BY <1>1, <1>2, StudioAssumption DEF TypeOK, Job
<1>4. "build" \in PlanPhase \cup CodePhase /\ "plan" \in PlanPhase \cup CodePhase
  BY DEF PlanPhase, CodePhase
<1>5. /\ made + 1 \in Job
      /\ job[made + 1].st = "none" /\ Inserted(e, "build") \in [Job -> Row]
      /\ Inserted(e, "build")[made + 1] = [of |-> e, phase |-> "build", st |-> "queued"]
      /\ \A k \in Job \ {made + 1} : Inserted(e, "build")[k] = job[k]
      /\ \A k \in Job : Inserted(e, "build")[k].st = "none" <=> k > made + 1
  BY <1>1, <1>3, <1>4, InsertedLemma
<1>6. \A s \in S : /\ StaleJob(e, s) \in Job /\ StaleJob(e, s) > made + 1
                   /\ js[StaleJob(e, s)] = [of |-> s, phase |-> "plan", st |-> "queued"]
  <2> SUFFICES ASSUME NEW s \in S
               PROVE  /\ StaleJob(e, s) \in Job /\ StaleJob(e, s) > made + 1
                      /\ js[StaleJob(e, s)] = [of |-> s, phase |-> "plan", st |-> "queued"]
    OBVIOUS
  <2>1. StaleJob(e, s) \in made + 2 .. made + 1 + n
    BY <1>2
  <2>2. StaleJob(e, s) \in Job /\ StaleJob(e, s) > made + 1
    <3> HIDE DEF n, e
    <3> QED BY <1>1, <1>2, <1>3, <2>1 DEF Job
  <2>3. (CHOOSE t \in S : StaleJob(e, s) = StaleJob(e, t)) = s
    <3> HIDE DEF S, e
    <3> QED BY <1>2
  <2> QED BY <2>2, <2>3
<1>7. \A k \in Job : k > made + 1 + n \/ k <= made + 1 => js[k] = Inserted(e, "build")[k]
  <2> SUFFICES ASSUME NEW k \in Job, k > made + 1 + n \/ k <= made + 1
               PROVE  ~ \E s \in S : k = StaleJob(e, s)
    OBVIOUS
  <2> HIDE DEF S, n, e
  <2> QED BY <1>2, <1>3
<1>8. \A k \in Job : k > made + 1 /\ k <= made + 1 + n =>
          js[k].st = "queued" /\ js[k] \in Row
  <2> SUFFICES ASSUME NEW k \in Job, k > made + 1, k <= made + 1 + n
               PROVE  js[k].st = "queued" /\ js[k] \in Row
    OBVIOUS
  <2>1. PICK s \in S : k = StaleJob(e, s)
    <3>1. k \in made + 2 .. made + 1 + n
      <4> HIDE DEF n, e, js
      <4> QED BY <1>2, <1>3
    <3> QED BY <1>2, <3>1
  <2>2. js[k] = [of |-> s, phase |-> "plan", st |-> "queued"] /\ s \in Enh
    BY <1>2, <1>6, <2>1
  <2> HIDE DEF js
  <2> QED BY <1>4, <2>2 DEF Row
<1>9. js \in [Job -> Row]
  <2>1. \A k \in Job : js[k] \in Row
    <3> HIDE DEF js, n, e
    <3> QED BY <1>2, <1>3, <1>5, <1>7, <1>8
  <2>2. js = [k \in Job |-> js[k]]
    OBVIOUS
  <2> HIDE DEF js
  <2> QED BY <2>1, <2>2
<1>10. j \in Job /\ job[j].st # "none" /\ j <= made
  <2>1. job[j].st # "none"
    BY <1>1 DEF BusyRuns, Busy
  <2> QED BY <1>3, <2>1 DEF TypeOK
<1>11. js[j] = job[j]
  <2> HIDE DEF js, n, e
  <2> QED BY <1>3, <1>5, <1>7, <1>10
<1>12. /\ job' \in [Job -> Row] /\ job'[j].of = job[j].of
       /\ \A k \in Job \ {j} : job'[k] = js[k]
       /\ job'[j].st \in {"done", "failed", "deleted"}
  <2> HIDE DEF js
  <2> QED BY <1>1, <1>9, <1>11, FinishedLemma
<1>13. JobEnded(j)
  <2>1. made' \in 0 .. MaxJobs /\ made' >= made
    <3> HIDE DEF n, e
    <3> QED BY <1>1, <1>2, <1>3
  <2>2. \A k \in Job : (job[k].st = "none")' <=> k > made'
    <3> SUFFICES ASSUME NEW k \in Job PROVE job'[k].st = "none" <=> k > made'
      OBVIOUS
    <3> HIDE DEF js, n, e
    <3>1. CASE k = j
      BY <3>1, <1>1, <1>2, <1>3, <1>10, <1>12
    <3>2. CASE k # j /\ k > made + 1 + n
      BY <3>2, <1>1, <1>2, <1>3, <1>5, <1>7, <1>12
    <3>3. CASE k # j /\ k > made + 1 /\ k <= made + 1 + n
      BY <3>3, <1>1, <1>2, <1>3, <1>8, <1>12
    <3>4. CASE k # j /\ k <= made + 1
      BY <3>4, <1>1, <1>2, <1>3, <1>5, <1>7, <1>12
    <3> QED BY <3>1, <3>2, <3>3, <3>4, <1>2, <1>3
  <2>3. \A k \in Job \ {j} : \/ job'[k] = job[k]
                             \/ job[k].st = "none" /\ job'[k].st \in {"none", "queued"}
    <3> SUFFICES ASSUME NEW k \in Job \ {j}
                 PROVE  \/ job'[k] = job[k]
                        \/ job[k].st = "none" /\ job'[k].st \in {"none", "queued"}
      OBVIOUS
    <3> HIDE DEF js, n, e
    <3>1. CASE k > made + 1 /\ k <= made + 1 + n
      BY <3>1, <1>3, <1>8, <1>12 DEF TypeOK
    <3>2. CASE k > made + 1 + n \/ k < made + 1
      BY <3>2, <1>2, <1>3, <1>5, <1>7, <1>12
    <3>3. CASE k = made + 1
      BY <3>3, <1>3, <1>5, <1>7, <1>12
    <3> QED BY <3>1, <3>2, <3>3, <1>2, <1>3
  <2>4. \A f \in Enh : status[f] = "gone" => status'[f] = "gone"
    BY <1>1 DEF Stale
  <2>5. \A f \in Enh : status'[f] \in Working =>
            \/ status[f] \in Working /\ (f # job[j].of \/ at[j] = "releasing")
            \/ \E k \in Job : job[k].st = "none" /\ job'[k].of = f /\ job'[k].st = "queued"
    <3> SUFFICES ASSUME NEW f \in Enh, status'[f] \in Working,
                        ~(status[f] \in Working /\ f # e)
                 PROVE  \E k \in Job : job[k].st = "none" /\ job'[k].of = f /\ job'[k].st = "queued"
      OBVIOUS
    <3>1. CASE f = e
      <4>1. job'[made + 1] = [of |-> e, phase |-> "build", st |-> "queued"]
        <5> HIDE DEF js, n, e
        <5> QED BY <1>2, <1>3, <1>5, <1>7, <1>10, <1>12
      <4> QED BY <1>5, <3>1, <4>1
    <3>2. CASE f # e
      <4>1. f \in S
        BY <1>1, <3>2
      <4> DEFINE k == StaleJob(e, f)
      <4>2. k \in Job /\ k > made + 1 /\ js[k] = [of |-> f, phase |-> "plan", st |-> "queued"]
        BY <1>6, <4>1
      <4> HIDE DEF js, n, e, k, S
      <4>3. k # j /\ job[k].st = "none"
        BY <1>3, <1>10, <4>2 DEF TypeOK
      <4> QED BY <1>12, <4>2, <4>3
    <3> QED BY <3>1, <3>2
  <2>6. job'[j].st \notin {"queued", "running"}
    BY <1>12
  <2> HIDE DEF IInv, js, n, e, S
  <2> QED BY <1>12, <2>1, <2>2, <2>3, <2>4, <2>5, <2>6 DEF JobEnded
<1>14. /\ \A k \in Job : StageFits(k)'
       /\ RunningHasHandler' /\ BusyRuns' /\ DownIsIdle' /\ WorkingHasQueue'
  <2>1. at[j] # "none"
    BY <1>1
  <2> HIDE DEF IInv
  <2> QED BY <1>1, <1>13, <2>1, EndKeeps
<1>15. /\ status' \in [Enh -> Status] /\ plan' \in [Enh -> {"none", "proposed", "approved"}]
       /\ branch' \subseteq Enh /\ auto' \subseteq Enh
  BY <1>1 DEF TypeOK, Status
<1>16. TypeOK'
  <2> HIDE DEF js, n, e, S
  <2> QED BY <1>1, <1>13, <1>14, <1>15, EndsTyped DEF TypeOK, JobEnded
<1>17. ReviewHasPlan'
  <2> SUFFICES ASSUME NEW f \in Enh, status'[f] = "pending_user_review_plan"
               PROVE  plan'[f] # "none"
    BY DEF ReviewHasPlan
  <2>1. f \notin S /\ status[f] = "pending_user_review_plan"
    BY <1>1
  <2> QED BY <1>1, <2>1 DEF ReviewHasPlan
<1> QED BY <1>14, <1>16, <1>17

-----------------------------------------------------------------------------
(* Crash and boot keep the invariant; so do the initial states.            *)

\* A set of ids has a largest one.
LEMMA LargestExists ==
    ASSUME NEW S \in SUBSET (1 .. MaxJobs), S # {}
    PROVE  \E j \in S : \A k \in S : k <= j
<1> DEFINE T == {MaxJobs - k : k \in S}
<1>1. \A k \in S : k \in Nat /\ k <= MaxJobs /\ MaxJobs - k \in Nat
  BY StudioAssumption
<1>2. T \subseteq Nat /\ T # {}
  BY <1>1
<1>3. PICK x \in T : \A y \in T : ~ (<<y, x>> \in OpToRel(<, Nat))
  <2> HIDE DEF T
  <2> QED BY <1>2, NatLessThanWellFounded, WFMin
<1>4. \A y \in T : ~ (y < x)
  <2> HIDE DEF T
  <2> QED BY <1>2, <1>3 DEF OpToRel
<1>5. PICK j \in S : x = MaxJobs - j
  OBVIOUS
<1>6. \A k \in S : k <= j
  <2> TAKE k \in S
  <2>1. ~ (MaxJobs - k < MaxJobs - j)
    BY <1>4, <1>5
  <2> QED BY <1>1, <2>1, StudioAssumption
<1> QED BY <1>6

\* The end of a container nobody awaits changes no row.
LEMMA ContainerEndsStep ==
    ASSUME IInv, NEW j \in Job, ContainerEnds(j)
    PROVE  IInv'
BY DEF IInv, ContainerEnds, rows, TypeOK, StageFits, RunningHasHandler, BusyRuns,
       DownIsIdle, WorkingHasQueue, ReviewHasPlan, JobsOf, Active, Busy

\* A crash ends every handler and no container.
LEMMA CrashStep ==
    ASSUME IInv, Crash
    PROVE  IInv'
<1> USE DEF IInv
<1>1. PICK half \in SUBSET {j \in Job : at[j] = "coding"} :
        /\ status' = [e \in Enh |-> IF status[e] # "gone" /\ \E j \in half : job[j].of = e
                                    THEN "pushing" ELSE status[e]]
        /\ branch' = branch \cup {job[j].of : j \in half}
        /\ ctr' = ctr \ half
  BY DEF Crash
<1>2. /\ at' = [j \in Job |-> "none"] /\ up' = FALSE /\ rogue' = {} /\ recoding' = {}
      /\ crashes < MaxCrashes /\ crashes' = crashes + 1
      /\ UNCHANGED <<auto, plan, made, job, spared, excused, asks>>
  BY DEF Crash
<1>3. /\ status' \in [Enh -> Status] /\ branch' \subseteq Enh /\ ctr' \subseteq Job
      /\ crashes' \in 0 .. MaxCrashes
  <2>1. \A j \in half : job[j].of \in Enh
    BY DEF TypeOK, Row
  <2>2. status' \in [Enh -> Status]
    BY <1>1 DEF TypeOK, Status
  <2>3. crashes' \in 0 .. MaxCrashes
    BY <1>2, StudioAssumption DEF TypeOK
  <2> QED BY <1>1, <2>1, <2>2, <2>3 DEF TypeOK
<1>4. TypeOK'
  BY <1>2, <1>3 DEF TypeOK, StageFits, Stage
<1>5. RunningHasHandler' /\ BusyRuns' /\ DownIsIdle'
  BY <1>2 DEF RunningHasHandler, BusyRuns, DownIsIdle, Busy
<1>6. WorkingHasQueue'
  <2> SUFFICES ASSUME NEW f \in Enh \ excused, status'[f] \in Working
               PROVE  \E k \in 1 .. made : job[k].of = f /\ job[k].st \in {"queued", "running"}
    BY <1>2, StudioAssumption DEF WorkingHasQueue, JobsOf, Active, TypeOK, Job
  <2>1. CASE status[f] \in Working
    BY <2>1 DEF WorkingHasQueue, JobsOf, Active
  <2>2. CASE status[f] \notin Working
    <3>1. PICK j \in half : job[j].of = f /\ status[f] # "gone"
      BY <1>1, <2>2
    <3>2. j \in Job /\ job[j].st = "running"
      BY <3>1 DEF BusyRuns, Busy
    <3>3. j \in 1 .. made
      BY <3>2, StudioAssumption DEF TypeOK, Job
    <3> QED BY <3>1, <3>2, <3>3
  <2> QED BY <2>1, <2>2
<1>7. ReviewHasPlan'
  BY <1>1, <1>2 DEF ReviewHasPlan, TypeOK
<1> QED BY <1>4, <1>5, <1>6, <1>7

\* A boot queues again what ran without a container it saw.
LEMMA RecoverStep ==
    ASSUME IInv, NEW seen \in SUBSET Job, ~up, up' = TRUE, Recover(seen),
           UNCHANGED <<auto, plan, branch, made, at, rogue, recoding, ctr, excused, asks,
                       crashes>>
    PROVE  IInv'
<1> USE DEF IInv
<1>1. /\ ~up /\ up' = TRUE /\ spared' = {j \in seen : job[j].st = "running"}
      /\ job' = [j \in Job |-> IF j \in Orphans(seen) THEN [job[j] EXCEPT !.st = "queued"]
                               ELSE job[j]]
      /\ UNCHANGED <<auto, plan, branch, made, at, rogue, recoding, ctr, excused, asks, crashes>>
  BY DEF Recover
<1>2. \A j \in Job : at[j] = "none"
  BY <1>1 DEF DownIsIdle, Busy
<1>3. /\ job' \in [Job -> Row]
      /\ \A j \in Job : job'[j].of = job[j].of /\ job'[j].phase = job[j].phase
      /\ \A j \in Job \ Orphans(seen) : job'[j] = job[j]
      /\ \A j \in Job : j \in Orphans(seen) => job[j].st = "running" /\ job'[j].st = "queued"
  BY <1>1 DEF TypeOK, Row, Orphans
<1>4. \A f \in Enh :
          \/ status'[f] = status[f]
          \/ /\ status[f] # "gone"
             /\ \E j \in Orphans(seen) : job[j].of = f /\ status'[f] = RecoveredStatus(job[j].phase)
  <2> SUFFICES ASSUME NEW f \in Enh, status'[f] # status[f]
               PROVE  /\ status[f] # "gone"
                      /\ \E j \in Orphans(seen) :
                            job[j].of = f /\ status'[f] = RecoveredStatus(job[j].phase)
    OBVIOUS
  <2> DEFINE mine == {j \in Orphans(seen) : job[j].of = f}
             last == CHOOSE j \in mine : \A k \in mine : k <= j
  <2>1. /\ mine # {} /\ status[f] # "gone"
        /\ status'[f] = RecoveredStatus(job[last].phase)
    BY DEF Recover
  <2>2. last \in mine
    <3>1. mine \in SUBSET (1 .. MaxJobs)
      BY DEF Orphans, Job
    <3>2. \E j \in mine : \A k \in mine : k <= j
      <4> HIDE DEF mine
      <4> QED BY <2>1, <3>1, LargestExists
    <3> HIDE DEF mine
    <3> QED BY <3>2
  <2> QED BY <2>1, <2>2
<1>5. \A j \in Orphans(seen) : RecoveredStatus(job[j].phase) \in Status
  BY DEF Orphans, RecoveredStatus, TypeOK, Row, PlanPhase, CodePhase, Status
<1>6. status' \in [Enh -> Status] /\ \A f \in Enh : status[f] = "gone" => status'[f] = "gone"
  <2>1. \A f \in Enh : status'[f] \in Status
    BY <1>4, <1>5 DEF TypeOK
  <2>2. DOMAIN status' = Enh /\ status' = [f \in Enh |-> status'[f]]
    BY DEF Recover
  <2> QED BY <1>4, <2>1, <2>2
<1>7. \A k \in Job : (job[k].st = "none")' <=> k > made'
  BY <1>1, <1>3 DEF TypeOK
<1>8. \A k \in Job : StageFits(k)'
  BY <1>1, <1>2 DEF StageFits
<1>9. spared' \subseteq Job
  BY <1>1 DEF TypeOK
<1>10. TypeOK'
  BY <1>1, <1>3, <1>6, <1>7, <1>8, <1>9 DEF TypeOK
<1>11. RunningHasHandler'
  BY <1>1, <1>3 DEF RunningHasHandler, Orphans
<1>12. BusyRuns' /\ DownIsIdle'
  BY <1>1, <1>2 DEF BusyRuns, DownIsIdle, Busy
<1>13. WorkingHasQueue'
  <2>1. 1 .. made \subseteq Job
    BY StudioAssumption DEF TypeOK, Job
  <2> SUFFICES ASSUME NEW f \in Enh, f \notin excused, status'[f] \in Working
               PROVE  \E k \in 1 .. made : job'[k].of = f /\ job'[k].st \in {"queued", "running"}
    <3> SUFFICES ASSUME NEW f \in Enh, f \notin excused, status'[f] \in Working
                 PROVE  \E k \in (JobsOf(f))' : Active(k)' /\ at'[k] # "releasing"
      BY <1>1 DEF WorkingHasQueue
    <3>1. PICK k \in 1 .. made : job'[k].of = f /\ job'[k].st \in {"queued", "running"}
      OBVIOUS
    <3>2. k \in (JobsOf(f))' /\ Active(k)'
      BY <1>1, <3>1 DEF JobsOf, Active
    <3>3. at'[k] = "none"
      BY <1>1, <1>2, <2>1, <3>1
    <3> QED BY <3>2, <3>3
  <2>2. CASE status'[f] = status[f]
    <3>1. PICK k \in 1 .. made : job[k].of = f /\ job[k].st \in {"queued", "running"}
      BY <2>2 DEF WorkingHasQueue, JobsOf, Active
    <3> QED BY <1>3, <2>1, <3>1
  <2>3. CASE status'[f] # status[f]
    <3>1. PICK j \in Orphans(seen) : job[j].of = f
      BY <1>4, <2>3
    <3>2. j \in Job /\ job[j].st = "running"
      BY DEF Orphans
    <3>3. j \in 1 .. made
      BY <3>2, StudioAssumption DEF TypeOK, Job
    <3> QED BY <1>3, <3>1, <3>2, <3>3
  <2> QED BY <2>2, <2>3
<1>14. ReviewHasPlan'
  <2> SUFFICES ASSUME NEW f \in Enh, status'[f] = "pending_user_review_plan"
               PROVE  plan[f] # "none"
    BY <1>1 DEF ReviewHasPlan
  <2>1. \A j \in Orphans(seen) : RecoveredStatus(job[j].phase) # "pending_user_review_plan"
    BY DEF Orphans, RecoveredStatus, TypeOK, Row, PlanPhase, CodePhase
  <2> QED BY <1>4, <2>1 DEF ReviewHasPlan
<1> QED BY <1>10, <1>11, <1>12, <1>13, <1>14

LEMMA BootStep ==
    ASSUME IInv, Boot
    PROVE  IInv'
<1>1. ctr \in SUBSET Job /\ {} \in SUBSET Job
  BY DEF IInv, TypeOK
<1>2. /\ ~up /\ up' = TRUE
      /\ \E seen \in SUBSET Job : Recover(seen)
      /\ UNCHANGED <<auto, plan, branch, made, at, rogue, recoding, ctr, excused, asks,
                     crashes>>
  <2>1. Recover(ctr) \/ Recover({})
    BY DEF Boot
  <2>2. \E seen \in SUBSET Job : Recover(seen)
    <3>1. CASE Recover(ctr)
      BY <1>1, <3>1
    <3>2. CASE Recover({})
      BY <1>1, <3>2
    <3> QED BY <2>1, <3>1, <3>2
  <2> QED BY <2>2 DEF Boot
<1> QED BY <1>2, RecoverStep

\* An empty table satisfies the invariant.
LEMMA InitLemma == Init => IInv
<1> SUFFICES ASSUME Init PROVE IInv
  OBVIOUS
<1>1. NoJob \in Row
  BY StudioAssumption DEF NoJob, Row, PlanPhase
<1>2. NoJob.st = "none" /\ job = [j \in Job |-> NoJob]
  BY DEF NoJob, Init
<1>3. TypeOK
  <2>1. /\ status \in [Enh -> Status] /\ plan \in [Enh -> {"none", "proposed", "approved"}]
        /\ at \in [Job -> Stage]
    BY DEF Init, Status, Stage
  <2>2. job \in [Job -> Row]
    BY <1>1, <1>2
  <2>3. made = 0 /\ made \in 0 .. MaxJobs /\ asks \in 0 .. MaxAsks /\ crashes \in 0 .. MaxCrashes
    BY StudioAssumption DEF Init
  <2>4. \A j \in Job : job[j].st = "none" <=> j > made
    BY <1>2, <2>3, StudioAssumption DEF Job
  <2>5. \A j \in Job : StageFits(j)
    BY DEF Init, StageFits
  <2> QED BY <2>1, <2>2, <2>3, <2>4, <2>5 DEF TypeOK, Init
<1> QED BY <1>2, <1>3 DEF IInv, Init, RunningHasHandler, BusyRuns, DownIsIdle,
                WorkingHasQueue, ReviewHasPlan, Busy, Working

\* Every step keeps the invariant.
LEMMA NextLemma == IInv /\ [Next]_vars => IInv'
<1> SUFFICES ASSUME IInv, [Next]_vars PROVE IInv'
  OBVIOUS
<1>1. CASE UNCHANGED vars
  BY <1>1 DEF vars, rows, IInv, TypeOK, StageFits, RunningHasHandler, BusyRuns,
              DownIsIdle, WorkingHasQueue, ReviewHasPlan, JobsOf, Active, Busy
<1>2. ASSUME NEW e \in Enh,
             \/ PlanAsked(e) \/ Approve(e) \/ Feedback(e)
             \/ RecodeAsked(e) \/ RecodeQueued(e) \/ ApproveSandbox(e)
             \/ Reject(e) \/ DeleteRequest(e)
             \/ \E reset \in BOOLEAN : Redo(e, reset)
             \/ \E s \in ManualStatus : SetStatus(e, s)
             \/ \E isMerged \in BOOLEAN : Poll(e, isMerged)
      PROVE  IInv'
  BY <1>2, PlanAskedStep, ApproveStep, FeedbackStep, RecodeAskedStep, RecodeQueuedStep,
     ApproveSandboxStep, RejectStep, DeleteRequestStep, RedoStep, SetStatusStep, PollStep
<1>3. ASSUME NEW j \in Job,
             \/ Retry(j) \/ DeleteJob(j)
             \/ ClaimPlan(j) \/ ClaimCode(j) \/ HandlerStep(j) \/ ContainerEnds(j)
      PROVE  IInv'
  BY <1>3, RetryStep, DeleteJobStep, ClaimPlanStep, ClaimCodeStep, PlanDoneStep,
     HandlerFailsStep, CodeStartsStep, NothingChangedStep, PushConflictStep, PushedStep,
     BuildDoneStep, PrOpenedStep, PrMergedStep, ReleasedStep, ContainerEndsStep DEF HandlerStep
<1> QED BY <1>1, <1>2, <1>3, CrashStep, BootStep DEF Next

-----------------------------------------------------------------------------
(* The theorems.                                                           *)

(* The inductive invariant holds of every behaviour.                        *)
THEOREM InvariantHolds == Spec => []IInv
BY InitLemma, NextLemma, PTL DEF Spec

(* Rows and handlers hold what the schema and the phases allow.             *)
THEOREM TypeTheorem == Spec => []TypeOK
<1>1. IInv => TypeOK
  BY DEF IInv
<1> QED BY <1>1, InvariantHolds, PTL

(* No running job without a handler, but for those the boot spared.         *)
THEOREM RunningTheorem == Spec => []RunningHasHandler
<1>1. IInv => RunningHasHandler
  BY DEF IInv
<1> QED BY <1>1, InvariantHolds, PTL

(* A job that has a handler is never handed out again.                      *)
THEOREM OwnsTheorem == Spec => []HandlerOwnsJob
<1>1. IInv => HandlerOwnsJob
  BY DEF IInv, BusyRuns, HandlerOwnsJob
<1> QED BY <1>1, InvariantHolds, PTL

(* A request at work always has a job queued or under way.                  *)
THEOREM WorkingTheorem == Spec => []WorkingHasJob
<1>1. IInv => WorkingHasJob
  BY DEF IInv, WorkingHasQueue, WorkingHasJob
<1> QED BY <1>1, InvariantHolds, PTL

(* A request put up for review has a plan.                                  *)
THEOREM ReviewTheorem == Spec => []ReviewHasPlan
<1>1. IInv => ReviewHasPlan
  BY DEF IInv
<1> QED BY <1>1, InvariantHolds, PTL
=============================================================================
