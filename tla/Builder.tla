------------------------------ MODULE Builder ------------------------------
(***************************************************************************)
(* The Builder of one app: the coder_sessions rows and their in-memory     *)
(* session states (server/services/builder/builderSession.js), the shared  *)
(* container and workspace (appContainer.js), and the work queue that      *)
(* improve jobs and builder turns go through (appQueue.js).  One Node      *)
(* process: code between two awaits is one step.                           *)
(***************************************************************************)
EXTENDS Naturals, Sequences, FiniteSets

CONSTANTS MaxSessions,  \* bound on the coder_sessions rows
          MaxStates,    \* bound on the session states in memory at once
          MaxImproves   \* bound on the improve jobs enqueued

ASSUME BuilderAssumption ==
    MaxSessions \in Nat /\ MaxStates \in Nat /\ MaxImproves \in Nat

VARIABLES
    owner,      \* coder_sessions.user_id
    row,        \* coder_sessions.status
    placed,     \* rows with a workspace_dir
    mem,        \* the `sessions` map: the state of a session, 0 when it has none
    status,     \* state.status
    queued,     \* states with state.queued set
    runner,     \* states with a state.runner
    of,         \* the session a state was made for
    ready,      \* `containers` has an entry for the app
    busy,       \* its busy flag
    alive,      \* the docker container runs
    ws,         \* the workspace directory: none, a clone, or empty
    creating,   \* the creation in flight: none, or the await it is at
    creators,   \* sessions whose createSession() awaits it
    resumers,   \* sessions whose resumeSession() awaits it
    items,      \* the queue's items, in order of arrival
    running,    \* the queue's running item, as a set
    pending,    \* a drain() is scheduled
    turn,       \* how far the runBuilderTurn() of a state is
    inside,     \* turns that run in the container of the present entry
    improving,  \* improve jobs under way
    improves    \* improve jobs enqueued so far

rowVars  == <<owner, row, placed>>
memVars  == <<mem, status, queued, runner, of>>
contVars == <<ready, busy, alive, ws, creating, creators, resumers>>
workVars == <<items, running, pending, turn, inside, improving, improves>>
vars == <<rowVars, memVars, contVars, workVars>>

Session == 1 .. MaxSessions
State   == 1 .. MaxStates
Improve == 0                    \* the item of an improve job; a turn's is its state
Item    == {Improve} \cup State

Status == {"absent", "starting", "idle", "active", "queued", "paused", "error",
           "shipped"}

\* What the rows, maps and queue can hold: in particular a queue never holds
\* more items than there are states and improve jobs.
TypeOK ==
    /\ owner \in [Session -> Session]
    /\ row \in [Session -> Status]
    /\ placed \subseteq Session
    /\ mem \in [Session -> 0 .. MaxStates]
    /\ status \in [State -> {"idle", "queued", "active"}]
    /\ queued \subseteq State
    /\ runner \subseteq State
    /\ of \in [State -> 0 .. MaxSessions]
    /\ {ready, busy, alive, pending} \subseteq BOOLEAN
    /\ ws \in {"none", "clone", "empty"}
    /\ creating \in {"none", "image", "snapshot"}
    /\ creators \subseteq Session /\ resumers \subseteq Session
    /\ items \in Seq(Item) /\ Len(items) <= MaxStates + MaxImproves
    /\ running \subseteq Item
    /\ turn \in [State -> {"none", "context", "agent", "stopped"}]
    /\ inside \subseteq State
    /\ improving \in 0 .. MaxImproves /\ improves \in 0 .. MaxImproves

\* Nothing is in memory yet; owner says who will start which session.  A user is
\* named by the first session that is theirs.
Init ==
    /\ owner \in [Session -> Session]
    /\ \A s \in Session : owner[s] <= s /\ owner[owner[s]] = owner[s]
    /\ row = [s \in Session |-> "absent"] /\ placed = {}
    /\ mem = [s \in Session |-> 0]
    /\ status = [o \in State |-> "idle"]
    /\ queued = {} /\ runner = {}
    /\ of = [o \in State |-> 0]
    /\ ready = FALSE /\ busy = FALSE /\ alive = FALSE /\ ws = "none"
    /\ creating = "none" /\ creators = {} /\ resumers = {}
    /\ items = <<>> /\ running = {} /\ pending = FALSE
    /\ turn = [o \in State |-> "none"]
    /\ inside = {} /\ improving = 0 /\ improves = 0

-----------------------------------------------------------------------------
(* Session states.                                                         *)

\* Statuses that block other sessions.
Occupying == {"starting", "idle", "active"}
Occupied(S) == \E s \in S : row[s] \in Occupying

Queue == {items[i] : i \in DOMAIN items}

\* States nothing refers to any more.
Free == {o \in State : o \notin Queue \cup queued /\ turn[o] = "none"
                       /\ \A s \in Session : mem[s] # o}

\* Sessions S, held by r rows and map m, come to life with a new state each.
Enter(S, r, m) ==
    /\ Cardinality(S) <= Cardinality(Free)
    /\ LET new == CHOOSE f \in [S -> Free] : \A s, t \in S : f[s] = f[t] => s = t IN
       /\ mem' = [s \in Session |-> IF s \in S THEN new[s] ELSE m[s]]
       /\ status' = [o \in State |->
                        IF \E s \in S : new[s] = o THEN "idle" ELSE status[o]]
       /\ of' = [o \in State |->
                        IF \E s \in S : new[s] = o THEN CHOOSE s \in S : new[s] = o
                                                   ELSE of[o]]
    /\ row' = [s \in Session |-> IF s \in S THEN "idle" ELSE r[s]]
    /\ placed' = placed \cup S

\* Faulty: the evicted sessions stay in the map.
PauseRows ==
    /\ row' = [s \in Session |-> IF mem[s] # 0 THEN "paused" ELSE row[s]]
    /\ UNCHANGED mem

\* The subscriber of evictions pauses every session in memory.
PauseAll ==
    /\ row' = [s \in Session |-> IF mem[s] # 0 THEN "paused" ELSE row[s]]
    /\ mem' = [s \in Session |-> 0]

\* getOrCreate: the entry serves at once when its container is still there; one
\* that has vanished is dropped, which pauses its sessions; then the creation in
\* flight is joined or a new one started.
Begin(r, cs, rs) ==
    IF ready /\ alive
    THEN /\ Enter(cs \cup rs, r, mem)
         /\ UNCHANGED <<contVars, inside>>
    ELSE /\ row' = [s \in Session |-> IF mem[s] # 0 THEN "paused" ELSE r[s]]
         /\ mem' = [s \in Session |-> 0]
         /\ ready' = FALSE /\ busy' = FALSE /\ inside' = {}
         /\ creating' = IF creating = "none" THEN "image" ELSE creating
         /\ creators' = creators \cup cs /\ resumers' = resumers \cup rs
         /\ UNCHANGED <<placed, status, of, alive, ws>>

\* createSession: a live session of another user blocks; one of this user's own
\* is returned instead of a new one.
createSession(s) ==
    /\ row[s] = "absent"
    /\ ~Occupied(Session)
    /\ Begin([row EXCEPT ![s] = "starting"], {s}, {})
    /\ UNCHANGED <<owner, queued, runner, items, running, pending, turn, improving,
                   improves>>

\* resumeSession: only other users' sessions block, and the row stays 'paused'
\* while the container is created.
resumeSession(s) ==
    /\ row[s] = "paused"
    /\ ~Occupied({t \in Session : owner[t] # owner[s]})
    /\ Begin(row, {}, {s})
    /\ UNCHANGED <<owner, queued, runner, items, running, pending, turn, improving,
                   improves>>

-----------------------------------------------------------------------------
(* The creation of the container.                                          *)

\* The studio image is there: the workspace is removed and cloned anew.
Clone ==
    /\ creating = "image"
    /\ creating' = "snapshot"
    /\ ws' = "clone"
    /\ UNCHANGED <<rowVars, memVars, ready, busy, alive, creators, resumers, workVars>>

\* The snapshot is written: the container starts on the workspace, which docker
\* makes anew when it is gone, and everybody who waited goes on.
Created ==
    /\ creating = "snapshot"
    /\ ready' = TRUE /\ busy' = FALSE /\ alive' = TRUE
    /\ ws' = IF ws = "none" THEN "empty" ELSE ws
    /\ Enter(creators \cup resumers, row, mem)
    /\ creating' = "none" /\ creators' = {} /\ resumers' = {}
    /\ UNCHANGED <<owner, queued, runner, workVars>>

\* The image, the clone (its directory stays behind) or docker run fails: new
\* sessions end in error, resumed ones stay as they are.
CreateFails ==
    /\ creating # "none"
    /\ creating' = "none" /\ creators' = {} /\ resumers' = {}
    /\ ws' \in IF creating = "image" THEN {ws, "empty"} ELSE {ws}
    /\ row' = [s \in Session |-> IF s \in creators THEN "error" ELSE row[s]]
    /\ mem' = [s \in Session |-> IF s \in creators THEN 0 ELSE mem[s]]
    /\ UNCHANGED <<owner, placed, status, queued, runner, of, ready, busy, alive,
                   workVars>>

\* Tear the container down and delete its workspace, entry or no entry.
Evicted ==
    /\ ready' = FALSE /\ busy' = FALSE /\ alive' = FALSE /\ inside' = {}
    /\ ws' = "none"
    /\ PauseAll
    /\ UNCHANGED <<owner, placed, status, queued, runner, of, creating, creators,
                   resumers, items, running, pending, turn, improving, improves>>

\* POST /:slug/evict, and new or cleared Claude credentials.
evict == Evicted

\* The sweep takes a container nobody has touched for half an hour.
IdleSweep == ready /\ ~busy /\ Evicted

\* The docker container goes away by itself (out of memory, docker restarted).
Vanish ==
    /\ alive
    /\ alive' = FALSE
    /\ UNCHANGED <<rowVars, memVars, ready, busy, ws, creating, creators, resumers,
                   workVars>>

-----------------------------------------------------------------------------
(* The queue.                                                              *)

HasTurn(o) == o \in runner \cup queued

\* dispatch: behind anything else the session is 'queued', else 'active'.
dispatch(s) ==
    /\ row[s] \in {"idle", "active", "paused"}
    /\ mem[s] # 0 /\ ready
    /\ LET o == mem[s]
           how == IF items = <<>> /\ running = {} THEN "active" ELSE "queued" IN
       /\ ~HasTurn(o)
       /\ row' = [row EXCEPT ![s] = how]
       /\ status' = [status EXCEPT ![o] = how]
       /\ queued' = queued \cup {o}
       /\ items' = Append(items, o)
    /\ pending' = TRUE
    /\ UNCHANGED <<owner, placed, mem, runner, of, contVars, running, turn, inside,
                   improving, improves>>

\* The studio worker enqueues the coding of an enhancement.
enqueueImprove ==
    /\ improves < MaxImproves
    /\ improves' = improves + 1
    /\ items' = Append(items, Improve)
    /\ pending' = TRUE
    /\ UNCHANGED <<rowVars, memVars, contVars, running, turn, inside, improving>>

Priority(item) == IF item = Improve THEN 1 ELSE 2

pickNext ==
    CHOOSE i \in DOMAIN items : \A j \in DOMAIN items :
        \/ Priority(items[i]) < Priority(items[j])
        \/ Priority(items[i]) = Priority(items[j]) /\ i <= j

Without(i) == SubSeq(items, 1, i - 1) \o SubSeq(items, i + 1, Len(items))

\* Faulty: drain does not look whether something runs.
MayAlways == items # <<>>

MayRun == running = {} /\ items # <<>>

\* drain finds the queue busy or empty.
DrainIdle ==
    /\ pending /\ ~MayRun
    /\ pending' = FALSE
    /\ UNCHANGED <<rowVars, memVars, contVars, items, running, turn, inside, improving,
                   improves>>

\* drain starts the coding of an improve job.
RunImprove ==
    /\ pending /\ MayRun
    /\ LET i == pickNext IN items[i] = Improve /\ items' = Without(i)
    /\ running' = {Improve}
    /\ improving' = improving + 1
    /\ pending' = FALSE
    /\ UNCHANGED <<rowVars, memVars, contVars, turn, inside, improves>>

\* drain starts a builder turn: it marks the container busy and awaits the
\* codebase context.
RunTurn ==
    /\ pending /\ MayRun /\ ready
    /\ LET i == pickNext
           o == items[i] IN
       /\ o # Improve
       /\ items' = Without(i)
       /\ running' = {o}
       /\ turn' = [turn EXCEPT ![o] = "context"]
       /\ inside' = inside \cup {o}
       /\ row' = IF status[o] # "active" THEN [row EXCEPT ![of[o]] = "active"] ELSE row
       /\ status' = [status EXCEPT ![o] = "active"]
    /\ busy' = TRUE
    /\ pending' = FALSE
    /\ UNCHANGED <<owner, placed, mem, queued, runner, of, ready, alive, ws, creating,
                   creators, resumers, improving, improves>>

\* The container vanished while the turn waited: the turn is over at once.
RunNothing ==
    /\ pending /\ MayRun /\ ~ready
    /\ LET i == pickNext
           o == items[i] IN
       /\ o # Improve
       /\ items' = Without(i)
       /\ queued' = queued \ {o}
    /\ UNCHANGED <<rowVars, mem, status, runner, of, contVars, running, pending, turn,
                   inside, improving, improves>>

AgentStarts(o) ==
    /\ turn[o] = "context"
    /\ turn' = [turn EXCEPT ![o] = "agent"]
    /\ runner' = runner \cup {o}
    /\ UNCHANGED <<rowVars, mem, status, queued, of, contVars, items, running, pending,
                   inside, improving, improves>>

\* Faulty: the next item is not fetched.
FinishedSilently == running' = {} /\ UNCHANGED pending

\* The item's promise settles: the queue is free and drains on.
Finished == running' = {} /\ pending' = TRUE

\* The agent exits, fails or times out; whatever container is there now loses
\* its busy flag.
AgentEnds(o) ==
    /\ turn[o] = "agent"
    /\ turn' = [turn EXCEPT ![o] = "none"]
    /\ inside' = inside \ {o}
    /\ runner' = runner \ {o}
    /\ status' = [status EXCEPT ![o] = "idle"]
    /\ row' = [row EXCEPT ![of[o]] = "idle"]
    /\ busy' = FALSE
    /\ queued' = queued \ {o}
    /\ Finished
    /\ UNCHANGED <<owner, placed, mem, of, ready, alive, ws, creating, creators,
                   resumers, items, improving, improves>>

ImproveEnds ==
    /\ improving > 0
    /\ improving' = improving - 1
    /\ Finished
    /\ UNCHANGED <<rowVars, memVars, contVars, items, turn, inside, improves>>

\* Faulty: the busy flag is cleared although nothing was stopped.
StoppedAnyway(s, then) ==
    /\ busy' = FALSE
    /\ row' = [row EXCEPT ![s] = then]
    /\ UNCHANGED <<runner, turn, status>>

\* stopDispatch kills the agent, whose exit is then not reported any more.
Stopped(s, then) ==
    IF mem[s] \in runner
    THEN /\ runner' = runner \ {mem[s]}
         /\ turn' = [turn EXCEPT ![mem[s]] = "stopped"]
         /\ status' = [status EXCEPT ![mem[s]] = "idle"]
         /\ busy' = FALSE
         /\ row' = [row EXCEPT ![s] = then]
    ELSE /\ row' = [row EXCEPT ![s] = IF then = "paused" THEN then ELSE @]
         /\ UNCHANGED <<runner, turn, status, busy>>

\* POST /:id/stop.
stopDispatch(s) ==
    /\ mem[s] \in runner
    /\ Stopped(s, "idle")
    /\ UNCHANGED <<owner, placed, mem, queued, of, ready, alive, ws, creating, creators,
                   resumers, items, running, pending, inside, improving, improves>>

\* DELETE /agents/:id stops, and pauses the row whatever it was.
deleteAgent(s) ==
    /\ row[s] # "absent"
    /\ Stopped(s, "paused")
    /\ UNCHANGED <<owner, placed, mem, queued, of, ready, alive, ws, creating, creators,
                   resumers, items, running, pending, inside, improving, improves>>

\* POST /:id/ship commits and pushes the workspace and deploys it.
ship(s) ==
    /\ row[s] \in {"idle", "paused"} /\ s \in placed /\ ws = "clone"
    /\ row' = [row EXCEPT ![s] = "shipped"]
    /\ UNCHANGED <<owner, placed, memVars, contVars, workVars>>

-----------------------------------------------------------------------------

\* Faulty: only sessions that were starting are recovered.
RecoveredStarting ==
    [s \in Session |-> IF row[s] = "starting" THEN "paused" ELSE row[s]]

\* The server dies and boots again: containers and workspaces are removed and
\* the rows of live sessions paused.
Recovered ==
    [s \in Session |-> IF row[s] \in Occupying THEN "paused" ELSE row[s]]

Restart ==
    /\ row' = Recovered
    /\ mem' = [s \in Session |-> 0]
    /\ status' = [o \in State |-> "idle"]
    /\ of' = [o \in State |-> 0]
    /\ queued' = {} /\ runner' = {}
    /\ ready' = FALSE /\ busy' = FALSE /\ alive' = FALSE /\ ws' = "none"
    /\ creating' = "none" /\ creators' = {} /\ resumers' = {}
    /\ items' = <<>> /\ running' = {} /\ pending' = FALSE
    /\ turn' = [o \in State |-> "none"]
    /\ inside' = {} /\ improving' = 0
    /\ UNCHANGED <<owner, placed, improves>>

Next ==
    \/ \E s \in Session :
          \/ createSession(s) \/ resumeSession(s) \/ dispatch(s)
          \/ stopDispatch(s) \/ deleteAgent(s) \/ ship(s)
    \/ Clone \/ Created \/ CreateFails \/ evict \/ IdleSweep \/ Vanish
    \/ enqueueImprove \/ DrainIdle \/ RunImprove \/ RunTurn \/ RunNothing
    \/ \E o \in State : AgentStarts(o) \/ AgentEnds(o)
    \/ ImproveEnds
    \/ Restart

\* A scheduled drain runs; agents and improve jobs have timeouts, and so does
\* the making of the context.
Fairness ==
    /\ WF_vars(DrainIdle \/ RunImprove \/ RunTurn \/ RunNothing)
    /\ \A o \in State : WF_vars(AgentStarts(o)) /\ WF_vars(AgentEnds(o))
    /\ WF_vars(ImproveEnds)

Spec == Init /\ [][Next]_vars /\ Fairness

-----------------------------------------------------------------------------

InProgress == {o \in State : turn[o] \in {"context", "agent"}}

\* The queue serialises the work on the app: of all builder turns and improve
\* jobs at most one is in progress, however enqueues and ends interleave.
OneAtATime == Cardinality(InProgress) + improving <= 1

\* A session in memory has a container entry to work in: evictions, vanished
\* containers and failed creations take the sessions out with the entry.
MemHasContainer == (\E s \in Session : mem[s] # 0) => ready

\* The idle sweep never takes a container from under a turn: one with a turn in
\* progress is busy, although every turn, old or new, and every stop writes the
\* one flag of whatever container is there.
BusyWhileRunning == InProgress \cap inside # {} => busy

\* A row reads 'active' only while the queue has or runs a turn of that session.
ActiveRowHasTurn ==
    \A s \in Session : row[s] = "active" =>
        \E o \in Queue \cup InProgress : o # Improve /\ of[o] = s

\* A dispatched turn does not wait for ever, unless a turn was stopped.
TurnsAreServed ==
    \A o \in State :
        o \in queued ~> (o \notin queued \/ \E p \in State : turn[p] = "stopped")

-----------------------------------------------------------------------------
(* What the comments of the code say, and the code does not.               *)

\* "Anyone in the chat will get a status=paused event and can resume on the next
\* dispatch": an idle row, which resume refuses, has the state dispatch needs.
IdleHasState == \A s \in Session : row[s] = "idle" => mem[s] # 0

\* "at most one interactive Builder session per app": two users never have
\* sessions in memory that take prompts.
NoTakeover ==
    \A s, t \in Session :
        /\ mem[s] # 0 /\ mem[t] # 0
        /\ row[s] \in Occupying \cup {"queued"} /\ row[t] \in Occupying \cup {"queued"}
        => owner[s] = owner[t]

\* enqueue "resolves with the value run() returns": every item that waits is
\* run in the end.
QueueMovesOn == items # <<>> ~> items = <<>>

=============================================================================
