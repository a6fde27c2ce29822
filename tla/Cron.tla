-------------------------------- MODULE Cron --------------------------------
(***************************************************************************)
(* The cron scheduler (server/services/cronScheduler.js) over the jobs of  *)
(* one app and environment, with the sync a deployment makes from its      *)
(* manifest and the manual trigger of the MCP tools.                       *)
(*                                                                         *)
(* Time is a cycle of minutes, and a schedule the minutes it matches.  The *)
(* interval drifts: a minute may pass without a tick.                      *)
(***************************************************************************)
EXTENDS Naturals, FiniteSets

CONSTANTS Name,       \* names a manifest may give to jobs
          Cycle,      \* minutes of the cycle
          Schedule,   \* schedules in manifests: {} is one that does not parse
          MaxIds,     \* bound on the rows ever inserted
          MaxDeaths,  \* bound on the crashes of the server
          NoRow

Minutes == 0 .. Cycle - 1
Id      == 1 .. MaxIds

ASSUME CronAssumption ==
    /\ IsFiniteSet(Name) /\ Cycle \in Nat \ {0} /\ MaxIds \in Nat /\ MaxDeaths \in Nat
    /\ Schedule \subseteq SUBSET Minutes

VARIABLES
    minute,     \* the minute of the cycle
    ticked,     \* the interval has fired in it
    scheduling, \* the server runs, and the scheduler in it
    app,        \* the app's row exists
    row,        \* app_cron_jobs: the job of each name
    lastId,     \* the newest row's id
    running,    \* runningJobs, the mutexes
    execs,      \* docker exec clients: the row each was started from
    asked,      \* manual triggers that have read their row
    left,       \* names with a process in the container whose client is gone
    deaths      \* crashes of the server so far

jobVars == <<app, row, lastId>>
runVars == <<running, execs, asked, left>>
cronVars == <<minute, ticked, scheduling, jobVars, runVars, deaths>>

\* recent: last_run_at is in this minute; by: the row the result was a run of.
Row == [id : Id, schedule : Schedule \ {{}}, enabled : BOOLEAN, recent : BOOLEAN,
        by : 0 .. MaxIds]

\* A client: its process is still in the container, or died with it.
Exec == [name : Name, id : Id, live : BOOLEAN]

CronTypeOK ==
    /\ minute \in Minutes /\ {ticked, scheduling, app} \subseteq BOOLEAN
    /\ row \in [Name -> Row \cup {NoRow}] /\ lastId \in 0 .. MaxIds
    /\ running \subseteq Name /\ execs \subseteq Exec
    /\ asked \subseteq [name : Name, id : Id] /\ left \subseteq Name
    /\ deaths \in 0 .. MaxDeaths

CronInit ==
    /\ minute = 0 /\ ticked = FALSE /\ scheduling = TRUE /\ app = TRUE
    /\ row = [n \in Name |-> NoRow] /\ lastId = 0
    /\ running = {} /\ execs = {} /\ asked = {} /\ left = {} /\ deaths = 0

Rows == {n \in Name : row[n] # NoRow}

-----------------------------------------------------------------------------
(* Time.                                                                   *)

Minute ==
    /\ minute' = (minute + 1) % Cycle /\ ticked' = FALSE
    /\ row' = [n \in Name |-> IF n \in Rows THEN [row[n] EXCEPT !.recent = FALSE] ELSE NoRow]
    /\ UNCHANGED <<scheduling, app, lastId, runVars, deaths>>

-----------------------------------------------------------------------------
(* Runs.                                                                   *)

\* Mutant: the mutex is the row's.
HeldByRow(j) == \E e \in execs : e.name = j.name /\ e.id = j.id

Held(j) == j.name \in running

\* runCronJob for each of the rows J, up to its docker exec.
runCronJob(J) ==
    LET started == {j \in J : app /\ ~Held(j)} IN
    /\ execs' = execs \cup {[name |-> j.name, id |-> j.id, live |-> TRUE] : j \in started}
    /\ running' = running \cup {j.name : j \in started}

\* tick: the rows that are enabled, due, and without a result in this minute.
matchesAtUtc(n) == minute \in row[n].schedule

Due == {n \in Rows : row[n].enabled /\ ~row[n].recent /\ matchesAtUtc(n)}

cronTick ==
    /\ scheduling /\ ~ticked /\ ticked' = TRUE
    /\ runCronJob({[name |-> n, id |-> row[n].id] : n \in Due})
    /\ UNCHANGED <<minute, scheduling, jobVars, asked, left, deaths>>

\* appcrane_run_cron_now reads the row, and runs what it read after an await.
Ask(n) ==
    /\ scheduling /\ n \in Rows
    /\ asked' = asked \cup {[name |-> n, id |-> row[n].id]}
    /\ UNCHANGED <<minute, ticked, scheduling, jobVars, running, execs, left, deaths>>

RunAsked(j) ==
    /\ scheduling /\ j \in asked /\ asked' = asked \ {j}
    /\ runCronJob({j})
    /\ UNCHANGED <<minute, ticked, scheduling, jobVars, left, deaths>>

\* Mutant: the result goes to the job of that name.
RecordedByName(e) ==
    [row EXCEPT ![e.name] = IF @ = NoRow THEN @ ELSE [@ EXCEPT !.recent = TRUE, !.by = e.id]]

\* The result goes to the row the run was started from, if it is still there.
Recorded(e) ==
    [row EXCEPT ![e.name] =
        IF @ = NoRow \/ @.id # e.id THEN @ ELSE [@ EXCEPT !.recent = TRUE, !.by = e.id]]

\* Mutant: the mutex is left behind when the row is gone.
FreedWithRow(e) == IF row[e.name] = NoRow THEN running ELSE running \ {e.name}

Freed(e) == running \ {e.name}

\* The command ends, or its client is killed at the timeout or for its output:
\* what it ran stays in the container.
Finish(e) ==
    /\ scheduling /\ e \in execs /\ execs' = execs \ {e}
    /\ row' = Recorded(e) /\ running' = Freed(e)
    /\ left' \in {left} \cup (IF e.live THEN {left \cup {e.name}} ELSE {})
    /\ UNCHANGED <<minute, ticked, scheduling, app, lastId, asked, deaths>>

\* A process without a client ends.
LeftEnds(n) ==
    /\ n \in left /\ left' = left \ {n}
    /\ UNCHANGED <<minute, ticked, scheduling, jobVars, running, execs, asked, deaths>>

-----------------------------------------------------------------------------
(* Deployments, the deletion of the app, crashes.                          *)

\* A schedule that parses matches some minute.
parseCron == Schedule \ {{}}

Inserted(S, m) ==
    /\ lastId + Cardinality(S) <= MaxIds /\ lastId' = lastId + Cardinality(S)
    /\ \E ids \in [S -> (lastId + 1) .. lastId'] :
          /\ \A n, k \in S : ids[n] = ids[k] => n = k
          /\ row' = [n \in Name |->
                CASE n \in S -> [id |-> ids[n], schedule |-> m[n].schedule,
                                 enabled |-> m[n].enabled, recent |-> FALSE, by |-> 0]
                  [] n \in DOMAIN m \ S -> [row[n] EXCEPT !.schedule = m[n].schedule,
                                                          !.enabled = m[n].enabled]
                  [] OTHER -> NoRow]

\* Jobs the manifest m does not name go, the others are inserted or updated; when
\* one entry does not parse all rows are left alone.
syncCronJobsFromManifest ==
    /\ scheduling /\ app
    /\ \E N \in SUBSET Name : \E m \in [N -> [schedule : Schedule, enabled : BOOLEAN]] :
          /\ \A n \in N : m[n].schedule \in parseCron
          /\ Inserted(N \ Rows, m)
    /\ UNCHANGED <<minute, ticked, scheduling, app, runVars, deaths>>

Killed == {[e EXCEPT !.live = FALSE] : e \in execs}

\* The container is replaced, or stopped: what ran in it dies.
Replace ==
    /\ execs' = Killed /\ left' = {}
    /\ execs' # execs \/ left # {}
    /\ UNCHANGED <<minute, ticked, scheduling, jobVars, running, asked, deaths>>

DeleteApp ==
    /\ scheduling /\ app /\ app' = FALSE /\ row' = [n \in Name |-> NoRow]
    /\ execs' = Killed /\ left' = {}
    /\ UNCHANGED <<minute, ticked, scheduling, lastId, running, asked, deaths>>

\* The mutexes and the clients go with the server, the processes stay.
CronCrash ==
    /\ scheduling /\ deaths < MaxDeaths /\ deaths' = deaths + 1 /\ scheduling' = FALSE
    /\ running' = {} /\ execs' = {} /\ asked' = {}
    /\ left' = left \cup {e.name : e \in {f \in execs : f.live}}
    /\ UNCHANGED <<minute, ticked, jobVars>>

\* The first tick comes a minute after the start.
startCronScheduler ==
    /\ ~scheduling /\ scheduling' = TRUE /\ ticked' = TRUE
    /\ UNCHANGED <<minute, jobVars, runVars, deaths>>

CronNext ==
    \/ Minute \/ cronTick
    \/ \E n \in Name : Ask(n) \/ LeftEnds(n)
    \/ \E j \in asked : RunAsked(j)
    \/ \E e \in execs : Finish(e)
    \/ syncCronJobsFromManifest \/ Replace \/ DeleteApp
    \/ CronCrash \/ startCronScheduler

\* Time passes, the server is started again, every exec has a timeout, and the
\* drift does not skip the same minute of the cycle for ever.
CronFairness ==
    /\ WF_cronVars(Minute) /\ WF_cronVars(startCronScheduler)
    /\ \A m \in Minutes : SF_cronVars(minute = m /\ cronTick)
    /\ \A e \in Exec : WF_cronVars(Finish(e))

CronSpec == CronInit /\ [][CronNext]_cronVars /\ CronFairness

-----------------------------------------------------------------------------
(* However ticks, manual triggers, and a sync that drops a job and brings   *)
(* it back meet, a job has one run in flight, and its mutex is held.        *)
OneRunPerJob ==
    /\ \A e, f \in execs : e.name = f.name => e = f
    /\ running = {e.name : e \in execs}

(* The result on a row is that of a run of this very row, never of a row    *)
(* that had the name before it.                                             *)
ResultIsOwn == \A n \in Rows : row[n].by \in {0, row[n].id}

(* A job that stays enabled has results for ever, whatever runs were        *)
(* skipped because the one before was in flight or had just ended.          *)
JobsKeepRunning ==
    \A n \in Name : []<>(n \notin Rows \/ ~row[n].enabled \/ row[n].recent)

(* cronScheduler.js:15-16: "Per-job mutex prevents overlap if the previous  *)
(* run is still going."                                                     *)
NoOverlap == \A e \in execs : e.live => e.name \notin left
=============================================================================
