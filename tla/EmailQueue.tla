----------------------------- MODULE EmailQueue -----------------------------
(***************************************************************************)
(* The queue behind the app email service (server/services/emailQueue.js): *)
(* enqueueEmail() inserts rows of email_queue, a timer fires tick(), and a *)
(* tick sends its batch row by row.  The timer does not wait for the tick   *)
(* before, so several ticks are under way at once; code between two awaits *)
(* is one step.  A message is its row id.                                  *)
(***************************************************************************)
EXTENDS Naturals, FiniteSets

CONSTANTS Tick,         \* ticks that can be under way at once
          MaxMail,      \* bound on the rows inserted
          MaxAttempts,  \* MAX_ATTEMPTS, 5 in the code
          Batch,        \* BATCH, 10 in the code
          Limit,        \* hourly budget of the app, 100 by default
          MaxCrashes    \* bound on the crashes of the server

ASSUME EmailAssumption ==
    /\ IsFiniteSet(Tick)
    /\ MaxMail \in Nat /\ Limit \in Nat /\ MaxCrashes \in Nat
    /\ MaxAttempts \in Nat \ {0} /\ Batch \in Nat \ {0}

VARIABLES
    count,      \* rows inserted so far; ids are 1 .. count
    status,     \* email_queue.status
    attempts,   \* email_queue.attempts, counted up to MaxAttempts
    due,        \* next_attempt_at has come
    recent,     \* rows with source 'app' created within the last hour
    at,         \* what a tick awaits: the transport, or the admins' notice
    now,        \* the row it is at
    hand,       \* the rows of its batch it has not come to yet
    seen,       \* attempts of those rows as its SELECT read them
    tries,      \* calls of the transport for a row, counted up to MaxAttempts
    up,         \* the server process is running
    crashes

rowVars  == <<count, status, attempts, due, recent>>
tickVars == <<at, now, hand, seen>>
vars == <<rowVars, tickVars, tries, up, crashes>>

Mail == 1 .. MaxMail

Status == {"absent", "queued", "sending", "sent", "failed"}

\* The rows and the ticks are what the table and the code's locals can hold: in
\* particular a tick has only rows that were inserted in hand.
TypeOK ==
    /\ count \in 0 .. MaxMail
    /\ status \in [Mail -> Status]
    /\ attempts \in [Mail -> 0 .. MaxAttempts]
    /\ due \in [Mail -> BOOLEAN]
    /\ recent \subseteq Mail
    /\ at \in [Tick -> {"idle", "sending", "alerting"}]
    /\ now \in [Tick -> 0 .. count]
    /\ hand \in [Tick -> SUBSET (1 .. count)]
    /\ seen \in [Tick -> [Mail -> 0 .. MaxAttempts]]
    /\ tries \in [Mail -> 0 .. MaxAttempts]
    /\ up \in BOOLEAN
    /\ crashes \in 0 .. MaxCrashes

Init ==
    /\ count = 0
    /\ status = [m \in Mail |-> "absent"]
    /\ attempts = [m \in Mail |-> 0]
    /\ due = [m \in Mail |-> TRUE]
    /\ recent = {}
    /\ at = [t \in Tick |-> "idle"]
    /\ now = [t \in Tick |-> 0]
    /\ hand = [t \in Tick |-> {}]
    /\ seen = [t \in Tick |-> [m \in Mail |-> 0]]
    /\ tries = [m \in Mail |-> 0]
    /\ up = TRUE
    /\ crashes = 0

Capped(n) == IF n < MaxAttempts THEN n ELSE MaxAttempts

-----------------------------------------------------------------------------
(* Callers.  A call repeated with its idempotency key returns the row it     *)
(* made and changes nothing.                                               *)

\* Faulty: messages that have left the queue are not counted.
UnsentRecent == {m \in recent : status[m] = "queued"}

\* What assertAppSendBudget counts: the app's rows of the last hour, whatever
\* became of them.
Counted == recent

enqueueEmail(src) ==
    /\ up /\ count < MaxMail
    /\ src = "app" => Cardinality(Counted) < Limit
    /\ count' = count + 1
    /\ status' = [status EXCEPT ![count + 1] = "queued"]
    /\ recent' = IF src = "app" THEN recent \cup {count + 1} ELSE recent
    /\ UNCHANGED <<attempts, due, tickVars, tries, up, crashes>>

-----------------------------------------------------------------------------
(* The worker.                                                             *)

\* processRow marks the row whatever its status has become.
Marked(st, m) == [st EXCEPT ![m] = "sending"]

\* The tick goes on with the rows S it still has in hand, oldest first: the
\* next one is marked and the transport called before the tick awaits again.
Proceed(t, S, st, read) ==
    /\ seen' = [seen EXCEPT ![t] = [m \in Mail |-> IF m \in S THEN read[m] ELSE 0]]
    /\ IF S = {}
       THEN
         /\ at' = [at EXCEPT ![t] = "idle"]
         /\ now' = [now EXCEPT ![t] = 0]
         /\ hand' = [hand EXCEPT ![t] = {}]
         /\ status' = st
         /\ UNCHANGED tries
       ELSE \E m \in S :
         /\ \A n \in S : m <= n
         /\ at' = [at EXCEPT ![t] = "sending"]
         /\ now' = [now EXCEPT ![t] = m]
         /\ hand' = [hand EXCEPT ![t] = S \ {m}]
         /\ status' = Marked(st, m)
         /\ tries' = [tries EXCEPT ![m] = Capped(@ + 1)]

\* The oldest Batch rows that are queued and due.
Ready == {m \in Mail : status[m] = "queued" /\ due[m]}
Oldest(S) == {m \in S : Cardinality({n \in S : n < m}) < Batch}

tick(t) ==
    /\ up /\ at[t] = "idle" /\ Ready # {}
    /\ Proceed(t, Oldest(Ready), status, attempts)
    /\ UNCHANGED <<count, attempts, due, recent, up, crashes>>

\* The transport accepts the message.
Accepted(t) ==
    /\ at[t] = "sending"
    /\ attempts' = [attempts EXCEPT ![now[t]] = Capped(@ + 1)]
    /\ Proceed(t, hand[t], [status EXCEPT ![now[t]] = "sent"], seen[t])
    /\ UNCHANGED <<count, due, recent, up, crashes>>

\* Faulty: the attempt is counted twice.
LastOneBefore(t) == seen[t][now[t]] + 2 >= MaxAttempts

LastTry(t) == seen[t][now[t]] + 1 >= MaxAttempts

\* Faulty: the row is not put back.
RetryLeftMarked(t) ==
    /\ at[t] = "sending" /\ ~LastTry(t)
    /\ attempts' = [attempts EXCEPT ![now[t]] = Capped(seen[t][now[t]] + 1)]
    /\ due' = [due EXCEPT ![now[t]] = FALSE]
    /\ Proceed(t, hand[t], status, seen[t])
    /\ UNCHANGED <<count, recent, up, crashes>>

\* It refuses it, or times out, and the row is put back with a later
\* next_attempt_at.
Retry(t) ==
    /\ at[t] = "sending" /\ ~LastTry(t)
    /\ attempts' = [attempts EXCEPT ![now[t]] = Capped(seen[t][now[t]] + 1)]
    /\ due' = [due EXCEPT ![now[t]] = FALSE]
    /\ Proceed(t, hand[t], [status EXCEPT ![now[t]] = "queued"], seen[t])
    /\ UNCHANGED <<count, recent, up, crashes>>

\* The last attempt failed: the row is dead-lettered and the admins are
\* written to before the tick goes on.
deadLetter(t) ==
    /\ at[t] = "sending" /\ LastTry(t)
    /\ attempts' = [attempts EXCEPT ![now[t]] = Capped(seen[t][now[t]] + 1)]
    /\ status' = [status EXCEPT ![now[t]] = "failed"]
    /\ at' = [at EXCEPT ![t] = "alerting"]
    /\ UNCHANGED <<count, due, recent, now, hand, seen, tries, up, crashes>>

\* The admins were written to; errors of that are swallowed.
Alerted(t) ==
    /\ at[t] = "alerting"
    /\ Proceed(t, hand[t], status, seen[t])
    /\ UNCHANGED <<count, attempts, due, recent, up, crashes>>

processRow(t) == Accepted(t) \/ Retry(t) \/ deadLetter(t) \/ Alerted(t)

-----------------------------------------------------------------------------
(* Time, crash and restart.                                                *)

BecomesDue(m) ==
    /\ ~due[m]
    /\ due' = [due EXCEPT ![m] = TRUE]
    /\ UNCHANGED <<count, status, attempts, recent, tickVars, tries, up, crashes>>

\* An hour after m was created, m and all older rows leave the budget's window.
HourPasses(m) ==
    /\ m \in recent
    /\ recent' = {n \in recent : n > m}
    /\ UNCHANGED <<count, status, attempts, due, tickVars, tries, up, crashes>>

Crash ==
    /\ up /\ crashes < MaxCrashes
    /\ up' = FALSE
    /\ crashes' = crashes + 1
    /\ at' = [t \in Tick |-> "idle"]
    /\ now' = [t \in Tick |-> 0]
    /\ hand' = [t \in Tick |-> {}]
    /\ seen' = [t \in Tick |-> [m \in Mail |-> 0]]
    /\ UNCHANGED <<rowVars, tries>>

\* Faulty: rows caught in the middle of a send are left as they are.
OrphansKept == status

OrphansReset ==
    [m \in Mail |-> IF status[m] = "sending" THEN "queued" ELSE status[m]]

startEmailWorker ==
    /\ ~up
    /\ up' = TRUE
    /\ status' = OrphansReset
    /\ UNCHANGED <<count, attempts, due, recent, tickVars, tries, crashes>>

-----------------------------------------------------------------------------

Next ==
    \/ \E src \in {"app", "platform"} : enqueueEmail(src)
    \/ \E t \in Tick : tick(t) \/ processRow(t)
    \/ \E m \in Mail : BecomesDue(m) \/ HourPasses(m)
    \/ Crash \/ startEmailWorker

\* The timer fires, every send ends (the transports have timeouts), time passes
\* and systemd restarts the server.
Fairness ==
    /\ WF_vars(\E t \in Tick : tick(t))
    /\ \A t \in Tick : WF_vars(processRow(t))
    /\ \A m \in Mail : WF_vars(BecomesDue(m))
    /\ WF_vars(startEmailWorker)

Spec == Init /\ [][Next]_vars /\ Fairness

-----------------------------------------------------------------------------

\* While the server is up a row marked 'sending' is in the hands of a tick that
\* will mark it again: none is lost between ticks, overlaps and restarts.
SendingHasTick ==
    up => \A m \in Mail :
        status[m] = "sending" => \E t \in Tick : at[t] = "sending" /\ now[t] = m

\* No message is given up early: a dead-lettered row was handed to the transport
\* MaxAttempts times, however stale the counts were that ticks wrote back.
NotGivenUpEarly == \A m \in Mail : status[m] = "failed" => tries[m] = MaxAttempts

\* The app never has more than Limit messages in an hour, whatever was sent,
\* failed, retried, or forgotten in a restart meanwhile.
BudgetHolds == Cardinality(recent) <= Limit

\* Every message is sent or dead-lettered in the end.
EveryMailSettles ==
    \A m \in Mail : status[m] = "queued" ~> status[m] \in {"sent", "failed"}

-----------------------------------------------------------------------------
(* What the migration says of the queue, and the code does not.            *)

\* "status: queued -> sending -> sent | failed": a sent message is not sent
\* again.
SentStaysSent ==
    [][\A m \in Mail : status[m] = "sent" => status'[m] = "sent"]_vars

=============================================================================
