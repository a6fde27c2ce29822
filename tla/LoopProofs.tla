----------------------------- MODULE LoopProofs -----------------------------
(***************************************************************************)
(* The three loops the server runs on timers, for any values of their      *)
(* constants: the email queue (EmailQueue), the cron scheduler (Cron) and  *)
(* the health checker (Health).  Nothing connects them but that one module *)
(* holds what is proved about each.                                        *)
(***************************************************************************)
EXTENDS EmailQueue, Cron, Health, FiniteSetTheorems, TLAPS

-----------------------------------------------------------------------------
(* The email queue: the rows marked 'sending' are in hand, none is given   *)
(* up before its last attempt, and the budget of the hour holds.           *)

\* The ticks that wait for the transport with row m.
At(m) == {t \in Tick : at[t] = "sending" /\ now[t] = m}
Inflight(m) == Cardinality(At(m))

\* x attempts and the ones in flight are no more than the calls there were.
Backed(x, m) == tries[m] = MaxAttempts \/ x + Inflight(m) <= tries[m]

Placed ==
    \A t \in Tick :
        /\ at[t] # "idle" => now[t] \in 1 .. count
        /\ at[t] # "idle" => up

Tried ==
    \A m \in Mail :
        /\ Backed(attempts[m], m)
        /\ \A t \in Tick : m \in hand[t] \/ t \in At(m) => Backed(seen[t][m], m)

Absent == \A m \in Mail : m > count => status[m] = "absent"

IInv ==
    /\ TypeOK /\ Placed /\ Absent /\ Tried
    /\ SendingHasTick /\ NotGivenUpEarly /\ BudgetHolds

-----------------------------------------------------------------------------
(* Counting the ticks that have a row in flight.                           *)

Others(t, m) == Cardinality(At(m) \ {t})

LEMMA InflightFacts ==
    ASSUME NEW m, NEW t \in Tick
    PROVE  /\ Others(t, m) \in Nat
           /\ Inflight(m) = Others(t, m) + (IF t \in At(m) THEN 1 ELSE 0)
  <1>1. IsFiniteSet(At(m))
    BY EmailAssumption, FS_Subset DEF At
  <1>2. IsFiniteSet(At(m) \ {t})
    BY <1>1, FS_RemoveElement
  <1>3. Others(t, m) \in Nat
    BY <1>2, FS_CardinalityType DEF Others
  <1>4. Cardinality((At(m) \ {t}) \cup {t}) = Others(t, m) + 1
    BY <1>2, FS_AddElement DEF Others
  <1>5. CASE t \in At(m)
    <2>1. (At(m) \ {t}) \cup {t} = At(m)
      BY <1>5
    <2>2. QED
      BY <1>3, <1>4, <1>5, <2>1 DEF Inflight
  <1>6. CASE t \notin At(m)
    <2>1. At(m) \ {t} = At(m)
      BY <1>6
    <2>2. Inflight(m) = Others(t, m)
      BY <2>1 DEF Inflight, Others
    <2>3. QED
      BY <1>3, <1>6, <2>2
  <1>7. QED
    BY <1>3, <1>5, <1>6

LEMMA InflightPrime ==
    (\A m : \A t \in Tick :
        /\ Others(t, m) \in Nat
        /\ Inflight(m) = Others(t, m) + (IF t \in At(m) THEN 1 ELSE 0))'
  <1>1. \A m : \A t \in Tick :
            /\ Others(t, m) \in Nat
            /\ Inflight(m) = Others(t, m) + (IF t \in At(m) THEN 1 ELSE 0)
    BY InflightFacts
  <1>2. QED
    BY <1>1, PTL

\* A step of tick t, seen from row m: the calls of the transport are counted
\* when the row comes into flight.
Rung(t, m) ==
    /\ tries[m] \in 0 .. MaxAttempts
    /\ \A u \in Tick \ {t} : at'[u] = at[u] /\ now'[u] = now[u]
    /\ tries'[m] = IF t \in At(m)' THEN Capped(tries[m] + 1) ELSE tries[m]

LEMMA BackedKeeps ==
    ASSUME NEW t \in Tick, NEW m \in Mail, Rung(t, m), NEW x \in Nat, Backed(x, m)
    PROVE  /\ Backed(x, m)'
           /\ t \in At(m) => Backed(x + 1, m)'
  <1>1. (At(m) \ {t})' = At(m) \ {t}
    BY DEF At, Rung
  <1>2. Others(t, m)' = Others(t, m)
    BY <1>1 DEF Others
  <1>3. /\ Others(t, m) \in Nat
        /\ Inflight(m) = Others(t, m) + (IF t \in At(m) THEN 1 ELSE 0)
    BY InflightFacts
  <1>4. Inflight(m)' = Others(t, m)' + (IF t \in At(m)' THEN 1 ELSE 0)
    BY InflightPrime
  <1>5. Inflight(m)' = Others(t, m) + (IF t \in At(m)' THEN 1 ELSE 0)
    BY <1>2, <1>4
  <1> DEFINE o == Others(t, m)
             i == Inflight(m)
             j == Inflight(m)'
  <1>6. /\ o \in Nat /\ i = o + (IF t \in At(m) THEN 1 ELSE 0)
        /\ j = o + (IF t \in At(m)' THEN 1 ELSE 0)
        /\ tries[m] = MaxAttempts \/ x + i <= tries[m]
        /\ tries[m] \in 0 .. MaxAttempts
        /\ tries'[m] = IF t \in At(m)' THEN Capped(tries[m] + 1) ELSE tries[m]
    BY <1>3, <1>5 DEF Backed, Rung
  <1> HIDE DEF o, i, j
  <1>7. /\ tries'[m] = MaxAttempts \/ x + j <= tries'[m]
        /\ t \in At(m) => tries'[m] = MaxAttempts \/ (x + 1) + j <= tries'[m]
    <2>1. CASE t \in At(m)'
      BY <1>6, <2>1, EmailAssumption DEF Capped
    <2>2. CASE t \notin At(m)'
      BY <1>6, <2>2, EmailAssumption DEF Capped
    <2>3. QED
      BY <2>1, <2>2
  <1>8. QED
    BY <1>7 DEF Backed, i, j


-----------------------------------------------------------------------------
(* What proceeding does to its tick, its rows and the others.               *)

Positions ==
    /\ at \in [Tick -> {"idle", "sending", "alerting"}]
    /\ now \in [Tick -> 0 .. count]
    /\ hand \in [Tick -> SUBSET (1 .. count)]
    /\ seen \in [Tick -> [Mail -> 0 .. MaxAttempts]]
    /\ tries \in [Mail -> 0 .. MaxAttempts]

\* Tick t lets go of what it had and takes the rows S with counts `read`; the
\* statuses are `st` but for the row it marks.
Proceeded(t, S, st, read) ==
    /\ at' \in [Tick -> {"idle", "sending", "alerting"}]
    /\ now' \in [Tick -> 0 .. count]
    /\ hand' \in [Tick -> SUBSET (1 .. count)]
    /\ seen' \in [Tick -> [Mail -> 0 .. MaxAttempts]]
    /\ tries' \in [Mail -> 0 .. MaxAttempts]
    /\ \A u \in Tick \ {t} : /\ at'[u] = at[u] /\ now'[u] = now[u]
                             /\ hand'[u] = hand[u] /\ seen'[u] = seen[u]
    /\ hand'[t] \subseteq S
    /\ \A m \in Mail : m \in S => seen'[t][m] = read[m]
    /\ \/ at'[t] = "idle" /\ status' = st /\ tries' = tries
       \/ /\ at'[t] = "sending" /\ now'[t] \in S
          /\ status' = [st EXCEPT ![now'[t]] = "sending"]
          /\ tries' = [tries EXCEPT ![now'[t]] = Capped(tries[now'[t]] + 1)]

LEMMA ProceedFacts ==
    ASSUME Positions, count \in 0 .. MaxMail, NEW t \in Tick,
           NEW S \in SUBSET (1 .. count), NEW st, NEW read \in [Mail -> 0 .. MaxAttempts],
           Proceed(t, S, st, read)
    PROVE  Proceeded(t, S, st, read)
  <1> DEFINE s == [m \in Mail |-> IF m \in S THEN read[m] ELSE 0]
  <1>1. 0 \in 0 .. count /\ 0 \in 0 .. MaxAttempts /\ 1 .. count \subseteq Mail
        /\ 1 .. count \subseteq 0 .. count
    BY EmailAssumption DEF Mail
  <1>2. s \in [Mail -> 0 .. MaxAttempts] /\ \A m \in Mail : m \in S => s[m] = read[m]
    BY <1>1
  <1>3. seen' = [seen EXCEPT ![t] = s]
    BY DEF Proceed
  <1> HIDE DEF s
  <1>4. /\ seen' \in [Tick -> [Mail -> 0 .. MaxAttempts]] /\ seen'[t] = s
        /\ \A u \in Tick \ {t} : seen'[u] = seen[u]
    BY <1>2, <1>3 DEF Positions
  <1>5. CASE S = {}
    <2>1. /\ at' = [at EXCEPT ![t] = "idle"] /\ now' = [now EXCEPT ![t] = 0]
          /\ hand' = [hand EXCEPT ![t] = {}] /\ status' = st /\ tries' = tries
      BY <1>5 DEF Proceed
    <2>2. QED
      BY <1>1, <1>2, <1>4, <2>1 DEF Proceeded, Positions
  <1>6. CASE S # {}
    <2>1. PICK m \in S :
            /\ at' = [at EXCEPT ![t] = "sending"] /\ now' = [now EXCEPT ![t] = m]
            /\ hand' = [hand EXCEPT ![t] = S \ {m}] /\ status' = [st EXCEPT ![m] = "sending"]
            /\ tries' = [tries EXCEPT ![m] = Capped(@ + 1)]
      BY <1>6 DEF Proceed, Marked
    <2>2. m \in Mail /\ m \in 0 .. count /\ S \ {m} \in SUBSET (1 .. count)
      BY <1>1
    <2>3. Capped(tries[m] + 1) \in 0 .. MaxAttempts
      BY <2>2, EmailAssumption DEF Capped, Positions
    <2>4. tries' = [tries EXCEPT ![m] = Capped(tries[m] + 1)]
      BY <2>1, <2>2 DEF Positions
    <2>5. /\ at'[t] = "sending" /\ now'[t] = m /\ hand'[t] = S \ {m}
          /\ \A u \in Tick \ {t} : at'[u] = at[u] /\ now'[u] = now[u] /\ hand'[u] = hand[u]
          /\ at' \in [Tick -> {"idle", "sending", "alerting"}]
          /\ now' \in [Tick -> 0 .. count] /\ hand' \in [Tick -> SUBSET (1 .. count)]
      BY <2>1, <2>2 DEF Positions
    <2>6. tries' \in [Mail -> 0 .. MaxAttempts]
      BY <2>2, <2>3, <2>4 DEF Positions
    <2>7. QED
      BY <1>2, <1>4, <2>1, <2>4, <2>5, <2>6 DEF Proceeded
  <1>7. QED
    BY <1>5, <1>6


-----------------------------------------------------------------------------
(* A tick that lets go of a row and goes on keeps the invariant.            *)

\* The count written is the one there was, or one more than a backed one that
\* was in flight.
Written(t, m) ==
    \/ attempts'[m] = attempts[m]
    \/ t \in At(m) /\ \E x \in Nat : Backed(x, m) /\ attempts'[m] <= x + 1

LEMMA BackedLess ==
    ASSUME NEW m \in Mail, NEW t \in Tick, NEW x \in Nat, NEW y \in Nat, y <= x,
           Backed(x, m)', tries'[m] \in Nat
    PROVE  Backed(y, m)'
  <1>1. Inflight(m)' \in Nat
    BY InflightPrime
  <1> DEFINE i == Inflight(m)'
  <1>2. i \in Nat /\ (tries'[m] = MaxAttempts \/ x + i <= tries'[m])
    BY <1>1 DEF Backed
  <1> HIDE DEF i
  <1>3. tries'[m] = MaxAttempts \/ y + i <= tries'[m]
    BY <1>2
  <1>4. QED
    BY <1>3 DEF Backed, i

LEMMA TriedStep ==
    ASSUME Positions, Positions', Tried, NEW t \in Tick, \A m \in Mail : Rung(t, m),
           attempts \in [Mail -> 0 .. MaxAttempts],
           attempts' \in [Mail -> 0 .. MaxAttempts],
           \A m \in Mail : Written(t, m),
           \A u \in Tick \ {t} : hand'[u] = hand[u] /\ seen'[u] = seen[u],
           \A m \in Mail : m \in hand'[t] \/ t \in At(m)' => Backed(seen'[t][m], m)
    PROVE  Tried'
  <1> SUFFICES ASSUME NEW m \in Mail
               PROVE  /\ Backed(attempts[m], m)'
                      /\ \A u \in Tick : m \in hand'[u] \/ u \in At(m)' =>
                             Backed(seen[u][m], m)'
    BY DEF Tried
  <1>1. Rung(t, m) /\ tries'[m] \in Nat
    BY DEF Positions
  <1>2. attempts[m] \in Nat /\ attempts'[m] \in Nat /\ Backed(attempts[m], m)
    BY DEF Tried
  <1>3. ASSUME NEW x \in Nat, Backed(x, m)
        PROVE Backed(x, m)' /\ (t \in At(m) => Backed(x + 1, m)')
    BY <1>1, <1>3, BackedKeeps
  <1>4. Backed(attempts[m], m)'
    <2>1. CASE attempts'[m] = attempts[m]
      BY <1>2, <1>3, <2>1 DEF Backed
    <2>2. CASE t \in At(m) /\ \E x \in Nat : Backed(x, m) /\ attempts'[m] <= x + 1
      <3>1. PICK x \in Nat : Backed(x, m) /\ attempts'[m] <= x + 1
        BY <2>2
      <3>2. Backed(x + 1, m)' /\ x + 1 \in Nat
        BY <1>3, <2>2, <3>1
      <3>3. ASSUME NEW y \in Nat, y <= x + 1 PROVE Backed(y, m)'
        BY <1>1, <3>2, <3>3, BackedLess
      <3>4. QED
        BY <1>2, <3>1, <3>3 DEF Backed
    <2>3. QED
      BY <2>1, <2>2 DEF Written
  <1>5. ASSUME NEW u \in Tick, m \in hand'[u] \/ u \in At(m)'
        PROVE Backed(seen[u][m], m)'
    <2>1. seen[u][m] \in Nat /\ seen'[u][m] \in Nat
      BY DEF Positions
    <2>2. CASE u = t
      BY <1>3, <1>5, <2>1, <2>2 DEF Backed
    <2>3. CASE u # t
      <3>1. m \in hand[u] \/ u \in At(m)
        BY <1>1, <1>5, <2>3 DEF Rung, At
      <3>2. Backed(seen[u][m], m) /\ seen'[u] = seen[u]
        BY <2>3, <3>1 DEF Tried
      <3>3. QED
        BY <1>3, <2>1, <3>2 DEF Backed
    <2>4. QED
      BY <2>2, <2>3
  <1>6. QED
    BY <1>4, <1>5


LEMMA ProceedStep ==
    ASSUME IInv, NEW t \in Tick, NEW S \in SUBSET (1 .. count),
           NEW st \in [Mail -> Status], NEW read \in [Mail -> 0 .. MaxAttempts],
           Proceed(t, S, st, read), UNCHANGED <<count, recent, up, crashes>>, up,
           due' \in [Mail -> BOOLEAN], attempts' \in [Mail -> 0 .. MaxAttempts],
           \A m \in Mail : st[m] = "sending" => status[m] = "sending" /\ t \notin At(m),
           \A m \in Mail : st[m] = "failed" => status[m] = "failed",
           \A m \in Mail : m > count => st[m] = "absent",
           \A m \in Mail : m \in S => Backed(read[m], m),
           \A m \in Mail : Written(t, m)
    PROVE  IInv'
  <1>1. Positions /\ TypeOK /\ Placed /\ Tried /\ count \in 0 .. MaxMail
    BY DEF IInv, TypeOK, Positions
  <1>2. Proceeded(t, S, st, read)
    BY <1>1, ProceedFacts
  <1>3. 1 .. count \subseteq Mail /\ \A m \in 1 .. count : ~(m > count)
    BY <1>1, EmailAssumption DEF Mail
  <1>4. Positions'
    BY <1>2 DEF Proceeded, Positions
  <1>5. \A m \in Mail : Rung(t, m)
    BY <1>1, <1>2, <1>3 DEF Proceeded, Rung, Positions, At
  <1>6. Tried'
    <2>1. \A m \in Mail : m \in hand'[t] \/ t \in At(m)' => Backed(seen'[t][m], m)
      BY <1>2, <1>3 DEF Proceeded, At
    <2>2. \A u \in Tick \ {t} : hand'[u] = hand[u] /\ seen'[u] = seen[u]
      BY <1>2 DEF Proceeded
    <2>3. QED
      BY <1>1, <1>4, <1>5, <2>1, <2>2, TriedStep DEF TypeOK
  <1>7. status' \in [Mail -> Status] /\ Absent'
    <2>1. CASE at'[t] = "idle" /\ status' = st /\ tries' = tries
      BY <2>1 DEF Absent
    <2>2. CASE /\ at'[t] = "sending" /\ now'[t] \in S
               /\ status' = [st EXCEPT ![now'[t]] = "sending"]
      BY <1>3, <2>2 DEF Absent, Status
    <2>3. QED
      BY <1>2, <2>1, <2>2 DEF Proceeded
  <1>8. TypeOK'
    BY <1>1, <1>4, <1>7 DEF TypeOK, Positions
  <1>9. Placed'
    BY <1>1, <1>2 DEF Proceeded, Placed
  <1>10. SendingHasTick'
    <2> SUFFICES ASSUME NEW m \in Mail, status'[m] = "sending"
                 PROVE \E u \in Tick : at'[u] = "sending" /\ now'[u] = m
      BY DEF SendingHasTick
    <2>1. CASE at'[t] = "sending" /\ now'[t] = m
      BY <2>1
    <2>2. CASE ~(at'[t] = "sending" /\ now'[t] = m)
      <3>1. st[m] = "sending"
        BY <1>2, <1>3, <2>2 DEF Proceeded
      <3>2. status[m] = "sending" /\ t \notin At(m)
        BY <3>1
      <3>3. PICK u \in Tick : at[u] = "sending" /\ now[u] = m
        BY <3>2 DEF IInv, SendingHasTick
      <3>4. u # t
        BY <3>2, <3>3 DEF At
      <3>5. QED
        BY <1>2, <3>3, <3>4 DEF Proceeded
    <2>3. QED
      BY <2>1, <2>2
  <1>11. NotGivenUpEarly'
    <2> SUFFICES ASSUME NEW m \in Mail, status'[m] = "failed" PROVE tries'[m] = MaxAttempts
      BY DEF NotGivenUpEarly
    <2>1. st[m] = "failed"
      BY <1>2, <1>3 DEF Proceeded
    <2>2. tries[m] = MaxAttempts
      BY <2>1 DEF IInv, NotGivenUpEarly
    <2>3. tries'[m] = tries[m] \/ tries'[m] = Capped(tries[m] + 1)
      BY <1>5 DEF Rung
    <2>4. QED
      BY <2>2, <2>3, EmailAssumption DEF Capped
  <1>12. BudgetHolds'
    BY DEF IInv, BudgetHolds
  <1>13. QED
    BY <1>6, <1>7, <1>8, <1>9, <1>10, <1>11, <1>12 DEF IInv

-----------------------------------------------------------------------------
(* The steps of a tick.                                                    *)

\* A tick at work has a row of its own.
LEMMA WorkFacts ==
    ASSUME IInv, NEW t \in Tick, at[t] # "idle"
    PROVE  /\ up /\ now[t] \in Mail /\ now[t] \in 1 .. count
           /\ hand[t] \in SUBSET (1 .. count) /\ 1 .. count \subseteq Mail
           /\ seen[t] \in [Mail -> 0 .. MaxAttempts]
           /\ \A m \in Mail : m \in hand[t] => Backed(seen[t][m], m)
           /\ at[t] = "sending" => t \in At(now[t]) /\ Backed(seen[t][now[t]], now[t])
           /\ \A m \in Mail : t \in At(m) => m = now[t]
  <1>1. up /\ now[t] \in 1 .. count /\ 1 .. count \subseteq Mail
    BY EmailAssumption DEF IInv, Placed, TypeOK, Mail
  <1>2. at[t] = "sending" => t \in At(now[t])
    BY DEF At
  <1>3. \A m \in Mail : t \in At(m) => m = now[t]
    BY DEF At
  <1>4. \A m \in Mail : m \in hand[t] \/ t \in At(m) => Backed(seen[t][m], m)
    BY DEF IInv, Tried
  <1>5. QED
    BY <1>1, <1>2, <1>3, <1>4 DEF IInv, TypeOK

LEMMA TickStep ==
    ASSUME IInv, NEW t \in Tick, tick(t)
    PROVE  IInv'
  <1>1. Proceed(t, Oldest(Ready), status, attempts) /\ up /\ at[t] = "idle"
        /\ UNCHANGED <<count, attempts, due, recent, up, crashes>>
    BY DEF tick
  <1>2. Oldest(Ready) \in SUBSET (1 .. count)
    BY DEF Oldest, Ready, IInv, Absent, TypeOK, Mail
  <1>3. /\ status \in [Mail -> Status] /\ attempts \in [Mail -> 0 .. MaxAttempts]
        /\ due' \in [Mail -> BOOLEAN] /\ attempts' \in [Mail -> 0 .. MaxAttempts]
    BY <1>1 DEF IInv, TypeOK
  <1>4. \A m \in Mail : t \notin At(m)
    BY <1>1 DEF At
  <1>5. \A m \in Mail : Backed(attempts[m], m) /\ Written(t, m)
    BY <1>1 DEF IInv, Tried, Written
  <1>6. \A m \in Mail : m > count => status[m] = "absent"
    BY DEF IInv, Absent
  <1>7. QED
    BY <1>1, <1>2, <1>3, <1>4, <1>5, <1>6, ProceedStep

LEMMA AlertedStep ==
    ASSUME IInv, NEW t \in Tick, Alerted(t)
    PROVE  IInv'
  <1>1. Proceed(t, hand[t], status, seen[t]) /\ at[t] = "alerting"
        /\ UNCHANGED <<count, attempts, due, recent, up, crashes>>
    BY DEF Alerted
  <1>2. /\ up /\ hand[t] \in SUBSET (1 .. count) /\ seen[t] \in [Mail -> 0 .. MaxAttempts]
        /\ \A m \in Mail : m \in hand[t] => Backed(seen[t][m], m)
    BY <1>1, WorkFacts
  <1>3. /\ status \in [Mail -> Status]
        /\ due' \in [Mail -> BOOLEAN] /\ attempts' \in [Mail -> 0 .. MaxAttempts]
    BY <1>1 DEF IInv, TypeOK
  <1>4. \A m \in Mail : t \notin At(m) /\ Written(t, m)
    BY <1>1 DEF At, Written
  <1>5. \A m \in Mail : m > count => status[m] = "absent"
    BY DEF IInv, Absent
  <1>6. QED
    BY <1>1, <1>2, <1>3, <1>4, <1>5, ProceedStep

\* The row that a tick lets go of gets a status and a count.
LEMMA LetGo ==
    ASSUME IInv, NEW t \in Tick, at[t] = "sending",
           NEW s \in Status, s # "sending", s # "failed",
           NEW x \in Nat, Backed(x, now[t]),
           attempts' = [attempts EXCEPT ![now[t]] = Capped(x + 1)],
           Proceed(t, hand[t], [status EXCEPT ![now[t]] = s], seen[t]),
           due' \in [Mail -> BOOLEAN], UNCHANGED <<count, recent, up, crashes>>
    PROVE  IInv'
  <1> DEFINE n == now[t]
             st == [status EXCEPT ![n] = s]
  <1>1. /\ up /\ n \in Mail /\ n \in 1 .. count
        /\ hand[t] \in SUBSET (1 .. count) /\ seen[t] \in [Mail -> 0 .. MaxAttempts]
        /\ \A m \in Mail : m \in hand[t] => Backed(seen[t][m], m)
        /\ t \in At(n) /\ \A m \in Mail : t \in At(m) => m = n
    BY WorkFacts
  <1>2. /\ status \in [Mail -> Status] /\ attempts \in [Mail -> 0 .. MaxAttempts]
        /\ count \in 0 .. MaxMail
    BY DEF IInv, TypeOK
  <1>3. Capped(x + 1) \in 0 .. MaxAttempts /\ Capped(x + 1) <= x + 1
    BY EmailAssumption DEF Capped
  <1>4. /\ attempts' \in [Mail -> 0 .. MaxAttempts] /\ attempts'[n] = Capped(x + 1)
        /\ \A m \in Mail : m # n => attempts'[m] = attempts[m]
    BY <1>1, <1>2, <1>3
  <1>5. \A m \in Mail : Written(t, m)
    BY <1>1, <1>3, <1>4 DEF Written
  <1>6. /\ st \in [Mail -> Status] /\ st[n] = s
        /\ \A m \in Mail : m # n => st[m] = status[m]
    BY <1>1, <1>2
  <1>7. Proceed(t, hand[t], st, seen[t])
    OBVIOUS
  <1>8. ~(n > count)
    BY <1>1, <1>2
  <1> HIDE DEF st, n
  <1>9. /\ \A m \in Mail : st[m] = "sending" => status[m] = "sending" /\ t \notin At(m)
        /\ \A m \in Mail : st[m] = "failed" => status[m] = "failed"
        /\ \A m \in Mail : m > count => st[m] = "absent"
    BY <1>1, <1>6, <1>8 DEF IInv, Absent
  <1>10. QED
    BY <1>1, <1>4, <1>5, <1>6, <1>7, <1>9, ProceedStep


LEMMA AcceptedStep ==
    ASSUME IInv, NEW t \in Tick, Accepted(t)
    PROVE  IInv'
  <1>1. at[t] = "sending" /\ UNCHANGED <<count, due, recent, up, crashes>>
        /\ Proceed(t, hand[t], [status EXCEPT ![now[t]] = "sent"], seen[t])
        /\ attempts' = [attempts EXCEPT ![now[t]] = Capped(@ + 1)]
    BY DEF Accepted
  <1>2. now[t] \in Mail
    BY <1>1, WorkFacts
  <1>3. attempts[now[t]] \in Nat /\ Backed(attempts[now[t]], now[t])
        /\ attempts' = [attempts EXCEPT ![now[t]] = Capped(attempts[now[t]] + 1)]
        /\ due' \in [Mail -> BOOLEAN]
    BY <1>1, <1>2 DEF IInv, TypeOK, Tried
  <1>4. QED
    BY <1>1, <1>3, LetGo DEF Status

LEMMA RetryStep ==
    ASSUME IInv, NEW t \in Tick, Retry(t)
    PROVE  IInv'
  <1>1. at[t] = "sending" /\ UNCHANGED <<count, recent, up, crashes>>
        /\ Proceed(t, hand[t], [status EXCEPT ![now[t]] = "queued"], seen[t])
        /\ attempts' = [attempts EXCEPT ![now[t]] = Capped(seen[t][now[t]] + 1)]
        /\ due' = [due EXCEPT ![now[t]] = FALSE]
    BY DEF Retry
  <1>2. now[t] \in Mail /\ seen[t] \in [Mail -> 0 .. MaxAttempts]
        /\ Backed(seen[t][now[t]], now[t])
    BY <1>1, WorkFacts
  <1>3. due' \in [Mail -> BOOLEAN]
    BY <1>1 DEF IInv, TypeOK
  <1>4. seen[t][now[t]] \in Nat
    BY <1>2
  <1>5. QED
    BY <1>1, <1>2, <1>3, <1>4, LetGo DEF Status

LEMMA deadLetterStep ==
    ASSUME IInv, NEW t \in Tick, deadLetter(t)
    PROVE  IInv'
  <1> DEFINE n == now[t]
             x == seen[t][n]
  <1>1. /\ at[t] = "sending" /\ x + 1 >= MaxAttempts
        /\ attempts' = [attempts EXCEPT ![n] = Capped(x + 1)]
        /\ status' = [status EXCEPT ![n] = "failed"]
        /\ at' = [at EXCEPT ![t] = "alerting"]
        /\ UNCHANGED <<count, due, recent, now, hand, seen, tries, up, crashes>>
    BY DEF deadLetter, LastTry
  <1>2. /\ up /\ n \in Mail /\ n \in 1 .. count
        /\ seen[t] \in [Mail -> 0 .. MaxAttempts] /\ Backed(x, n)
        /\ t \in At(n) /\ \A m \in Mail : t \in At(m) => m = n
        /\ \A m \in Mail : m \in hand[t] => Backed(seen[t][m], m)
    BY <1>1, WorkFacts
  <1>3. x \in Nat /\ count \in 0 .. MaxMail
    BY <1>2 DEF IInv, TypeOK
  <1> HIDE DEF n, x
  <1>4. Positions /\ Positions' /\ Tried /\ attempts \in [Mail -> 0 .. MaxAttempts]
    BY <1>1 DEF IInv, TypeOK, Positions
  <1>5. Capped(x + 1) \in 0 .. MaxAttempts /\ Capped(x + 1) <= x + 1
    BY <1>3, EmailAssumption DEF Capped
  <1>6. /\ attempts' \in [Mail -> 0 .. MaxAttempts] /\ attempts'[n] = Capped(x + 1)
        /\ \A m \in Mail : m # n => attempts'[m] = attempts[m]
    BY <1>1, <1>2, <1>4, <1>5
  <1>7. \A m \in Mail : Written(t, m)
    BY <1>2, <1>3, <1>5, <1>6 DEF Written
  <1>8. at'[t] = "alerting" /\ \A u \in Tick \ {t} : at'[u] = at[u]
    BY <1>1, <1>4 DEF Positions
  <1>9. \A m \in Mail : t \notin At(m)'
    BY <1>8 DEF At
  <1>10. \A m \in Mail : Rung(t, m)
    BY <1>1, <1>4, <1>8, <1>9 DEF Rung, Positions
  <1>11. Tried'
    <2>1. \A m \in Mail : m \in hand'[t] \/ t \in At(m)' => Backed(seen'[t][m], m)
      BY <1>1, <1>2, <1>9
    <2>2. \A u \in Tick \ {t} : hand'[u] = hand[u] /\ seen'[u] = seen[u]
      BY <1>1
    <2>3. QED
      BY <1>4, <1>6, <1>7, <1>10, <2>1, <2>2, TriedStep
  <1>12. /\ status' \in [Mail -> Status] /\ status'[n] = "failed"
         /\ \A m \in Mail : m # n => status'[m] = status[m]
    BY <1>1, <1>2 DEF IInv, TypeOK, Status
  <1>13. TypeOK'
    BY <1>1, <1>4, <1>6, <1>12 DEF IInv, TypeOK, Positions
  <1>14. Placed' /\ Absent'
    BY <1>1, <1>2, <1>3, <1>8, <1>12 DEF IInv, Placed, Absent
  <1>15. SendingHasTick'
    <2> SUFFICES ASSUME NEW m \in Mail, status'[m] = "sending"
                 PROVE \E u \in Tick : at'[u] = "sending" /\ now'[u] = m
      BY DEF SendingHasTick
    <2>1. m # n /\ status[m] = "sending"
      BY <1>12
    <2>2. PICK u \in Tick : at[u] = "sending" /\ now[u] = m
      BY <1>2, <2>1 DEF IInv, SendingHasTick
    <2>3. u # t
      BY <2>1, <2>2 DEF n
    <2>4. QED
      BY <1>1, <1>8, <2>2, <2>3
  <1>16. tries[n] = MaxAttempts
    <2>1. Others(t, n) \in Nat /\ Inflight(n) = Others(t, n) + 1
      BY <1>2, InflightFacts
    <2>2. tries[n] \in 0 .. MaxAttempts
      BY <1>2, <1>4 DEF Positions
    <2> DEFINE o == Others(t, n)
    <2>3. o \in Nat /\ (tries[n] = MaxAttempts \/ x + (o + 1) <= tries[n])
      BY <1>2, <2>1 DEF Backed
    <2> HIDE DEF o
    <2>4. QED
      BY <1>1, <1>3, <2>2, <2>3, EmailAssumption DEF x, n
  <1>17. NotGivenUpEarly'
    BY <1>1, <1>12, <1>16 DEF IInv, NotGivenUpEarly
  <1>18. BudgetHolds'
    BY <1>1 DEF IInv, BudgetHolds
  <1>19. QED
    BY <1>11, <1>13, <1>14, <1>15, <1>17, <1>18 DEF IInv


-----------------------------------------------------------------------------
(* Callers, time, crash and restart.                                       *)

LEMMA EnqueueStep ==
    ASSUME IInv, NEW src \in {"app", "platform"}, enqueueEmail(src)
    PROVE  IInv'
  <1>1. /\ up /\ count < MaxMail
        /\ src = "app" => Cardinality(recent) < Limit
        /\ count' = count + 1
        /\ status' = [status EXCEPT ![count + 1] = "queued"]
        /\ recent' = IF src = "app" THEN recent \cup {count + 1} ELSE recent
        /\ UNCHANGED <<attempts, due, at, now, hand, seen, tries, up, crashes>>
    BY DEF enqueueEmail, Counted, tickVars
  <1>2. /\ count + 1 \in Mail /\ count' \in 0 .. MaxMail
        /\ 0 .. count \subseteq 0 .. count' /\ 1 .. count \subseteq 1 .. count'
    <2>1. count \in 0 .. MaxMail
      BY DEF IInv, TypeOK
    <2>2. QED
      BY <1>1, <2>1, EmailAssumption DEF Mail
  <1>3. /\ status' \in [Mail -> Status] /\ status'[count + 1] = "queued"
        /\ \A m \in Mail : m # count + 1 => status'[m] = status[m]
    BY <1>1, <1>2 DEF IInv, TypeOK, Status
  <1>4. TypeOK'
    BY <1>1, <1>2, <1>3 DEF IInv, TypeOK, Status
  <1>5. Placed' /\ Absent'
    <2>1. Placed'
      BY <1>1, <1>2 DEF IInv, Placed
    <2>2. \A m \in Mail : m > count + 1 => m > count /\ m # count + 1
      BY DEF IInv, TypeOK, Mail
    <2>3. QED
      BY <1>1, <1>3, <2>1, <2>2 DEF IInv, Absent
  <1>6. Tried'
    BY <1>1 DEF IInv, Tried, Backed, Inflight, At
  <1>7. SendingHasTick' /\ NotGivenUpEarly'
    BY <1>1, <1>3 DEF IInv, SendingHasTick, NotGivenUpEarly
  <1>8. BudgetHolds'
    <2>1. IsFiniteSet(recent)
      <3>1. IsFiniteSet(Mail)
        BY FS_Interval, EmailAssumption DEF Mail
      <3>2. QED
        BY <3>1, FS_Subset DEF IInv, TypeOK
    <2>2. Cardinality(recent) \in Nat
      BY <2>1, FS_CardinalityType
    <2>3. CASE src = "app"
      <3> DEFINE old == Cardinality(recent)
                 new == Cardinality(recent')
      <3>1. recent' = recent \cup {count + 1} /\ old < Limit
        BY <1>1, <2>3
      <3>2. new = old + 1 \/ new = old
        BY <2>1, <3>1, FS_AddElement
      <3> HIDE DEF old
      <3>3. new <= Limit
        BY <2>2, <3>1, <3>2, EmailAssumption DEF old
      <3>4. QED
        BY <3>3 DEF BudgetHolds
    <2>4. CASE src # "app"
      BY <1>1, <2>4 DEF IInv, BudgetHolds
    <2>5. QED
      BY <2>3, <2>4
  <1>9. QED
    BY <1>4, <1>5, <1>6, <1>7, <1>8 DEF IInv

LEMMA TimeStep ==
    ASSUME IInv, NEW m \in Mail, BecomesDue(m) \/ HourPasses(m)
    PROVE  IInv'
  <1>1. /\ due' \in [Mail -> BOOLEAN] /\ recent' \subseteq recent
        /\ UNCHANGED <<count, status, attempts, at, now, hand, seen, tries, up, crashes>>
    <2>1. CASE BecomesDue(m)
      BY <2>1 DEF BecomesDue, IInv, TypeOK, tickVars
    <2>2. CASE HourPasses(m)
      BY <2>2 DEF HourPasses, IInv, TypeOK, tickVars
    <2>3. QED
      BY <2>1, <2>2
  <1>2. TypeOK'
    BY <1>1 DEF IInv, TypeOK
  <1>3. Placed' /\ Absent' /\ SendingHasTick' /\ NotGivenUpEarly'
    BY <1>1 DEF IInv, Placed, Absent, SendingHasTick, NotGivenUpEarly
  <1>4. Tried'
    BY <1>1 DEF IInv, Tried, Backed, Inflight, At
  <1>5. BudgetHolds'
    <2>1. IsFiniteSet(Mail)
      BY FS_Interval, EmailAssumption DEF Mail
    <2>2. IsFiniteSet(recent)
      BY <2>1, FS_Subset DEF IInv, TypeOK
    <2>3. IsFiniteSet(recent') /\ Cardinality(recent') <= Cardinality(recent)
      BY <1>1, <2>2, FS_Subset
    <2>4. Cardinality(recent) \in Nat /\ Cardinality(recent') \in Nat
      BY <2>2, <2>3, FS_CardinalityType
    <2>5. QED
      BY <2>3, <2>4, EmailAssumption DEF IInv, BudgetHolds
  <1>6. QED
    BY <1>2, <1>3, <1>4, <1>5 DEF IInv

\* Ticks that end without a trace leave every count backed.
LEMMA BackedDrops ==
    ASSUME NEW m \in Mail, NEW x \in Nat, Backed(x, m), UNCHANGED tries,
           tries[m] \in Nat, \A t \in Tick : t \notin At(m)'
    PROVE  Backed(x, m)'
  <1>1. At(m)' = {}
    BY DEF At
  <1>2. Inflight(m)' = 0
    BY <1>1, FS_EmptySet DEF Inflight
  <1>3. Inflight(m) \in Nat
    <2>1. IsFiniteSet(At(m))
      BY EmailAssumption, FS_Subset DEF At
    <2>2. QED
      BY <2>1, FS_CardinalityType DEF Inflight
  <1> DEFINE i == Inflight(m)
             j == Inflight(m)'
  <1>4. i \in Nat /\ j = 0 /\ (tries[m] = MaxAttempts \/ x + i <= tries[m])
    BY <1>2, <1>3 DEF Backed
  <1> HIDE DEF i, j
  <1>5. tries'[m] = MaxAttempts \/ x + j <= tries'[m]
    BY <1>4
  <1>6. QED
    BY <1>5 DEF Backed, j

LEMMA CrashStep ==
    ASSUME IInv, Crash
    PROVE  IInv'
  <1>1. /\ up' = FALSE /\ crashes < MaxCrashes /\ crashes' = crashes + 1
        /\ at' = [t \in Tick |-> "idle"] /\ now' = [t \in Tick |-> 0]
        /\ hand' = [t \in Tick |-> {}]
        /\ seen' = [t \in Tick |-> [m \in Mail |-> 0]]
        /\ UNCHANGED <<count, status, attempts, due, recent, tries>>
    BY DEF Crash, rowVars
  <1>2. 0 \in 0 .. count /\ 0 \in 0 .. MaxAttempts /\ crashes' \in 0 .. MaxCrashes
    BY <1>1, EmailAssumption DEF IInv, TypeOK
  <1>3. TypeOK'
    BY <1>1, <1>2 DEF IInv, TypeOK
  <1>4. \A t \in Tick : at'[t] = "idle" /\ hand'[t] = {}
    BY <1>1
  <1>5. Placed' /\ Absent' /\ SendingHasTick' /\ NotGivenUpEarly' /\ BudgetHolds'
    BY <1>1, <1>4 DEF IInv, Placed, Absent, SendingHasTick, NotGivenUpEarly, BudgetHolds
  <1>6. Tried'
    <2>1. \A m \in Mail : \A t \in Tick : t \notin At(m)' /\ m \notin hand'[t]
      BY <1>4 DEF At
    <2>2. ASSUME NEW m \in Mail PROVE Backed(attempts[m], m)'
      <3>1. /\ attempts[m] \in Nat /\ Backed(attempts[m], m)
            /\ tries[m] \in Nat /\ attempts' = attempts
        BY <1>1 DEF IInv, TypeOK, Tried
      <3>2. QED
        BY <1>1, <2>1, <3>1, BackedDrops DEF Backed
    <2>3. QED
      BY <2>1, <2>2 DEF Tried
  <1>7. QED
    BY <1>3, <1>5, <1>6 DEF IInv

LEMMA RestartStep ==
    ASSUME IInv, startEmailWorker
    PROVE  IInv'
  <1>1. /\ ~up /\ up' = TRUE /\ status' = OrphansReset
        /\ UNCHANGED <<count, attempts, due, recent, at, now, hand, seen, tries, crashes>>
    BY DEF startEmailWorker, tickVars
  <1>2. /\ status' \in [Mail -> Status]
        /\ \A m \in Mail : status'[m] = IF status[m] = "sending" THEN "queued" ELSE status[m]
    BY <1>1 DEF IInv, TypeOK, OrphansReset, Status
  <1>3. TypeOK'
    BY <1>1, <1>2 DEF IInv, TypeOK
  <1>4. Placed' /\ Absent' /\ SendingHasTick' /\ NotGivenUpEarly' /\ BudgetHolds'
    BY <1>1, <1>2 DEF IInv, Placed, Absent, SendingHasTick, NotGivenUpEarly, BudgetHolds
  <1>5. Tried'
    BY <1>1 DEF IInv, Tried, Backed, Inflight, At
  <1>6. QED
    BY <1>3, <1>4, <1>5 DEF IInv

-----------------------------------------------------------------------------

LEMMA InitInv == Init => IInv
  <1> SUFFICES ASSUME Init PROVE IInv
    OBVIOUS
  <1>1. /\ 0 \in 0 .. MaxMail /\ 0 \in 0 .. MaxAttempts /\ 0 \in 0 .. MaxCrashes
        /\ 0 \in 0 .. 0
    BY EmailAssumption
  <1>2. TypeOK
    BY <1>1 DEF Init, TypeOK, Status
  <1>3. Placed /\ Absent /\ SendingHasTick /\ NotGivenUpEarly
    BY DEF Init, Placed, Absent, SendingHasTick, NotGivenUpEarly
  <1>4. \A m \in Mail : At(m) = {}
    BY DEF Init, At
  <1>5. \A m \in Mail : Inflight(m) = 0
    BY <1>4, FS_EmptySet DEF Inflight
  <1>6. \A m \in Mail : Backed(0, m)
    BY <1>5 DEF Backed, Init
  <1>7. Tried
    BY <1>4, <1>6 DEF Init, Tried
  <1>8. BudgetHolds
    BY FS_EmptySet, EmailAssumption DEF Init, BudgetHolds
  <1>9. QED
    BY <1>2, <1>3, <1>7, <1>8 DEF IInv

LEMMA StepInv == IInv /\ [Next]_vars => IInv'
  <1> SUFFICES ASSUME IInv, [Next]_vars PROVE IInv'
    OBVIOUS
  <1>1. ASSUME NEW src \in {"app", "platform"}, enqueueEmail(src) PROVE IInv'
    BY <1>1, EnqueueStep
  <1>2. ASSUME NEW t \in Tick, tick(t) \/ processRow(t) PROVE IInv'
    BY <1>2, TickStep, AcceptedStep, RetryStep, deadLetterStep, AlertedStep DEF processRow
  <1>3. ASSUME NEW m \in Mail, BecomesDue(m) \/ HourPasses(m) PROVE IInv'
    BY <1>3, TimeStep
  <1>4. CASE Crash \/ startEmailWorker
    BY <1>4, CrashStep, RestartStep
  <1>5. CASE UNCHANGED vars
    <2>1. UNCHANGED <<count, status, attempts, due, recent, at, now, hand, seen, tries,
                      up, crashes>>
      BY <1>5 DEF vars, rowVars, tickVars
    <2>2. TypeOK'
      BY <2>1 DEF IInv, TypeOK
    <2>3. Placed' /\ Absent' /\ SendingHasTick' /\ NotGivenUpEarly' /\ BudgetHolds'
      BY <2>1 DEF IInv, Placed, Absent, SendingHasTick, NotGivenUpEarly, BudgetHolds
    <2>4. Tried'
      BY <2>1 DEF IInv, Tried, Backed, Inflight, At
    <2>5. QED
      BY <2>2, <2>3, <2>4 DEF IInv
  <1>6. QED
    BY <1>1, <1>2, <1>3, <1>4, <1>5 DEF Next

THEOREM InvTheorem == Spec => []IInv
  BY InitInv, StepInv, PTL DEF Spec

\* A tick has only rows in hand that were inserted, and every variable its type.
THEOREM TypeTheorem == Spec => []TypeOK
  BY InvTheorem, PTL DEF IInv

\* No row is left 'sending' without a tick that has it (SendingHasTick).
THEOREM SendingTheorem == Spec => []SendingHasTick
  BY InvTheorem, PTL DEF IInv

\* However stale the counts that overlapping ticks write back: a row that is
\* given up was handed to the transport MaxAttempts times (NotGivenUpEarly).
THEOREM GivenUpTheorem == Spec => []NotGivenUpEarly
  BY InvTheorem, PTL DEF IInv

\* The budget of the hour holds through sends, failures and restarts.
THEOREM BudgetTheorem == Spec => []BudgetHolds
  BY InvTheorem, PTL DEF IInv

-----------------------------------------------------------------------------
(* The cron scheduler: one run per job, and results that go to the row     *)
(* they are of.                                                            *)

\* An id is that of one row ever: what runs or is about to run with the id of a
\* row has that row's name.
OneNamePerId ==
    /\ \A n \in Rows : row[n].id <= lastId
    /\ \A n, k \in Rows : row[n].id = row[k].id => n = k
    /\ \A j \in execs \cup asked :
          j.id <= lastId /\ \A n \in Rows : row[n].id = j.id => n = j.name

CronInv == CronTypeOK /\ OneNamePerId /\ OneRunPerJob /\ ResultIsOwn

LEMMA CronTypes ==
    ASSUME CronTypeOK
    PROVE  /\ \A n \in Rows : n \in Name /\ row[n] \in Row
           /\ \A r \in Row : r.id \in Nat /\ r.id >= 1
           /\ \A j \in execs \cup asked : j.name \in Name /\ j.id \in Id
           /\ lastId \in Nat
  BY CronAssumption DEF CronTypeOK, Rows, Row, Exec, Id

\* The start of runs of rows whose jobs are idle, one for a job.
LEMMA RunsStart ==
    ASSUME CronInv, NEW J \in SUBSET [name : Name, id : Id],
           \A j, k \in J : j.name = k.name => j = k,
           \A j \in J : j.id <= lastId /\ \A n \in Rows : row[n].id = j.id => n = j.name,
           runCronJob(J), UNCHANGED <<row, lastId>>, asked' \subseteq asked
    PROVE  /\ execs' \subseteq Exec /\ running' \subseteq Name
           /\ OneRunPerJob' /\ OneNamePerId' /\ ResultIsOwn'
  <1> DEFINE started == {j \in J : app /\ ~Held(j)}
             fresh   == {[name |-> j.name, id |-> j.id, live |-> TRUE] : j \in started}
  <1>1. execs' = execs \cup fresh /\ running' = running \cup {j.name : j \in started}
    BY DEF runCronJob
  <1>2. \A j \in started : j \in J /\ j.name \in Name /\ j.id \in Id /\ j.name \notin running
    BY DEF Held
  <1>3. \A e \in fresh : \E j \in started : e.name = j.name /\ e.id = j.id /\ e.live = TRUE
                                          /\ e = [name |-> j.name, id |-> j.id, live |-> TRUE]
    OBVIOUS
  <1>4. \A j \in started : \E e \in fresh : e.name = j.name
    <2> SUFFICES ASSUME NEW j \in started PROVE \E e \in fresh : e.name = j.name
      OBVIOUS
    <2>1. [name |-> j.name, id |-> j.id, live |-> TRUE] \in fresh
      OBVIOUS
    <2> QED
      BY <2>1
  <1> HIDE DEF started
  <1>5. fresh \subseteq Exec
    <2> SUFFICES ASSUME NEW e \in fresh PROVE e \in Exec
      OBVIOUS
    <2>1. PICK j \in started : e = [name |-> j.name, id |-> j.id, live |-> TRUE]
      BY <1>3
    <2> QED
      BY <1>2, <2>1 DEF Exec
  <1> HIDE DEF fresh
  <1>6. execs' \subseteq Exec /\ running' \subseteq Name
    BY <1>1, <1>2, <1>5 DEF CronInv, CronTypeOK
  <1>7. OneRunPerJob'
    <2>1. \A e \in execs : e.name \in running
      BY DEF CronInv, OneRunPerJob
    <2>2. \A e, f \in execs' : e.name = f.name => e = f
      <3>1. \A e, f \in execs : e.name = f.name => e = f
        BY DEF CronInv, OneRunPerJob
      <3>2. \A e \in execs, f \in fresh : e.name # f.name
        BY <1>2, <1>3, <2>1
      <3>3. \A e, f \in fresh : e.name = f.name => e = f
        <4> SUFFICES ASSUME NEW e \in fresh, NEW f \in fresh, e.name = f.name PROVE e = f
          OBVIOUS
        <4>1. PICK j \in started : e = [name |-> j.name, id |-> j.id, live |-> TRUE]
          BY <1>3
        <4>2. PICK k \in started : f = [name |-> k.name, id |-> k.id, live |-> TRUE]
          BY <1>3
        <4>3. j = k
          BY <1>2, <4>1, <4>2
        <4> QED
          BY <4>1, <4>2, <4>3
      <3> QED
        BY <1>1, <3>1, <3>2, <3>3
    <2>3. running = {e.name : e \in execs}
      BY DEF CronInv, OneRunPerJob
    <2>4. {e.name : e \in fresh} = {j.name : j \in started}
      BY <1>3, <1>4
    <2>5. running' = {e.name : e \in execs'}
      BY <1>1, <2>3, <2>4
    <2> QED
      BY <2>2, <2>5 DEF OneRunPerJob
  <1>8. OneNamePerId'
    <2>1. Rows' = Rows
      BY DEF Rows
    <2>2. \A e \in fresh : e.id <= lastId /\ \A n \in Rows : row[n].id = e.id => n = e.name
      BY <1>2, <1>3
    <2> QED
      BY <1>1, <2>1, <2>2 DEF CronInv, OneNamePerId
  <1>9. ResultIsOwn'
    BY DEF CronInv, ResultIsOwn, Rows
  <1> QED
    BY <1>6, <1>7, <1>8, <1>9

LEMMA CronTickStep == ASSUME CronInv, cronTick PROVE CronInv'
  <1> DEFINE J == {[name |-> n, id |-> row[n].id] : n \in Due}
  <1>1. /\ ticked' = TRUE /\ runCronJob(J)
        /\ UNCHANGED <<minute, scheduling, app, row, lastId, asked, left, deaths>>
    BY DEF cronTick, jobVars
  <1>2. \A n \in Due : n \in Rows /\ n \in Name /\ row[n].id \in Id
    BY CronTypes DEF Due, CronInv, Row
  <1>3. \A j \in J : \E n \in Due : j = [name |-> n, id |-> row[n].id]
    OBVIOUS
  <1>4. J \subseteq [name : Name, id : Id]
    BY <1>2
  <1> HIDE DEF J
  <1>5. \A j, k \in J : j.name = k.name => j = k
    BY <1>3
  <1>6. \A j \in J : j.id <= lastId /\ \A n \in Rows : row[n].id = j.id => n = j.name
    BY <1>2, <1>3 DEF CronInv, OneNamePerId
  <1>7. /\ execs' \subseteq Exec /\ running' \subseteq Name
        /\ OneRunPerJob' /\ OneNamePerId' /\ ResultIsOwn'
    BY <1>1, <1>4, <1>5, <1>6, RunsStart
  <1>8. CronTypeOK'
    BY <1>1, <1>7 DEF CronInv, CronTypeOK
  <1> QED
    BY <1>7, <1>8 DEF CronInv

LEMMA RunAskedStep ==
    ASSUME CronInv, NEW j \in asked, RunAsked(j)
    PROVE  CronInv'
  <1>1. /\ asked' = asked \ {j} /\ runCronJob({j})
        /\ UNCHANGED <<minute, ticked, scheduling, app, row, lastId, left, deaths>>
    BY DEF RunAsked, jobVars
  <1>2. {j} \in SUBSET [name : Name, id : Id]
    BY DEF CronInv, CronTypeOK
  <1>3. /\ \A i, k \in {j} : i.name = k.name => i = k
        /\ \A i \in {j} : i.id <= lastId /\ \A n \in Rows : row[n].id = i.id => n = i.name
    BY DEF CronInv, OneNamePerId
  <1>4. /\ execs' \subseteq Exec /\ running' \subseteq Name
        /\ OneRunPerJob' /\ OneNamePerId' /\ ResultIsOwn'
    BY <1>1, <1>2, <1>3, RunsStart
  <1>5. CronTypeOK'
    BY <1>1, <1>4 DEF CronInv, CronTypeOK
  <1> QED
    BY <1>4, <1>5 DEF CronInv

\* The results are forgotten when the minute is over.
LEMMA MinuteStep == ASSUME CronInv, Minute PROVE CronInv'
  <1>1. /\ minute' = (minute + 1) % Cycle /\ ticked' = FALSE
        /\ row' = [n \in Name |-> IF n \in Rows THEN [row[n] EXCEPT !.recent = FALSE] ELSE NoRow]
        /\ UNCHANGED <<scheduling, app, lastId, running, execs, asked, left, deaths>>
    BY DEF Minute, runVars
  <1>2. minute' \in Minutes
    BY <1>1, CronAssumption DEF CronInv, CronTypeOK, Minutes
  <1>3. \A n \in Name : n \notin Rows => row'[n] = NoRow
    BY <1>1
  <1>4. \A n \in Rows : /\ n \in Name /\ row'[n] = [row[n] EXCEPT !.recent = FALSE]
                        /\ row[n] \in Row
    BY <1>1, CronTypes DEF CronInv
  <1>5. \A n \in Rows : /\ row'[n] \in Row /\ row'[n].id = row[n].id
                        /\ row'[n].by = row[n].by
    BY <1>4 DEF Row
  <1>6. Rows' \subseteq Rows
    BY <1>3 DEF Rows
  <1>7. CronTypeOK'
    <2>1. row' \in [Name -> Row \cup {NoRow}]
      BY <1>1, <1>3, <1>5
    <2> QED
      BY <1>1, <1>2, <2>1 DEF CronInv, CronTypeOK
  <1>8. OneRunPerJob'
    BY <1>1 DEF CronInv, OneRunPerJob
  <1>9. OneNamePerId'
    <2>1. \A n \in Rows' : n \in Rows /\ row'[n].id = row[n].id
      BY <1>5, <1>6
    <2> QED
      BY <1>1, <2>1 DEF CronInv, OneNamePerId
  <1>10. ResultIsOwn'
    BY <1>5, <1>6 DEF CronInv, ResultIsOwn
  <1> QED
    BY <1>7, <1>8, <1>9, <1>10 DEF CronInv

\* A run ends: its mutex is freed, and its row has the result if it is there.
LEMMA FinishStep ==
    ASSUME CronInv, NEW e \in execs, Finish(e)
    PROVE  CronInv'
  <1>1. /\ execs' = execs \ {e} /\ running' = running \ {e.name}
        /\ row' = [row EXCEPT ![e.name] =
              IF @ = NoRow \/ @.id # e.id THEN @ ELSE [@ EXCEPT !.recent = TRUE, !.by = e.id]]
        /\ UNCHANGED <<minute, ticked, scheduling, app, lastId, asked, deaths>>
    BY DEF Finish, Recorded, Freed
  <1>2. e.name \in Name /\ e.id \in Id /\ e.id \in 0 .. MaxIds
    BY CronTypes, CronAssumption DEF CronInv, Id
  <1>3. left' \subseteq Name
    BY <1>2 DEF Finish, CronInv, CronTypeOK
  <1>4. row \in [Name -> Row \cup {NoRow}]
    BY DEF CronInv, CronTypeOK
  <1>5. \A n \in Name : n # e.name => row'[n] = row[n]
    BY <1>1, <1>4
  <1>6. row'[e.name] = IF row[e.name] = NoRow \/ row[e.name].id # e.id THEN row[e.name]
                       ELSE [row[e.name] EXCEPT !.recent = TRUE, !.by = e.id]
    BY <1>1, <1>2, <1>4
  <1>7. \A n \in Name : row[n] # NoRow =>
           /\ row[n] \in Row /\ row'[n] \in Row /\ row'[n].id = row[n].id
           /\ row'[n].by = row[n].by \/ row'[n].by = row'[n].id
    <2> SUFFICES ASSUME NEW n \in Name, row[n] # NoRow
                 PROVE  /\ row[n] \in Row /\ row'[n] \in Row /\ row'[n].id = row[n].id
                        /\ row'[n].by = row[n].by \/ row'[n].by = row'[n].id
      OBVIOUS
    <2>1. row[n] \in Row
      BY <1>4
    <2>2. CASE row'[n] = row[n]
      BY <2>1, <2>2
    <2>3. CASE row'[n] # row[n]
      <3>1. row[n].id = e.id /\ row'[n] = [row[n] EXCEPT !.recent = TRUE, !.by = e.id]
        BY <1>5, <1>6, <2>3
      <3> QED
        BY <1>2, <2>1, <3>1 DEF Row
    <2> QED
      BY <2>2, <2>3
  <1>8. \A n \in Name : row[n] = NoRow => row'[n] = NoRow
    BY <1>5, <1>6
  <1>9. Rows' \subseteq Rows
    BY <1>8 DEF Rows
  <1>10. CronTypeOK'
    <2>1. row' \in [Name -> Row \cup {NoRow}]
      BY <1>1, <1>4, <1>7, <1>8
    <2> QED
      BY <1>1, <1>3, <2>1 DEF CronInv, CronTypeOK
  <1>11. OneNamePerId' /\ ResultIsOwn'
    <2>1. \A n \in Rows : row'[n].id = row[n].id
                            /\ (row'[n].by = row[n].by \/ row'[n].by = row'[n].id)
      BY <1>7 DEF Rows
    <2>2. \A n \in Rows' : n \in Rows
      BY <1>9
    <2>3. OneNamePerId'
      BY <1>1, <2>1, <2>2 DEF CronInv, OneNamePerId
    <2>4. ResultIsOwn'
      BY <2>1, <2>2 DEF CronInv, ResultIsOwn
    <2> QED
      BY <2>3, <2>4
  <1>12. OneRunPerJob'
    BY <1>1 DEF CronInv, OneRunPerJob
  <1> QED
    BY <1>10, <1>11, <1>12 DEF CronInv

\* The row a sync inserts.
LEMMA InsertedRow ==
    ASSUME NEW i \in Id, NEW s \in Schedule \ {{}}, NEW b \in BOOLEAN, 0 \in 0 .. MaxIds,
           NEW u, u = [id |-> i, schedule |-> s, enabled |-> b, recent |-> FALSE, by |-> 0]
    PROVE  u \in Row /\ u.id = i /\ u.by = 0
  BY DEF Row

\* The sync gives new jobs ids that no row had before.
LEMMA SyncStep ==
    ASSUME CronInv, syncCronJobsFromManifest
    PROVE  CronInv'
  <1>1. PICK N \in SUBSET Name : \E m \in [N -> [schedule : Schedule, enabled : BOOLEAN]] :
           /\ \A n \in N : m[n].schedule \in parseCron
           /\ Inserted(N \ Rows, m)
    BY DEF syncCronJobsFromManifest
  <1>2. PICK m \in [N -> [schedule : Schedule, enabled : BOOLEAN]] :
           /\ \A n \in N : m[n].schedule \in parseCron
           /\ Inserted(N \ Rows, m)
    BY <1>1
  <1> DEFINE S == N \ Rows
             rows(ids) ==
                 [n \in Name |->
                    CASE n \in S -> [id |-> ids[n], schedule |-> m[n].schedule,
                                     enabled |-> m[n].enabled, recent |-> FALSE, by |-> 0]
                      [] n \in DOMAIN m \ S -> [row[n] EXCEPT !.schedule = m[n].schedule,
                                                              !.enabled = m[n].enabled]
                      [] OTHER -> NoRow]
  <1>3. /\ lastId + Cardinality(S) <= MaxIds /\ lastId' = lastId + Cardinality(S)
        /\ \E ids \in [S -> (lastId + 1) .. lastId'] :
              (\A n, k \in S : ids[n] = ids[k] => n = k) /\ row' = rows(ids)
    BY <1>2, Zenon DEF Inserted
  <1>3a. PICK ids \in [S -> (lastId + 1) .. lastId'] :
              (\A n, k \in S : ids[n] = ids[k] => n = k) /\ row' = rows(ids)
    BY <1>3
  <1> HIDE DEF rows
  <1>4. UNCHANGED <<minute, ticked, scheduling, app, running, execs, asked, left, deaths>>
    BY DEF syncCronJobsFromManifest, runVars
  <1>5. Cardinality(S) \in Nat
    <2>1. IsFiniteSet(Name) /\ S \in SUBSET Name
      BY CronAssumption
    <2> HIDE DEF S
    <2>2. IsFiniteSet(S)
      BY <2>1, FS_Subset
    <2> QED
      BY <2>2, FS_CardinalityType
  <1>6. S \subseteq N /\ N \subseteq Name /\ DOMAIN m \ S = N \ S /\ \A n \in N \ S : n \in Rows
    OBVIOUS
  <1> HIDE DEF S
  <1>7. lastId \in Nat /\ lastId' \in 0 .. MaxIds /\ lastId' >= lastId /\ MaxIds \in Nat
    BY <1>3, <1>5, CronAssumption DEF CronInv, CronTypeOK
  <1>8. \A n \in S : /\ ids[n] \in Id /\ ids[n] > lastId /\ ids[n] <= lastId'
    BY <1>3a, <1>7 DEF Id
  <1>9. \A n \in N : m[n].schedule \in Schedule \ {{}} /\ m[n].enabled \in BOOLEAN
    BY <1>2 DEF parseCron
  <1>10. \A n \in Name :
            row'[n] = CASE n \in S -> [id |-> ids[n], schedule |-> m[n].schedule,
                                       enabled |-> m[n].enabled, recent |-> FALSE, by |-> 0]
                        [] n \in DOMAIN m \ S -> [row[n] EXCEPT !.schedule = m[n].schedule,
                                                                !.enabled = m[n].enabled]
                        [] OTHER -> NoRow
    BY <1>3a, Zenon DEF rows
  <1>11. \A n \in S : row'[n] = [id |-> ids[n], schedule |-> m[n].schedule,
                                 enabled |-> m[n].enabled, recent |-> FALSE, by |-> 0]
    BY <1>6, <1>10, Zenon
  <1>12. /\ \A n \in N \ S : row'[n] = [row[n] EXCEPT !.schedule = m[n].schedule,
                                                      !.enabled = m[n].enabled]
         /\ \A n \in Name \ N : row'[n] = NoRow
    BY <1>6, <1>10, Zenon
  <1>13. \A n \in S : row'[n] \in Row /\ row'[n].id = ids[n] /\ row'[n].by = 0
    <2> SUFFICES ASSUME NEW n \in S
                 PROVE  row'[n] \in Row /\ row'[n].id = ids[n] /\ row'[n].by = 0
      OBVIOUS
    <2>1. /\ m[n].schedule \in Schedule \ {{}} /\ m[n].enabled \in BOOLEAN
          /\ ids[n] \in Id /\ 0 \in 0 .. MaxIds
      BY <1>6, <1>7, <1>8, <1>9
    <2>2. row'[n] = [id |-> ids[n], schedule |-> m[n].schedule, enabled |-> m[n].enabled,
                     recent |-> FALSE, by |-> 0]
      BY <1>11, Zenon
    <2> QED
      BY <2>1, <2>2, InsertedRow
  <1>14. \A n \in N \ S : row'[n] \in Row /\ row'[n].id = row[n].id /\ row'[n].by = row[n].by
    <2> SUFFICES ASSUME NEW n \in N \ S
                 PROVE  row'[n] \in Row /\ row'[n].id = row[n].id /\ row'[n].by = row[n].by
      OBVIOUS
    <2>1. n \in N /\ row[n] \in Row
      BY <1>6, CronTypes DEF CronInv
    <2>2. m[n].schedule \in Schedule \ {{}} /\ m[n].enabled \in BOOLEAN
      BY <1>9, <2>1
    <2>3. row'[n] = [row[n] EXCEPT !.schedule = m[n].schedule, !.enabled = m[n].enabled]
      BY <1>12
    <2> DEFINE u == [row[n] EXCEPT !.schedule = m[n].schedule, !.enabled = m[n].enabled]
    <2>4. u \in Row /\ u.id = row[n].id /\ u.by = row[n].by
      <3> HIDE DEF u
      <3>1. PICK r \in Row : r = row[n]
        BY <2>1
      <3>2. PICK s \in Schedule \ {{}}, b \in BOOLEAN : s = m[n].schedule /\ b = m[n].enabled
        BY <2>2
      <3>3. u = [r EXCEPT !.schedule = s, !.enabled = b]
        BY <3>1, <3>2 DEF u
      <3> QED
        <4>1. u \in Row /\ u.id = r.id /\ u.by = r.by
          BY <3>1, <3>2, <3>3 DEF Row
        <4> QED
          BY <4>1, <3>1
    <2>5. row'[n] = u
      BY <2>3
    <2> HIDE DEF u
    <2> QED
      BY <2>4, <2>5
  <1>15. CronTypeOK'
    <2>1. DOMAIN row' = Name /\ row' = [n \in Name |-> row'[n]]
      BY <1>3a, Zenon DEF rows
    <2>2. \A n \in Name : row'[n] \in Row \cup {NoRow}
      BY <1>12, <1>13, <1>14
    <2>3. row' \in [Name -> Row \cup {NoRow}]
      BY <2>1, <2>2
    <2> QED
      BY <1>4, <1>7, <2>3 DEF CronInv, CronTypeOK
  <1>16. \A n \in Rows' : n \in S \/ n \in N \ S
    BY <1>12 DEF Rows
  <1>17. \A n \in Rows : row[n].id \in Nat /\ row[n].id <= lastId
    BY CronTypes DEF CronInv, OneNamePerId
  <1>18. OneNamePerId'
    <2>1. \A n \in Rows' : row'[n].id <= lastId'
      <3> SUFFICES ASSUME NEW n \in Rows' PROVE row'[n].id <= lastId'
        OBVIOUS
      <3>1. CASE n \in S
        BY <1>8, <1>13, <3>1
      <3>2. CASE n \in N \ S
        BY <1>6, <1>7, <1>14, <1>17, <3>2
      <3> QED
        BY <1>16, <3>1, <3>2
    <2>2. \A n, k \in Rows' : row'[n].id = row'[k].id => n = k
      <3> SUFFICES ASSUME NEW n \in Rows', NEW k \in Rows', row'[n].id = row'[k].id
                   PROVE  n = k
        OBVIOUS
      <3>1. CASE n \in S /\ k \in S
        BY <1>3a, <1>13, <3>1
      <3>2. CASE n \in N \ S /\ k \in N \ S
        BY <1>6, <1>14, <3>2 DEF CronInv, OneNamePerId
      <3>3. ASSUME NEW a \in S, NEW b \in N \ S PROVE row'[a].id # row'[b].id
        <4>1. row'[a].id > lastId /\ row'[a].id \in Nat
          BY <1>8, <1>13 DEF Id
        <4>2. row'[b].id <= lastId /\ row'[b].id \in Nat
          BY <1>6, <1>14, <1>17
        <4> QED
          BY <1>7, <4>1, <4>2
      <3> QED
        BY <1>16, <3>1, <3>2, <3>3
    <2>3. ASSUME NEW j \in execs \cup asked
          PROVE  j.id <= lastId' /\ \A n \in Rows' : row'[n].id = j.id => n = j.name
      <3>1. j.id \in Nat /\ j.id <= lastId /\ \A n \in Rows : row[n].id = j.id => n = j.name
        BY CronTypes DEF CronInv, OneNamePerId, Id
      <3>2. \A n \in S : row'[n].id # j.id
        BY <1>7, <1>8, <1>13, <3>1 DEF Id
      <3>3. \A n \in N \ S : row'[n].id = j.id => n = j.name
        BY <1>6, <1>14, <3>1
      <3> QED
        BY <1>7, <1>16, <3>1, <3>2, <3>3
    <2> QED
      BY <1>4, <2>1, <2>2, <2>3 DEF OneNamePerId
  <1>19. ResultIsOwn'
    <2>1. \A n \in N \ S : row[n].by \in {0, row[n].id}
      BY <1>6 DEF CronInv, ResultIsOwn
    <2> QED
      BY <1>13, <1>14, <1>16, <2>1 DEF ResultIsOwn
  <1>20. OneRunPerJob'
    BY <1>4 DEF CronInv, OneRunPerJob
  <1> QED
    BY <1>15, <1>18, <1>19, <1>20 DEF CronInv

\* What dies in the container leaves its client, and the client its mutex.
LEMMA KilledKeeps ==
    ASSUME CronInv, execs' = Killed,
           UNCHANGED <<lastId, running, asked>>, Rows' \subseteq Rows,
           \A n \in Rows' : row'[n] = row[n]
    PROVE  /\ execs' \subseteq Exec
           /\ OneRunPerJob' /\ OneNamePerId' /\ ResultIsOwn'
  <1>1. \A e \in execs : /\ [e EXCEPT !.live = FALSE] \in Exec
                         /\ [e EXCEPT !.live = FALSE].name = e.name
                         /\ [e EXCEPT !.live = FALSE].id = e.id
    BY DEF CronInv, CronTypeOK, Exec
  <1>2. \A f \in execs' : \E e \in execs : f = [e EXCEPT !.live = FALSE]
    BY DEF Killed
  <1>3. \A e \in execs : [e EXCEPT !.live = FALSE] \in execs'
    BY DEF Killed
  <1>4. execs' \subseteq Exec
    BY <1>1, <1>2
  <1>5. OneRunPerJob'
    <2>1. \A e, f \in execs' : e.name = f.name => e = f
      <3> SUFFICES ASSUME NEW e \in execs', NEW f \in execs', e.name = f.name PROVE e = f
        OBVIOUS
      <3>1. PICK a \in execs : e = [a EXCEPT !.live = FALSE]
        BY <1>2
      <3>2. PICK b \in execs : f = [b EXCEPT !.live = FALSE]
        BY <1>2
      <3>3. a = b
        BY <1>1, <3>1, <3>2 DEF CronInv, OneRunPerJob
      <3> QED
        BY <3>1, <3>2, <3>3
    <2>2. running' = {e.name : e \in execs'}
      <3>1. running = {e.name : e \in execs}
        BY DEF CronInv, OneRunPerJob
      <3>2. \A e \in execs' : e.name \in running
        BY <1>1, <1>2, <3>1
      <3>3. \A x \in running : \E e \in execs' : e.name = x
        BY <1>1, <1>3, <3>1
      <3> QED
        BY <3>2, <3>3
    <2> QED
      BY <2>1, <2>2 DEF OneRunPerJob
  <1>6. OneNamePerId'
    <2>1. ASSUME NEW j \in execs' PROVE \E i \in execs : j.id = i.id /\ j.name = i.name
      <3>1. PICK e \in execs : j = [e EXCEPT !.live = FALSE]
        BY <1>2
      <3> QED
        BY <1>1, <3>1
    <2> QED
      BY <2>1 DEF CronInv, OneNamePerId
  <1>7. ResultIsOwn'
    BY DEF CronInv, ResultIsOwn
  <1> QED
    BY <1>4, <1>5, <1>6, <1>7

LEMMA ReplaceStep ==
    ASSUME CronInv, Replace \/ DeleteApp
    PROVE  CronInv'
  <1>1. /\ execs' = Killed /\ left' = {}
        /\ UNCHANGED <<minute, ticked, scheduling, lastId, running, asked, deaths>>
    BY DEF Replace, DeleteApp, jobVars
  <1>2. /\ app' \in BOOLEAN
        /\ row' = row \/ row' = [n \in Name |-> NoRow]
    BY DEF Replace, DeleteApp, jobVars, CronInv, CronTypeOK
  <1>3. /\ Rows' \subseteq Rows /\ \A n \in Rows' : row'[n] = row[n]
        /\ row' \in [Name -> Row \cup {NoRow}]
    BY <1>2 DEF Rows, CronInv, CronTypeOK
  <1>4. /\ execs' \subseteq Exec
        /\ OneRunPerJob' /\ OneNamePerId' /\ ResultIsOwn'
    BY <1>1, <1>3, KilledKeeps
  <1>5. CronTypeOK'
    BY <1>1, <1>2, <1>3, <1>4 DEF CronInv, CronTypeOK
  <1> QED
    BY <1>4, <1>5 DEF CronInv

\* A trigger that reads its row, a process that ends, a crash, a start.
LEMMA SmallStep ==
    ASSUME CronInv,
           \/ \E n \in Name : Ask(n) \/ LeftEnds(n)
           \/ CronCrash \/ startCronScheduler \/ UNCHANGED cronVars
    PROVE  CronInv'
  <1>1. CASE \E n \in Name : Ask(n)
    <2>1. PICK n \in Rows : /\ asked' = asked \cup {[name |-> n, id |-> row[n].id]}
                            /\ UNCHANGED <<minute, ticked, scheduling, app, row, lastId,
                                           running, execs, left, deaths>>
      BY <1>1 DEF Ask, jobVars
    <2>2. n \in Name /\ row[n].id \in Id
      BY CronTypes DEF CronInv, Row
    <2>3. CronTypeOK'
      BY <2>1, <2>2 DEF CronInv, CronTypeOK
    <2>4. OneNamePerId'
      <3>1. Rows' = Rows
        BY <2>1 DEF Rows
      <3> QED
        BY <2>1, <2>2, <3>1 DEF CronInv, OneNamePerId
    <2>5. OneRunPerJob' /\ ResultIsOwn'
      BY <2>1 DEF CronInv, OneRunPerJob, ResultIsOwn, Rows
    <2> QED
      BY <2>3, <2>4, <2>5 DEF CronInv
  <1>2. CASE CronCrash
    <2>1. /\ deaths < MaxDeaths /\ deaths' = deaths + 1 /\ scheduling' = FALSE
          /\ running' = {} /\ execs' = {} /\ asked' = {}
          /\ left' = left \cup {e.name : e \in {f \in execs : f.live}}
          /\ UNCHANGED <<minute, ticked, app, row, lastId>>
      BY <1>2 DEF CronCrash, jobVars
    <2>2. left' \subseteq Name /\ deaths' \in 0 .. MaxDeaths
      BY <2>1, CronTypes, CronAssumption DEF CronInv, CronTypeOK
    <2>3. CronTypeOK'
      BY <2>1, <2>2 DEF CronInv, CronTypeOK
    <2> QED
      BY <2>1, <2>3 DEF CronInv, OneNamePerId, OneRunPerJob, ResultIsOwn, Rows
  <1>3. CASE \/ \E n \in Name : LeftEnds(n)
             \/ startCronScheduler \/ UNCHANGED cronVars
    <2>1. /\ UNCHANGED <<minute, app, row, lastId, running, execs, asked, deaths>>
          /\ left' \subseteq left /\ ticked' \in BOOLEAN /\ scheduling' \in BOOLEAN
      BY <1>3 DEF LeftEnds, startCronScheduler, cronVars, jobVars, runVars, CronInv,
                  CronTypeOK
    <2>2. CronTypeOK'
      BY <2>1 DEF CronInv, CronTypeOK
    <2> QED
      BY <2>1, <2>2 DEF CronInv, OneNamePerId, OneRunPerJob, ResultIsOwn, Rows
  <1> QED
    BY <1>1, <1>2, <1>3

LEMMA CronInitStep == CronInit => CronInv
  <1> SUFFICES ASSUME CronInit PROVE CronInv
    OBVIOUS
  <1>1. Rows = {} /\ 0 \in Minutes /\ 0 \in 0 .. MaxIds /\ 0 \in 0 .. MaxDeaths
    BY CronAssumption DEF CronInit, Rows, Minutes
  <1>2. CronTypeOK
    BY <1>1 DEF CronInit, CronTypeOK
  <1> QED
    BY <1>1, <1>2 DEF CronInit, CronInv, OneNamePerId, OneRunPerJob, ResultIsOwn

LEMMA CronStep == CronInv /\ [CronNext]_cronVars => CronInv'
  BY MinuteStep, CronTickStep, RunAskedStep, FinishStep, SyncStep, ReplaceStep, SmallStep
  DEF CronNext

LEMMA CronInvariant == CronSpec => []CronInv
  BY CronInitStep, CronStep, PTL DEF CronSpec

\* The rows, mutexes and clients are what their names say, also when a manifest
\* has schedules that do not parse.
THEOREM CronTypeTheorem == CronSpec => []CronTypeOK
  BY CronInvariant, PTL DEF CronInv

\* One run in flight per job, with its mutex held, however ticks, manual
\* triggers and syncs meet (runningJobs of cronScheduler.js).
THEOREM MutexTheorem == CronSpec => []OneRunPerJob
  BY CronInvariant, PTL DEF CronInv

\* last_run_at and its result on a row are of a run of this very row.
THEOREM ResultTheorem == CronSpec => []ResultIsOwn
  BY CronInvariant, PTL DEF CronInv

\* A client or a trigger never holds the id of another job's row, although a
\* sync may have dropped its own row and inserted others since it was read.
THEOREM IdTheorem == CronSpec => []OneNamePerId
  BY CronInvariant, PTL DEF CronInv

-----------------------------------------------------------------------------
(* The health checker: one restart per row of failures, and no verdict     *)
(* without the results that carry it.                                      *)

\* The row agrees with the results that were written into it.
CountAgrees == fails = missed

\* Only an interval starts checks.
TimerSet == \A c \in Check : checkAt[c] # "idle" => timer # NoTimer

\* Since a restart the count is at the threshold or past it, so that the
\* equality that orders one cannot hold again.
PastThreshold == restarts > 0 => timer # NoTimer /\ fails >= timer.fail

HealthInv == HealthTypeOK /\ CountAgrees /\ TimerSet /\ PastThreshold /\ OneRestartPerStreak

\* The saturating count: below the cap it is a count.
LEMMA PlusFacts ==
    ASSUME NEW n \in 0 .. Cap
    PROVE  /\ Plus(n) \in 0 .. Cap /\ Plus(n) >= n
           /\ Plus(n) < Cap => Plus(n) = n + 1
  BY HealthAssumption DEF Plus

LEMMA HealthInitStep == HealthInit => HealthInv
  <1> SUFFICES ASSUME HealthInit PROVE HealthInv
    OBVIOUS
  <1>1. config \in Config /\ timer \in {c \in Config : c.enabled} \cup {NoTimer}
    BY DEF HealthInit, Started
  <1>2. HealthTypeOK
    <2>1. 0 \in 0 .. Cap /\ 0 \in 0 .. MaxBoots
      BY HealthAssumption
    <2>2. QED
      BY <1>1, <2>1 DEF HealthInit, HealthTypeOK
  <1>3. QED
    BY <1>2 DEF HealthInit, HealthInv, CountAgrees, TimerSet, PastThreshold, OneRestartPerStreak

\* A check that has a failing answer: the only step that orders a restart.
LEMMA FailedStep ==
    ASSUME HealthInv, NEW c \in Check, Failed(c)
    PROVE  /\ HealthInv'
           /\ restarts' > restarts => missed' >= timer.fail
           /\ isDown' /\ ~isDown => missed' >= timer.down
  <1>1. timer \in Config /\ timer # NoTimer
    BY DEF HealthInv, HealthTypeOK, TimerSet, Failed
  <1>2. timer.fail \in Nat /\ timer.down \in Nat /\ timer.fail < Cap
    BY <1>1, HealthAssumption
  <1>3. fails \in 0 .. Cap /\ missed = fails /\ restarts \in Nat /\ Cap \in Nat
    BY HealthAssumption DEF HealthInv, HealthTypeOK, CountAgrees
  <1>4. /\ Plus(fails) \in 0 .. Cap /\ Plus(fails) >= fails
        /\ Plus(fails) < Cap => Plus(fails) = fails + 1
    BY <1>3, PlusFacts
  <1>5. /\ fails' = Plus(fails) /\ missed' = Plus(fails) /\ timer' = timer
        /\ isDown' = (Plus(fails) >= timer.down)
    BY <1>3 DEF Failed, DownAt
  <1>6. checkAt' \in [Check -> {"idle", "probe", "healthy", "failed", "restart"}]
    BY DEF HealthInv, HealthTypeOK, Failed
  <1>7. /\ restarts' \in Nat /\ restarts' <= 1
        /\ restarts' > 0 => fails' >= timer.fail
        /\ restarts' > restarts => missed' >= timer.fail
    <2>1. CASE RestartAt(Plus(fails))
      <3>1. Plus(fails) = timer.fail /\ restarts' = restarts + 1
        BY <2>1 DEF Failed, RestartAt
      <3>2. restarts = 0
        BY <3>1, <1>2, <1>3, <1>4 DEF HealthInv, PastThreshold
      <3>3. QED
        BY <3>1, <3>2, <1>2, <1>5
    <2>2. CASE ~RestartAt(Plus(fails))
      <3>1. restarts' = restarts
        BY <2>2 DEF Failed
      <3>2. restarts > 0 => fails >= timer.fail
        BY DEF HealthInv, PastThreshold
      <3>3. restarts <= 1
        BY DEF HealthInv, OneRestartPerStreak
      <3>4. QED
        BY <3>1, <3>2, <3>3, <1>2, <1>3, <1>4, <1>5
    <2>3. QED
      BY <2>1, <2>2
  <1>8. HealthTypeOK'
    BY <1>3, <1>4, <1>5, <1>6, <1>7 DEF HealthInv, HealthTypeOK, Failed
  <1>9. TimerSet'
    BY <1>1, <1>5 DEF TimerSet
  <1>10. QED
    BY <1>1, <1>5, <1>7, <1>8, <1>9 DEF HealthInv, CountAgrees, PastThreshold, OneRestartPerStreak

\* Every other step writes a healthy result, adds one failure, or neither;
\* none of them orders a restart or calls the app down.
LEMMA OtherStep ==
    ASSUME HealthInv, [HealthNext]_healthVars, \A c \in Check : ~Failed(c)
    PROVE  HealthInv' /\ ~(restarts' > restarts) /\ ~(isDown' /\ ~isDown)
  <1> USE HealthAssumption DEF HealthInv, HealthTypeOK, CountAgrees, TimerSet, PastThreshold, OneRestartPerStreak
  <1>1. CASE \E c \in Check : CheckTick(c)
    BY <1>1 DEF CheckTick, stateRow
  <1>2. CASE \E c \in Check : Answered(c)
    BY <1>2 DEF Answered, stateRow
  <1>3. CASE \E c \in Check : Healthy(c)
    <2>1. PICK c \in Check : Healthy(c)
      BY <1>3
    <2>2. /\ fails' = 0 /\ missed' = 0 /\ restarts' = 0 /\ isDown' = FALSE
          /\ checkAt' = [checkAt EXCEPT ![c] = "idle"]
          /\ UNCHANGED <<config, timer, answerer, test, boots>>
      BY <2>1 DEF Healthy, Cleared
    <2>3. 0 \in 0 .. Cap
      BY HealthAssumption
    <2>4. checkAt' \in [Check -> {"idle", "probe", "healthy", "failed", "restart"}]
      BY <2>2
    <2>5. HealthTypeOK'
      BY <2>2, <2>3, <2>4
    <2>6. TimerSet'
      BY <2>2
    <2>7. QED
      BY <2>2, <2>5, <2>6
  <1>4. CASE \E c \in Check : Restarted(c)
    BY <1>4 DEF Restarted, stateRow
  <1>5. CASE TestStart \/ TestAnswered
    BY <1>5 DEF TestStart, TestAnswered, stateRow, Answer
  <1>6. CASE TestDone
    <2>1. /\ Plus(fails) \in 0 .. Cap /\ Plus(fails) >= fails
      BY PlusFacts
    <2>2. CASE test = "ok"
      BY <1>6, <2>2, HealthAssumption DEF TestDone
    <2>3. CASE test = "error"
      <3>1. /\ fails' = Plus(fails) /\ missed' = Plus(fails) /\ restarts' = restarts
            /\ test' = "idle"
            /\ UNCHANGED <<config, timer, isDown, answerer, checkAt, boots>>
        BY <1>6, <2>3 DEF TestDone
      <3>2. timer # NoTimer => timer.fail \in Nat
        BY HealthAssumption
      <3>3. QED
        BY <2>1, <3>1, <3>2, HealthAssumption
    <2>4. QED
      BY <1>6, <2>2, <2>3 DEF TestDone
  <1>7. CASE \E c \in Config : Configure(c)
    BY <1>7 DEF Configure, stateRow
  <1>8. CASE Change
    BY <1>8 DEF Change, stateRow
  <1>9. CASE Boot
    BY <1>9, HealthAssumption DEF Boot, Started, stateRow
  <1>10. CASE UNCHANGED healthVars
    BY <1>10 DEF healthVars, stateRow
  <1>11. QED
    BY <1>1, <1>2, <1>3, <1>4, <1>5, <1>6, <1>7, <1>8, <1>9, <1>10 DEF HealthNext, Ends

LEMMA HealthStep == HealthInv /\ [HealthNext]_healthVars => HealthInv'
  BY FailedStep, OtherStep

\* The row, the timer and the checks stay what their names say.
THEOREM HealthTypeTheorem == HealthSpec => []HealthTypeOK
  <1>1. HealthInv => HealthTypeOK
    BY DEF HealthInv
  <1>2. QED
    BY <1>1, HealthInitStep, HealthStep, PTL DEF HealthSpec

\* However many checks overlap, a row of failures orders one restart.
THEOREM RestartTheorem == HealthSpec => []OneRestartPerStreak
  <1>1. HealthInv => OneRestartPerStreak
    BY DEF HealthInv
  <1>2. QED
    BY <1>1, HealthInitStep, HealthStep, PTL DEF HealthSpec

\* A restart and a down verdict have as many failures in a row behind them
\* as the settings of the interval ask for.
THEOREM EvidenceTheorem == HealthSpec => ActsOnEvidence
  <1>1. HealthInv /\ [HealthNext]_healthVars
        => [/\ restarts' > restarts => missed' >= timer.fail
            /\ isDown' /\ ~isDown => missed' >= timer.down]_healthVars
    BY FailedStep, OtherStep
  <1>2. QED
    BY <1>1, HealthInitStep, HealthStep, PTL DEF HealthSpec, ActsOnEvidence
=============================================================================
