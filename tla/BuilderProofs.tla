---------------------------- MODULE BuilderProofs ----------------------------
(***************************************************************************)
(* One thing at a time in the container of an app, for any number of       *)
(* sessions, states and improve jobs: the queue is serial, a container     *)
(* with a turn in it is busy, and an 'active' row has a turn.              *)
(***************************************************************************)
EXTENDS Builder, FiniteSetTheorems, SequenceTheorems, WellFoundedInduction, TLAPS

\* What runs is one item, and the turn or the improve job that it names.
Serial ==
    /\ \A i, j \in running : i = j
    /\ \A o \in State : turn[o] # "none" <=> o \in running
    /\ Improve \in running => improving = 1
    /\ Improve \notin running => improving = 0

\* A state waits or runs once, and is marked queued while it does.
OneTurnEach ==
    /\ \A i, j \in DOMAIN items : items[i] = items[j] /\ items[i] # Improve => i = j
    /\ Queue \ {Improve} \subseteq queued
    /\ \A o \in State : turn[o] # "none" => o \in queued /\ o \notin Queue
    /\ runner = {o \in State : turn[o] = "agent"}
    /\ Improve \in Queue => improves > 0

\* The queue is no longer than the states that wait and the jobs ever enqueued.
Waiting == {o \in queued : turn[o] = "none"}
Fits    == Len(items) <= Cardinality(Waiting) + improves

\* A state in memory is the session's own.
OwnState == \A s \in Session : mem[s] # 0 => of[mem[s]] = s

\* A container is being made only while there is no entry, and no turn is
\* inside one that has no entry.
InsideHasEntry ==
    /\ creating # "none" => ~ready
    /\ ~ready => inside = {}

\* An 'active' row has its state in memory or its turn in progress.
ActiveRowKnown ==
    \A s \in Session : row[s] = "active" =>
        mem[s] # 0 \/ \E o \in InProgress : of[o] = s

IInv == /\ TypeOK /\ Serial /\ OneTurnEach /\ Fits /\ OwnState /\ MemHasContainer
        /\ InsideHasEntry /\ BusyWhileRunning /\ ActiveRowKnown /\ ActiveRowHasTurn

-----------------------------------------------------------------------------
(* The operators of the model.                                             *)

\* A set no larger than another has an injection into it.
LEMMA InjectionExists ==
    ASSUME NEW S, NEW T, IsFiniteSet(S), IsFiniteSet(T), Cardinality(S) <= Cardinality(T)
    PROVE  \E f \in [S -> T] : \A x, y \in S : f[x] = f[y] => x = y
  <1> DEFINE m == Cardinality(S)  n == Cardinality(T)
  <1>1. m \in Nat /\ n \in Nat /\ ExistsBijection(1 .. m, S) /\ ExistsBijection(1 .. n, T)
    BY FS_CardinalityType
  <1>2. PICK g \in Bijection(1 .. m, S) : TRUE
    BY <1>1 DEF ExistsBijection
  <1>3. PICK h \in Bijection(1 .. n, T) : TRUE
    BY <1>1 DEF ExistsBijection
  <1>4. /\ g \in [1 .. m -> S] /\ \A x \in S : \E i \in 1 .. m : g[i] = x
        /\ h \in [1 .. n -> T] /\ \A i, j \in 1 .. n : h[i] = h[j] => i = j
    BY <1>2, <1>3 DEF Bijection, Injection, Surjection, IsInjective
  <1> DEFINE at(x) == CHOOSE i \in 1 .. m : g[i] = x
             f     == [x \in S |-> h[at(x)]]
  <1>5. \A x \in S : at(x) \in 1 .. m /\ g[at(x)] = x
    BY <1>4
  <1>6. \A x \in S : at(x) \in 1 .. n
    BY <1>1, <1>5
  <1> HIDE DEF at
  <1>7. f \in [S -> T] /\ \A x, y \in S : f[x] = f[y] => x = y
    BY <1>4, <1>5, <1>6
  <1> QED
    BY <1>7

\* The queue without one of its items keeps the others in their order.
LEMMA WithoutFacts ==
    ASSUME items \in Seq(Item), NEW i \in DOMAIN items
    PROVE  /\ Without(i) \in Seq(Item)
           /\ Len(Without(i)) = Len(items) - 1
           /\ \A j \in 1 .. Len(items) - 1 :
                 Without(i)[j] = items[IF j < i THEN j ELSE j + 1]
  <1> DEFINE a == SubSeq(items, 1, i - 1)  b == SubSeq(items, i + 1, Len(items))
  <1>1. Len(items) \in Nat /\ i \in 1 .. Len(items) /\ \A j \in 1 .. Len(items) : items[j] \in Item
    BY LenProperties
  <1>2. /\ a \in Seq(Item) /\ Len(a) = i - 1
        /\ \A j \in 1 .. i - 1 : a[j] = items[j]
    <2>1. \A j \in 1 .. i - 1 : items[j] \in Item
      BY <1>1
    <2>2. /\ a \in Seq(Item) /\ Len(a) = IF 1 <= i - 1 THEN i - 1 - 1 + 1 ELSE 0
          /\ \A j \in 1 .. i - 1 - 1 + 1 : a[j] = items[1 + j - 1]
      BY <1>1, <2>1, SubSeqProperties
    <2>3. QED
      BY <1>1, <2>2
  <1>3. /\ b \in Seq(Item) /\ Len(b) = Len(items) - i
        /\ \A j \in 1 .. Len(items) - i : b[j] = items[i + j]
    <2>1. \A j \in i + 1 .. Len(items) : items[j] \in Item
      BY <1>1
    <2>2. /\ b \in Seq(Item)
          /\ Len(b) = IF i + 1 <= Len(items) THEN Len(items) - (i + 1) + 1 ELSE 0
          /\ \A j \in 1 .. Len(items) - (i + 1) + 1 : b[j] = items[i + 1 + j - 1]
      BY <1>1, <2>1, SubSeqProperties
    <2>3. QED
      BY <1>1, <2>2
  <1> HIDE DEF a, b
  <1>4. /\ a \o b \in Seq(Item) /\ Len(a \o b) = Len(a) + Len(b)
        /\ \A j \in 1 .. Len(a) + Len(b) : (a \o b)[j] = IF j <= Len(a) THEN a[j] ELSE b[j - Len(a)]
    BY <1>2, <1>3, ConcatProperties
  <1>5. Without(i) = a \o b
    BY DEF Without, a, b
  <1>6. Len(a \o b) = Len(items) - 1
    BY <1>1, <1>2, <1>3, <1>4
  <1>7. ASSUME NEW j \in 1 .. Len(items) - 1
        PROVE  (a \o b)[j] = items[IF j < i THEN j ELSE j + 1]
    <2>1. CASE j < i
      BY <1>1, <1>2, <1>3, <1>4, <2>1
    <2>2. CASE ~(j < i)
      <3>0. /\ j \in 1 .. Len(a) + Len(b) /\ ~(j <= Len(a)) /\ Len(a) = i - 1
            /\ j - (i - 1) \in 1 .. Len(items) - i
        BY <1>1, <1>2, <1>3, <2>2
      <3>1. (a \o b)[j] = b[j - (i - 1)]
        BY <1>4, <3>0
      <3>2. ASSUME NEW k \in 1 .. Len(items) - i, k = j - (i - 1)
            PROVE  b[k] = items[j + 1]
        <4>1. i + k = j + 1
          BY <1>1, <3>2
        <4>2. QED
          BY <1>3, <4>1
      <3>3. QED
        BY <2>2, <3>0, <3>1, <3>2
    <2>3. QED
      BY <2>1, <2>2
  <1> QED
    BY <1>4, <1>5, <1>6, <1>7

\* There is a next item: the first improve job, or the first item of all.
LEMMA PickFacts ==
    ASSUME items \in Seq(Item), items # <<>>
    PROVE  pickNext \in DOMAIN items
  <1>1. Len(items) \in Nat /\ DOMAIN items = 1 .. Len(items) /\ 1 \in DOMAIN items
    BY EmptySeq, LenProperties
  <1> DEFINE T == IF \E i \in DOMAIN items : items[i] = Improve
                  THEN {i \in DOMAIN items : items[i] = Improve} ELSE DOMAIN items
  <1>2. T \subseteq Nat /\ T # {}
    BY <1>1
  <1>3. PICK x \in T : \A y \in T : ~(<<y, x>> \in OpToRel(<, Nat))
    <2> HIDE DEF T
    <2> QED
      BY <1>2, NatLessThanWellFounded, WFMin
  <1>4. \A y \in T : x <= y
    <2>1. \A y \in T : ~(y < x)
      <3> HIDE DEF T
      <3> QED
        BY <1>2, <1>3 DEF OpToRel
    <2>2. x \in Nat /\ \A y \in T : y \in Nat
      BY <1>2
    <2> HIDE DEF T
    <2> QED
      BY <2>1, <2>2
  <1>5. x \in DOMAIN items
    OBVIOUS
  <1> DEFINE First(i) == \A j \in DOMAIN items :
                 \/ Priority(items[i]) < Priority(items[j])
                 \/ Priority(items[i]) = Priority(items[j]) /\ i <= j
  <1>6. First(x)
    <2>1. CASE \E i \in DOMAIN items : items[i] = Improve
      <3>1. items[x] = Improve /\ \A j \in DOMAIN items : items[j] = Improve => x <= j
        BY <1>4, <2>1
      <3>2. QED
        BY <3>1 DEF Priority
    <2>2. CASE ~\E i \in DOMAIN items : items[i] = Improve
      <3>1. \A j \in DOMAIN items : Priority(items[j]) = 2 /\ x <= j
        BY <1>4, <2>2 DEF Priority
      <3>2. QED
        BY <1>5, <3>1
    <2>3. QED
      BY <2>1, <2>2
  <1> HIDE DEF T
  <1>7. \E i \in DOMAIN items : First(i)
    BY <1>5, <1>6
  <1>8. pickNext = CHOOSE i \in DOMAIN items : First(i)
    BY DEF pickNext
  <1> HIDE DEF First
  <1> QED
    BY <1>7, <1>8


LEMMA Finite ==
    /\ IsFiniteSet(State) /\ Cardinality(State) = MaxStates
    /\ IsFiniteSet(Session)
    /\ \A T \in SUBSET State : /\ IsFiniteSet(T) /\ Cardinality(T) \in Nat
                               /\ Cardinality(T) <= MaxStates
  <1>1. /\ IsFiniteSet(State) /\ Cardinality(State) = MaxStates
        /\ IsFiniteSet(Session)
    BY BuilderAssumption, FS_Interval DEF State, Session
  <1>2. ASSUME NEW T \in SUBSET State
        PROVE  /\ IsFiniteSet(T) /\ Cardinality(T) \in Nat
               /\ Cardinality(T) <= MaxStates
    BY <1>1, FS_Subset, FS_CardinalityType
  <1> QED
    BY <1>1, <1>2

\* Sessions that come to life get states nothing refers to, one each.
LEMMA EnterFacts ==
    ASSUME TypeOK, OwnState, NEW S \in SUBSET Session, NEW r \in [Session -> Status],
           Enter(S, r, mem)
    PROVE  /\ row' \in [Session -> Status] /\ placed' \subseteq Session
           /\ mem' \in [Session -> 0 .. MaxStates] /\ of' \in [State -> 0 .. MaxSessions]
           /\ status' \in [State -> {"idle", "queued", "active"}]
           /\ OwnState'
           /\ \A s \in Session : row'[s] = IF s \in S THEN "idle" ELSE r[s]
           /\ \A s \in Session : mem[s] # 0 => mem'[s] # 0
           /\ \A o \in State : o \in Queue \/ turn[o] # "none" => of'[o] = of[o]
  <1> DEFINE Inj(f) == \A s, t \in S : f[s] = f[t] => s = t
             new    == CHOOSE f \in [S -> Free] : Inj(f)
  <1>1. /\ Cardinality(S) <= Cardinality(Free)
        /\ mem' = [s \in Session |-> IF s \in S THEN new[s] ELSE mem[s]]
        /\ status' = [o \in State |-> IF \E s \in S : new[s] = o THEN "idle" ELSE status[o]]
        /\ of' = [o \in State |-> IF \E s \in S : new[s] = o
                                  THEN CHOOSE s \in S : new[s] = o ELSE of[o]]
        /\ row' = [s \in Session |-> IF s \in S THEN "idle" ELSE r[s]]
        /\ placed' = placed \cup S
    BY DEF Enter
  <1>2. new \in [S -> Free] /\ Inj(new)
    <2>1. IsFiniteSet(S) /\ IsFiniteSet(Free)
      BY Finite, FS_Subset DEF Free
    <2>2. \E f \in [S -> Free] : Inj(f)
      BY <1>1, <2>1, InjectionExists
    <2> HIDE DEF Inj
    <2>3. QED
      BY <2>2
  <1> HIDE DEF new
  <1>3. \A s \in S : /\ new[s] \in State /\ new[s] \notin Queue /\ turn[new[s]] = "none"
                     /\ \A t \in Session : mem[t] # new[s]
    BY <1>2 DEF Free
  <1>4. \A s \in S : of'[new[s]] = s
    <2> SUFFICES ASSUME NEW s \in S PROVE of'[new[s]] = s
      OBVIOUS
    <2>1. of'[new[s]] = CHOOSE t \in S : new[t] = new[s]
      BY <1>1, <1>3
    <2>2. \A t \in S : new[t] = new[s] => t = s
      BY <1>2
    <2>3. QED
      BY <2>1, <2>2
  <1>5. \A o \in State : (\A s \in S : new[s] # o) => of'[o] = of[o]
    BY <1>1
  <1>6. of' \in [State -> 0 .. MaxSessions]
    <2>1. \A o \in State : of'[o] \in 0 .. MaxSessions
      <3> SUFFICES ASSUME NEW o \in State PROVE of'[o] \in 0 .. MaxSessions
        OBVIOUS
      <3>1. CASE \E s \in S : new[s] = o
        <4>1. PICK s \in S : new[s] = o
          BY <3>1
        <4>2. of'[o] = s /\ s \in 1 .. MaxSessions
          BY <1>4, <4>1 DEF Session
        <4> QED
          BY <4>2, BuilderAssumption
      <3>2. CASE ~\E s \in S : new[s] = o
        BY <1>5, <3>2 DEF TypeOK
      <3> QED
        BY <3>1, <3>2
    <2>2. DOMAIN of' = State /\ of' = [o \in State |-> of'[o]]
      BY <1>1
    <2> QED
      BY <2>1, <2>2
  <1>7. /\ mem' \in [Session -> 0 .. MaxStates]
        /\ \A s \in Session : mem[s] # 0 => mem'[s] # 0
    <2>1. \A s \in S : new[s] \in 0 .. MaxStates /\ new[s] # 0
      BY <1>3, BuilderAssumption DEF State
    <2>2. mem \in [Session -> 0 .. MaxStates]
      BY DEF TypeOK
    <2>3. \A s \in Session : mem'[s] = IF s \in S THEN new[s] ELSE mem[s]
      BY <1>1
    <2> QED
      BY <1>1, <2>1, <2>2, <2>3
  <1>8. OwnState'
    <2> SUFFICES ASSUME NEW s \in Session, mem'[s] # 0 PROVE of'[mem'[s]] = s
      BY DEF OwnState
    <2>1. CASE s \in S
      BY <1>1, <1>4, <2>1
    <2>2. CASE s \notin S
      <3>1. mem'[s] = mem[s] /\ mem[s] \in State /\ of[mem[s]] = s
        BY <1>1, <2>2 DEF OwnState, TypeOK, State
      <3>2. \A t \in S : new[t] # mem[s]
        BY <1>3
      <3> QED
        BY <1>5, <3>1, <3>2
    <2> QED
      BY <2>1, <2>2
  <1>9. \A o \in State : o \in Queue \/ turn[o] # "none" => of'[o] = of[o]
    BY <1>3, <1>5
  <1>10. /\ row' \in [Session -> Status] /\ placed' \subseteq Session
         /\ status' \in [State -> {"idle", "queued", "active"}]
         /\ \A s \in Session : row'[s] = IF s \in S THEN "idle" ELSE r[s]
    BY <1>1 DEF TypeOK, Status
  <1> QED
    BY <1>6, <1>7, <1>8, <1>9, <1>10

-----------------------------------------------------------------------------
(* Frames: what a step that leaves some variables alone keeps.             *)

\* The queue and its work.
LEMMA QueueFrame ==
    ASSUME IInv, UNCHANGED <<queued, runner, items, running, turn, improving, improves>>
    PROVE  Serial' /\ OneTurnEach' /\ Fits' /\ Queue' = Queue /\ InProgress' = InProgress
  BY DEF IInv, Serial, OneTurnEach, Fits, Queue, Waiting, InProgress


\* The rows, where states are taken anew and no row gets to be 'active'.
LEMMA ActiveFrame ==
    ASSUME IInv, UNCHANGED <<items, turn>>,
           \A o \in State : o \in Queue \/ turn[o] # "none" => of'[o] = of[o],
           \A s \in Session : row'[s] = "active" =>
              row[s] = "active" /\ (mem[s] # 0 => mem'[s] # 0)
    PROVE  ActiveRowKnown' /\ ActiveRowHasTurn'
  <1>1. Queue' = Queue /\ InProgress' = InProgress
    BY DEF Queue, InProgress
  <1>2. \A o \in InProgress : of'[o] = of[o]
    BY DEF InProgress
  <1>3. \A o \in Queue : o # Improve => of'[o] = of[o]
    BY DEF Queue, IInv, TypeOK, Item
  <1>4. ActiveRowKnown'
    BY <1>1, <1>2 DEF IInv, ActiveRowKnown
  <1>5. ActiveRowHasTurn'
    BY <1>1, <1>2, <1>3 DEF IInv, ActiveRowHasTurn
  <1> QED
    BY <1>4, <1>5

-----------------------------------------------------------------------------
(* The steps of sessions and of the container.                             *)

LEMMA BeginInv ==
    ASSUME IInv, NEW cs \in SUBSET Session, NEW rs \in SUBSET Session,
           NEW r \in [Session -> Status],
           \A s \in Session : r[s] = "active" => row[s] = "active",
           Begin(r, cs, rs),
           UNCHANGED <<owner, queued, runner, items, running, pending, turn, improving,
                       improves>>
    PROVE  IInv'
  <1>1. Serial' /\ OneTurnEach' /\ Fits' /\ Queue' = Queue /\ InProgress' = InProgress
    BY QueueFrame
  <1>2. CASE ready /\ alive
    <2>1. Enter(cs \cup rs, r, mem) /\ UNCHANGED <<contVars, inside>>
      BY <1>2 DEF Begin
    <2>2. /\ row' \in [Session -> Status] /\ placed' \subseteq Session
          /\ mem' \in [Session -> 0 .. MaxStates] /\ of' \in [State -> 0 .. MaxSessions]
          /\ status' \in [State -> {"idle", "queued", "active"}]
          /\ OwnState'
          /\ \A s \in Session : row'[s] = IF s \in cs \cup rs THEN "idle" ELSE r[s]
          /\ \A s \in Session : mem[s] # 0 => mem'[s] # 0
          /\ \A o \in State : o \in Queue \/ turn[o] # "none" => of'[o] = of[o]
      <3>1. TypeOK /\ OwnState /\ cs \cup rs \in SUBSET Session
        BY DEF IInv
      <3> QED
        BY <2>1, <3>1, EnterFacts
    <2>3. TypeOK'
      BY <2>1, <2>2 DEF IInv, TypeOK, contVars
    <2>4. MemHasContainer' /\ InsideHasEntry' /\ BusyWhileRunning'
      BY <1>1, <1>2, <2>1 DEF IInv, MemHasContainer, InsideHasEntry, BusyWhileRunning, contVars
    <2>5. ActiveRowKnown' /\ ActiveRowHasTurn'
      BY <2>2, ActiveFrame
    <2> QED
      BY <1>1, <2>2, <2>3, <2>4, <2>5 DEF IInv
  <1>3. CASE ~(ready /\ alive)
    <2>1. /\ row' = [s \in Session |-> IF mem[s] # 0 THEN "paused" ELSE r[s]]
          /\ mem' = [s \in Session |-> 0]
          /\ ready' = FALSE /\ busy' = FALSE /\ inside' = {}
          /\ creating' = IF creating = "none" THEN "image" ELSE creating
          /\ creators' = creators \cup cs /\ resumers' = resumers \cup rs
          /\ UNCHANGED <<placed, status, of, alive, ws>>
      BY <1>3 DEF Begin
    <2>2. TypeOK'
      <3>1. row' \in [Session -> Status] /\ mem' \in [Session -> 0 .. MaxStates]
        BY <2>1, BuilderAssumption DEF Status
      <3> QED
        BY <2>1, <3>1 DEF IInv, TypeOK
    <2>3. /\ OwnState' /\ MemHasContainer' /\ InsideHasEntry' /\ BusyWhileRunning'
      BY <2>1 DEF OwnState, MemHasContainer, InsideHasEntry, BusyWhileRunning
    <2>4. ActiveRowKnown' /\ ActiveRowHasTurn'
      BY <2>1, ActiveFrame
    <2> QED
      BY <1>1, <2>2, <2>3, <2>4 DEF IInv
  <1> QED
    BY <1>2, <1>3

LEMMA CreateSessionInv == ASSUME IInv, NEW s \in Session, createSession(s) PROVE IInv'
  <1> DEFINE r == [row EXCEPT ![s] = "starting"]
  <1>1. r \in [Session -> Status] /\ \A t \in Session : r[t] = "active" => row[t] = "active"
    BY DEF IInv, TypeOK, Status
  <1>2. /\ Begin(r, {s}, {})
        /\ UNCHANGED <<owner, queued, runner, items, running, pending, turn, improving, improves>>
    BY DEF createSession
  <1>3. {s} \in SUBSET Session /\ {} \in SUBSET Session
    OBVIOUS
  <1> HIDE DEF r
  <1> QED
    BY <1>1, <1>2, <1>3, BeginInv

LEMMA ResumeSessionInv == ASSUME IInv, NEW s \in Session, resumeSession(s) PROVE IInv'
  <1>1. row \in [Session -> Status]
    BY DEF IInv, TypeOK
  <1>2. /\ Begin(row, {}, {s})
        /\ UNCHANGED <<owner, queued, runner, items, running, pending, turn, improving, improves>>
    BY DEF resumeSession
  <1>3. {s} \in SUBSET Session /\ {} \in SUBSET Session
    OBVIOUS
  <1> QED
    BY <1>1, <1>2, <1>3, BeginInv

LEMMA CreatedInv == ASSUME IInv, Created PROVE IInv'
  <1>1. Serial' /\ OneTurnEach' /\ Fits' /\ Queue' = Queue /\ InProgress' = InProgress
    BY QueueFrame DEF Created, workVars
  <1>2. /\ creating = "snapshot" /\ creating' = "none" /\ creators' = {} /\ resumers' = {}
        /\ ready' = TRUE /\ busy' = FALSE /\ alive' = TRUE
        /\ ws' = IF ws = "none" THEN "empty" ELSE ws
        /\ UNCHANGED <<owner, queued, runner, workVars>>
    BY DEF Created
  <1>3. /\ row' \in [Session -> Status] /\ placed' \subseteq Session
        /\ mem' \in [Session -> 0 .. MaxStates] /\ of' \in [State -> 0 .. MaxSessions]
        /\ status' \in [State -> {"idle", "queued", "active"}]
        /\ OwnState'
        /\ \A s \in Session : row'[s] = IF s \in creators \cup resumers THEN "idle" ELSE row[s]
        /\ \A s \in Session : mem[s] # 0 => mem'[s] # 0
        /\ \A o \in State : o \in Queue \/ turn[o] # "none" => of'[o] = of[o]
    <2>1. /\ TypeOK /\ OwnState /\ creators \cup resumers \in SUBSET Session
          /\ row \in [Session -> Status] /\ Enter(creators \cup resumers, row, mem)
      BY DEF IInv, TypeOK, Created
    <2> QED
      BY <2>1, EnterFacts
  <1>4. TypeOK'
    BY <1>2, <1>3 DEF IInv, TypeOK, workVars
  <1>5. MemHasContainer' /\ InsideHasEntry'
    BY <1>2 DEF MemHasContainer, InsideHasEntry
  <1>6. BusyWhileRunning'
    <2>1. inside = {} /\ inside' = inside
      BY <1>2 DEF IInv, InsideHasEntry, workVars
    <2> QED
      BY <2>1 DEF BusyWhileRunning
  <1>7. ActiveRowKnown' /\ ActiveRowHasTurn'
    <2>1. UNCHANGED <<items, turn>>
      BY <1>2 DEF workVars
    <2> QED
      BY <1>3, <2>1, ActiveFrame
  <1> QED
    BY <1>1, <1>3, <1>4, <1>5, <1>6, <1>7 DEF IInv


LEMMA CreateFailsInv == ASSUME IInv, CreateFails PROVE IInv'
  <1>1. /\ creating' = "none" /\ creators' = {} /\ resumers' = {}
        /\ ws' \in IF creating = "image" THEN {ws, "empty"} ELSE {ws}
        /\ row' = [s \in Session |-> IF s \in creators THEN "error" ELSE row[s]]
        /\ mem' = [s \in Session |-> IF s \in creators THEN 0 ELSE mem[s]]
        /\ UNCHANGED <<owner, placed, status, queued, runner, of, ready, busy, alive,
                       items, running, pending, turn, inside, improving, improves>>
    BY DEF CreateFails, workVars
  <1>2. Serial' /\ OneTurnEach' /\ Fits' /\ Queue' = Queue /\ InProgress' = InProgress
    BY <1>1, QueueFrame
  <1>3. TypeOK'
    <2>1. row' \in [Session -> Status] /\ mem' \in [Session -> 0 .. MaxStates]
      BY <1>1, BuilderAssumption DEF IInv, TypeOK, Status
    <2> QED
      BY <1>1, <2>1 DEF IInv, TypeOK
  <1>4. OwnState' /\ MemHasContainer' /\ InsideHasEntry' /\ BusyWhileRunning'
    BY <1>1, <1>2 DEF IInv, OwnState, MemHasContainer, InsideHasEntry, BusyWhileRunning
  <1>5. ActiveRowKnown' /\ ActiveRowHasTurn'
    BY <1>1, ActiveFrame
  <1> QED
    BY <1>2, <1>3, <1>4, <1>5 DEF IInv

LEMMA EvictedInv == ASSUME IInv, Evicted PROVE IInv'
  <1>1. /\ ready' = FALSE /\ busy' = FALSE /\ alive' = FALSE /\ inside' = {} /\ ws' = "none"
        /\ row' = [s \in Session |-> IF mem[s] # 0 THEN "paused" ELSE row[s]]
        /\ mem' = [s \in Session |-> 0]
        /\ UNCHANGED <<owner, placed, status, queued, runner, of, creating, creators,
                       resumers, items, running, pending, turn, improving, improves>>
    BY DEF Evicted, PauseAll
  <1>2. Serial' /\ OneTurnEach' /\ Fits' /\ Queue' = Queue /\ InProgress' = InProgress
    BY <1>1, QueueFrame
  <1>3. TypeOK'
    <2>1. row' \in [Session -> Status] /\ mem' \in [Session -> 0 .. MaxStates]
      BY <1>1, BuilderAssumption DEF IInv, TypeOK, Status
    <2> QED
      BY <1>1, <2>1 DEF IInv, TypeOK
  <1>4. OwnState' /\ MemHasContainer' /\ InsideHasEntry' /\ BusyWhileRunning'
    BY <1>1 DEF OwnState, MemHasContainer, InsideHasEntry, BusyWhileRunning
  <1>5. ActiveRowKnown' /\ ActiveRowHasTurn'
    BY <1>1, ActiveFrame
  <1> QED
    BY <1>2, <1>3, <1>4, <1>5 DEF IInv

\* The clone, a container that vanishes, a session shipped.
LEMMA ContainerInv ==
    ASSUME IInv, Clone \/ Vanish \/ \E s \in Session : ship(s)
    PROVE  IInv'
  <1>1. /\ UNCHANGED <<owner, placed, mem, status, queued, runner, of, ready, busy,
                       creators, resumers, workVars>>
        /\ creating' # creating => creating = "image"
    BY DEF Clone, Vanish, ship, rowVars, memVars, contVars
  <1>2. UNCHANGED <<items, running, pending, turn, inside, improving, improves>>
    BY <1>1 DEF workVars
  <1>3. Serial' /\ OneTurnEach' /\ Fits' /\ Queue' = Queue /\ InProgress' = InProgress
    BY <1>1, <1>2, QueueFrame
  <1>4. /\ row' \in [Session -> Status] /\ alive' \in BOOLEAN
        /\ ws' \in {"none", "clone", "empty"} /\ creating' \in {"none", "image", "snapshot"}
        /\ \A s \in Session : row'[s] = "active" => row[s] = "active"
    BY DEF Clone, Vanish, ship, rowVars, contVars, IInv, TypeOK, Status
  <1>5. TypeOK'
    BY <1>1, <1>2, <1>4 DEF IInv, TypeOK
  <1>6. OwnState' /\ MemHasContainer' /\ InsideHasEntry' /\ BusyWhileRunning'
    BY <1>1, <1>2, <1>3 DEF IInv, OwnState, MemHasContainer, InsideHasEntry, BusyWhileRunning
  <1>7. ActiveRowKnown' /\ ActiveRowHasTurn'
    BY <1>1, <1>2, <1>4, ActiveFrame
  <1> QED
    BY <1>1, <1>3, <1>5, <1>6, <1>7 DEF IInv

-----------------------------------------------------------------------------
(* The steps of the queue.                                                 *)

\* An item at the end of the queue.
LEMMA Appended ==
    ASSUME TypeOK, NEW x \in Item, items' = Append(items, x)
    PROVE  /\ items' \in Seq(Item) /\ Len(items') = Len(items) + 1
           /\ Queue' = Queue \cup {x}
           /\ DOMAIN items' = 1 .. Len(items) + 1
           /\ \A i \in DOMAIN items : items'[i] = items[i]
           /\ items'[Len(items) + 1] = x
  <1>1. /\ items \in Seq(Item) /\ Len(items) \in Nat /\ DOMAIN items = 1 .. Len(items)
    BY LenProperties DEF TypeOK
  <1>2. /\ items' \in Seq(Item) /\ Len(items') = Len(items) + 1
        /\ DOMAIN items' = 1 .. Len(items) + 1
        /\ \A i \in DOMAIN items : items'[i] = items[i]
        /\ items'[Len(items) + 1] = x
    BY <1>1
  <1>3. Queue' = Queue \cup {x}
    BY <1>1, <1>2 DEF Queue
  <1> QED
    BY <1>2, <1>3

\* The next item is taken out of the queue.
LEMMA Taken ==
    ASSUME TypeOK, items # <<>>, items' = Without(pickNext)
    PROVE  /\ items' \in Seq(Item) /\ Len(items') = Len(items) - 1
           /\ items[pickNext] \in Queue /\ Queue \subseteq Item
           /\ Queue' \subseteq Queue /\ Queue \subseteq Queue' \cup {items[pickNext]}
           /\ \A i, j \in DOMAIN items' : \E k, l \in DOMAIN items :
                 /\ k # pickNext /\ l # pickNext
                 /\ items'[i] = items[k] /\ items'[j] = items[l] /\ (k = l => i = j)
  <1> DEFINE p == pickNext
  <1>1. /\ items \in Seq(Item) /\ Len(items) \in Nat /\ DOMAIN items = 1 .. Len(items)
        /\ \A i \in DOMAIN items : items[i] \in Item
    BY LenProperties DEF TypeOK
  <1>2. p \in DOMAIN items
    BY <1>1, PickFacts
  <1> HIDE DEF p
  <1>3. /\ items' \in Seq(Item) /\ Len(items') = Len(items) - 1
        /\ \A j \in 1 .. Len(items) - 1 : items'[j] = items[IF j < p THEN j ELSE j + 1]
    BY <1>1, <1>2, WithoutFacts DEF p
  <1>4. DOMAIN items' = 1 .. Len(items) - 1
    BY <1>3, LenProperties
  <1> DEFINE old(i) == IF i < p THEN i ELSE i + 1
  <1>5. /\ \A i \in DOMAIN items' : old(i) \in DOMAIN items /\ old(i) # p /\ items'[i] = items[old(i)]
        /\ \A i, j \in DOMAIN items' : old(i) = old(j) => i = j
    BY <1>1, <1>2, <1>3, <1>4
  <1>6. \A k \in DOMAIN items : k # p => \E i \in DOMAIN items' : old(i) = k
    <2> SUFFICES ASSUME NEW k \in DOMAIN items, k # p
                 PROVE  \E i \in DOMAIN items' : old(i) = k
      OBVIOUS
    <2>1. CASE k < p
      BY <1>1, <1>2, <1>4, <2>1
    <2>2. CASE k > p
      <3>1. k - 1 \in DOMAIN items' /\ old(k - 1) = k
        BY <1>1, <1>2, <1>4, <2>2
      <3> QED
        BY <3>1
    <2> QED
      BY <1>1, <1>2, <2>1, <2>2
  <1> HIDE DEF old
  <1>7. /\ Queue' \subseteq Queue /\ Queue \subseteq Queue' \cup {items[p]}
        /\ items[p] \in Queue /\ Queue \subseteq Item
    BY <1>1, <1>2, <1>5, <1>6 DEF Queue
  <1> QED
    BY <1>3, <1>5, <1>7 DEF p


LEMMA DispatchInv == ASSUME IInv, NEW s \in Session, dispatch(s) PROVE IInv'
  <1> DEFINE o   == mem[s]
             how == IF items = <<>> /\ running = {} THEN "active" ELSE "queued"
  <1>1. /\ o # 0 /\ ready /\ o \notin runner \cup queued
        /\ row' = [row EXCEPT ![s] = how] /\ status' = [status EXCEPT ![o] = how]
        /\ queued' = queued \cup {o} /\ items' = Append(items, o) /\ pending' = TRUE
        /\ UNCHANGED <<owner, placed, mem, runner, of, ready, busy, alive, ws, creating,
                       creators, resumers, running, turn, inside, improving, improves>>
    BY DEF dispatch, HasTurn, contVars
  <1> HIDE DEF how
  <1>2. o \in State /\ o \in Item /\ of[o] = s /\ how \in {"active", "queued"}
    BY <1>1 DEF IInv, TypeOK, OwnState, State, Item, how
  <1>3. turn[o] = "none" /\ o \notin Queue
    BY <1>1, <1>2 DEF IInv, OneTurnEach, Improve, State
  <1> HIDE DEF o
  <1>4. /\ items' \in Seq(Item) /\ Len(items') = Len(items) + 1
        /\ Queue' = Queue \cup {o}
        /\ DOMAIN items' = 1 .. Len(items) + 1
        /\ \A i \in DOMAIN items : items'[i] = items[i]
        /\ items'[Len(items) + 1] = o
    BY <1>1, <1>2, Appended DEF IInv
  <1>5. Len(items) \in Nat /\ DOMAIN items = 1 .. Len(items)
    BY LenProperties DEF IInv, TypeOK
  <1>6. Fits'
    <2>1. Waiting' = Waiting \cup {o} /\ o \notin Waiting
      BY <1>1, <1>2, <1>3 DEF Waiting
    <2>2. IsFiniteSet(Waiting) /\ Cardinality(Waiting) \in Nat
      BY Finite DEF Waiting, IInv, TypeOK
    <2>3. Cardinality(Waiting') = Cardinality(Waiting) + 1
      BY <2>1, <2>2, FS_AddElement
    <2>4. improves \in Nat /\ improves' = improves /\ Len(items) <= Cardinality(Waiting) + improves
      BY <1>1, BuilderAssumption DEF IInv, TypeOK, Fits
    <2> QED
      BY <1>4, <1>5, <2>2, <2>3, <2>4 DEF Fits
  <1>7. Len(items') <= MaxStates + MaxImproves
    <2>1. /\ Waiting' \in SUBSET State
      BY <1>1, <1>2 DEF Waiting, IInv, TypeOK
    <2>2. Cardinality(Waiting') \in Nat /\ Cardinality(Waiting') <= MaxStates
      BY <2>1, Finite
    <2>3. improves' \in Nat /\ improves' <= MaxImproves
      BY <1>1, BuilderAssumption DEF IInv, TypeOK
    <2> QED
      BY <1>4, <1>5, <1>6, <2>2, <2>3, BuilderAssumption DEF Fits
  <1>8. TypeOK'
    <2>1. row' \in [Session -> Status] /\ status' \in [State -> {"idle", "queued", "active"}]
      BY <1>1, <1>2 DEF IInv, TypeOK, Status
    <2>2. queued' \subseteq State
      BY <1>1, <1>2 DEF IInv, TypeOK
    <2> QED
      BY <1>1, <1>4, <1>7, <2>1, <2>2 DEF IInv, TypeOK
  <1>9. Serial'
    BY <1>1 DEF IInv, Serial
  <1>10. OneTurnEach'
    <2>1. ASSUME NEW i \in DOMAIN items', NEW j \in DOMAIN items',
                 items'[i] = items'[j], items'[i] # Improve
          PROVE  i = j
      <3>1. \A k \in DOMAIN items : items[k] \in Queue
        BY DEF Queue
      <3>2. CASE i \in DOMAIN items /\ j \in DOMAIN items
        BY <1>4, <2>1, <3>2 DEF IInv, OneTurnEach
      <3>3. CASE i \notin DOMAIN items \/ j \notin DOMAIN items
        BY <1>3, <1>4, <1>5, <2>1, <3>1, <3>3
      <3> QED
        BY <3>2, <3>3
    <2>2. Queue' \ {Improve} \subseteq queued'
      BY <1>1, <1>4 DEF IInv, OneTurnEach
    <2>3. \A p \in State : turn'[p] # "none" => p \in queued' /\ p \notin Queue'
      BY <1>1, <1>3, <1>4 DEF IInv, OneTurnEach
    <2>4. Improve \in Queue' => improves' > 0
      BY <1>1, <1>2, <1>4 DEF IInv, OneTurnEach, Improve, State
    <2>5. runner' = {p \in State : turn'[p] = "agent"}
      BY <1>1 DEF IInv, OneTurnEach
    <2> QED
      BY <2>1, <2>2, <2>3, <2>4, <2>5 DEF OneTurnEach
  <1>11. InProgress' = InProgress
    BY <1>1 DEF InProgress
  <1>12. OwnState' /\ MemHasContainer' /\ InsideHasEntry' /\ BusyWhileRunning'
    BY <1>1, <1>11 DEF IInv, OwnState, MemHasContainer, InsideHasEntry, BusyWhileRunning
  <1>13. ActiveRowKnown'
    <2>1. \A t \in Session : row'[t] = "active" => row[t] = "active" \/ mem[t] # 0
      BY <1>1 DEF IInv, TypeOK, o
    <2> QED
      BY <1>1, <1>11, <2>1 DEF IInv, ActiveRowKnown
  <1>14. ActiveRowHasTurn'
    <2>1. \A t \in Session : t # s => row'[t] = row[t]
      BY <1>1 DEF IInv, TypeOK
    <2>2. o # Improve /\ of'[o] = s /\ o \in Queue'
      BY <1>1, <1>2, <1>4 DEF Improve
    <2> QED
      BY <1>1, <1>4, <1>11, <2>1, <2>2 DEF IInv, ActiveRowHasTurn
  <1> QED
    BY <1>6, <1>8, <1>9, <1>10, <1>12, <1>13, <1>14 DEF IInv

LEMMA EnqueueInv == ASSUME IInv, enqueueImprove PROVE IInv'
  <1>1. /\ improves < MaxImproves /\ improves' = improves + 1
        /\ items' = Append(items, Improve) /\ pending' = TRUE
        /\ UNCHANGED <<rowVars, memVars, contVars, running, turn, inside, improving>>
    BY DEF enqueueImprove
  <1>2. UNCHANGED <<owner, row, placed, mem, status, queued, runner, of, ready, busy, alive,
                    ws, creating, creators, resumers>>
    BY <1>1 DEF rowVars, memVars, contVars
  <1>3. /\ items' \in Seq(Item) /\ Len(items') = Len(items) + 1
        /\ Queue' = Queue \cup {Improve}
        /\ DOMAIN items' = 1 .. Len(items) + 1
        /\ \A i \in DOMAIN items : items'[i] = items[i]
        /\ items'[Len(items) + 1] = Improve
    BY <1>1, Appended DEF IInv, Item
  <1>4. /\ Len(items) \in Nat /\ DOMAIN items = 1 .. Len(items)
        /\ improves \in Nat /\ improves' \in 0 .. MaxImproves /\ improves' > 0
    BY <1>1, BuilderAssumption, LenProperties DEF IInv, TypeOK
  <1>5. /\ Waiting' = Waiting
        /\ Cardinality(Waiting) \in Nat /\ Cardinality(Waiting) <= MaxStates
    BY <1>1, <1>2, Finite DEF Waiting, IInv, TypeOK
  <1>6. Fits' /\ Len(items') <= MaxStates + MaxImproves
    <2>1. Len(items) <= Cardinality(Waiting) + improves
      BY DEF IInv, Fits
    <2> QED
      BY <1>1, <1>3, <1>4, <1>5, <2>1, BuilderAssumption DEF Fits
  <1>7. TypeOK'
    BY <1>1, <1>2, <1>3, <1>4, <1>6 DEF IInv, TypeOK
  <1>8. Serial'
    BY <1>1 DEF IInv, Serial
  <1>9. OneTurnEach'
    <2>1. ASSUME NEW i \in DOMAIN items', NEW j \in DOMAIN items',
                 items'[i] = items'[j], items'[i] # Improve
          PROVE  i = j
      BY <1>3, <1>4, <2>1 DEF IInv, OneTurnEach
    <2>2. \A p \in State : p # Improve
      BY DEF State, Improve
    <2> QED
      BY <1>1, <1>2, <1>3, <1>4, <2>1, <2>2 DEF IInv, OneTurnEach
  <1>10. InProgress' = InProgress
    BY <1>1 DEF InProgress
  <1>11. OwnState' /\ MemHasContainer' /\ InsideHasEntry' /\ BusyWhileRunning'
    BY <1>1, <1>2, <1>10 DEF IInv, OwnState, MemHasContainer, InsideHasEntry, BusyWhileRunning
  <1>12. ActiveRowKnown' /\ ActiveRowHasTurn'
    BY <1>2, <1>3, <1>10 DEF IInv, ActiveRowKnown, ActiveRowHasTurn
  <1> QED
    BY <1>6, <1>7, <1>8, <1>9, <1>11, <1>12 DEF IInv


\* What taking the next item keeps, whatever happens to the item.
LEMMA TakenKeeps ==
    ASSUME IInv, items # <<>>, items' = Without(pickNext)
    PROVE  /\ \A i, j \in DOMAIN items' : items'[i] = items'[j] /\ items'[i] # Improve => i = j
           /\ items[pickNext] # Improve => items[pickNext] \notin Queue'
           /\ items' \in Seq(Item) /\ Len(items') = Len(items) - 1
           /\ Len(items) \in Nat /\ Len(items') <= MaxStates + MaxImproves
           /\ items[pickNext] \in Queue /\ Queue \subseteq Item
           /\ Queue' \subseteq Queue /\ Queue \subseteq Queue' \cup {items[pickNext]}
  <1>1. /\ items' \in Seq(Item) /\ Len(items') = Len(items) - 1
        /\ items[pickNext] \in Queue /\ Queue \subseteq Item
        /\ Queue' \subseteq Queue /\ Queue \subseteq Queue' \cup {items[pickNext]}
        /\ \A i, j \in DOMAIN items' : \E k, l \in DOMAIN items :
              /\ k # pickNext /\ l # pickNext
              /\ items'[i] = items[k] /\ items'[j] = items[l] /\ (k = l => i = j)
    BY Taken DEF IInv
  <1>2. pickNext \in DOMAIN items
    BY PickFacts DEF IInv, TypeOK
  <1>3. \A k, l \in DOMAIN items : items[k] = items[l] /\ items[k] # Improve => k = l
    BY DEF IInv, OneTurnEach
  <1>4. \A i, j \in DOMAIN items' : items'[i] = items'[j] /\ items'[i] # Improve => i = j
    BY <1>1, <1>3
  <1>5. items[pickNext] # Improve => items[pickNext] \notin Queue'
    <2> SUFFICES ASSUME items[pickNext] # Improve, NEW i \in DOMAIN items',
                        items'[i] = items[pickNext]
                 PROVE  FALSE
      BY DEF Queue
    <2>1. PICK k \in DOMAIN items : k # pickNext /\ items'[i] = items[k]
      BY <1>1
    <2> QED
      BY <1>2, <1>3, <2>1
  <1>6. Len(items) \in Nat /\ Len(items') <= MaxStates + MaxImproves
    <2>1. Len(items) \in Nat /\ Len(items) <= MaxStates + MaxImproves
      BY LenProperties DEF IInv, TypeOK
    <2> QED
      BY <1>1, <2>1, BuilderAssumption
  <1> QED
    BY <1>1, <1>4, <1>5, <1>6

LEMMA RunImproveInv == ASSUME IInv, RunImprove PROVE IInv'
  <1>1. /\ running = {} /\ items # <<>> /\ items[pickNext] = Improve
        /\ items' = Without(pickNext) /\ running' = {Improve}
        /\ improving' = improving + 1 /\ pending' = FALSE
        /\ UNCHANGED <<rowVars, memVars, contVars, turn, inside, improves>>
    BY DEF RunImprove, MayRun
  <1>2. UNCHANGED <<owner, row, placed, mem, status, queued, runner, of, ready, busy, alive,
                    ws, creating, creators, resumers>>
    BY <1>1 DEF rowVars, memVars, contVars
  <1>3. /\ \A i, j \in DOMAIN items' : items'[i] = items'[j] /\ items'[i] # Improve => i = j
        /\ items' \in Seq(Item) /\ Len(items') = Len(items) - 1
        /\ Len(items) \in Nat /\ Len(items') <= MaxStates + MaxImproves
        /\ items[pickNext] \in Queue /\ Queue \subseteq Item
        /\ Queue' \subseteq Queue /\ Queue \subseteq Queue' \cup {items[pickNext]}
    BY <1>1, TakenKeeps
  <1>4. improving' = 1 /\ improves > 0 /\ improving' \in 0 .. MaxImproves
    BY <1>1, <1>3, BuilderAssumption DEF IInv, TypeOK, Serial, OneTurnEach
  <1>5. Fits'
    <2>1. /\ Waiting' = Waiting /\ improves' = improves /\ improves \in Nat
          /\ Cardinality(Waiting) \in Nat /\ Len(items) <= Cardinality(Waiting) + improves
      BY <1>1, <1>2, Finite, BuilderAssumption DEF Waiting, IInv, TypeOK, Fits
    <2> QED
      BY <1>3, <2>1 DEF Fits
  <1>6. TypeOK'
    BY <1>1, <1>2, <1>3, <1>4 DEF IInv, TypeOK, Item
  <1>7. Serial'
    <2>1. \A o \in State : turn[o] = "none" /\ o # Improve
      BY <1>1 DEF IInv, Serial, State, Improve
    <2> QED
      BY <1>1, <1>4, <2>1 DEF Serial
  <1>8. OneTurnEach'
    BY <1>1, <1>2, <1>3 DEF IInv, OneTurnEach
  <1>9. InProgress' = InProgress
    BY <1>1 DEF InProgress
  <1>10. OwnState' /\ MemHasContainer' /\ InsideHasEntry' /\ BusyWhileRunning'
    BY <1>1, <1>2, <1>9 DEF IInv, OwnState, MemHasContainer, InsideHasEntry, BusyWhileRunning
  <1>11. ActiveRowKnown' /\ ActiveRowHasTurn'
    BY <1>1, <1>2, <1>3, <1>9 DEF IInv, ActiveRowKnown, ActiveRowHasTurn
  <1> QED
    BY <1>5, <1>6, <1>7, <1>8, <1>10, <1>11 DEF IInv

\* The turn moves from the queue into the container, which is busy from here.
LEMMA RunTurnInv == ASSUME IInv, RunTurn PROVE IInv'
  <1> DEFINE o == items[pickNext]
  <1>1. /\ running = {} /\ items # <<>> /\ ready /\ o # Improve
        /\ items' = Without(pickNext) /\ running' = {o}
        /\ turn' = [turn EXCEPT ![o] = "context"] /\ inside' = inside \cup {o}
        /\ row' = IF status[o] # "active" THEN [row EXCEPT ![of[o]] = "active"] ELSE row
        /\ status' = [status EXCEPT ![o] = "active"]
        /\ busy' = TRUE /\ pending' = FALSE
        /\ UNCHANGED <<owner, placed, mem, queued, runner, of, ready, alive, ws, creating,
                       creators, resumers, improving, improves>>
    BY DEF RunTurn, MayRun
  <1>2. /\ \A i, j \in DOMAIN items' : items'[i] = items'[j] /\ items'[i] # Improve => i = j
        /\ o \notin Queue'
        /\ items' \in Seq(Item) /\ Len(items') = Len(items) - 1
        /\ Len(items) \in Nat /\ Len(items') <= MaxStates + MaxImproves
        /\ o \in Queue /\ Queue \subseteq Item
        /\ Queue' \subseteq Queue /\ Queue \subseteq Queue' \cup {o}
    BY <1>1, TakenKeeps
  <1> HIDE DEF o
  <1>3. o \in State /\ o \in queued /\ o \in Item
    BY <1>1, <1>2 DEF Item, IInv, OneTurnEach
  <1>4. /\ \A p \in State : turn[p] = "none"
        /\ \A p \in State : turn'[p] = IF p = o THEN "context" ELSE "none"
    BY <1>1, <1>3 DEF IInv, TypeOK, Serial
  <1>5. InProgress = {} /\ InProgress' = {o}
    BY <1>3, <1>4 DEF InProgress
  <1>6. Fits'
    <2>1. Waiting' = Waiting \ {o} /\ o \in Waiting
      BY <1>1, <1>3, <1>4 DEF Waiting, IInv, TypeOK
    <2>2. /\ IsFiniteSet(Waiting) /\ Cardinality(Waiting) \in Nat
      BY Finite DEF Waiting, IInv, TypeOK
    <2>3. Cardinality(Waiting') = Cardinality(Waiting) - 1
      BY <2>1, <2>2, FS_RemoveElement
    <2>4. /\ improves' = improves /\ improves \in Nat
          /\ Len(items) <= Cardinality(Waiting) + improves
      BY <1>1, BuilderAssumption DEF IInv, TypeOK, Fits
    <2> QED
      BY <1>2, <2>2, <2>3, <2>4 DEF Fits
  <1>7. TypeOK'
    <2>1. /\ row' \in [Session -> Status] /\ inside' \subseteq State
          /\ status' \in [State -> {"idle", "queued", "active"}]
          /\ turn' \in [State -> {"none", "context", "agent", "stopped"}]
      BY <1>1, <1>3 DEF IInv, TypeOK, Status
    <2> QED
      BY <1>1, <1>2, <1>3, <2>1 DEF IInv, TypeOK
  <1>8. Serial'
    <2>1. Improve \notin running' /\ improving' = 0
      BY <1>1 DEF IInv, Serial
    <2> QED
      BY <1>1, <1>4, <2>1 DEF Serial
  <1>9. OneTurnEach'
    <2>1. runner = {} /\ runner' = {p \in State : turn'[p] = "agent"}
      BY <1>1, <1>4 DEF IInv, OneTurnEach
    <2> QED
      BY <1>1, <1>2, <1>3, <1>4, <2>1 DEF IInv, OneTurnEach
  <1>10. OwnState' /\ MemHasContainer' /\ InsideHasEntry' /\ BusyWhileRunning'
    BY <1>1 DEF IInv, OwnState, MemHasContainer, InsideHasEntry, BusyWhileRunning
  <1>11. \A s \in Session : row'[s] = "active" => row[s] = "active" \/ of'[o] = s
    BY <1>1 DEF IInv, TypeOK
  <1>12. ActiveRowKnown'
    BY <1>1, <1>5, <1>11 DEF IInv, ActiveRowKnown
  <1>13. ActiveRowHasTurn'
    BY <1>1, <1>2, <1>5, <1>11 DEF IInv, ActiveRowHasTurn
  <1> QED
    BY <1>6, <1>7, <1>8, <1>9, <1>10, <1>12, <1>13 DEF IInv

\* Without an entry no session is in memory, so no row of a turn that never
\* ran is 'active'.
LEMMA RunNothingInv == ASSUME IInv, RunNothing PROVE IInv'
  <1> DEFINE o == items[pickNext]
  <1>1. /\ running = {} /\ items # <<>> /\ ~ready /\ o # Improve
        /\ items' = Without(pickNext) /\ queued' = queued \ {o}
        /\ UNCHANGED <<rowVars, mem, status, runner, of, contVars, running, pending, turn,
                       inside, improving, improves>>
    BY DEF RunNothing, MayRun
  <1>2. UNCHANGED <<owner, row, placed, ready, busy, alive, ws, creating, creators, resumers>>
    BY <1>1 DEF rowVars, contVars
  <1>3. /\ \A i, j \in DOMAIN items' : items'[i] = items'[j] /\ items'[i] # Improve => i = j
        /\ o \notin Queue'
        /\ items' \in Seq(Item) /\ Len(items') = Len(items) - 1
        /\ Len(items) \in Nat /\ Len(items') <= MaxStates + MaxImproves
        /\ o \in Queue /\ Queue \subseteq Item
        /\ Queue' \subseteq Queue /\ Queue \subseteq Queue' \cup {o}
    BY <1>1, TakenKeeps
  <1> HIDE DEF o
  <1>4. o \in State /\ o \in queued
    BY <1>1, <1>3 DEF Item, IInv, OneTurnEach
  <1>5. \A p \in State : turn[p] = "none" /\ turn'[p] = "none"
    BY <1>1 DEF IInv, Serial
  <1>6. InProgress = {} /\ InProgress' = {}
    BY <1>5 DEF InProgress
  <1>7. Fits'
    <2>1. Waiting' = Waiting \ {o} /\ o \in Waiting
      BY <1>1, <1>4, <1>5 DEF Waiting
    <2>2. /\ IsFiniteSet(Waiting) /\ Cardinality(Waiting) \in Nat
      BY Finite DEF Waiting, IInv, TypeOK
    <2>3. Cardinality(Waiting') = Cardinality(Waiting) - 1
      BY <2>1, <2>2, FS_RemoveElement
    <2>4. /\ improves' = improves /\ improves \in Nat
          /\ Len(items) <= Cardinality(Waiting) + improves
      BY <1>1, BuilderAssumption DEF IInv, TypeOK, Fits
    <2> QED
      BY <1>3, <2>2, <2>3, <2>4 DEF Fits
  <1>8. TypeOK'
    BY <1>1, <1>2, <1>3 DEF IInv, TypeOK
  <1>9. Serial' /\ OneTurnEach'
    BY <1>1, <1>3, <1>5 DEF IInv, Serial, OneTurnEach
  <1>10. OwnState' /\ MemHasContainer' /\ InsideHasEntry' /\ BusyWhileRunning'
    BY <1>1, <1>2, <1>6 DEF IInv, OwnState, MemHasContainer, InsideHasEntry, BusyWhileRunning
  <1>11. \A s \in Session : row'[s] # "active"
    BY <1>1, <1>2, <1>6 DEF IInv, MemHasContainer, ActiveRowKnown
  <1>12. ActiveRowKnown' /\ ActiveRowHasTurn'
    BY <1>11 DEF ActiveRowKnown, ActiveRowHasTurn
  <1> QED
    BY <1>7, <1>8, <1>9, <1>10, <1>12 DEF IInv


\* A drain that finds nothing to do, the end of an improve job, no step at all.
LEMMA IdleInv ==
    ASSUME IInv, DrainIdle \/ ImproveEnds \/ UNCHANGED vars
    PROVE  IInv'
  <1>1. /\ UNCHANGED <<owner, row, placed, mem, status, queued, runner, of, ready, busy, alive,
                       ws, creating, creators, resumers, items, turn, inside, improves>>
        /\ pending' \in BOOLEAN
    BY DEF DrainIdle, ImproveEnds, Finished, IInv, TypeOK, vars, rowVars, memVars, contVars,
           workVars
  <1>2. running' \subseteq Item /\ improving' \in 0 .. MaxImproves /\ Serial'
    <2>1. CASE ImproveEnds
      <3>1. improving > 0 /\ improving' = improving - 1 /\ running' = {} /\ turn' = turn
        BY <2>1 DEF ImproveEnds, Finished
      <3>2. Improve \in running /\ improving = 1
        BY <3>1 DEF IInv, Serial
      <3>3. \A o \in State : o # Improve
        BY DEF State, Improve
      <3>4. \A o \in State : turn[o] = "none"
        BY <3>2, <3>3 DEF IInv, Serial
      <3> QED
        BY <3>1, <3>2, <3>4, BuilderAssumption DEF Serial
    <2>2. CASE DrainIdle \/ UNCHANGED vars
      <3>1. UNCHANGED <<running, improving, turn>>
        BY <2>2 DEF DrainIdle, vars, workVars
      <3> QED
        BY <3>1 DEF IInv, TypeOK, Serial
    <2> QED
      BY <2>1, <2>2
  <1>3. Queue' = Queue /\ InProgress' = InProgress /\ Waiting' = Waiting
    BY <1>1 DEF Queue, InProgress, Waiting
  <1>4. TypeOK'
    BY <1>1, <1>2 DEF IInv, TypeOK
  <1>5. OneTurnEach' /\ Fits'
    BY <1>1, <1>3 DEF IInv, OneTurnEach, Fits
  <1>6. OwnState' /\ MemHasContainer' /\ InsideHasEntry' /\ BusyWhileRunning'
    BY <1>1, <1>3 DEF IInv, OwnState, MemHasContainer, InsideHasEntry, BusyWhileRunning
  <1>7. ActiveRowKnown' /\ ActiveRowHasTurn'
    BY <1>1, <1>3 DEF IInv, ActiveRowKnown, ActiveRowHasTurn
  <1> QED
    BY <1>2, <1>4, <1>5, <1>6, <1>7 DEF IInv

LEMMA AgentStartsInv == ASSUME IInv, NEW o \in State, AgentStarts(o) PROVE IInv'
  <1>1. /\ turn[o] = "context" /\ turn' = [turn EXCEPT ![o] = "agent"]
        /\ runner' = runner \cup {o}
        /\ UNCHANGED <<owner, row, placed, mem, status, queued, of, ready, busy, alive, ws,
                       creating, creators, resumers, items, running, pending, inside,
                       improving, improves>>
    BY DEF AgentStarts, rowVars, contVars
  <1>2. /\ turn' \in [State -> {"none", "context", "agent", "stopped"}]
        /\ \A p \in State : turn'[p] = IF p = o THEN "agent" ELSE turn[p]
    BY <1>1 DEF IInv, TypeOK
  <1>3. Queue' = Queue /\ InProgress' = InProgress /\ Waiting' = Waiting
    BY <1>1, <1>2 DEF Queue, InProgress, Waiting, IInv, TypeOK
  <1>4. TypeOK'
    BY <1>1, <1>2 DEF IInv, TypeOK
  <1>5. Serial' /\ Fits'
    BY <1>1, <1>2, <1>3 DEF IInv, Serial, Fits
  <1>6. OneTurnEach'
    <2>1. runner' = {p \in State : turn'[p] = "agent"}
      BY <1>1, <1>2 DEF IInv, OneTurnEach
    <2> QED
      BY <1>1, <1>2, <1>3, <2>1 DEF IInv, OneTurnEach
  <1>7. OwnState' /\ MemHasContainer' /\ InsideHasEntry' /\ BusyWhileRunning'
    BY <1>1, <1>3 DEF IInv, OwnState, MemHasContainer, InsideHasEntry, BusyWhileRunning
  <1>8. ActiveRowKnown' /\ ActiveRowHasTurn'
    BY <1>1, <1>3 DEF IInv, ActiveRowKnown, ActiveRowHasTurn
  <1> QED
    BY <1>4, <1>5, <1>6, <1>7, <1>8 DEF IInv

\* With a state at work it is the only one.
LEMMA OnlyOne ==
    ASSUME IInv, NEW o \in State, turn[o] # "none"
    PROVE  /\ running = {o} /\ improving = 0
           /\ \A p \in State : p # o => turn[p] = "none"
  <1>1. o \in running /\ o # Improve
    BY DEF IInv, Serial, State, Improve
  <1>2. running = {o}
    BY <1>1 DEF IInv, Serial
  <1> QED
    BY <1>1, <1>2 DEF IInv, Serial

LEMMA AgentEndsInv == ASSUME IInv, NEW o \in State, AgentEnds(o) PROVE IInv'
  <1>1. /\ turn[o] = "agent" /\ turn' = [turn EXCEPT ![o] = "none"]
        /\ inside' = inside \ {o} /\ runner' = runner \ {o}
        /\ status' = [status EXCEPT ![o] = "idle"] /\ row' = [row EXCEPT ![of[o]] = "idle"]
        /\ busy' = FALSE /\ queued' = queued \ {o} /\ running' = {} /\ pending' = TRUE
        /\ UNCHANGED <<owner, placed, mem, of, ready, alive, ws, creating, creators,
                       resumers, items, improving, improves>>
    BY DEF AgentEnds, Finished
  <1>2. improving = 0 /\ \A p \in State : p # o => turn[p] = "none"
    BY <1>1, OnlyOne
  <1>3. \A p \in State : turn'[p] = "none"
    BY <1>1, <1>2 DEF IInv, TypeOK
  <1>4. /\ Queue' = Queue /\ InProgress = {o} /\ InProgress' = {} /\ o \notin Queue
    BY <1>1, <1>2, <1>3 DEF Queue, InProgress, IInv, OneTurnEach
  <1>5. Waiting' = Waiting
    BY <1>1, <1>2, <1>3 DEF Waiting, IInv, TypeOK
  <1>6. TypeOK'
    <2>1. /\ row' \in [Session -> Status] /\ inside' \subseteq State
          /\ status' \in [State -> {"idle", "queued", "active"}]
          /\ turn' \in [State -> {"none", "context", "agent", "stopped"}]
      BY <1>1 DEF IInv, TypeOK, Status
    <2> QED
      BY <1>1, <2>1 DEF IInv, TypeOK
  <1>7. Serial' /\ Fits'
    BY <1>1, <1>2, <1>3, <1>5 DEF IInv, Serial, Fits
  <1>8. OneTurnEach'
    <2>1. runner' = {p \in State : turn'[p] = "agent"}
      BY <1>1, <1>2, <1>3 DEF IInv, OneTurnEach
    <2> QED
      BY <1>1, <1>3, <1>4, <2>1 DEF IInv, OneTurnEach
  <1>9. OwnState' /\ MemHasContainer' /\ InsideHasEntry' /\ BusyWhileRunning'
    BY <1>1, <1>4 DEF IInv, OwnState, MemHasContainer, InsideHasEntry, BusyWhileRunning
  <1>10. \A s \in Session : row'[s] = "active" => row[s] = "active" /\ of[o] # s
    BY <1>1 DEF IInv, TypeOK
  <1>11. ActiveRowKnown' /\ ActiveRowHasTurn'
    BY <1>1, <1>4, <1>10 DEF IInv, ActiveRowKnown, ActiveRowHasTurn
  <1> QED
    BY <1>6, <1>7, <1>8, <1>9, <1>11 DEF IInv

\* A stopped turn goes on holding the queue, and nothing else.
LEMMA StoppedInv ==
    ASSUME IInv, NEW s \in Session, stopDispatch(s) \/ deleteAgent(s)
    PROVE  IInv'
  <1>1. PICK then \in {"idle", "paused"} : Stopped(s, then)
    BY DEF stopDispatch, deleteAgent
  <1>2. UNCHANGED <<owner, placed, mem, queued, of, ready, alive, ws, creating, creators,
                    resumers, items, running, pending, inside, improving, improves>>
    BY DEF stopDispatch, deleteAgent
  <1>3. CASE mem[s] \in runner
    <2> DEFINE o == mem[s]
    <2>1. /\ runner' = runner \ {o} /\ turn' = [turn EXCEPT ![o] = "stopped"]
          /\ status' = [status EXCEPT ![o] = "idle"] /\ busy' = FALSE
          /\ row' = [row EXCEPT ![s] = then]
      BY <1>1, <1>3 DEF Stopped
    <2>2. o \in State /\ turn[o] = "agent" /\ of[o] = s
      BY <1>3 DEF IInv, OneTurnEach, OwnState, TypeOK, State
    <2> HIDE DEF o
    <2>3. improving = 0 /\ \A p \in State : p # o => turn[p] = "none"
      BY <2>2, OnlyOne
    <2>4. \A p \in State : turn'[p] = IF p = o THEN "stopped" ELSE "none"
      BY <2>1, <2>2, <2>3 DEF IInv, TypeOK
    <2>5. Queue' = Queue /\ InProgress = {o} /\ InProgress' = {}
      BY <1>2, <2>2, <2>3, <2>4 DEF Queue, InProgress
    <2>6. Waiting' = Waiting
      BY <1>2, <2>2, <2>3, <2>4 DEF Waiting, IInv, TypeOK
    <2>7. TypeOK'
      <3>1. /\ row' \in [Session -> Status]
            /\ status' \in [State -> {"idle", "queued", "active"}]
            /\ turn' \in [State -> {"none", "context", "agent", "stopped"}]
        BY <2>1 DEF IInv, TypeOK, Status
      <3> QED
        BY <1>2, <2>1, <3>1 DEF IInv, TypeOK
    <2>8. Serial' /\ Fits'
      BY <1>2, <2>2, <2>3, <2>4, <2>6 DEF IInv, Serial, Fits
    <2>9. OneTurnEach'
      <3>1. runner' = {p \in State : turn'[p] = "agent"}
        BY <2>1, <2>2, <2>3, <2>4 DEF IInv, OneTurnEach
      <3> QED
        BY <1>2, <2>2, <2>4, <2>5, <3>1 DEF IInv, OneTurnEach
    <2>10. OwnState' /\ MemHasContainer' /\ InsideHasEntry' /\ BusyWhileRunning'
      BY <1>2, <2>5 DEF IInv, OwnState, MemHasContainer, InsideHasEntry, BusyWhileRunning
    <2>11. \A t \in Session : row'[t] = "active" => row[t] = "active" /\ of[o] # t
      BY <1>1, <2>1, <2>2 DEF IInv, TypeOK
    <2>12. ActiveRowKnown' /\ ActiveRowHasTurn'
      BY <1>2, <2>5, <2>11 DEF IInv, ActiveRowKnown, ActiveRowHasTurn
    <2> QED
      BY <2>7, <2>8, <2>9, <2>10, <2>12 DEF IInv
  <1>4. CASE mem[s] \notin runner
    <2>1. /\ row' = [row EXCEPT ![s] = IF then = "paused" THEN then ELSE @]
          /\ UNCHANGED <<runner, turn, status, busy>>
      BY <1>1, <1>4 DEF Stopped
    <2>2. Serial' /\ OneTurnEach' /\ Fits' /\ Queue' = Queue /\ InProgress' = InProgress
      BY <1>2, <2>1, QueueFrame
    <2>3. /\ row' \in [Session -> Status]
          /\ \A t \in Session : row'[t] = "active" => row[t] = "active"
      BY <2>1 DEF IInv, TypeOK, Status
    <2>4. TypeOK'
      BY <1>2, <2>1, <2>3 DEF IInv, TypeOK
    <2>5. OwnState' /\ MemHasContainer' /\ InsideHasEntry' /\ BusyWhileRunning'
      BY <1>2, <2>1, <2>2 DEF IInv, OwnState, MemHasContainer, InsideHasEntry, BusyWhileRunning
    <2>6. ActiveRowKnown' /\ ActiveRowHasTurn'
      BY <1>2, <2>1, <2>3, ActiveFrame
    <2> QED
      BY <2>2, <2>4, <2>5, <2>6 DEF IInv
  <1> QED
    BY <1>3, <1>4

-----------------------------------------------------------------------------
(* Restarts, the initial states, and the theorems.                         *)

LEMMA InitInv == ASSUME Init PROVE IInv
  <1>1. /\ items \in Seq(Item) /\ Len(items) = 0 /\ DOMAIN items = {}
        /\ Queue = {} /\ InProgress = {} /\ Waiting = {}
    BY EmptySeq DEF Init, Queue, InProgress, Waiting
  <1>2. TypeOK
    <2>1. /\ Len(items) <= MaxStates + MaxImproves /\ 0 \in 0 .. MaxImproves
          /\ 0 \in 0 .. MaxStates /\ 0 \in 0 .. MaxSessions
      BY <1>1, BuilderAssumption
    <2> QED
      BY <1>1, <2>1 DEF Init, TypeOK, Status
  <1>3. Fits
    BY <1>1, FS_EmptySet DEF Fits, Init
  <1>4. Serial /\ OneTurnEach
    BY <1>1 DEF Init, Serial, OneTurnEach
  <1> QED
    BY <1>1, <1>2, <1>3, <1>4
    DEF Init, IInv, OwnState, MemHasContainer, InsideHasEntry, BusyWhileRunning,
        ActiveRowKnown, ActiveRowHasTurn

LEMMA RestartInv == ASSUME IInv, Restart PROVE IInv'
  <1>1. /\ row' = Recovered /\ mem' = [s \in Session |-> 0]
        /\ status' = [o \in State |-> "idle"] /\ of' = [o \in State |-> 0]
        /\ queued' = {} /\ runner' = {}
        /\ ready' = FALSE /\ busy' = FALSE /\ alive' = FALSE /\ ws' = "none"
        /\ creating' = "none" /\ creators' = {} /\ resumers' = {}
        /\ items' = <<>> /\ running' = {} /\ pending' = FALSE
        /\ turn' = [o \in State |-> "none"] /\ inside' = {} /\ improving' = 0
        /\ UNCHANGED <<owner, placed, improves>>
    BY DEF Restart
  <1>2. /\ items' \in Seq(Item) /\ Len(items') = 0 /\ DOMAIN items' = {}
        /\ Queue' = {} /\ InProgress' = {} /\ Waiting' = {}
    BY <1>1, EmptySeq DEF Queue, InProgress, Waiting
  <1>3. /\ row' \in [Session -> Status] /\ \A s \in Session : row'[s] # "active"
    BY <1>1 DEF Recovered, Occupying, IInv, TypeOK, Status
  <1>4. TypeOK'
    <2>1. /\ Len(items') <= MaxStates + MaxImproves /\ 0 \in 0 .. MaxImproves
          /\ 0 \in 0 .. MaxStates /\ 0 \in 0 .. MaxSessions
      BY <1>2, BuilderAssumption
    <2> QED
      BY <1>1, <1>2, <1>3, <2>1 DEF IInv, TypeOK
  <1>5. Fits'
    <2>1. improves' \in Nat
      BY <1>1, BuilderAssumption DEF IInv, TypeOK
    <2> QED
      BY <1>2, <2>1, FS_EmptySet DEF Fits
  <1>6. Serial' /\ OneTurnEach'
    BY <1>1, <1>2 DEF Serial, OneTurnEach
  <1> QED
    BY <1>1, <1>2, <1>3, <1>4, <1>5, <1>6
    DEF IInv, OwnState, MemHasContainer, InsideHasEntry, BusyWhileRunning, ActiveRowKnown,
        ActiveRowHasTurn

LEMMA StepInv == IInv /\ [Next]_vars => IInv'
  <1> SUFFICES ASSUME IInv, [Next]_vars PROVE IInv'
    OBVIOUS
  <1>1. ASSUME NEW s \in Session,
               \/ createSession(s) \/ resumeSession(s) \/ dispatch(s)
               \/ stopDispatch(s) \/ deleteAgent(s) \/ ship(s)
        PROVE  IInv'
    BY <1>1, CreateSessionInv, ResumeSessionInv, DispatchInv, StoppedInv, ContainerInv
  <1>2. CASE Clone \/ Created \/ CreateFails \/ evict \/ IdleSweep \/ Vanish
    BY <1>2, ContainerInv, CreatedInv, CreateFailsInv, EvictedInv DEF evict, IdleSweep
  <1>3. CASE enqueueImprove \/ DrainIdle \/ RunImprove \/ RunTurn \/ RunNothing \/ ImproveEnds
    BY <1>3, EnqueueInv, IdleInv, RunImproveInv, RunTurnInv, RunNothingInv
  <1>4. ASSUME NEW o \in State, AgentStarts(o) \/ AgentEnds(o)
        PROVE  IInv'
    BY <1>4, AgentStartsInv, AgentEndsInv
  <1>5. CASE Restart
    BY <1>5, RestartInv
  <1>6. CASE UNCHANGED vars
    BY <1>6, IdleInv
  <1> QED
    BY <1>1, <1>2, <1>3, <1>4, <1>5, <1>6 DEF Next

LEMMA Invariant == Spec => []IInv
  BY InitInv, StepInv, PTL DEF Spec

\* Rows, maps, queue and container are what their names say: the queue never
\* holds more than one item per state and per improve job.
THEOREM TypeTheorem == Spec => []TypeOK
  <1>1. IInv => TypeOK
    BY DEF IInv
  <1> QED
    BY <1>1, Invariant, PTL

\* appQueue.js serialises the work on an app: at most one turn or improve job
\* is in progress, however enqueues, drains, stops and restarts interleave.
THEOREM SerialTheorem == Spec => []OneAtATime
  <1>1. ASSUME IInv PROVE OneAtATime
    <2>1. CASE InProgress = {}
      <3>1. improving \in {0, 1}
        BY <1>1 DEF IInv, Serial
      <3>2. Cardinality(InProgress) = 0
        BY <2>1, FS_EmptySet
      <3> QED
        BY <3>1, <3>2 DEF OneAtATime
    <2>2. CASE InProgress # {}
      <3>1. PICK o \in State : o \in InProgress /\ turn[o] # "none"
        BY <2>2 DEF InProgress
      <3>2. InProgress = {o} /\ improving = 0
        BY <1>1, <3>1, OnlyOne DEF InProgress
      <3>3. Cardinality(InProgress) = 1
        BY <3>2, FS_Singleton
      <3> QED
        BY <3>2, <3>3 DEF OneAtATime
    <2> QED
      BY <2>1, <2>2
  <1> QED
    BY <1>1, Invariant, PTL

\* A session is in memory only while the app has a container entry, whatever
\* evictions, vanished containers and failed creations there were.
THEOREM ContainerTheorem == Spec => []MemHasContainer
  <1>1. IInv => MemHasContainer
    BY DEF IInv
  <1> QED
    BY <1>1, Invariant, PTL

\* The idle sweep of appContainer.js finds a container with a turn in it busy.
THEOREM BusyTheorem == Spec => []BusyWhileRunning
  <1>1. IInv => BusyWhileRunning
    BY DEF IInv
  <1> QED
    BY <1>1, Invariant, PTL

\* A row of coder_sessions that reads 'active' has a turn queued or running.
THEOREM ActiveTheorem == Spec => []ActiveRowHasTurn
  <1>1. IInv => ActiveRowHasTurn
    BY DEF IInv
  <1> QED
    BY <1>1, Invariant, PTL
=============================================================================
