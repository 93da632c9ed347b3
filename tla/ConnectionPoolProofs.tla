------------------------ MODULE ConnectionPoolProofs ------------------------
(* The safety properties of ConnectionPool, for any number of threads and  *)
(* any sizes of the pool.                                                  *)
EXTENDS ConnectionPool, FiniteSetTheorems, TLAPS

\* A request that asks for a connection still needs one.
NeedFits == \A t \in Threads : pc[t] \in {"fill", "ask", "asleep"} => need[t] \in 1..MaxNeed

LocalInv == TypeOK /\ NeedFits
IInv     == LocalInv /\ NoSharing

-----------------------------------------------------------------------------
(* The queue as a set.                                                     *)

LEMMA IdleAppended ==
  ASSUME queue \in Seq(Conns), NEW c \in Conns, queue' = Append(queue, c)
  PROVE  Idle' = Idle \cup {c}
<1>1. /\ DOMAIN queue' = 1..(Len(queue) + 1)
      /\ \A i \in 1..Len(queue) : queue'[i] = queue[i]
      /\ queue'[Len(queue) + 1] = c
      /\ DOMAIN queue = 1..Len(queue) /\ Len(queue) \in Nat
  OBVIOUS
<1>2. Idle' \subseteq Idle \cup {c} BY <1>1 DEF Idle
<1>3. Idle \subseteq Idle' BY <1>1 DEF Idle
<1>4. c \in Idle' BY <1>1 DEF Idle
<1>. QED BY <1>2, <1>3, <1>4

Distinct == \A i, j \in DOMAIN queue : queue[i] = queue[j] => i = j

LEMMA DistinctAppended ==
  ASSUME queue \in Seq(Conns), NEW c \in Conns, queue' = Append(queue, c),
         Distinct, c \notin Idle
  PROVE  Distinct'
BY DEF Distinct, Idle

LEMMA HeadTaken ==
  ASSUME queue \in Seq(Conns), queue # <<>>, queue' = Tail(queue), Distinct
  PROVE  /\ Head(queue) \in Idle /\ Head(queue) \in Conns
         /\ Idle' = Idle \ {Head(queue)}
         /\ Distinct'
<1>1. /\ Head(queue) = queue[1] /\ 1 \in DOMAIN queue /\ Len(queue) \in Nat
      /\ DOMAIN queue = 1..Len(queue)
      /\ DOMAIN queue' = 1..(Len(queue) - 1)
      /\ \A i \in 1..(Len(queue) - 1) : queue'[i] = queue[i + 1]
  OBVIOUS
<1>2. Idle' \subseteq Idle \ {Head(queue)} BY <1>1 DEF Idle, Distinct
<1>3. ASSUME NEW i \in DOMAIN queue, i # 1 PROVE queue[i] \in Idle'
  <2>1. i - 1 \in DOMAIN queue' /\ queue'[i - 1] = queue[i] BY <1>1, <1>3
  <2>. QED BY <2>1 DEF Idle
<1>4. Idle \ {Head(queue)} \subseteq Idle' BY <1>1, <1>3 DEF Idle
<1>. QED BY <1>1, <1>2, <1>4 DEF Idle, Distinct

LEMMA IdleType ==
  ASSUME queue \in Seq(Conns) PROVE Idle \subseteq Conns
BY DEF Idle

-----------------------------------------------------------------------------
(* Types.                                                                  *)

LEMMA InitLocal == Init => IInv
<1>. SUFFICES ASSUME Init PROVE IInv
  OBVIOUS
<1>1. Idle = {} /\ \A i, j \in DOMAIN queue : FALSE BY DEF Init, Idle
<1>2. TypeOK
  <2>1. queue \in Seq(Conns) BY DEF Init
  <2>2. filled \in [Threads -> 0..InitSize] /\ need \in [Threads -> 0..MaxNeed]
    BY SizeAssumption DEF Init
  <2>3. started \in BOOLEAN /\ up \in BOOLEAN /\ drained \in BOOLEAN BY DEF Init
  <2>. QED BY <2>1, <2>2, <2>3 DEF Init, TypeOK
<1>3. NeedFits BY DEF Init, NeedFits
<1>4. NoSharing BY <1>1 DEF Init, NoSharing
<1>. QED BY <1>2, <1>3, <1>4 DEF IInv, LocalInv

LEMMA AddType ==
  ASSUME TypeOK, NEW c, Add(c)
  PROVE  queue' \in Seq(Conns) /\ cnt' \in Nat /\ open' \subseteq Conns
BY DEF Add, TypeOK

LEMMA RequestType ==
  ASSUME LocalInv, NEW t \in Threads, Begin(t) \/ Handle(t) \/ TimeOut(t)
  PROVE  LocalInv'
<1>. USE SizeAssumption DEF LocalInv, NeedFits, requests, helpers
<1>1. CASE Begin(t) BY <1>1 DEF Begin, TypeOK
<1>2. CASE Fill(t)
  <2>1. queue' \in Seq(Conns) /\ cnt' \in Nat /\ open' \subseteq Conns
    BY <1>2, AddType DEF Fill, TypeOK
  <2>2. filled' \in [Threads -> 0..InitSize] /\ up' \in BOOLEAN
    <3>1. filled[t] + 1 \in 0..InitSize BY <1>2 DEF Fill, TypeOK
    <3>2. filled' = filled \/ filled' = [filled EXCEPT ![t] = filled[t] + 1]
      BY <1>2 DEF Fill
    <3>3. up' = up \/ up' = FALSE BY <1>2 DEF Fill
    <3>. QED BY <3>1, <3>2, <3>3 DEF TypeOK
  <2>. QED BY <1>2, <2>1, <2>2 DEF Fill, TypeOK
<1>3. CASE Launch(t) BY <1>3 DEF Launch, TypeOK
<1>4. CASE Take(t)
  <2>1. queue' \in Seq(Conns) /\ Head(queue) \in Conns BY <1>4 DEF Take, TypeOK
  <2>2. need[t] \in 1..MaxNeed BY <1>4 DEF Take
  <2>3. need' = [need EXCEPT ![t] = need[t] - 1] BY <1>4 DEF Take
  <2>4. need' \in [Threads -> 0..MaxNeed] BY <2>2, <2>3 DEF TypeOK
  <2>5. held' \in [Threads -> SUBSET Conns] BY <1>4, <2>1 DEF Take, TypeOK
  <2>6. /\ pc' \in [Threads -> {"idle", "fill", "ask", "asleep", "use"}]
        /\ producer' \in [Threads -> {"none", "awake", "asleep"}]
        /\ drained' \in BOOLEAN
    BY <1>4 DEF Take, TypeOK, Notified, Alert
  <2>7. pc'[t] # "use" => need[t] # 1
    BY <1>4 DEF Take, TypeOK, Notified
  <2>8. \A x \in Threads \ {t} : need'[x] = need[x] /\
          (pc'[x] \in {"fill", "ask", "asleep"} => pc[x] \in {"fill", "ask", "asleep"})
    BY <1>4 DEF Take, TypeOK, Notified
  <2>9. NeedFits' BY <2>2, <2>3, <2>7, <2>8 DEF TypeOK
  <2>. QED BY <1>4, <2>1, <2>4, <2>5, <2>6, <2>9 DEF Take, TypeOK
<1>5. CASE Sleep(t) BY <1>5 DEF Sleep, TypeOK
<1>6. CASE GiveBack(t)
  <2>1. queue' \in Seq(Conns) BY <1>6 DEF GiveBack, TypeOK
  <2>. QED BY <1>6, <2>1 DEF GiveBack, TypeOK
<1>7. CASE TimeOut(t) BY <1>7 DEF TimeOut, TypeOK
<1>. QED BY <1>1, <1>2, <1>3, <1>4, <1>5, <1>6, <1>7 DEF Handle

LEMMA HelperType ==
  ASSUME LocalInv, NEW h \in Threads,
         Produce(h) \/ ProducerWaits(h) \/ ScanBegin(h) \/ Scan(h) \/ GrowOld
  PROVE  LocalInv'
<1>. USE SizeAssumption DEF LocalInv, NeedFits, requests
<1>1. CASE Produce(h)
  <2>1. queue' \in Seq(Conns) /\ cnt' \in Nat /\ open' \subseteq Conns
    BY <1>1, AddType DEF Produce, TypeOK
  <2>2. /\ pc' \in [Threads -> {"idle", "fill", "ask", "asleep", "use"}]
        /\ producer' \in [Threads -> {"none", "awake", "asleep"}]
        /\ \A x \in Threads : pc'[x] \in {"fill", "ask", "asleep"}
                                => pc[x] \in {"fill", "ask", "asleep"}
    BY <1>1 DEF Produce, TypeOK, Notified, Alert
  <2>. QED BY <1>1, <2>1, <2>2 DEF Produce, TypeOK
<1>2. CASE ProducerWaits(h) BY <1>2 DEF ProducerWaits, TypeOK
<1>3. CASE ScanBegin(h) BY <1>3 DEF ScanBegin, TypeOK
<1>4. CASE ScanEnd(h) BY <1>4 DEF ScanEnd, TypeOK
<1>5. CASE Close(h)
  <2>1. queue' \in Seq(Conns) /\ cnt' \in Nat BY <1>5 DEF Close, TypeOK
  <2>2. open' \subseteq Conns /\ aged' \subseteq Conns /\ drained' \in BOOLEAN
    BY <1>5 DEF Close, TypeOK
  <2>. QED BY <1>5, <2>1, <2>2 DEF Close, TypeOK, helpers
<1>6. CASE ReadPastEnd(h) BY <1>6 DEF ReadPastEnd, TypeOK, helpers
<1>7. CASE GrowOld BY <1>7 DEF GrowOld, TypeOK, helpers
<1>. QED BY <1>1, <1>2, <1>3, <1>4, <1>5, <1>6, <1>7 DEF Scan

LEMMA LocalKept == LocalInv /\ [Next]_vars => LocalInv'
<1>1. CASE Next
  <2>1. CASE \E t \in Threads : Begin(t) \/ Handle(t) \/ TimeOut(t)
    BY <2>1, RequestType
  <2>2. CASE \E h \in Threads : Produce(h) \/ ProducerWaits(h) \/ ScanBegin(h) \/ Scan(h)
    BY <2>2, HelperType
  <2>3. CASE GrowOld
    BY <2>3 DEF GrowOld, LocalInv, TypeOK, NeedFits, requests, helpers
  <2>. QED BY <1>1, <2>1, <2>2, <2>3 DEF Next
<1>2. CASE UNCHANGED vars BY <1>2 DEF vars, LocalInv, TypeOK, NeedFits
<1>. QED BY <1>1, <1>2

\* The pool and its threads stay within their types: among other things no
\* request asks for more connections than it needs.
THEOREM TypeCorrect == Spec => []TypeOK
<1>1. Init => LocalInv BY InitLocal DEF IInv
<1>2. LocalInv => TypeOK BY DEF LocalInv
<1>. QED BY <1>1, <1>2, LocalKept, PTL DEF Spec

-----------------------------------------------------------------------------
(* What a step does to the idle and to the lent connections.               *)

\* The four things that can happen to a connection, as steps of the model.
Opened(c) ==
  /\ c \in Conns \ open /\ open' = open \cup {c}
  /\ queue' = Append(queue, c) /\ cnt' = cnt + 1
  /\ held' = held

Closed ==
  /\ queue # <<>> /\ queue' = Tail(queue) /\ cnt' = cnt - 1
  /\ open' \in {open, open \ {Head(queue)}}
  /\ held' = held

Borrowed(t) ==
  /\ queue # <<>> /\ queue' = Tail(queue)
  /\ held' = [held EXCEPT ![t] = @ \cup {Head(queue)}]
  /\ UNCHANGED <<cnt, open>>

Returned(t) ==
  /\ \E c \in held[t] : /\ queue' = Append(queue, c)
                         /\ held' = [held EXCEPT ![t] = @ \ {c}]
  /\ UNCHANGED <<cnt, open>>

\* Every step is one of them, or touches no connection.
LEMMA StepKinds ==
  ASSUME [Next]_vars
  PROVE  \/ \E c \in Conns : Opened(c)
         \/ Closed
         \/ \E t \in Threads : Borrowed(t) \/ Returned(t)
         \/ UNCHANGED <<queue, held, cnt, open>>
<1>. USE DEF requests, helpers
<1>1. ASSUME NEW t \in Threads, Begin(t) \/ Launch(t) \/ Sleep(t) \/ TimeOut(t)
      PROVE  UNCHANGED <<queue, held, cnt, open>>
  BY <1>1 DEF Begin, Launch, Sleep, TimeOut
<1>2. ASSUME NEW t \in Threads, Fill(t)
      PROVE  (\E c \in Conns : Opened(c)) \/ UNCHANGED <<queue, held, cnt, open>>
  BY <1>2 DEF Fill, Add, Opened
<1>3. ASSUME NEW t \in Threads, Take(t) PROVE Borrowed(t)
  BY <1>3 DEF Take, Borrowed
<1>4. ASSUME NEW t \in Threads, GiveBack(t) PROVE Returned(t)
  BY <1>4 DEF GiveBack, Returned
<1>5. ASSUME NEW h \in Threads, Produce(h)
      PROVE  (\E c \in Conns : Opened(c)) \/ UNCHANGED <<queue, held, cnt, open>>
  BY <1>5 DEF Produce, Add, Opened
<1>6. ASSUME NEW h \in Threads, Close(h) PROVE Closed
  BY <1>6 DEF Close, Closed
<1>7. ASSUME NEW h \in Threads,
             ProducerWaits(h) \/ ScanBegin(h) \/ ScanEnd(h) \/ ReadPastEnd(h) \/ GrowOld
      PROVE  UNCHANGED <<queue, held, cnt, open>>
  BY <1>7 DEF ProducerWaits, ScanBegin, ScanEnd, ReadPastEnd, GrowOld
<1>8. CASE GrowOld BY <1>8 DEF GrowOld
<1>9. CASE UNCHANGED vars BY <1>9 DEF vars
<1>. QED BY <1>1, <1>2, <1>3, <1>4, <1>5, <1>6, <1>7, <1>8, <1>9
         DEF Next, Handle, Scan

\* The same, said of the set of idle connections.
LEMMA OpenedFacts ==
  ASSUME IInv, NEW c \in Conns, Opened(c)
  PROVE  c \notin Idle \cup InUse /\ Idle' = Idle \cup {c} /\ Distinct'
<1>1. queue \in Seq(Conns) BY DEF IInv, LocalInv, TypeOK
<1>2. c \notin Idle \cup InUse BY DEF Opened, IInv, NoSharing, InUse
<1>. QED BY <1>1, <1>2, IdleAppended, DistinctAppended DEF Opened, IInv, NoSharing, Distinct

LEMMA HeadFacts ==
  ASSUME IInv, queue # <<>>, queue' = Tail(queue)
  PROVE  /\ Head(queue) \in Idle /\ Head(queue) \in Conns
         /\ Idle' = Idle \ {Head(queue)} /\ Distinct'
BY HeadTaken DEF IInv, LocalInv, TypeOK, NoSharing, Distinct

LEMMA ReturnedFacts ==
  ASSUME IInv, NEW t \in Threads, NEW c \in held[t], queue' = Append(queue, c)
  PROVE  c \in Conns \ Idle /\ Idle' = Idle \cup {c} /\ Distinct'
<1>1. queue \in Seq(Conns) /\ c \in Conns BY DEF IInv, LocalInv, TypeOK
<1>2. c \notin Idle BY DEF IInv, NoSharing
<1>. QED BY <1>1, <1>2, IdleAppended, DistinctAppended DEF IInv, NoSharing, Distinct

-----------------------------------------------------------------------------
(* A connection has one owner.                                             *)

LEMMA SharingKept == IInv /\ [Next]_vars => NoSharing'
<1>. SUFFICES ASSUME IInv, [Next]_vars PROVE NoSharing'
  OBVIOUS
<1>0. held \in [Threads -> SUBSET Conns] BY DEF IInv, LocalInv, TypeOK
<1>a. \A x, y \in Threads : x # y => held[x] \cap held[y] = {} BY DEF IInv, NoSharing
<1>b. \A x \in Threads : held[x] \subseteq open BY DEF IInv, NoSharing
<1>c. \A x \in Threads : held[x] \cap Idle = {} BY DEF IInv, NoSharing
<1>1. ASSUME NEW c \in Conns, Opened(c) PROVE NoSharing'
  <2>1. c \notin Idle \cup InUse /\ Idle' = Idle \cup {c} /\ Distinct' BY <1>1, OpenedFacts
  <2>2. held' = held /\ open' = open \cup {c} BY <1>1 DEF Opened
  <2>. QED BY <2>1, <2>2 DEF IInv, NoSharing, Distinct, InUse
<1>2. CASE Closed
  <2>1. Head(queue) \in Idle /\ Idle' = Idle \ {Head(queue)} /\ Distinct'
    BY <1>2, HeadFacts DEF Closed
  <2>2. held' = held /\ open \ {Head(queue)} \subseteq open' BY <1>2 DEF Closed
  <2>. QED BY <2>1, <2>2 DEF IInv, NoSharing, Distinct
<1>3. ASSUME NEW t \in Threads, Borrowed(t) PROVE NoSharing'
  <2>1. Head(queue) \in Idle /\ Idle' = Idle \ {Head(queue)} /\ Distinct'
    BY <1>3, HeadFacts DEF Borrowed
  <2>2. \A x \in Threads :
          held'[x] = IF x = t THEN held[x] \cup {Head(queue)} ELSE held[x]
    BY <1>0, <1>3 DEF Borrowed
  <2>3. open' = open BY <1>3 DEF Borrowed
  <2>4. \A x \in Threads : Head(queue) \notin held[x] BY <2>1 DEF IInv, NoSharing
  <2>5. \A x, y \in Threads : x # y => held'[x] \cap held'[y] = {}
    BY <1>a, <2>2, <2>4
  <2>6. \A x \in Threads : held'[x] \cap Idle' = {}
    BY <2>1, <2>2 DEF IInv, NoSharing
  <2>7. \A x \in Threads : held'[x] \subseteq open'
    BY <1>b, <2>1, <2>2, <2>3, Idle \subseteq open DEF IInv, NoSharing
  <2>8. Idle' \subseteq open' BY <2>1, <2>3 DEF IInv, NoSharing
  <2>. QED BY <2>1, <2>5, <2>6, <2>7, <2>8 DEF NoSharing, Distinct
<1>4. ASSUME NEW t \in Threads, Returned(t) PROVE NoSharing'
  <2>1. PICK c \in held[t] : /\ queue' = Append(queue, c)
                             /\ held' = [held EXCEPT ![t] = @ \ {c}]
    BY <1>4 DEF Returned
  <2>2. c \in Conns \ Idle /\ Idle' = Idle \cup {c} /\ Distinct' BY <2>1, ReturnedFacts
  <2>3. \A x \in Threads : held'[x] = IF x = t THEN held[x] \ {c} ELSE held[x]
    BY <1>0, <2>1
  <2>4. open' = open BY <1>4 DEF Returned
  <2>5. \A x, y \in Threads : x # y => held'[x] \cap held'[y] = {}
    BY <1>a, <2>3
  <2>6. \A x \in Threads : held'[x] \cap Idle' = {}
    <3>. SUFFICES ASSUME NEW x \in Threads PROVE held'[x] \cap Idle' = {}
      OBVIOUS
    <3>1. x # t => c \notin held[x] BY <1>a
    <3>. QED BY <1>c, <2>2, <2>3, <3>1
  <2>7. \A x \in Threads : held'[x] \subseteq open' BY <1>b, <2>3, <2>4
  <2>8. Idle' \subseteq open' BY <2>2, <2>4 DEF IInv, NoSharing
  <2>. QED BY <2>2, <2>5, <2>6, <2>7, <2>8 DEF NoSharing, Distinct
<1>5. CASE UNCHANGED <<queue, held, cnt, open>>
  BY <1>5 DEF IInv, NoSharing, Idle
<1>. QED BY <1>1, <1>2, <1>3, <1>4, <1>5, StepKinds

LEMMA IInvInvariant == Spec => []IInv
<1>1. IInv /\ [Next]_vars => IInv' BY LocalKept, SharingKept DEF IInv
<1>. QED BY <1>1, InitLocal, PTL DEF Spec

\* No two requests ever have the same connection, no idle connection is in
\* use, and none that is idle or in use has been closed.
THEOREM NeverShared == Spec => []NoSharing
<1>1. IInv => NoSharing BY DEF IInv
<1>. QED BY <1>1, IInvInvariant, PTL

-----------------------------------------------------------------------------
(* The counter.                                                            *)

Finite == IsFiniteSet(Idle) /\ IsFiniteSet(InUse)

CountInv == Finite /\ CountExact

LEMMA CountKept == IInv /\ CountInv /\ [Next]_vars => CountInv'
<1>. SUFFICES ASSUME IInv, CountInv, [Next]_vars PROVE CountInv'
  OBVIOUS
<1>. USE DEF CountInv, Finite, CountExact
<1>0. held \in [Threads -> SUBSET Conns] /\ cnt \in Nat BY DEF IInv, LocalInv, TypeOK
<1>a. Cardinality(Idle) \in Nat /\ Cardinality(InUse) \in Nat BY FS_CardinalityType
<1>1. ASSUME NEW c \in Conns, Opened(c) PROVE CountInv'
  <2>1. c \notin Idle /\ Idle' = Idle \cup {c} BY <1>1, OpenedFacts
  <2>2. InUse' = InUse /\ cnt' = cnt + 1 BY <1>1 DEF Opened, InUse
  <2>3. IsFiniteSet(Idle \cup {c}) /\ Cardinality(Idle \cup {c}) = Cardinality(Idle) + 1
    BY <2>1, FS_AddElement
  <2>. QED BY <1>0, <1>a, <2>1, <2>2, <2>3
<1>2. CASE Closed
  <2>1. Head(queue) \in Idle /\ Idle' = Idle \ {Head(queue)}
    BY <1>2, HeadFacts DEF Closed
  <2>2. InUse' = InUse /\ cnt' = cnt - 1 BY <1>2 DEF Closed, InUse
  <2>3. /\ IsFiniteSet(Idle \ {Head(queue)})
        /\ Cardinality(Idle \ {Head(queue)}) = Cardinality(Idle) - 1
    BY <2>1, FS_RemoveElement
  <2>. QED BY <1>0, <1>a, <2>1, <2>2, <2>3
<1>3. ASSUME NEW t \in Threads, Borrowed(t) PROVE CountInv'
  <2>. DEFINE c == Head(queue)
  <2>1. c \in Idle /\ Idle' = Idle \ {c} BY <1>3, HeadFacts DEF Borrowed
  <2>2. \A x \in Threads : held'[x] = IF x = t THEN held[x] \cup {c} ELSE held[x]
    BY <1>0, <1>3 DEF Borrowed
  <2>3. InUse' = InUse \cup {c} BY <2>2 DEF InUse
  <2>4. c \notin InUse BY <2>1 DEF InUse, IInv, NoSharing
  <2>5. IsFiniteSet(Idle \ {c}) /\ Cardinality(Idle \ {c}) = Cardinality(Idle) - 1
    BY <2>1, FS_RemoveElement
  <2>6. IsFiniteSet(InUse \cup {c}) /\ Cardinality(InUse \cup {c}) = Cardinality(InUse) + 1
    BY <2>4, FS_AddElement
  <2>7. cnt' = cnt BY <1>3 DEF Borrowed
  <2>. HIDE DEF c
  <2>. QED BY <1>0, <1>a, <2>1, <2>3, <2>5, <2>6, <2>7
<1>4. ASSUME NEW t \in Threads, Returned(t) PROVE CountInv'
  <2>1. PICK c \in held[t] : /\ queue' = Append(queue, c)
                             /\ held' = [held EXCEPT ![t] = @ \ {c}]
    BY <1>4 DEF Returned
  <2>2. c \notin Idle /\ Idle' = Idle \cup {c} BY <2>1, ReturnedFacts
  <2>3. \A x \in Threads : held'[x] = IF x = t THEN held[x] \ {c} ELSE held[x]
    BY <1>0, <2>1
  <2>4. \A x \in Threads \ {t} : c \notin held[x] BY DEF IInv, NoSharing
  <2>5. InUse' = InUse \ {c} /\ c \in InUse BY <2>3, <2>4 DEF InUse
  <2>6. IsFiniteSet(Idle \cup {c}) /\ Cardinality(Idle \cup {c}) = Cardinality(Idle) + 1
    BY <2>2, FS_AddElement
  <2>7. IsFiniteSet(InUse \ {c}) /\ Cardinality(InUse \ {c}) = Cardinality(InUse) - 1
    BY <2>5, FS_RemoveElement
  <2>8. cnt' = cnt BY <1>4 DEF Returned
  <2>. QED BY <1>0, <1>a, <2>2, <2>5, <2>6, <2>7, <2>8
<1>5. CASE UNCHANGED <<queue, held, cnt, open>>
  <2>1. Idle' = Idle /\ InUse' = InUse BY <1>5 DEF Idle, InUse
  <2>. QED BY <1>5, <2>1
<1>. QED BY <1>1, <1>2, <1>3, <1>4, <1>5, StepKinds

\* The counter the limits are compared with is exact, although three places
\* change it and one of them does so without the lock.
THEOREM CountIsExact == Spec => []CountExact
<1>1. Init => CountInv
  <2>. SUFFICES ASSUME Init PROVE CountInv
    OBVIOUS
  <2>1. Idle = {} /\ InUse = {} BY DEF Init, Idle, InUse
  <2>. QED BY <2>1, FS_EmptySet DEF Init, CountInv, Finite, CountExact
<1>2. CountInv => CountExact BY DEF CountInv
<1>. QED BY <1>1, <1>2, CountKept, IInvInvariant, PTL DEF Spec

-----------------------------------------------------------------------------
(* The producers.                                                          *)

LEMMA SleepKept == ProducerSleepExplained /\ TypeOK /\ [Next]_vars => ProducerSleepExplained'
<1>. SUFFICES ASSUME ProducerSleepExplained, TypeOK, [Next]_vars
              PROVE  ProducerSleepExplained'
  OBVIOUS
<1>. USE DEF ProducerSleepExplained, requests, helpers
<1>1. ASSUME NEW t \in Threads, Begin(t) \/ Sleep(t) \/ TimeOut(t)
      PROVE  ProducerSleepExplained'
  BY <1>1 DEF Begin, Sleep, TimeOut
<1>2. ASSUME NEW t \in Threads, Fill(t) PROVE ProducerSleepExplained'
  <2>1. CASE queue' = queue BY <1>2, <2>1 DEF Fill
  <2>2. ASSUME NEW c \in Conns, Add(c) PROVE queue' # <<>>
    <3>1. queue \in Seq(Conns) /\ queue' = Append(queue, c) BY <2>2 DEF Add, TypeOK
    <3>. QED BY <3>1
  <2>. QED BY <1>2, <2>1, <2>2 DEF Fill
<1>3. ASSUME NEW t \in Threads, Launch(t) PROVE ProducerSleepExplained'
  BY <1>3 DEF Launch, TypeOK
<1>4. ASSUME NEW t \in Threads, Take(t) PROVE ProducerSleepExplained'
  BY <1>4 DEF Take, Alert, TypeOK
<1>5. ASSUME NEW t \in Threads, GiveBack(t) PROVE ProducerSleepExplained'
  <2>1. queue' # <<>> BY <1>5 DEF GiveBack, TypeOK
  <2>. QED BY <2>1
<1>6. ASSUME NEW h \in Threads, Produce(h) PROVE ProducerSleepExplained'
  BY <1>6 DEF Produce, Alert, TypeOK
<1>7. ASSUME NEW h \in Threads, ProducerWaits(h) \/ ScanBegin(h) \/ Scan(h) \/ GrowOld
      PROVE  ProducerSleepExplained'
  BY <1>7 DEF ProducerWaits, ScanBegin, Scan, ScanEnd, Close, ReadPastEnd, GrowOld
<1>8. CASE GrowOld BY <1>8 DEF GrowOld
<1>9. CASE UNCHANGED vars BY <1>9 DEF vars
<1>. QED BY <1>1, <1>2, <1>3, <1>4, <1>5, <1>6, <1>7, <1>8, <1>9 DEF Next, Handle

\* A request that finds no idle connection is not left without a producer,
\* unless the scanner took the last one.
THEOREM ProducersAwake == Spec => []ProducerSleepExplained
<1>1. Init => ProducerSleepExplained BY DEF Init, ProducerSleepExplained
<1>. QED BY <1>1, SleepKept, TypeCorrect, PTL DEF Spec

-----------------------------------------------------------------------------
(* How far the pool outgrows its limit.                                    *)

\* The connections init() has still to open, in all the threads that run it.
Pending == { p \in Threads \X (1..InitSize) : pc[p[1]] = "fill" /\ p[2] > filled[p[1]] }

\* A thread starts the pool once: afterwards started_ is set.
StartedOnce == \A t \in Threads : producer[t] # "none" => started /\ pc[t] # "fill"

\* Every starter but one adds at most its initial connections to the limit.
Budget ==
  InitSize <= MaxSize =>
    IF Starters = {} THEN cnt = 0
    ELSE cnt + Cardinality(Pending) <= MaxSize + InitSize * (Cardinality(Starters) - 1)

BoundInv == StartedOnce /\ IsFiniteSet(Starters) /\ IsFiniteSet(Pending) /\ Budget

\* A step that starts nothing, promises nothing and opens nothing.
LEMMA NothingAdded ==
  ASSUME TypeOK, cnt' \in Nat, BoundInv, StartedOnce', Starters' = Starters,
         Pending' = Pending, cnt' <= cnt
  PROVE  BoundInv'
<1>1. cnt \in Nat /\ Cardinality(Pending) \in Nat /\ Cardinality(Starters) \in Nat
  BY FS_CardinalityType DEF TypeOK, BoundInv
<1>2. InitSize * (Cardinality(Starters) - 1) \in Int BY <1>1, SizeAssumption
<1>. DEFINE room == MaxSize + InitSize * (Cardinality(Starters) - 1)
<1>3. room \in Int BY <1>2, SizeAssumption
<1>. HIDE DEF room
<1>4. cnt + Cardinality(Pending) <= room => cnt' + Cardinality(Pending) <= room
  BY <1>1, <1>3
<1>5. cnt = 0 => cnt' = 0 BY <1>1
<1>. QED BY <1>4, <1>5 DEF BoundInv, Budget, room

LEMMA BeginBound ==
  ASSUME TypeOK, BoundInv, NEW t \in Threads, Begin(t)
  PROVE  BoundInv'
<1>. USE SizeAssumption DEF TypeOK
<1>1. UNCHANGED <<cnt, started, filled, producer>> BY DEF Begin, helpers
<1>2. pc' = [pc EXCEPT ![t] = IF started THEN "ask" ELSE "fill"] /\ pc[t] = "idle"
  BY DEF Begin
<1>3. StartedOnce' BY <1>1, <1>2 DEF BoundInv, StartedOnce
<1>4. CASE started
  <2>1. Starters' = Starters BY <1>1, <1>2, <1>4 DEF Starters
  <2>2. Pending' = Pending BY <1>1, <1>2, <1>4 DEF Pending
  <2>. QED BY <1>1, <1>3, <2>1, <2>2, NothingAdded
<1>5. CASE ~started
  <2>. DEFINE mine == {t} \X (1..InitSize)
  <2>1. t \notin Starters /\ Starters' = Starters \cup {t}
    BY <1>1, <1>2, <1>5 DEF Starters, BoundInv, StartedOnce
  <2>2. /\ IsFiniteSet(Starters') /\ Cardinality(Starters') = Cardinality(Starters) + 1
        /\ Cardinality(Starters) \in Nat
    BY <2>1, FS_AddElement, FS_CardinalityType DEF BoundInv
  <2>3. IsFiniteSet(mine) /\ Cardinality(mine) = InitSize
    <3>1. IsFiniteSet({t}) /\ Cardinality({t}) = 1 BY FS_Singleton
    <3>2. IsFiniteSet(1..InitSize) /\ Cardinality(1..InitSize) = InitSize
      BY FS_Interval
    <3>3. /\ IsFiniteSet({t} \X (1..InitSize))
          /\ Cardinality({t} \X (1..InitSize)) = Cardinality({t}) * Cardinality(1..InitSize)
      BY ONLY <3>1, <3>2, FS_Product
    <3>4. 1 * InitSize = InitSize OBVIOUS
    <3>. QED BY <3>1, <3>2, <3>3, <3>4
  <2>4. Pending' \subseteq Pending \cup mine BY <1>1, <1>2, <1>5 DEF Pending
  <2>5. /\ IsFiniteSet(Pending \cup mine)
        /\ Cardinality(Pending \cup mine) <= Cardinality(Pending) + InitSize
        /\ Cardinality(Pending) \in Nat /\ Cardinality(Pending \cup mine) \in Nat
    <3>1. /\ IsFiniteSet(Pending \cup mine)
          /\ Cardinality(Pending \cup mine) =
               Cardinality(Pending) + Cardinality(mine) - Cardinality(Pending \cap mine)
      BY <2>3, FS_Union DEF BoundInv
    <3>2. IsFiniteSet(Pending \cap mine) BY FS_Intersection, <2>3 DEF BoundInv
    <3>3. /\ Cardinality(Pending \cap mine) \in Nat /\ Cardinality(Pending) \in Nat
          /\ Cardinality(Pending \cup mine) \in Nat
      BY <3>1, <3>2, FS_CardinalityType DEF BoundInv
    <3>. HIDE DEF mine
    <3>. QED BY <2>3, <3>1, <3>3
  <2>6. /\ IsFiniteSet(Pending') /\ Cardinality(Pending') \in Nat
        /\ Cardinality(Pending') <= Cardinality(Pending) + InitSize
    <3>1. IsFiniteSet(Pending') /\ Cardinality(Pending') <= Cardinality(Pending \cup mine)
      BY <2>4, <2>5, FS_Subset
    <3>2. Cardinality(Pending') \in Nat BY <3>1, FS_CardinalityType
    <3>. HIDE DEF mine
    <3>. QED BY <2>5, <3>1, <3>2
  <2>7. Budget'
    <3>. SUFFICES ASSUME InitSize <= MaxSize
                  PROVE  cnt + Cardinality(Pending') <= MaxSize + InitSize * Cardinality(Starters)
      BY <1>1, <2>1, <2>2 DEF Budget
    <3>. DEFINE n == Cardinality(Starters)
    <3>1. n \in Nat /\ cnt \in Nat BY <2>2
    <3>2. InitSize * (n - 1) = InitSize * n - InitSize /\ InitSize * n \in Nat
      <4>. HIDE DEF n
      <4>. QED BY <3>1
    <3>3. CASE Starters = {}
      <4>1. cnt = 0 /\ n = 0 BY <3>3, FS_EmptySet DEF BoundInv, Budget
      <4>2. Pending = {} BY <3>3 DEF Pending, Starters
      <4>3. Cardinality(Pending) = 0 BY <4>2, FS_EmptySet
      <4>4. InitSize * n = 0 BY <4>1
      <4>. HIDE DEF n
      <4>5. cnt + Cardinality(Pending') <= MaxSize + InitSize * n
        BY <2>6, <4>1, <4>3, <4>4
      <4>. QED BY <4>5 DEF n
    <3>4. CASE Starters # {}
      <4>1. cnt + Cardinality(Pending) <= MaxSize + InitSize * (n - 1)
        BY <3>4 DEF BoundInv, Budget
      <4>. HIDE DEF n
      <4>2. cnt + Cardinality(Pending') <= MaxSize + InitSize * n
        BY <2>5, <2>6, <3>1, <3>2, <4>1
      <4>. QED BY <4>2 DEF n
    <3>. QED BY <3>3, <3>4
  <2>. QED BY <1>3, <2>2, <2>6, <2>7 DEF BoundInv
<1>. QED BY <1>4, <1>5

LEMMA FillBound ==
  ASSUME TypeOK, BoundInv, NEW t \in Threads, Fill(t)
  PROVE  BoundInv'
<1>. USE SizeAssumption DEF TypeOK
<1>1. UNCHANGED <<started, pc, producer>> /\ pc[t] = "fill" /\ filled[t] < InitSize
  BY DEF Fill, helpers
<1>2. StartedOnce' /\ Starters' = Starters BY <1>1 DEF BoundInv, StartedOnce, Starters
<1>3. CASE UNCHANGED <<cnt, filled>>
  <2>1. Pending' = Pending BY <1>1, <1>3 DEF Pending
  <2>. QED BY <1>2, <1>3, <2>1, NothingAdded
<1>4. CASE cnt' = cnt + 1 /\ filled' = [filled EXCEPT ![t] = @ + 1]
  <2>. DEFINE p == <<t, filled[t] + 1>>
  <2>1. p \in Pending /\ Pending' = Pending \ {p}
    <3>1. p \in Pending BY <1>1 DEF Pending
    <3>2. ASSUME NEW q \in Threads \X (1..InitSize)
          PROVE  q \in Pending' <=> q \in Pending /\ q # p
      <4>1. CASE q[1] # t BY <1>1, <1>4, <4>1 DEF Pending
      <4>2. CASE q[1] = t
        <5>1. filled'[t] = filled[t] + 1 BY <1>4
        <5>2. q = <<t, q[2]>> /\ q[2] \in 1..InitSize BY <4>2
        <5>. QED BY <1>1, <4>2, <5>1, <5>2 DEF Pending
      <4>. QED BY <4>1, <4>2
    <3>. HIDE DEF p
    <3>. QED BY <3>1, <3>2 DEF Pending
  <2>. HIDE DEF p
  <2>2. /\ IsFiniteSet(Pending') /\ Cardinality(Pending') = Cardinality(Pending) - 1
        /\ Cardinality(Pending) \in Nat /\ Cardinality(Starters) \in Nat
    BY <2>1, FS_RemoveElement, FS_CardinalityType DEF BoundInv
  <2>3. Starters # {} BY <1>1 DEF Starters
  <2>4. cnt' + Cardinality(Pending') = cnt + Cardinality(Pending) BY <1>4, <2>2
  <2>5. Budget' BY <1>2, <2>3, <2>4 DEF BoundInv, Budget
  <2>. QED BY <1>2, <2>2, <2>5 DEF BoundInv
<1>. QED BY <1>3, <1>4 DEF Fill, Add

LEMMA ProduceBound ==
  ASSUME TypeOK, BoundInv, NEW h \in Threads, Produce(h)
  PROVE  BoundInv'
<1>. USE SizeAssumption DEF TypeOK
<1>1. /\ UNCHANGED <<started, filled>> /\ producer[h] = "awake"
      /\ \A x \in Threads : /\ pc'[x] = "fill" <=> pc[x] = "fill"
                            /\ producer'[x] = "none" <=> producer[x] = "none"
  BY DEF Produce, Notified, Alert
<1>2. StartedOnce' /\ Starters' = Starters BY <1>1 DEF BoundInv, StartedOnce, Starters
<1>3. Pending' = Pending BY <1>1 DEF Pending
<1>4. CASE cnt' = cnt
  BY <1>2, <1>3, <1>4, NothingAdded
<1>5. CASE cnt < MaxSize /\ cnt' = cnt + 1
  <2>. DEFINE others == Starters \ {h}
  <2>1. h \in Starters BY <1>1 DEF Starters
  <2>2. /\ IsFiniteSet(others) /\ Cardinality(others) = Cardinality(Starters) - 1
        /\ Cardinality(Starters) \in Nat
    BY <2>1, FS_RemoveElement, FS_CardinalityType DEF BoundInv
  <2>3. Pending \subseteq others \X (1..InitSize)
    BY <1>1 DEF Pending, Starters, BoundInv, StartedOnce
  <2>4. /\ IsFiniteSet(others \X (1..InitSize))
        /\ Cardinality(others \X (1..InitSize)) = Cardinality(others) * InitSize
    <3>1. IsFiniteSet(1..InitSize) /\ Cardinality(1..InitSize) = InitSize
      BY FS_Interval
    <3>. HIDE DEF others
    <3>. QED BY <2>2, <3>1, FS_Product
  <2>. HIDE DEF others
  <2>5. Cardinality(Pending) <= Cardinality(others) * InitSize /\ Cardinality(Pending) \in Nat
    BY <2>3, <2>4, FS_Subset, FS_CardinalityType DEF BoundInv
  <2>6. Cardinality(others) * InitSize = InitSize * (Cardinality(Starters) - 1)
    BY <2>2
  <2>. DEFINE room == InitSize * (Cardinality(Starters) - 1)
  <2>7. room \in Int /\ Cardinality(Pending) <= room BY <2>2, <2>5, <2>6
  <2>. HIDE DEF room
  <2>8. cnt' + Cardinality(Pending) <= MaxSize + room BY <1>5, <2>5, <2>7
  <2>9. Budget' BY <1>2, <1>3, <2>1, <2>8 DEF Budget, room
  <2>. QED BY <1>2, <1>3, <2>9 DEF BoundInv
<1>. QED BY <1>4, <1>5 DEF Produce, Add

LEMMA OthersBound ==
  ASSUME TypeOK, cnt' \in Nat, BoundInv, NEW t \in Threads,
         \/ Launch(t) \/ Take(t) \/ Sleep(t) \/ GiveBack(t) \/ TimeOut(t)
         \/ ProducerWaits(t) \/ ScanBegin(t) \/ Scan(t) \/ GrowOld
  PROVE  BoundInv'
<1>. USE SizeAssumption DEF TypeOK, requests, helpers
<1>0. cnt' \in Nat /\ cnt \in Nat OBVIOUS
<1>1. CASE Launch(t)
  <2>1. StartedOnce' BY <1>1 DEF Launch, BoundInv, StartedOnce
  <2>2. Starters' = Starters BY <1>1 DEF Launch, Starters
  <2>3. Pending' = Pending
    <3>1. \A q \in Threads \X (1..InitSize) : q[1] = t => q \notin Pending /\ q \notin Pending'
      BY <1>1 DEF Launch, Pending
    <3>2. \A q \in Threads \X (1..InitSize) : q[1] # t => (q \in Pending <=> q \in Pending')
      BY <1>1 DEF Launch, Pending
    <3>. QED BY <3>1, <3>2 DEF Pending
  <2>. QED BY <1>1, <2>1, <2>2, <2>3, NothingAdded DEF Launch
<1>2. CASE ~Launch(t)
  <2>1. /\ UNCHANGED <<started, filled>> /\ cnt' <= cnt
        /\ \A x \in Threads : /\ pc'[x] = "fill" <=> pc[x] = "fill"
                              /\ producer'[x] = "none" <=> producer[x] = "none"
    <3>1. CASE Take(t)
      <4>1. pc[t] \in {"ask", "asleep"} /\ UNCHANGED <<started, filled, cnt>>
        BY <3>1 DEF Take
      <4>2. PICK step \in {"use", "ask"} :
              pc' = Notified(t, step) \/ pc' = [pc EXCEPT ![t] = step]
        BY <3>1 DEF Take
      <4>3. \A x \in Threads : pc'[x] = "fill" <=> pc[x] = "fill"
        BY <4>1, <4>2 DEF Notified
      <4>4. producer' \in {Alert, producer} BY <3>1 DEF Take
      <4>5. \A x \in Threads : producer'[x] = "none" <=> producer[x] = "none"
        BY <4>4 DEF Alert
      <4>. QED BY <1>0, <4>1, <4>3, <4>5
    <3>2. CASE Sleep(t) \/ GiveBack(t) \/ TimeOut(t)
      BY <3>2 DEF Sleep, GiveBack, TimeOut
    <3>3. CASE ProducerWaits(t) \/ ScanBegin(t)
      BY <3>3 DEF ProducerWaits, ScanBegin
    <3>4. CASE Scan(t) \/ GrowOld
      BY <3>4 DEF Scan, ScanEnd, Close, ReadPastEnd, GrowOld
    <3>. QED BY <1>2, <3>1, <3>2, <3>3, <3>4
  <2>2. StartedOnce' /\ Starters' = Starters BY <2>1 DEF BoundInv, StartedOnce, Starters
  <2>3. Pending' = Pending BY <2>1 DEF Pending
  <2>. QED BY <2>1, <2>2, <2>3, NothingAdded
<1>. QED BY <1>1, <1>2

LEMMA BoundKept == TypeOK /\ TypeOK' /\ BoundInv /\ [Next]_vars => BoundInv'
<1>. SUFFICES ASSUME TypeOK, TypeOK', BoundInv, [Next]_vars PROVE BoundInv'
  OBVIOUS
<1>0. cnt \in Nat /\ cnt' \in Nat BY DEF TypeOK
<1>1. CASE GrowOld
  <2>1. UNCHANGED <<cnt, started, pc, filled, producer>> BY <1>1 DEF GrowOld, requests, helpers
  <2>2. StartedOnce' /\ Starters' = Starters BY <2>1 DEF BoundInv, StartedOnce, Starters
  <2>3. Pending' = Pending BY <2>1 DEF Pending
  <2>. QED BY <1>0, <2>1, <2>2, <2>3, NothingAdded
<1>2. CASE UNCHANGED vars
  <2>1. UNCHANGED <<cnt, started, pc, filled, producer>> BY <1>2 DEF vars
  <2>2. StartedOnce' /\ Starters' = Starters BY <2>1 DEF BoundInv, StartedOnce, Starters
  <2>3. Pending' = Pending BY <2>1 DEF Pending
  <2>. QED BY <1>0, <2>1, <2>2, <2>3, NothingAdded
<1>. QED BY <1>0, <1>1, <1>2, BeginBound, FillBound, ProduceBound, OthersBound
         DEF Next, Handle

\* However many first requests start the pool at once, it holds no more than
\* max_pool_size connections and the initial ones of all starters but one.
THEOREM PoolBounded == Spec => []CountBounded
<1>1. Init => BoundInv
  <2>. SUFFICES ASSUME Init PROVE BoundInv
    OBVIOUS
  <2>1. Starters = {} /\ Pending = {} BY DEF Init, Starters, Pending
  <2>. QED BY <2>1, FS_EmptySet DEF Init, BoundInv, StartedOnce, Budget
<1>2. TypeOK /\ BoundInv => CountBounded
  <2>. SUFFICES ASSUME TypeOK, BoundInv, InitSize <= MaxSize, cnt # 0
                PROVE  cnt <= MaxSize + InitSize * (Cardinality(Starters) - 1)
    BY DEF CountBounded
  <2>1. cnt \in Nat /\ Cardinality(Pending) \in Nat /\ Cardinality(Starters) \in Nat
    BY FS_CardinalityType DEF TypeOK, BoundInv
  <2>. DEFINE room == InitSize * (Cardinality(Starters) - 1)
  <2>2. room \in Int BY <2>1, SizeAssumption
  <2>3. cnt + Cardinality(Pending) <= MaxSize + room BY DEF BoundInv, Budget
  <2>. HIDE DEF room
  <2>4. cnt <= MaxSize + room BY <2>1, <2>2, <2>3, SizeAssumption
  <2>. QED BY <2>4 DEF room
<1>. QED BY <1>1, <1>2, BoundKept, TypeCorrect, PTL DEF Spec

-----------------------------------------------------------------------------
(* The pool implements BoundedPool.                                        *)

\* With its queue, its counters and its threads the pool lends, takes back,
\* opens and closes connections as the abstract pool does.
THEOREM ImplementsPool == Spec => KeepsPoolPromise
<1>1. Init => Promise!Init
  BY DEF Init, Promise!Init, Idle
<1>2. IInv /\ [Next]_vars => [Promise!Next]_Promise!vars
  <2>. SUFFICES ASSUME IInv, [Next]_vars PROVE [Promise!Next]_Promise!vars
    OBVIOUS
  <2>1. ASSUME NEW c \in Conns, Opened(c) PROVE Promise!Open(c)
    <3>1. Promise!Lent = InUse BY DEF Promise!Lent, InUse
    <3>. QED BY <2>1, <3>1, OpenedFacts DEF Opened, Promise!Open
  <2>2. ASSUME Closed PROVE \E c \in Conns : Promise!Close(c)
    BY <2>2, HeadFacts DEF Closed, Promise!Close
  <2>3. ASSUME NEW t \in Threads, Borrowed(t)
        PROVE  \E c \in Conns : Promise!Borrow(t, c)
    BY <2>3, HeadFacts DEF Borrowed, Promise!Borrow
  <2>4. ASSUME NEW t \in Threads, Returned(t)
        PROVE  \E c \in Conns : Promise!Return(t, c)
    <3>1. PICK c \in held[t] : /\ queue' = Append(queue, c)
                               /\ held' = [held EXCEPT ![t] = @ \ {c}]
      BY <2>4 DEF Returned
    <3>. QED BY <3>1, ReturnedFacts DEF Promise!Return
  <2>5. ASSUME UNCHANGED <<queue, held, cnt, open>> PROVE UNCHANGED Promise!vars
    BY <2>5 DEF Promise!vars, Idle
  <2>. QED BY <2>1, <2>2, <2>3, <2>4, <2>5, StepKinds DEF Promise!Next
<1>. QED BY <1>1, <1>2, IInvInvariant, PTL DEF Spec, KeepsPoolPromise, Promise!Spec
=============================================================================
