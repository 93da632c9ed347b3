------------------------ MODULE OfflineMessagesProofs ------------------------
(* The safety properties of OfflineMessages, for any number of messages,   *)
(* consumers, logins, attempts and deliveries.                             *)
EXTENDS OfflineMessages, TLAPS

\* An attempt follows only attempts that have failed.
SenderFits ==
  \A m \in Messages :
    /\ answer[m] = "none" /\ m \notin flying => attempt[m] < Retries
    /\ m \in flying => answer[m] = "none" /\ attempt[m] \in 1..Retries
    /\ answer[m] = "accepted" => \E n \in 1..Retries : <<m, n>> \in sent

\* A working consumer holds a copy the broker still has, and nobody else does.
ConsumerFit(c) ==
  /\ stage[c] = "idle" <=> hand[c] = NoCopy
  /\ stage[c] # "idle" => hand[c] \in broker /\ handouts[hand[c]] \in 1..MaxDeliveries

ConsumerFits ==
  /\ \A c \in Consumers : ConsumerFit(c)
  /\ \A c, d \in Consumers : stage[c] # "idle" /\ hand[c] = hand[d] => c = d

LocalInv == TypeOK /\ SenderFits /\ ConsumerFits

-----------------------------------------------------------------------------
(* Types.                                                                  *)

LEMMA InitLocal == Init => LocalInv
BY RetriesAssumption, DeliveriesAssumption
   DEF Init, LocalInv, TypeOK, SenderFits, ConsumerFits, ConsumerFit

LEMMA SenderType ==
  ASSUME TypeOK, SenderFits, NEW m \in Messages, Attempt(m) \/ Return(m)
  PROVE  TypeOK'
<1>. USE RetriesAssumption
<1>1. CASE Attempt(m)
  <2>1. attempt[m] + 1 \in 1..Retries BY <1>1 DEF Attempt, TypeOK, SenderFits
  <2>2. <<m, attempt[m] + 1>> \in Copies BY <2>1 DEF Copies
  <2>3. attempt' \in [Messages -> 0..Retries] BY <1>1, <2>1 DEF Attempt, TypeOK
  <2>4. broker' \subseteq Copies /\ sent' \subseteq Copies
    BY <1>1, <2>2 DEF Attempt, TypeOK
  <2>5. repeated' \subseteq Messages /\ flying' \subseteq Messages
    BY <1>1 DEF Attempt, TypeOK
  <2>. QED BY <1>1, <2>3, <2>4, <2>5 DEF Attempt, TypeOK, consumers, readers
<1>2. CASE Return(m)
  <2>1. answer' \in [Messages -> {"none", "accepted", "refused"}]
    BY <1>2 DEF Return, TypeOK
  <2>. QED BY <1>2, <2>1 DEF Return, TypeOK, consumers, readers
<1>. QED BY <1>1, <1>2

LEMMA RowType ==
  ASSUME TypeOK, ConsumerFits, NEW c \in Consumers, stage[c] # "idle"
  PROVE  /\ hand[c] \in Copies
         /\ hand[c][1] \in Messages
         /\ RowOf(c) \in Rows
BY DEF TypeOK, ConsumerFits, ConsumerFit, RowOf, Rows, Copies

LEMMA ConsumerType ==
  ASSUME TypeOK, ConsumerFits, NEW c \in Consumers,
         Deliver(c) \/ Insert(c) \/ Acknowledge(c) \/ Crash(c)
  PROVE  TypeOK'
<1>. USE DEF senders, readers
<1>1. CASE Deliver(c)
  BY <1>1, DeliveriesAssumption DEF Deliver, TypeOK
<1>2. CASE Insert(c)
  BY <1>2, RowType DEF Insert, TypeOK
<1>3. CASE Acknowledge(c)
  BY <1>3, RowType DEF Acknowledge, TypeOK
<1>4. CASE Crash(c)
  BY <1>4, RowType DEF Crash, TypeOK
<1>. QED BY <1>1, <1>2, <1>3, <1>4

LEMMA ReaderType ==
  ASSUME TypeOK, NEW r \in Readers, Select(r) \/ Delete(r) \/ Reply(r)
  PROVE  TypeOK'
<1>. USE DEF senders, consumers
<1>1. CASE Select(r)
  <2>1. picked' \in [Readers -> SUBSET Rows] BY <1>1 DEF Select, TypeOK
  <2>2. \A row \in Rows : MessageOf(row) \in Messages BY DEF Rows, Copies, MessageOf
  <2>3. repeated' \subseteq Messages BY <1>1, <2>1, <2>2 DEF Select, TypeOK
  <2>. QED BY <1>1, <2>1, <2>3 DEF Select, TypeOK
<1>2. CASE Delete(r)
  BY <1>2 DEF Delete, TypeOK
<1>3. CASE Reply(r)
  <2>1. picked[r] \X {r} \subseteq Rows \X Readers BY DEF TypeOK
  <2>. QED BY <1>3, <2>1 DEF Reply, TypeOK
<1>. QED BY <1>1, <1>2, <1>3

LEMMA SenderKept ==
  ASSUME LocalInv, Next PROVE SenderFits'
<1>. USE DEF LocalInv, SenderFits
<1>1. ASSUME NEW m \in Messages, Attempt(m) PROVE SenderFits'
  BY <1>1, RetriesAssumption DEF Attempt, TypeOK
<1>2. ASSUME NEW m \in Messages, Return(m) PROVE SenderFits'
  <2>1. PICK ok \in Outcomes :
          /\ ok => <<m, attempt[m]>> \in sent
          /\ answer' = [answer EXCEPT ![m] =
                          IF ok THEN "accepted"
                          ELSE IF attempt[m] = Retries THEN "refused" ELSE "none"]
    BY <1>2 DEF Return
  <2>2. attempt[m] \in 1..Retries /\ m \in flying BY <1>2 DEF Return
  <2>3. UNCHANGED <<attempt, sent>> /\ flying' = flying \ {m} BY <1>2 DEF Return
  <2>4. answer'[m] = "accepted" => \E n \in 1..Retries : <<m, n>> \in sent
    BY <2>1, <2>2 DEF TypeOK
  <2>5. answer'[m] = "none" => attempt[m] < Retries
    BY <2>1, <2>2, RetriesAssumption DEF TypeOK
  <2>6. \A x \in Messages \ {m} : answer'[x] = answer[x] BY <2>1 DEF TypeOK
  <2>. QED BY <2>2, <2>3, <2>4, <2>5, <2>6
<1>3. ASSUME UNCHANGED senders PROVE SenderFits'
  BY <1>3 DEF senders
<1>. QED BY <1>1, <1>2, <1>3 DEF Next, Deliver, Insert, Acknowledge, Crash,
                                  Select, Delete, Reply

LEMMA ConsumerKept ==
  ASSUME LocalInv, Next PROVE ConsumerFits'
<1>. USE DEF LocalInv, ConsumerFits, ConsumerFit
<1>1. ASSUME NEW c \in Consumers, Deliver(c) PROVE ConsumerFits'
  <2>1. PICK k \in broker :
          /\ \A d \in Consumers : hand[d] # k
          /\ handouts[k] < MaxDeliveries
          /\ hand' = [hand EXCEPT ![c] = k]
          /\ handouts' = [handouts EXCEPT ![k] = @ + 1]
          /\ stage' = [stage EXCEPT ![c] = "insert"]
    BY <1>1 DEF Deliver
  <2>2. k \in Copies /\ k # NoCopy BY NoCopyAssumption DEF TypeOK
  <2>3. ASSUME NEW d \in Consumers PROVE ConsumerFit(d)'
    BY <1>1, <2>1, <2>2, <2>3, DeliveriesAssumption DEF Deliver, TypeOK
  <2>4. ASSUME NEW d \in Consumers, NEW e \in Consumers,
               (stage[d] # "idle" /\ hand[d] = hand[e])'
        PROVE  d = e
    BY <2>1, <2>4 DEF TypeOK
  <2>. QED BY <2>3, <2>4
<1>2. ASSUME NEW c \in Consumers, Insert(c) PROVE ConsumerFits'
  BY <1>2 DEF Insert, TypeOK
<1>3. ASSUME NEW c \in Consumers, Acknowledge(c) PROVE ConsumerFits'
  BY <1>3 DEF Acknowledge, TypeOK
<1>4. ASSUME NEW c \in Consumers, Crash(c) PROVE ConsumerFits'
  BY <1>4 DEF Crash, TypeOK
<1>5. ASSUME broker \subseteq broker', UNCHANGED consumers PROVE ConsumerFits'
  BY <1>5 DEF consumers
<1>. QED BY <1>1, <1>2, <1>3, <1>4, <1>5
         DEF Next, Attempt, Return, Select, Delete, Reply

LEMMA LocalKept == LocalInv /\ [Next]_vars => LocalInv'
<1>1. CASE Next
  <2>1. ASSUME LocalInv PROVE TypeOK'
    BY <1>1, <2>1, SenderType, ConsumerType, ReaderType DEF Next, LocalInv
  <2>. QED BY <1>1, <2>1, SenderKept, ConsumerKept DEF LocalInv
<1>2. CASE UNCHANGED vars
  BY <1>2 DEF vars, LocalInv, TypeOK, SenderFits, ConsumerFits, ConsumerFit
<1>. QED BY <1>1, <1>2

\* The stores, the queue and every process stay within their types: among
\* other things a message is attempted at most Retries times.
THEOREM TypeCorrect == Spec => []TypeOK
<1>1. Spec => []LocalInv BY InitLocal, LocalKept, PTL DEF Spec
<1>2. LocalInv => TypeOK BY DEF LocalInv
<1>. QED BY <1>1, <1>2, PTL

-----------------------------------------------------------------------------
(* No copy is lost sight of.                                               *)

Kept(row) ==
  row \in table \/ OnItsWay(row) \/ Returned(row) \/ row \in wiped \/ row \in unheard

\* A consumer acknowledges a copy as stored only if a row of it was inserted.
StoredKept ==
  \A c \in Consumers : stage[c] = "stored" =>
    \E n \in 1..MaxDeliveries : Kept(<<hand[c], n>>)

AllTraced == \A k \in sent : Traced(k)

TraceInv == LocalInv /\ StoredKept /\ AllTraced

LEMMA TracedKept ==
  ASSUME NEW k PROVE Traced(k) <=> \/ k \in broker \cup dropped
                                   \/ \E n \in 1..MaxDeliveries : Kept(<<k, n>>)
BY DEF Traced, Kept

\* A row stays where it can be seen, whoever deletes it and whoever reads it.
LEMMA RowStaysKept ==
  ASSUME LocalInv, Next, NEW row, Kept(row) PROVE Kept(row)'
<1>. USE DEF Kept, OnItsWay, Returned
<1>1. ASSUME NEW m \in Messages, Attempt(m) \/ Return(m) PROVE Kept(row)'
  BY <1>1 DEF Attempt, Return, readers
<1>2. ASSUME NEW c \in Consumers, Deliver(c) \/ Insert(c) \/ Acknowledge(c) \/ Crash(c)
      PROVE  Kept(row)'
  BY <1>2 DEF Deliver, Insert, Acknowledge, Crash, readers
<1>3. ASSUME NEW r \in Readers, Select(r) PROVE Kept(row)'
  BY <1>3 DEF Select, LocalInv, TypeOK
<1>4. ASSUME NEW r \in Readers, Delete(r) PROVE Kept(row)'
  <2>1. PICK done \in Outcomes, ok \in Outcomes :
          /\ ok => done
          /\ table' = IF done THEN {} ELSE table
          /\ wiped' = IF done THEN wiped \cup (table \ picked[r]) ELSE wiped
          /\ IF ok
               THEN /\ phase' = [phase EXCEPT ![r] = "reply"]
                    /\ UNCHANGED <<picked, unheard>>
               ELSE /\ phase' = [phase EXCEPT ![r] = "idle"]
                    /\ picked' = [picked EXCEPT ![r] = {}]
                    /\ unheard' = IF done THEN unheard \cup picked[r] ELSE unheard
    BY <1>4 DEF Delete
  <2>2. phase[r] = "delete" /\ shown' = shown BY <1>4 DEF Delete
  <2>3. CASE row \in table BY <2>1, <2>2, <2>3 DEF LocalInv, TypeOK
  <2>4. CASE OnItsWay(row) BY <2>1, <2>2, <2>4 DEF LocalInv, TypeOK
  <2>. QED BY <2>1, <2>2, <2>3, <2>4
<1>5. ASSUME NEW r \in Readers, Reply(r) PROVE Kept(row)'
  BY <1>5 DEF Reply, LocalInv, TypeOK
<1>. QED BY <1>1, <1>2, <1>3, <1>4, <1>5 DEF Next

LEMMA StoredStaysKept ==
  ASSUME TraceInv, Next PROVE StoredKept'
<1>. USE DEF StoredKept
<1>1. ASSUME NEW c \in Consumers, stage[c] = "stored", hand'[c] = hand[c]
      PROVE  \E n \in 1..MaxDeliveries : Kept(<<hand[c], n>>)'
  BY <1>1, RowStaysKept DEF TraceInv
<1>2. ASSUME NEW c \in Consumers, Insert(c), stage'[c] = "stored"
      PROVE  \E n \in 1..MaxDeliveries : Kept(<<hand[c], n>>)'
  <2>1. hand' = hand /\ stage[c] = "insert" BY <1>2 DEF Insert
  <2>2. handouts[hand[c]] \in 1..MaxDeliveries
    BY <2>1 DEF TraceInv, LocalInv, ConsumerFits, ConsumerFit
  <2>3. CASE table' = table \cup {RowOf(c)}
    BY <2>1, <2>2, <2>3 DEF Kept, RowOf
  <2>4. CASE SameKey(hand[c]) # {} /\ table' = table
    <3>1. PICK row \in table : row[1] = hand[c] BY <2>4 DEF SameKey
    <3>2. row = <<hand[c], row[2]>> /\ row[2] \in 1..MaxDeliveries
      BY <3>1 DEF TraceInv, LocalInv, TypeOK, Rows
    <3>. QED BY <2>1, <2>4, <3>1, <3>2 DEF Kept
  <2>. QED BY <1>2, <2>3, <2>4 DEF Insert, TraceInv, LocalInv, TypeOK
<1>3. ASSUME NEW c \in Consumers, stage'[c] = "stored"
      PROVE  \/ stage[c] = "stored" /\ hand'[c] = hand[c]
             \/ Insert(c)
  BY <1>3 DEF Next, Attempt, Return, Deliver, Insert, Acknowledge, Crash, Select,
              Delete, Reply, consumers, TraceInv, LocalInv, TypeOK
<1>4. ASSUME NEW c \in Consumers, Insert(c) PROVE hand'[c] = hand[c]
  BY <1>4 DEF Insert
<1>. QED BY <1>1, <1>2, <1>3, <1>4

LEMMA TraceStays ==
  ASSUME TraceInv, Next PROVE AllTraced'
<1>1. SUFFICES ASSUME NEW k \in sent' PROVE Traced(k)'
  BY DEF AllTraced
<1>2. ASSUME NEW x PROVE (\E n \in 1..MaxDeliveries : Kept(<<x, n>>))
                           => (\E n \in 1..MaxDeliveries : Kept(<<x, n>>)')
  BY RowStaysKept DEF TraceInv
<1>3. dropped \subseteq dropped'
  BY DEF Next, Attempt, Return, Deliver, Insert, Acknowledge, Crash, Select,
         Delete, Reply, consumers
<1>4. CASE k \notin sent
  <2>1. k \in broker'
    BY <1>4 DEF Next, Attempt, Return, Deliver, Insert, Acknowledge, Crash, Select,
                Delete, Reply, senders
  <2>. QED BY <2>1 DEF Traced
<1>5. CASE k \in broker /\ k \notin broker'
  <2>1. PICK c \in Consumers : Acknowledge(c) /\ hand[c] = k
    BY <1>5 DEF Next, Attempt, Return, Deliver, Insert, Acknowledge, Crash, Select,
                Delete, Reply
  <2>2. CASE stage[c] = "stored"
    BY <2>1, <2>2, <1>2 DEF TraceInv, StoredKept, Traced, Kept
  <2>3. CASE stage[c] = "failed"
    BY <2>1, <2>3 DEF Acknowledge, Traced
  <2>. QED BY <2>1, <2>2, <2>3 DEF Acknowledge
<1>6. CASE k \in sent /\ ~(k \in broker /\ k \notin broker')
  <2>1. Traced(k) BY <1>6 DEF TraceInv, AllTraced
  <2>2. CASE k \in broker BY <2>2, <1>6 DEF Traced
  <2>3. CASE k \in dropped BY <2>3, <1>3 DEF Traced
  <2>4. CASE \E n \in 1..MaxDeliveries : Kept(<<k, n>>)
    BY <2>4, <1>2 DEF Traced, Kept
  <2>. QED BY <2>1, <2>2, <2>3, <2>4, TracedKept
<1>. QED BY <1>4, <1>5, <1>6

LEMMA TraceInvariant == Spec => []TraceInv
<1>1. Init => TraceInv
  BY InitLocal DEF Init, TraceInv, StoredKept, AllTraced
<1>2. TraceInv /\ [Next]_vars => TraceInv'
  <2>1. CASE Next
    BY <2>1, LocalKept, StoredStaysKept, TraceStays DEF TraceInv
  <2>2. CASE UNCHANGED vars
    <3>1. LocalInv => LocalInv' BY <2>2, LocalKept
    <3>2. \A row : Kept(row)' <=> Kept(row)
      BY <2>2 DEF vars, Kept, OnItsWay, Returned
    <3>3. StoredKept => StoredKept' BY <2>2, <3>2 DEF vars, StoredKept
    <3>4. AllTraced => AllTraced'
      BY <2>2, <3>2 DEF vars, AllTraced, Traced, OnItsWay, Returned
    <3>. QED BY <3>1, <3>3, <3>4 DEF TraceInv
  <2>. QED BY <2>1, <2>2
<1>. QED BY <1>1, <1>2, PTL DEF Spec

\* A message whose sender was told it is kept is never forgotten: a copy of it
\* waits, travels or was shown, or went through one of the three gaps.
THEOREM AcceptedRemembered == Spec => []AcceptedNotForgotten
<1>1. TraceInv => AcceptedNotForgotten
  BY DEF TraceInv, LocalInv, SenderFits, AllTraced, AcceptedNotForgotten
<1>. QED BY <1>1, TraceInvariant, PTL

-----------------------------------------------------------------------------
(* The queue, the table and the logins implement the mailbox.              *)

Seen(m)    == \E x \in shown : MessageOf(x[1]) = m
Arrived(m) == \E k \in sent : k[1] = m

\* Whatever is inside came in through the broker.
SourceFits ==
  /\ broker \subseteq sent
  /\ \A row \in table : row[1] \in sent
  /\ \A r \in Readers : /\ phase[r] = "idle" => picked[r] = {}
                        /\ \A row \in picked[r] : row[1] \in sent

PlaceInv == LocalInv /\ SourceFits

LEMMA PlaceInvariant == Spec => []PlaceInv
<1>1. Init => PlaceInv
  BY InitLocal DEF Init, PlaceInv, SourceFits
<1>2. PlaceInv /\ [Next]_vars => PlaceInv'
  <2>. SUFFICES ASSUME PlaceInv, [Next]_vars PROVE SourceFits'
    BY LocalKept DEF PlaceInv
  <2>. USE DEF PlaceInv, SourceFits
  <2>1. ASSUME NEW m \in Messages, Attempt(m) \/ Return(m) PROVE SourceFits'
    BY <2>1 DEF Attempt, Return, readers
  <2>2. ASSUME NEW c \in Consumers, Deliver(c) \/ Acknowledge(c) \/ Crash(c)
        PROVE  SourceFits'
    BY <2>2 DEF Deliver, Acknowledge, Crash, senders, readers
  <2>3. ASSUME NEW c \in Consumers, Insert(c) PROVE SourceFits'
    <3>1. hand[c] \in sent
      BY <2>3 DEF Insert, LocalInv, ConsumerFits, ConsumerFit
    <3>2. RowOf(c)[1] = hand[c] BY DEF RowOf
    <3>. QED BY <2>3, <3>1, <3>2 DEF Insert, senders, readers
  <2>4. ASSUME NEW r \in Readers, Select(r) \/ Delete(r) \/ Reply(r) PROVE SourceFits'
    BY <2>4 DEF Select, Delete, Reply, senders, LocalInv, TypeOK
  <2>5. CASE UNCHANGED vars BY <2>5 DEF vars
  <2>. QED BY <2>1, <2>2, <2>3, <2>4, <2>5 DEF Next
<1>. QED BY <1>1, <1>2, PTL DEF Spec

LEMMA InsideArrived ==
  ASSUME PlaceInv, NEW m \in Messages, Inside(m) PROVE Arrived(m)
BY DEF PlaceInv, SourceFits, Inside, Arrived, MessageOf

\* A step after which less is inside, and nothing else has changed, loses mail.
LEMMA LessInside ==
  ASSUME PlaceInv, UNCHANGED answer,
         \A m \in Messages : /\ Seen(m)' <=> Seen(m)
                             /\ Arrived(m)' <=> Arrived(m)
                             /\ Inside(m)' => Inside(m)
  PROVE  Promise!Lose
<1>. DEFINE S == { m \in Messages : Place(m) = "inside" /\ ~Inside(m)' }
<1>1. \A m \in S : Place(m) = "inside" OBVIOUS
<1>2. ASSUME NEW m \in Messages
      PROVE  Place(m)' = IF m \in S THEN "lost" ELSE Place(m)
  BY InsideArrived DEF Place, Seen, Arrived
<1>3. S \in SUBSET Messages OBVIOUS
<1>4. [m \in Messages |-> Place(m)]' =
        [m \in Messages |-> IF m \in S THEN "lost" ELSE [x \in Messages |-> Place(x)][m]]
  BY <1>2
<1>. QED BY <1>1, <1>3, <1>4 DEF Promise!Lose

LEMMA NothingMoves ==
  ASSUME UNCHANGED answer,
         [m \in Messages |-> Place(m)]' = [m \in Messages |-> Place(m)]
  PROVE  Promise!Lose
<1>. DEFINE P == [m \in Messages |-> Place(m)]
<1>1. P = [m \in Messages |-> IF m \in {} THEN "lost" ELSE P[m]] OBVIOUS
<1>2. {} \in SUBSET Messages /\ \A m \in {} : P[m] = "inside" OBVIOUS
<1>. QED BY <1>1, <1>2 DEF Promise!Lose

LEMMA AttemptImplements ==
  ASSUME PlaceInv, NEW m \in Messages, Attempt(m)
  PROVE  Promise!Enter(m) \/ Promise!Lose
<1>. DEFINE new == <<m, attempt[m] + 1>>
<1>1. UNCHANGED <<answer, table, picked, shown>> BY DEF Attempt, readers
<1>2. \A x \in Messages : Seen(x)' <=> Seen(x) BY <1>1 DEF Seen
<1>3. CASE broker' = broker /\ sent' = sent
  <2>1. \A x \in Messages : (Arrived(x)' <=> Arrived(x)) /\ (Inside(x)' <=> Inside(x))
    BY <1>1, <1>3 DEF Arrived, Inside
  <2>. QED BY <1>1, <1>2, <2>1, LessInside
<1>4. CASE broker' = broker \cup {new} /\ sent' = sent \cup {new}
  <2>1. \A x \in Messages \ {m} : (Arrived(x)' <=> Arrived(x)) /\ (Inside(x)' <=> Inside(x))
    BY <1>1, <1>4 DEF Arrived, Inside
  <2>2. Inside(m)'
    <3>1. new \in broker' /\ new[1] = m BY <1>4
    <3>. QED BY <3>1 DEF Inside
  <2>3. Place(m)' = IF Seen(m) THEN "shown" ELSE "inside"
    BY <1>2, <2>2 DEF Place, Seen
  <2>4. \A x \in Messages \ {m} : Place(x)' = Place(x)
    BY <1>2, <2>1 DEF Place, Seen, Arrived
  <2>5. CASE Place(m) \in {"shown", "inside"}
    <3>1. \A x \in Messages : Place(x)' = Place(x)
      BY <2>3, <2>4, <2>5 DEF Place, Seen
    <3>2. [x \in Messages |-> Place(x)]' = [x \in Messages |-> Place(x)] BY <3>1
    <3>. QED BY <1>1, <3>2, NothingMoves
  <2>6. CASE Place(m) \in {"nowhere", "lost"}
    <3>1. Place(m)' = "inside" BY <2>3, <2>6 DEF Place, Seen
    <3>2. [x \in Messages |-> Place(x)]' =
            [[x \in Messages |-> Place(x)] EXCEPT ![m] = "inside"]
      BY <2>4, <3>1
    <3>. QED BY <1>1, <2>6, <3>2 DEF Attempt, Promise!Enter
  <2>. QED BY <2>5, <2>6 DEF Place
<1>. QED BY <1>3, <1>4 DEF Attempt

LEMMA ReturnImplements ==
  ASSUME PlaceInv, NEW m \in Messages, Return(m)
  PROVE  Promise!Accept(m) \/ Promise!Refuse(m) \/ Promise!Lose
<1>1. UNCHANGED <<broker, sent, table, picked, shown>> BY DEF Return, readers
<1>2. \A x \in Messages : Place(x)' = Place(x) BY <1>1 DEF Place, Inside
<1>3. [x \in Messages |-> Place(x)]' = [x \in Messages |-> Place(x)] BY <1>2
<1>4. answer[m] = "none" /\ attempt[m] \in 1..Retries
  BY DEF Return, PlaceInv, LocalInv, SenderFits
<1>5. PICK ok \in Outcomes :
        /\ ok => <<m, attempt[m]>> \in sent
        /\ answer' = [answer EXCEPT ![m] =
                        IF ok THEN "accepted"
                        ELSE IF attempt[m] = Retries THEN "refused" ELSE "none"]
  BY DEF Return
<1>6. CASE ok
  <2>1. Place(m) # "nowhere" BY <1>5, <1>6 DEF Place
  <2>. QED BY <1>3, <1>4, <1>5, <1>6, <2>1 DEF Promise!Accept
<1>7. CASE ~ok /\ attempt[m] = Retries
  BY <1>3, <1>4, <1>5, <1>7 DEF Promise!Refuse
<1>8. CASE ~ok /\ attempt[m] # Retries
  <2>1. answer' = answer BY <1>4, <1>5, <1>8 DEF PlaceInv, LocalInv, TypeOK
  <2>. QED BY <1>3, <2>1, NothingMoves
<1>. QED BY <1>6, <1>7, <1>8

LEMMA ConsumerImplements ==
  ASSUME PlaceInv, NEW c \in Consumers,
         Deliver(c) \/ Insert(c) \/ Acknowledge(c) \/ Crash(c)
  PROVE  Promise!Lose
<1>1. UNCHANGED <<answer, sent, shown, picked>> /\ broker' \subseteq broker
  BY DEF Deliver, Insert, Acknowledge, Crash, senders, readers
<1>2. ASSUME NEW m \in Messages, Inside(m)' PROVE Inside(m)
  <2>1. CASE table' = table BY <1>1, <1>2, <2>1 DEF Inside
  <2>2. CASE Insert(c)
    <3>1. hand[c] \in broker /\ MessageOf(RowOf(c)) = hand[c][1]
      BY <2>2 DEF Insert, PlaceInv, LocalInv, ConsumerFits, ConsumerFit, MessageOf, RowOf
    <3>. QED BY <1>1, <1>2, <2>2, <3>1 DEF Inside, Insert
  <2>. QED BY <2>1, <2>2 DEF Deliver, Acknowledge, Crash
<1>3. \A m \in Messages : (Seen(m)' <=> Seen(m)) /\ (Arrived(m)' <=> Arrived(m))
  BY <1>1 DEF Seen, Arrived
<1>. QED BY <1>1, <1>2, <1>3, LessInside

LEMMA ReaderImplements ==
  ASSUME PlaceInv, NEW r \in Readers, Select(r) \/ Delete(r) \/ Reply(r)
  PROVE  Promise!Lose \/ Promise!Show
<1>. USE DEF PlaceInv, LocalInv, TypeOK
<1>1. UNCHANGED <<answer, sent, broker>> BY DEF Select, Delete, Reply, senders
<1>2. table' \subseteq table BY DEF Select, Delete, Reply
<1>3. \A x \in Readers : picked'[x] \subseteq picked[x] \cup table
  BY DEF Select, Delete, Reply
<1>4. ASSUME NEW m \in Messages, Inside(m)' PROVE Inside(m)
  <2>1. \A row : row \in table' \cup UNION { picked'[x] : x \in Readers }
                  => row \in table \cup UNION { picked[x] : x \in Readers }
    BY <1>2, <1>3
  <2>. QED BY <1>1, <1>4, <2>1 DEF Inside
<1>5. \A m \in Messages : Arrived(m)' <=> Arrived(m) BY <1>1 DEF Arrived
<1>6. CASE shown' = shown
  <2>1. \A m \in Messages : Seen(m)' <=> Seen(m) BY <1>6 DEF Seen
  <2>. QED BY <1>1, <1>4, <1>5, <2>1, LessInside
<1>7. CASE Reply(r) /\ shown' = shown \cup (picked[r] \X {r})
  <2>. DEFINE M == { m \in Messages : \E row \in picked[r] : MessageOf(row) = m }
              S == { m \in M : ~Seen(m) }
  <2>1. \A m \in Messages : Seen(m)' <=> Seen(m) \/ m \in M
    <3>1. ASSUME NEW m \in Messages, NEW x \in picked[r] \X {r}, MessageOf(x[1]) = m
          PROVE  m \in M
      BY <3>1
    <3>2. ASSUME NEW m \in M
          PROVE  \E x \in picked[r] \X {r} : MessageOf(x[1]) = m
      <4>1. PICK row \in picked[r] : MessageOf(row) = m OBVIOUS
      <4>2. <<row, r>> \in picked[r] \X {r} /\ <<row, r>>[1] = row OBVIOUS
      <4>. QED BY <4>1, <4>2
    <3>. QED BY <1>7, <3>1, <3>2 DEF Seen
  <2>2. \A m \in M : Inside(m) BY DEF Inside
  <2>3. ASSUME NEW m \in Messages \ M PROVE Inside(m) => Inside(m)'
    <3>1. table' = table /\ \A x \in Readers \ {r} : picked'[x] = picked[x]
      BY <1>7 DEF Reply
    <3>2. \A row : row \in UNION { picked[x] : x \in Readers } /\ MessageOf(row) = m
                    => row \in UNION { picked'[x] : x \in Readers }
      BY <2>3, <3>1
    <3>. QED BY <1>1, <3>1, <3>2 DEF Inside
  <2>4. \A m \in S : Place(m) = "inside" BY <2>2 DEF Place, Seen
  <2>5. ASSUME NEW m \in Messages
        PROVE  Place(m)' = IF m \in S THEN "shown" ELSE Place(m)
    BY <1>4, <1>5, <2>1, <2>3 DEF Place, Seen, Arrived
  <2>6. [m \in Messages |-> Place(m)]' =
          [m \in Messages |-> IF m \in S THEN "shown" ELSE [x \in Messages |-> Place(x)][m]]
    BY <2>5
  <2>. QED BY <1>1, <2>4, <2>6 DEF Promise!Show
<1>. QED BY <1>6, <1>7 DEF Select, Delete, Reply

\* Seen from the senders and the user, retries, redeliveries, crashes and
\* overlapping logins do nothing a Mailbox may not do: nothing is accepted that
\* never got in, and what was shown, or lost after its answer, stays so.
THEOREM ImplementsMailbox == Spec => KeepsMailboxPromise
<1>1. Init => Promise!Init
  BY DEF Init, Promise!Init, Place, Inside
<1>2. PlaceInv /\ [Next]_vars => [Promise!Next]_Promise!vars
  <2>. SUFFICES ASSUME PlaceInv, [Next]_vars PROVE [Promise!Next]_Promise!vars
    OBVIOUS
  <2>1. CASE Next
    BY <2>1, AttemptImplements, ReturnImplements, ConsumerImplements, ReaderImplements
       DEF Next, Promise!Next
  <2>2. CASE UNCHANGED vars
    BY <2>2 DEF vars, Promise!vars, Place, Inside
  <2>. QED BY <2>1, <2>2
<1>. QED BY <1>1, <1>2, PlaceInvariant, PTL DEF Spec, KeepsMailboxPromise, Promise!Spec

-----------------------------------------------------------------------------
(* Nothing is shown twice without a reason.                                *)

\* The rows there are or were, except those deleted or lost unseen.
PickedRows == UNION { picked[r] : r \in Readers }
ShownRows  == { x[1] : x \in shown }
Alive      == table \cup PickedRows \cup ShownRows

\* Of a message nothing special happened to, one copy arrived at most...
OneCopy ==
  \A k, l \in sent : k[1] = l[1] => k = l \/ k[1] \in repeated

\* ...no attempt is ahead of the counter...
Numbered == \A k \in sent : k[2] <= attempt[k[1]]

\* ...a row of it is made by the hand-out that ends with its acknowledgement...
RowFinal ==
  \A row \in Alive :
    /\ row[1] \in sent
    /\ \/ row[1] \notin broker
       \/ \E c \in Consumers : hand[c] = row[1] /\ stage[c] = "stored"
       \/ MessageOf(row) \in repeated

\* ...so there is one row of it...
OneRow ==
  \A x, y \in Alive : MessageOf(x) = MessageOf(y) => x = y \/ MessageOf(x) \in repeated

\* ...which is with one login, and out of the table when that login answers...
OneLogin ==
  /\ \A r, s \in Readers : r # s =>
       \A row \in picked[r] \cap picked[s] : MessageOf(row) \in repeated
  /\ \A r \in Readers : phase[r] = "reply" =>
       \A row \in picked[r] \cap table : MessageOf(row) \in repeated

\* ...and is neither in the table nor with a login once it has been shown.
ShownOnce ==
  \A x \in shown :
    /\ \A y \in shown : x[1] = y[1] => x = y \/ MessageOf(x[1]) \in repeated
    /\ x[1] \in table => MessageOf(x[1]) \in repeated
    /\ \A r \in Readers : x[1] \in picked[r] => MessageOf(x[1]) \in repeated

OnceInv == PlaceInv /\ Numbered /\ OneCopy /\ RowFinal /\ OneRow /\ OneLogin /\ ShownOnce

\* Nothing that may repeat a message is forgotten.
LEMMA RepeatedGrows == [Next]_vars => repeated \subseteq repeated'
BY DEF Next, vars, Attempt, Return, Deliver, Insert, Acknowledge, Crash, Select,
       Delete, Reply

LEMMA AliveIs ==
  \A row : row \in Alive <=> \/ row \in table
                             \/ \E r \in Readers : row \in picked[r]
                             \/ \E x \in shown : row = x[1]
<1>1. \A row : row \in ShownRows <=> \E x \in shown : row = x[1] BY DEF ShownRows
<1>2. \A row : row \in PickedRows <=> \E r \in Readers : row \in picked[r] BY DEF PickedRows
<1>. QED BY <1>1, <1>2 DEF Alive

LEMMA CopiesKept ==
  ASSUME OnceInv, Next PROVE Numbered' /\ OneCopy'
<1>. USE DEF OnceInv, PlaceInv, LocalInv, Numbered, OneCopy
<1>0. repeated \subseteq repeated' BY RepeatedGrows
<1>1. ASSUME NEW m \in Messages, Attempt(m) PROVE Numbered' /\ OneCopy'
  <2>. DEFINE new == <<m, attempt[m] + 1>>
  <2>1. attempt' = [attempt EXCEPT ![m] = attempt[m] + 1] /\ attempt[m] \in Nat
    BY <1>1, RetriesAssumption DEF Attempt, TypeOK
  <2>2. sent' \subseteq sent \cup {new} BY <1>1 DEF Attempt
  <2>3. \A k \in sent : k[1] = m => m \in repeated' BY <1>1 DEF Attempt
  <2>4. \A k \in sent : k[1] \in Messages /\ k[2] \in Nat BY DEF TypeOK, Copies
  <2>5. attempt \in [Messages -> Nat] BY RetriesAssumption DEF TypeOK
  <2>6. \A k \in sent : attempt[k[1]] <= attempt'[k[1]] /\ attempt[k[1]] \in Nat
                          /\ attempt'[k[1]] \in Nat
    BY <2>1, <2>4, <2>5
  <2>7. new[1] = m /\ new[2] <= attempt'[m] BY <2>1, <2>5
  <2>8. Numbered' BY <2>2, <2>4, <2>6, <2>7
  <2>9. OneCopy' BY <1>0, <2>2, <2>3, <2>7
  <2>. QED BY <2>8, <2>9
<1>2. CASE UNCHANGED <<attempt, sent>> BY <1>0, <1>2
<1>. QED BY <1>1, <1>2 DEF Next, Return, Deliver, Insert, Acknowledge, Crash, Select,
                           Delete, Reply, senders

\* As long as no row moves, a row is where it was.
LEMMA RowsUnmoved ==
  ASSUME OnceInv, [Next]_vars, UNCHANGED <<table, phase, picked, shown>>
  PROVE  Alive' = Alive /\ OneRow' /\ OneLogin' /\ ShownOnce'
<1>1. repeated \subseteq repeated' BY RepeatedGrows
<1>2. Alive' = Alive BY DEF Alive, PickedRows, ShownRows
<1>3. OneRow' BY <1>1, <1>2 DEF OnceInv, OneRow
<1>4. OneLogin' BY <1>1 DEF OnceInv, OneLogin
<1>5. ShownOnce' BY <1>1 DEF OnceInv, ShownOnce
<1>. QED BY <1>2, <1>3, <1>4, <1>5

LEMMA SenderOnce ==
  ASSUME OnceInv, NEW m \in Messages, Attempt(m) \/ Return(m)
  PROVE  RowFinal' /\ OneRow' /\ OneLogin' /\ ShownOnce'
<1>1. UNCHANGED <<table, phase, picked, shown, hand, stage>> /\ sent \subseteq sent'
  BY DEF Attempt, Return, consumers, readers
<1>2. [Next]_vars BY DEF Next
<1>3. Alive' = Alive /\ OneRow' /\ OneLogin' /\ ShownOnce' BY <1>1, <1>2, RowsUnmoved
<1>4. repeated \subseteq repeated' BY <1>2, RepeatedGrows
<1>5. ASSUME NEW row \in Alive, row[1] \in broker' \ broker
      PROVE  MessageOf(row) \in repeated'
  <2>1. row[1] \in sent BY DEF OnceInv, RowFinal
  <2>2. row[1][1] = m BY <1>5 DEF Attempt, Return
  <2>. QED BY <1>5, <2>1, <2>2 DEF Attempt, Return, MessageOf
<1>6. RowFinal' BY <1>1, <1>3, <1>4, <1>5 DEF OnceInv, RowFinal
<1>. QED BY <1>3, <1>6

LEMMA ConsumerOnce ==
  ASSUME OnceInv, NEW c \in Consumers, Deliver(c) \/ Acknowledge(c) \/ Crash(c)
  PROVE  RowFinal' /\ OneRow' /\ OneLogin' /\ ShownOnce'
<1>1. UNCHANGED <<table, phase, picked, shown, sent>> /\ broker' \subseteq broker
  BY DEF Deliver, Acknowledge, Crash, senders, readers
<1>2. [Next]_vars BY DEF Next
<1>3. Alive' = Alive /\ OneRow' /\ OneLogin' /\ ShownOnce' BY <1>1, <1>2, RowsUnmoved
<1>4. repeated \subseteq repeated' BY <1>2, RepeatedGrows
<1>5. ASSUME NEW d \in Consumers, stage[d] = "stored", hand[d] \in broker',
             hand[d][1] \notin repeated'
      PROVE  hand'[d] = hand[d] /\ stage'[d] = "stored"
  <2>1. d # c
    BY <1>5 DEF Deliver, Acknowledge, Crash
  <2>. QED BY <1>5, <2>1 DEF Deliver, Acknowledge, Crash, OnceInv, PlaceInv, LocalInv, TypeOK
<1>6. RowFinal' BY <1>1, <1>3, <1>4, <1>5 DEF OnceInv, RowFinal, MessageOf
<1>. QED BY <1>3, <1>6

LEMMA InsertOnce ==
  ASSUME OnceInv, NEW c \in Consumers, Insert(c)
  PROVE  RowFinal' /\ OneRow' /\ OneLogin' /\ ShownOnce'
<1>0. UNCHANGED <<broker, hand, phase, picked, shown, sent, repeated>>
  BY DEF Insert, senders, readers
<1>. DEFINE k == hand[c]
            m == k[1]
<1>1. stage[c] = "insert" /\ k \in broker /\ k \in sent
  BY DEF Insert, OnceInv, PlaceInv, LocalInv, SourceFits, ConsumerFits, ConsumerFit
<1>2. \A d \in Consumers : hand[d] = k => d = c
  BY <1>1 DEF OnceInv, PlaceInv, LocalInv, ConsumerFits
<1>3. \A d \in Consumers : stage[d] = "stored" => stage'[d] = "stored"
  BY <1>1 DEF Insert, OnceInv, PlaceInv, LocalInv, TypeOK
\* As long as nothing special has happened there is no row of the message yet.
<1>4. m \in repeated \/ \A row \in Alive : MessageOf(row) # m
  <2>. SUFFICES ASSUME NEW row \in Alive, MessageOf(row) = m PROVE m \in repeated
    OBVIOUS
  <2>1. row[1] \in sent /\ row[1][1] = m BY DEF OnceInv, RowFinal, MessageOf
  <2>2. row[1] = k \/ m \in repeated BY <1>1, <2>1 DEF OnceInv, OneCopy
  <2>3. CASE row[1] = k
    <3>. HIDE DEF k
    <3>1. ~ \E d \in Consumers : hand[d] = k /\ stage[d] = "stored"
      BY <1>1, <1>2
    <3>. QED BY <1>1, <2>3, <3>1 DEF OnceInv, RowFinal
  <2>. QED BY <2>2, <2>3
<1>5. CASE table' = table
  <2>1. Alive' = Alive /\ OneRow' /\ OneLogin' /\ ShownOnce'
    BY <1>0, <1>5, RowsUnmoved DEF Next
  <2>2. RowFinal' BY <1>0, <1>3, <2>1 DEF OnceInv, RowFinal
  <2>. QED BY <2>1, <2>2
<1>6. CASE table' = table \cup {RowOf(c)} /\ stage'[c] = "stored"
  <2>. DEFINE new == RowOf(c)
  <2>1. new[1] = k /\ MessageOf(new) = m BY DEF RowOf, MessageOf
  <2>2. Alive' = Alive \cup {new} BY <1>0, <1>6 DEF Alive, PickedRows, ShownRows
  <2>. HIDE DEF new, k
  <2>3. RowFinal'
    <3>1. \A row \in Alive : /\ row[1] \in sent'
                             /\ \/ row[1] \notin broker'
                                \/ \E d \in Consumers : hand'[d] = row[1] /\ stage'[d] = "stored"
                                \/ MessageOf(row) \in repeated'
      BY <1>0, <1>3 DEF OnceInv, RowFinal
    <3>2. new[1] \in sent' /\ hand'[c] = new[1] BY <1>0, <1>1, <2>1 DEF k
    <3>. QED BY <1>6, <2>2, <3>1, <3>2 DEF RowFinal
  <2>4. OneRow'
    <3>1. \A x \in Alive : MessageOf(x) = MessageOf(new) => MessageOf(x) \in repeated
      BY <1>4, <2>1
    <3>. QED BY <1>0, <2>2, <3>1 DEF OnceInv, OneRow
  <2>5. \A r \in Readers : new \in picked[r] => MessageOf(new) \in repeated
    BY <1>4, <2>1, AliveIs
  <2>6. OneLogin' BY <1>0, <1>6, <2>5 DEF OnceInv, OneLogin, new
  <2>7. \A x \in shown : x[1] = new => MessageOf(new) \in repeated
    BY <1>4, <2>1, AliveIs
  <2>8. ShownOnce' BY <1>0, <1>6, <2>7 DEF OnceInv, ShownOnce, new
  <2>. QED BY <2>3, <2>4, <2>6, <2>8
<1>. QED BY <1>5, <1>6 DEF Insert, OnceInv, PlaceInv, LocalInv, TypeOK

\* A login makes no rows.
LEMMA ReaderRows ==
  ASSUME OnceInv, NEW r \in Readers, Select(r) \/ Delete(r) \/ Reply(r)
  PROVE  RowFinal' /\ OneRow'
<1>. USE DEF OnceInv, PlaceInv, LocalInv, TypeOK
<1>1. UNCHANGED <<broker, sent, hand, stage>>
  BY DEF Select, Delete, Reply, senders, consumers
<1>2. repeated \subseteq repeated' BY DEF Select, Delete, Reply
<1>3. /\ table' \subseteq table
      /\ \A s \in Readers : picked'[s] \subseteq picked[s] \cup table
      /\ \A x \in shown' : x \in shown \/ \E s \in Readers : x[1] \in picked[s]
  BY DEF Select, Delete, Reply
<1>4. \A row \in Alive' : row \in Alive
  <2>1. \A x \in ShownRows' : x \in ShownRows \/ \E s \in Readers : x \in picked[s]
    BY <1>3 DEF ShownRows
  <2>2. \A x \in PickedRows' : x \in table \/ \E s \in Readers : x \in picked[s]
    BY <1>3 DEF PickedRows
  <2>3. \A s \in Readers : \A x \in picked[s] : x \in PickedRows BY DEF PickedRows
  <2>. QED BY <1>3, <2>1, <2>2, <2>3 DEF Alive
<1>5. RowFinal' BY <1>1, <1>2, <1>4 DEF RowFinal
<1>6. OneRow' BY <1>2, <1>4 DEF OneRow
<1>. QED BY <1>5, <1>6

LEMMA SelectOnce ==
  ASSUME OnceInv, NEW r \in Readers, Select(r) PROVE OneLogin' /\ ShownOnce'
<1>. USE DEF OnceInv, PlaceInv, LocalInv, TypeOK
<1>1. /\ UNCHANGED <<table, shown>> /\ repeated \subseteq repeated'
      /\ phase' = [phase EXCEPT ![r] = "delete"]
      /\ picked'[r] \subseteq table
      /\ \A s \in Readers \ {r} : picked'[s] = picked[s]
  BY DEF Select
<1>2. \A s \in Readers : \A row \in picked'[r] \cap picked[s] : MessageOf(row) \in repeated'
  BY DEF Select
<1>3. \A s, t \in Readers : s # t =>
        \A row \in picked'[s] \cap picked'[t] : MessageOf(row) \in repeated'
  BY <1>1, <1>2 DEF OneLogin
<1>4. OneLogin' BY <1>1, <1>3 DEF OneLogin
<1>5. \A x \in shown : \A s \in Readers : x[1] \in picked'[s] => MessageOf(x[1]) \in repeated'
  BY <1>1 DEF ShownOnce
<1>6. ShownOnce' BY <1>1, <1>5 DEF ShownOnce
<1>. QED BY <1>4, <1>6

LEMMA DeleteOnce ==
  ASSUME OnceInv, NEW r \in Readers, Delete(r) PROVE OneLogin' /\ ShownOnce'
<1>. USE DEF OnceInv, PlaceInv, LocalInv, TypeOK
<1>1. /\ UNCHANGED <<shown, repeated>> /\ table' \subseteq table
      /\ \A s \in Readers : picked'[s] \subseteq picked[s]
  BY DEF Delete
<1>2. \A s \in Readers : phase'[s] = "reply" => phase[s] = "reply" \/ table' = {}
  BY DEF Delete
<1>3. OneLogin' BY <1>1, <1>2 DEF OneLogin
<1>4. ShownOnce' BY <1>1 DEF ShownOnce
<1>. QED BY <1>3, <1>4

LEMMA ReplyOnce ==
  ASSUME OnceInv, NEW r \in Readers, Reply(r) PROVE OneLogin' /\ ShownOnce'
<1>. USE DEF OnceInv, PlaceInv, LocalInv, TypeOK
<1>1. /\ UNCHANGED <<table, repeated>> /\ phase[r] = "reply"
      /\ picked'[r] = {} /\ \A s \in Readers \ {r} : picked'[s] = picked[s]
      /\ \A s \in Readers : phase'[s] = "reply" => phase[s] = "reply"
  BY DEF Reply
<1>2. OneLogin' BY <1>1 DEF OneLogin
<1>3. \A x \in shown' : x \in shown \/ (x[1] \in picked[r] /\ x = <<x[1], r>>)
  BY DEF Reply
<1>4. ASSUME NEW row \in picked[r]
      PROVE  /\ row \in table => MessageOf(row) \in repeated
             /\ \A s \in Readers : row \in picked'[s] => MessageOf(row) \in repeated
             /\ \A x \in shown : x[1] = row => MessageOf(row) \in repeated
  BY <1>1 DEF OneLogin, ShownOnce
<1>5. ASSUME NEW x \in shown', NEW y \in shown', x[1] = y[1]
      PROVE  x = y \/ MessageOf(x[1]) \in repeated
  <2>1. CASE x \in shown /\ y \in shown BY <1>5, <2>1 DEF ShownOnce
  <2>2. CASE x[1] \in picked[r] /\ x = <<x[1], r>>
    BY <1>3, <1>4, <1>5, <2>2
  <2>3. CASE y[1] \in picked[r] /\ y = <<y[1], r>>
    BY <1>3, <1>4, <1>5, <2>3
  <2>. QED BY <1>3, <2>1, <2>2, <2>3
<1>6. ASSUME NEW x \in shown'
      PROVE  /\ x[1] \in table' => MessageOf(x[1]) \in repeated'
             /\ \A s \in Readers : x[1] \in picked'[s] => MessageOf(x[1]) \in repeated'
  <2>1. CASE x \in shown BY <1>1, <2>1 DEF ShownOnce
  <2>2. CASE x[1] \in picked[r] BY <1>1, <1>4, <2>2
  <2>. QED BY <1>3, <2>1, <2>2
<1>7. ShownOnce' BY <1>1, <1>5, <1>6 DEF ShownOnce
<1>. QED BY <1>2, <1>7

LEMMA OnceInvariant == Spec => []OnceInv
<1>1. Init => OnceInv
  <2>. SUFFICES ASSUME Init PROVE OnceInv
    OBVIOUS
  <2>1. LocalInv BY InitLocal
  <2>2. \A row : row \notin Alive BY DEF Init, Alive, PickedRows, ShownRows
  <2>. QED BY <2>1, <2>2 DEF Init, OnceInv, PlaceInv, SourceFits, Numbered, OneCopy,
                          RowFinal, OneRow, OneLogin, ShownOnce
<1>2. OnceInv /\ PlaceInv' /\ [Next]_vars => OnceInv'
  <2>. SUFFICES ASSUME OnceInv, PlaceInv', [Next]_vars PROVE OnceInv'
    OBVIOUS
  <2>1. CASE Next
    <3>1. RowFinal' /\ OneRow' /\ OneLogin' /\ ShownOnce'
      BY <2>1, SenderOnce, ConsumerOnce, InsertOnce, ReaderRows, SelectOnce, DeleteOnce,
         ReplyOnce DEF Next
    <3>. QED BY <2>1, <3>1, CopiesKept DEF OnceInv
  <2>2. CASE UNCHANGED vars
    <3>1. Alive' = Alive /\ OneRow' /\ OneLogin' /\ ShownOnce'
      BY <2>2, RowsUnmoved DEF vars
    <3>2. RowFinal' /\ Numbered' /\ OneCopy'
      BY <2>2, <3>1 DEF vars, OnceInv, RowFinal, Numbered, OneCopy
    <3>. QED BY <3>1, <3>2 DEF OnceInv
  <2>. QED BY <2>1, <2>2
<1>. QED BY <1>1, <1>2, PlaceInvariant, PTL DEF Spec

\* No message is shown twice by itself: not by the attempts a sender gives up,
\* nor by rows of one hand-out, nor by logins that follow one another.
THEOREM DuplicatesHaveReasons == Spec => []DuplicatesExplained
<1>1. OnceInv => DuplicatesExplained
  <2>. SUFFICES ASSUME OnceInv, NEW x \in shown, NEW y \in shown, x # y,
                       MessageOf(x[1]) = MessageOf(y[1])
                PROVE  MessageOf(x[1]) \in repeated
    BY DEF DuplicatesExplained
  <2>1. x[1] \in Alive /\ y[1] \in Alive BY AliveIs
  <2>. QED BY <2>1 DEF OnceInv, OneRow, ShownOnce
<1>. QED BY <1>1, OnceInvariant, PTL
=============================================================================
