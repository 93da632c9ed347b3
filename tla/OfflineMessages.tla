--------------------------- MODULE OfflineMessages ---------------------------
(***************************************************************************)
(* The messages kept for one user who is not online.                       *)
(*                                                                         *)
(* A sender (one-to-one chat, group chat, or a proxy that no longer has    *)
(* the user) hands the message to RocketMQ and retries; consumer threads   *)
(* move what is in the queue to the MySQL table offlinemessage; a login    *)
(* selects the user's rows, deletes the user's rows and returns what it    *)
(* selected.  The three sides run in different processes and share only    *)
(* the broker and the table.                                               *)
(*                                                                         *)
(* Every attempt to send a message makes a copy with a key of its own, and *)
(* every hand-out of a copy to a consumer may make a row of its own.       *)
(***************************************************************************)
EXTENDS Integers, FiniteSets

CONSTANTS
  Messages,       \* the messages sent to the user
  Consumers,      \* consumer threads, of all ChatService processes
  Readers,        \* logins of the user that may overlap
  Retries,        \* send_msg_retries
  MaxDeliveries,  \* bound: how often the broker hands out the same copy
  Unreliable,     \* whether calls may fail and processes may die
  KeysUnique      \* whether the table has a unique index on the key column

ASSUME RetriesAssumption == Retries \in Nat \ {0}
ASSUME DeliveriesAssumption == MaxDeliveries \in Nat \ {0}
ASSUME ModesAssumption == Unreliable \in BOOLEAN /\ KeysUnique \in BOOLEAN

Copies == Messages \X (1..Retries)
Rows   == Copies \X (1..MaxDeliveries)
NoCopy == <<>>

ASSUME NoCopyAssumption == NoCopy \notin Copies

MessageOf(row) == row[1][1]

VARIABLES
  answer,    \* per message: what send() has told its caller
  attempt,   \* per message: attempts begun
  flying,    \* messages whose last attempt has not come back yet
  broker,    \* copies the broker holds and no consumer has acknowledged
  handouts,  \* per copy: how often it has been handed out
  hand,      \* per consumer: the copy it is working on
  stage,     \* per consumer: what it has done with it
  table,     \* rows of the user in offlinemessage
  phase,     \* per reader: its next step
  picked,    \* per reader: the rows it has selected
  shown,     \* rows a user has been shown, each with the login that did it
  sent,      \* history: copies that ever reached the broker
  dropped,   \* history: copies acknowledged although their INSERT had failed
  wiped,     \* history: rows deleted by a login that had not selected them
  unheard,   \* history: rows deleted by a login whose answer never arrived
  repeated   \* history: messages something happened to that may show them twice

senders   == <<answer, attempt, flying, sent>>
consumers == <<handouts, hand, stage, dropped>>
readers   == <<phase, picked, shown, wiped, unheard>>
vars == <<answer, attempt, flying, broker, handouts, hand, stage, table, phase,
          picked, shown, sent, dropped, wiped, unheard, repeated>>

Outcomes == IF Unreliable THEN BOOLEAN ELSE {TRUE}

Init ==
  /\ answer = [m \in Messages |-> "none"]
  /\ attempt = [m \in Messages |-> 0]
  /\ flying = {}
  /\ broker = {}
  /\ handouts = [k \in Copies |-> 0]
  /\ hand = [c \in Consumers |-> NoCopy]
  /\ stage = [c \in Consumers |-> "idle"]
  /\ table = {}
  /\ phase = [r \in Readers |-> "idle"]
  /\ picked = [r \in Readers |-> {}]
  /\ shown = {}
  /\ sent = {} /\ dropped = {} /\ wiped = {} /\ unheard = {} /\ repeated = {}

-----------------------------------------------------------------------------
(* The sender: RocketMQProducer::send.                                     *)

\* One attempt, with a new key, leaves the process and may reach the broker.
Attempt(m) ==
  /\ answer[m] = "none" /\ m \notin flying
  /\ attempt' = [attempt EXCEPT ![m] = @ + 1]
  /\ flying' = flying \cup {m}
  /\ repeated' = IF \E k \in sent : k[1] = m THEN repeated \cup {m} ELSE repeated
  /\ \E arrives \in Outcomes :
       LET new == IF arrives THEN {<<m, attempt[m] + 1>>} ELSE {}
       IN  broker' = broker \cup new /\ sent' = sent \cup new
  /\ UNCHANGED <<answer, table, consumers, readers>>

\* Mutant: the loop runs once more than it is told to.
ReturnOnceMore(m) ==
  /\ m \in flying
  /\ flying' = flying \ {m}
  /\ \E ok \in Outcomes :
       /\ ok => <<m, attempt[m]>> \in sent
       /\ answer' = [answer EXCEPT ![m] =
                       IF ok THEN "accepted"
                       ELSE IF attempt[m] > Retries THEN "refused" ELSE "none"]
  /\ UNCHANGED <<attempt, sent, broker, table, repeated, consumers, readers>>

\* Mutant: any result but an exception counts as sent.
ReturnUnchecked(m) ==
  /\ m \in flying
  /\ flying' = flying \ {m}
  /\ answer' = [answer EXCEPT ![m] = "accepted"]
  /\ UNCHANGED <<attempt, sent, broker, table, repeated, consumers, readers>>

\* It comes back: SEND_OK, or another status or an exception, also when the
\* copy did arrive.  The last attempt that fails is the answer.
Return(m) ==
  /\ m \in flying
  /\ flying' = flying \ {m}
  /\ \E ok \in Outcomes :
       /\ ok => <<m, attempt[m]>> \in sent
       /\ answer' = [answer EXCEPT ![m] =
                       IF ok THEN "accepted"
                       ELSE IF attempt[m] = Retries THEN "refused" ELSE "none"]
  /\ UNCHANGED <<attempt, sent, broker, table, repeated, consumers, readers>>

-----------------------------------------------------------------------------
(* The consumer: RocketMQMsgListener::consumeMessage.                      *)

\* Mutant: the consumer subscribes to a tag no user's messages carry.
DeliverTagged(c) == FALSE /\ UNCHANGED vars

\* The broker hands a copy to one thread of the consumer group at a time.
Deliver(c) ==
  /\ stage[c] = "idle"
  /\ \E k \in broker :
       /\ \A d \in Consumers : hand[d] # k
       /\ handouts[k] < MaxDeliveries
       /\ hand' = [hand EXCEPT ![c] = k]
       /\ handouts' = [handouts EXCEPT ![k] = @ + 1]
       /\ stage' = [stage EXCEPT ![c] = "insert"]
  /\ UNCHANGED <<broker, table, dropped, repeated, senders, readers>>

RowOf(c) == <<hand[c], handouts[hand[c]]>>
SameKey(k) == { row \in table : row[1] = k }

\* The row is inserted, or refused because of its key, or the statement fails.
Insert(c) ==
  /\ stage[c] = "insert"
  /\ \/ /\ KeysUnique => SameKey(hand[c]) = {}
        /\ table' = table \cup {RowOf(c)}
        /\ stage' = [stage EXCEPT ![c] = "stored"]
     \/ /\ KeysUnique /\ SameKey(hand[c]) # {}
        /\ stage' = [stage EXCEPT ![c] = "stored"]
        /\ UNCHANGED table
     \/ /\ Unreliable
        /\ stage' = [stage EXCEPT ![c] = "failed"]
        /\ UNCHANGED table
  /\ UNCHANGED <<broker, handouts, hand, dropped, repeated, senders, readers>>

\* Mutant: the listener answers RECONSUME_LATER.
AcknowledgeLater(c) ==
  /\ stage[c] \in {"stored", "failed"}
  /\ hand' = [hand EXCEPT ![c] = NoCopy]
  /\ stage' = [stage EXCEPT ![c] = "idle"]
  /\ UNCHANGED <<broker, dropped, handouts, table, repeated, senders, readers>>

\* Mutant: the copy is acknowledged as soon as it is received.
AcknowledgeEarly(c) ==
  /\ stage[c] # "idle"
  /\ broker' = broker \ {hand[c]}
  /\ hand' = [hand EXCEPT ![c] = NoCopy]
  /\ stage' = [stage EXCEPT ![c] = "idle"]
  /\ UNCHANGED <<dropped, handouts, table, repeated, senders, readers>>

\* CONSUME_SUCCESS, whatever insertMessage has returned.
Acknowledge(c) ==
  /\ stage[c] \in {"stored", "failed"}
  /\ broker' = broker \ {hand[c]}
  /\ dropped' = IF stage[c] = "failed" THEN dropped \cup {hand[c]} ELSE dropped
  /\ hand' = [hand EXCEPT ![c] = NoCopy]
  /\ stage' = [stage EXCEPT ![c] = "idle"]
  /\ UNCHANGED <<handouts, table, repeated, senders, readers>>

\* The process of the consumer dies: the broker will hand the copy out again.
Crash(c) ==
  /\ Unreliable
  /\ stage[c] # "idle"
  /\ handouts[hand[c]] < MaxDeliveries
  /\ repeated' = IF stage[c] = "stored" THEN repeated \cup {hand[c][1]} ELSE repeated
  /\ hand' = [hand EXCEPT ![c] = NoCopy]
  /\ stage' = [stage EXCEPT ![c] = "idle"]
  /\ UNCHANGED <<broker, handouts, dropped, table, senders, readers>>

-----------------------------------------------------------------------------
(* The login: ReadOfflineMessageInterface::run.                            *)

\* queryMessage: a SELECT that fails looks like an empty mailbox.
Select(r) ==
  /\ phase[r] = "idle"
  /\ \E ok \in Outcomes :
       picked' = [picked EXCEPT ![r] = IF ok THEN table ELSE {}]
  /\ repeated' = repeated \cup
       { MessageOf(row) : row \in picked'[r] \cap UNION { picked[x] : x \in Readers } }
  /\ phase' = [phase EXCEPT ![r] = "delete"]
  /\ UNCHANGED <<table, shown, wiped, unheard, broker, senders, consumers>>

\* removeMessage deletes all rows of the user.  It may also fail, and it may
\* fail after the server has executed it.
Delete(r) ==
  /\ phase[r] = "delete"
  /\ \E done \in Outcomes, ok \in Outcomes :
       /\ ok => done
       /\ table' = IF done THEN {} ELSE table
       /\ wiped' = IF done THEN wiped \cup (table \ picked[r]) ELSE wiped
       /\ IF ok
            THEN /\ phase' = [phase EXCEPT ![r] = "reply"]
                 /\ UNCHANGED <<picked, unheard>>
            ELSE /\ phase' = [phase EXCEPT ![r] = "idle"]
                 /\ picked' = [picked EXCEPT ![r] = {}]
                 /\ unheard' = IF done THEN unheard \cup picked[r] ELSE unheard
  /\ UNCHANGED <<shown, broker, repeated, senders, consumers>>

\* The rows travel back to the proxy and to the client, unless the call times
\* out, the connection is gone or another part of the login fails.
Reply(r) ==
  /\ phase[r] = "reply"
  /\ \E ok \in Outcomes :
       IF ok THEN shown' = shown \cup (picked[r] \X {r}) /\ UNCHANGED unheard
             ELSE unheard' = unheard \cup picked[r] /\ UNCHANGED shown
  /\ phase' = [phase EXCEPT ![r] = "idle"]
  /\ picked' = [picked EXCEPT ![r] = {}]
  /\ UNCHANGED <<wiped, table, broker, repeated, senders, consumers>>

Next ==
  \/ \E m \in Messages : Attempt(m) \/ Return(m)
  \/ \E c \in Consumers : Deliver(c) \/ Insert(c) \/ Acknowledge(c) \/ Crash(c)
  \/ \E r \in Readers : Select(r) \/ Delete(r) \/ Reply(r)

Spec == Init /\ [][Next]_vars

\* Calls return, the broker keeps handing out what it holds, consumer threads
\* keep working, and a login that has begun goes on.  Nobody has to send, and
\* processes need not die.
Fairness ==
  /\ \A m \in Messages : WF_vars(Attempt(m)) /\ WF_vars(Return(m))
  /\ \A c \in Consumers : WF_vars(Deliver(c) \/ Insert(c) \/ Acknowledge(c))
  /\ \A r \in Readers : WF_vars(Delete(r) \/ Reply(r))

FairSpec == Spec /\ Fairness

\* ...and the user logs in again and again, and not every DELETE fails.
LoyalSpec ==
  FairSpec /\ \A r \in Readers : WF_vars(Select(r)) /\ SF_vars(Delete(r) /\ table' = {})

-----------------------------------------------------------------------------
(* Properties.                                                             *)

\* Type invariant.
TypeOK ==
  /\ answer \in [Messages -> {"none", "accepted", "refused"}]
  /\ attempt \in [Messages -> 0..Retries]
  /\ flying \subseteq Messages
  /\ broker \subseteq Copies
  /\ handouts \in [Copies -> 0..MaxDeliveries]
  /\ hand \in [Consumers -> Copies \cup {NoCopy}]
  /\ stage \in [Consumers -> {"idle", "insert", "stored", "failed"}]
  /\ table \subseteq Rows
  /\ phase \in [Readers -> {"idle", "delete", "reply"}]
  /\ picked \in [Readers -> SUBSET Rows]
  /\ shown \subseteq Rows \X Readers
  /\ sent \subseteq Copies /\ dropped \subseteq Copies
  /\ wiped \subseteq Rows /\ unheard \subseteq Rows
  /\ repeated \subseteq Messages

Returned(row) == \E r \in Readers : <<row, r>> \in shown
OnItsWay(row) == \E r \in Readers : phase[r] = "reply" /\ row \in picked[r]

\* What became of a copy: it waits in the queue or in the table, is on its
\* way to the user or with him -- or one of three things happened to it.
Traced(k) ==
  \/ k \in broker
  \/ k \in dropped
  \/ \E n \in 1..MaxDeliveries :
       LET row == <<k, n>>
       IN  row \in table \/ OnItsWay(row) \/ Returned(row)
             \/ row \in wiped \/ row \in unheard

\* An accepted message is never forgotten: some copy of it is in the queue,
\* in the table, on its way or shown, unless the consumer ignored a failed
\* INSERT, a login deleted a row it had not selected (read_offline_message.cpp
\* 50 and 53), or the answer of the login that deleted it was lost.
AcceptedNotForgotten ==
  \A m \in Messages : answer[m] = "accepted" =>
    \E n \in 1..Retries : <<m, n>> \in sent /\ Traced(<<m, n>>)

\* A user sees a message twice only if an attempt was repeated although an
\* earlier one had arrived, if a consumer died between INSERT and
\* acknowledgement, or if two logins overlapped: retries, redeliveries and
\* ordinary logins do not duplicate by themselves.
DuplicatesExplained ==
  \A x, y \in shown :
    x # y /\ MessageOf(x[1]) = MessageOf(y[1]) => MessageOf(x[1]) \in repeated

\* Every copy leaves the queue: a dying consumer does not keep it for ever
\* and a failing INSERT does not block it.
QueueDrains == \A k \in Copies : [](k \in broker => <>(k \notin broker))

Inside(m) ==
  \/ \E k \in broker : k[1] = m
  \/ \E row \in table \cup UNION { picked[r] : r \in Readers } : MessageOf(row) = m

Place(m) ==
  IF \E x \in shown : MessageOf(x[1]) = m THEN "shown"
  ELSE IF Inside(m) THEN "inside"
  ELSE IF \E k \in sent : k[1] = m THEN "lost"
  ELSE "nowhere"

\* If the user keeps logging in, a message that got in is either shown or
\* lost in the end; it does not stay in the queue or in the table.
MailIsSettled ==
  \A m \in Messages : [](Place(m) = "inside" => <>(Place(m) # "inside"))

\* The queue, the table and the logins together keep the promises of Mailbox.
Promise == INSTANCE Mailbox WITH place <- [m \in Messages |-> Place(m)]
KeepsMailboxPromise == Promise!Spec

\* What read_offline_message.cpp:52 says: the messages that have been queried
\* are deleted -- those, and no others.
OnlyQueriedAreDeleted ==
  [][\A row \in table \ table' :
       \E r \in Readers : phase[r] = "delete" /\ phase'[r] # "delete"
                            /\ row \in picked[r]]_vars
=============================================================================
