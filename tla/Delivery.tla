------------------------------ MODULE Delivery ------------------------------
(***************************************************************************)
(* The way of a chat message from its sender's proxy to its receivers: the *)
(* handlers OneChat and GroupChat of ChatService, oneChat, groupChat and   *)
(* forwarded of the proxies, and the mailbox, on top of the sessions of    *)
(* Session, whose every step may come in between.                          *)
(*                                                                         *)
(* A one-to-one message for a user of the same proxy is pushed there.  Any *)
(* other message goes to ChatService, which reads the status of every      *)
(* receiver once -- of the members of a group in the database, of a single *)
(* receiver in the cache -- and then takes the receivers one by one: who   *)
(* was online is looked up in Redis and the message sent to his proxy, for *)
(* the others it goes to RocketMQ.  The first that fails ends the loop.    *)
(*                                                                         *)
(* The queue and the table are one step each here; OfflineMessages shows   *)
(* what happens inside them.  Receivers exist and senders may write to     *)
(* them: the other messages are refused before anything is done.           *)
(***************************************************************************)
EXTENDS Session

CONSTANTS
  Messages,   \* the messages sent
  Receivers,  \* per message: its receiver, or the members of its group
  Groups      \* the messages sent to a group

ASSUME ReceiversAssumption ==
  /\ Receivers \in [Messages -> SUBSET Users]
  /\ \A m \in Messages : Receivers[m] # {}
ASSUME GroupsAssumption ==
  /\ Groups \subseteq Messages
  /\ \A m \in Messages \ Groups : \E u \in Users : Receivers[m] = {u}

VARIABLES
  stage,      \* per message: what its handler does next
  via,        \* per message: the proxy of its sender
  told,       \* per message: what its sender has been told
  on,         \* per message: receivers ChatService has seen online
  rest,       \* per message: receivers it has not dealt with yet
  at,         \* per message and user: the proxy the copy is sent to
  fate,       \* per message and user: where the copy is
  mishaps,    \* number of faults and stale entries the messages have met
  hurt,       \* history: messages a fault or the end of a proxy has met
  stirred,    \* history: message and receiver who logged in or out in mid-loop
  overtaken,  \* history: message and receiver who read his mail in mid-way
  misled      \* history: message and what a stale cache entry made of it

handlers == <<stage, via, told, on, rest>>
copies   == <<at, fate>>
legend   == <<stirred, overtaken, misled>>
deliveryVars == <<vars, stage, via, told, on, rest, at, fate, mishaps, hurt,
                  stirred, overtaken, misled>>

InLoop == {"loop", "forward"}
Moving == {"away", "adrift", "queued"}
Done   == {"accepted", "refused", "lost"}
Wrongs == {"forwarded", "mailed", "refused", "unsaved"}

DeliveryInit ==
  /\ Init
  /\ stage = [m \in Messages |-> "none"]
  /\ via = [m \in Messages |-> NoHost]
  /\ told = [m \in Messages |-> "none"]
  /\ on = [m \in Messages |-> {}]
  /\ rest = [m \in Messages |-> {}]
  /\ at = [m \in Messages |-> [u \in Users |-> NoHost]]
  /\ fate = [m \in Messages |-> [u \in Users |-> "none"]]
  /\ mishaps = 0 /\ hurt = {} /\ stirred = {} /\ overtaken = {} /\ misled = {}

-----------------------------------------------------------------------------
(* Helpers.                                                                *)

\* What the client at c makes of a message the proxy pushes to u's entry.
Pushed(c, u) ==
  IF ~alive[c] THEN "unread"
  ELSE IF who[c] = u \/ (arg[c] = u /\ pc[c] = "load") THEN "shown"
  ELSE "misread"

Becomes(m, u, f) == fate' = [fate EXCEPT ![m][u] = f]

Goes(m, s) == stage' = [stage EXCEPT ![m] = s] /\ UNCHANGED <<via, told, on, rest>>

\* Mutant: the caller is not answered.
ConcludeSilently(m, v) ==
  /\ stage' = [stage EXCEPT ![m] = v]
  /\ via' = [via EXCEPT ![m] = NoHost]
  /\ on' = [on EXCEPT ![m] = {}]
  /\ rest' = [rest EXCEPT ![m] = {}]
  /\ UNCHANGED told

\* The handler ends with a verdict, which the proxy passes on if it still
\* waits for it.
Conclude(m, v) ==
  /\ stage' = [stage EXCEPT ![m] = v]
  /\ told' = [told EXCEPT ![m] = IF @ = "none" THEN v ELSE @]
  /\ via' = [via EXCEPT ![m] = NoHost]
  /\ on' = [on EXCEPT ![m] = {}]
  /\ rest' = [rest EXCEPT ![m] = {}]

\* Receiver u is dealt with; the loop goes on or is over.
Advance(m, u) ==
  \/ rest[m] = {u} /\ Conclude(m, "accepted")
  \/ /\ rest[m] # {u}
     /\ rest' = [rest EXCEPT ![m] = @ \ {u}]
     /\ stage' = [stage EXCEPT ![m] = "loop"]
     /\ UNCHANGED <<via, told, on>>

\* A proxy has dealt with a message forwarded to it.
Lands(m, u, f) == Becomes(m, u, f) /\ at' = [at EXCEPT ![m][u] = NoHost]

\* MaxFaults bounds all mishaps.
Mishap == faults + mishaps < MaxFaults /\ mishaps' = mishaps + 1

\* Something fails that could have worked.
Hurts(m) == Mishap /\ hurt' = hurt \cup {m}
NoFault  == UNCHANGED <<mishaps, hurt>>

\* An entry of the cache, which may be stale for good (module Presence), does
\* not say what is in the row: nothing fails, and the message goes wrong.
Misled(m, wrong) ==
  /\ Mishap /\ misled' = misled \cup {<<m, wrong>>}
  /\ UNCHANGED <<hurt, stirred, overtaken>>

-----------------------------------------------------------------------------
(* The sender's proxy: oneChat and groupChat.                              *)

Send(m) ==
  /\ stage[m] = "none" /\ told[m] = "none"
  /\ \E p \in Proxies : mode[p] # "down" /\ via' = [via EXCEPT ![m] = p]
  /\ stage' = [stage EXCEPT ![m] = IF m \in Groups THEN "ask" ELSE "look"]
  /\ UNCHANGED <<told, on, rest, copies, legend>> /\ NoFault /\ UNCHANGED vars

\* Mutant: who is not logged in at this proxy cannot be reached.
LookOnlyHere(m) ==
  /\ stage[m] = "look" /\ mode[via[m]] = "up"
  /\ \E u \in Receivers[m] :
       LET c == table[via[m]][u] IN
       \/ c # NoConn /\ Becomes(m, u, Pushed(c, u)) /\ Conclude(m, "accepted")
       \/ c = NoConn /\ Conclude(m, "refused") /\ UNCHANGED fate
  /\ UNCHANGED <<at, legend>> /\ NoFault /\ UNCHANGED vars

\* connMutex_ is held until the message has been put out.
Look(m) ==
  /\ stage[m] = "look" /\ mode[via[m]] = "up"
  /\ \E u \in Receivers[m] :
       LET c == table[via[m]][u] IN
       \/ c # NoConn /\ Becomes(m, u, Pushed(c, u)) /\ Conclude(m, "accepted")
       \/ c = NoConn /\ Goes(m, "ask") /\ UNCHANGED fate
  /\ UNCHANGED <<at, legend>> /\ NoFault /\ UNCHANGED vars

\* No answer in five seconds: the sender is told a success, and ChatService
\* goes on, or has never had the request.
GiveUp(m) ==
  /\ stage[m] \in {"ask"} \cup InLoop /\ told[m] = "none"
  /\ \/ told' = [told EXCEPT ![m] = "assumed"] /\ UNCHANGED <<stage, via, on, rest>>
     \/ /\ stage[m] = "ask"
        /\ stage' = [stage EXCEPT ![m] = "lost"]
        /\ told' = [told EXCEPT ![m] = "assumed"]
        /\ via' = [via EXCEPT ![m] = NoHost]
        /\ UNCHANGED <<on, rest>>
  /\ UNCHANGED <<copies, legend>> /\ Hurts(m) /\ UNCHANGED vars

-----------------------------------------------------------------------------
(* ChatService: OneChatInterface::run and GroupChatInterface::run.         *)

\* Mutant: the states are kept without the users they belong to.
AskForStates(m) ==
  /\ stage[m] = "ask"
  /\ on' = [on EXCEPT ![m] = { row[u] : u \in Receivers[m] }]
  /\ rest' = [rest EXCEPT ![m] = Receivers[m]]
  /\ stage' = [stage EXCEPT ![m] = "loop"]
  /\ UNCHANGED <<told, via, copies, legend>> /\ NoFault /\ UNCHANGED vars

\* Mutant: everybody counts as offline.
AskNobody(m) ==
  /\ stage[m] = "ask"
  /\ rest' = [rest EXCEPT ![m] = Receivers[m]]
  /\ stage' = [stage EXCEPT ![m] = "loop"]
  /\ UNCHANGED <<on, told, via, copies, legend>> /\ NoFault /\ UNCHANGED vars

\* Mutant: everybody counts as online.
AskEverybody(m) ==
  /\ stage[m] = "ask"
  /\ on' = [on EXCEPT ![m] = Receivers[m]]
  /\ rest' = [rest EXCEPT ![m] = Receivers[m]]
  /\ stage' = [stage EXCEPT ![m] = "loop"]
  /\ UNCHANGED <<told, via, copies, legend>> /\ NoFault /\ UNCHANGED vars

OnlineIn(m) == { u \in Receivers[m] : row[u] = Online }

Sees(m, S) ==
  /\ on' = [on EXCEPT ![m] = S]
  /\ rest' = [rest EXCEPT ![m] = Receivers[m]]
  /\ stage' = [stage EXCEPT ![m] = "loop"]
  /\ UNCHANGED <<told, via>>

\* The states of all members are read with the group; that of a single receiver
\* is what queryUserState has from the cache, if there is an entry.  An entry
\* "not_exist" of the receiver, or of the sender of a group message, ends it.
\* A look-up that fails reads the same, a list of members that fails as empty.
AskStates(m) ==
  /\ stage[m] = "ask"
  /\ \/ Sees(m, OnlineIn(m)) /\ UNCHANGED legend /\ NoFault
     \/ /\ m \notin Groups /\ Sees(m, Receivers[m] \ OnlineIn(m))
        /\ Misled(m, IF OnlineIn(m) = {} THEN "forwarded" ELSE "mailed")
     \/ Conclude(m, "refused") /\ Misled(m, "refused")
     \/ Conclude(m, "refused") /\ UNCHANGED legend /\ Hurts(m)
     \/ m \in Groups /\ Conclude(m, "accepted") /\ UNCHANGED legend /\ Hurts(m)
  /\ UNCHANGED copies /\ UNCHANGED vars

\* quetyUserHost, which gives 0.0.0.0:0 for no entry and for a failed GET.
ReadHost(m, u) ==
  /\ stage[m] = "loop" /\ u \in rest[m] \cap on[m]
  /\ \/ /\ host[u] # NoHost
        /\ at' = [at EXCEPT ![m][u] = host[u]]
        /\ Goes(m, "forward") /\ NoFault
     \/ host[u] = NoHost /\ Conclude(m, "refused") /\ UNCHANGED at /\ NoFault
     \/ Hurts(m) /\ Conclude(m, "refused") /\ UNCHANGED at
  /\ UNCHANGED <<fate, legend>> /\ UNCHANGED vars

\* Mutant: the message stays in the buffer of the connection.
ForwardUnsent(m, u) ==
  /\ stage[m] = "forward" /\ u \in rest[m] /\ at[m][u] # NoHost
  /\ Lands(m, u, "none") /\ Advance(m, u)
  /\ UNCHANGED legend /\ NoFault /\ UNCHANGED vars

\* The process that accepts the connection need not live to read from it.
Forward(m, u) ==
  /\ stage[m] = "forward" /\ u \in rest[m] /\ at[m][u] # NoHost
  /\ \/ /\ mode[at[m][u]] # "down"
        /\ Becomes(m, u, "away") /\ Advance(m, u) /\ UNCHANGED at /\ NoFault
     \/ /\ mode[at[m][u]] = "down"
        /\ Lands(m, u, "none") /\ Conclude(m, "refused") /\ NoFault
     \/ Hurts(m) /\ Lands(m, u, "none") /\ Conclude(m, "refused")
  /\ UNCHANGED legend /\ UNCHANGED vars

\* gProducer->send.  A send that fails may have reached the broker.
Save(m, u) ==
  /\ stage[m] = "loop" /\ u \in rest[m] \ on[m]
  /\ \/ Becomes(m, u, "queued") /\ Advance(m, u) /\ NoFault
     \/ /\ Hurts(m) /\ Conclude(m, "refused")
        /\ Becomes(m, u, "queued") \/ UNCHANGED fate
  /\ UNCHANGED <<at, legend>> /\ UNCHANGED vars

-----------------------------------------------------------------------------
(* The receiver's proxy: forwarded; and the mailbox.                       *)

\* Mutant: a forwarded message is pushed to whoever is logged in at the proxy.
ForwardedAnywhere(m, u) ==
  /\ fate[m][u] = "away" /\ mode[at[m][u]] = "up"
  /\ \E c \in Local(at[m][u]) : pc[c] = "ready" /\ who[c] # NoUser /\ Lands(m, u, Pushed(c, u))
  /\ UNCHANGED <<handlers, legend>> /\ NoFault /\ UNCHANGED vars

\* Mutant: nothing is saved for a user who has gone.
ForwardedOnly(m, u) ==
  /\ fate[m][u] = "away" /\ mode[at[m][u]] = "up"
  /\ LET c == table[at[m][u]][u] IN
       Lands(m, u, IF c # NoConn THEN Pushed(c, u) ELSE "lost")
  /\ UNCHANGED <<handlers, legend>> /\ NoFault /\ UNCHANGED vars

\* Mutant: the message waits for its user to come back to this proxy.
ForwardedHere(m, u) ==
  /\ fate[m][u] = "away" /\ mode[at[m][u]] = "up"
  /\ LET c == table[at[m][u]][u] IN c # NoConn /\ Lands(m, u, Pushed(c, u))
  /\ UNCHANGED <<handlers, legend>> /\ NoFault /\ UNCHANGED vars

Forwarded(m, u) ==
  /\ fate[m][u] = "away" /\ mode[at[m][u]] = "up"
  /\ LET c == table[at[m][u]][u] IN
       \/ c # NoConn /\ Lands(m, u, Pushed(c, u))
       \/ c = NoConn /\ Becomes(m, u, "adrift") /\ UNCHANGED at
  /\ UNCHANGED <<handlers, legend>> /\ NoFault /\ UNCHANGED vars

\* SaveOfflineMessage by RPC, which asks the cache for the receiver; whether it
\* works is not looked at.
SaveForwarded(m, u) ==
  /\ fate[m][u] = "adrift"
  /\ \/ Lands(m, u, "queued") /\ UNCHANGED legend /\ NoFault
     \/ Lands(m, u, "lost") /\ Misled(m, "unsaved")
     \/ Lands(m, u, "lost") /\ UNCHANGED legend /\ Hurts(m)
  /\ UNCHANGED handlers /\ UNCHANGED vars

\* A consumer stores it; an INSERT that fails is acknowledged all the same.
Consume(m, u) ==
  /\ fate[m][u] = "queued"
  /\ \/ Becomes(m, u, "stored") /\ NoFault
     \/ Becomes(m, u, "lost") /\ Hurts(m)
  /\ UNCHANGED <<handlers, at, legend>> /\ UNCHANGED vars

-----------------------------------------------------------------------------
(* What a step of the sessions does to the messages.                       *)

Stopped(p)  == p \in Proxies /\ mode[p] # "down" /\ mode'[p] = "down"
Loads(c, u) == pc[c] = "load" /\ pc'[c] = "ready" /\ arg[c] = u
Pairs       == Messages \X Users
UnderWay(m, u) ==
  /\ u \in Receivers[m]
  /\ fate[m][u] \in Moving \/ (fate[m][u] = "none" /\ stage[m] \in InLoop)

\* What the login of u that ends makes of his mail: his client shows it, but
\* not if it has gone or is told of a failure.  In that case the mail may not
\* have been read at all.
Read(u) ==
  IF \E c \in Conns : Loads(c, u) /\ who'[c] = u /\ alive[c] THEN {"shown"}
  ELSE IF \E c \in Conns : Loads(c, u) /\ who'[c] = u THEN {"unread"}
  ELSE IF \E c \in Conns : Loads(c, u) THEN {"stored", "unread"}
  ELSE {"stored"}

\* A copy in a process that ends is gone, except that the call that saves it
\* may be on its way.
Fates(m, u) ==
  CASE fate[m][u] = "away"   -> IF Stopped(at[m][u]) THEN {"lost"} ELSE {"away"}
    [] fate[m][u] = "adrift" -> IF Stopped(at[m][u]) THEN {"lost", "adrift"} ELSE {"adrift"}
    [] fate[m][u] = "stored" -> Read(u)
    [] OTHER -> {fate[m][u]}

FateFollows ==
  \E f \in [Pairs -> UNION { Fates(x[1], x[2]) : x \in Pairs }] :
    /\ \A x \in Pairs : f[x] \in Fates(x[1], x[2])
    /\ fate' = [m \in Messages |-> [u \in Users |-> f[<<m, u>>]]]
    /\ at' = [m \in Messages |-> [u \in Users |->
                IF fate[m][u] \in {"away", "adrift"} /\ f[<<m, u>>] = "lost"
                  THEN NoHost ELSE at[m][u]]]

\* A request the proxy had not handled is as good as not sent; nobody waits
\* for the answer to another.
SendersFollow ==
  /\ stage' = [m \in Messages |->
       IF stage[m] = "look" /\ Stopped(via[m]) THEN "none" ELSE stage[m]]
  /\ told' = [m \in Messages |->
       IF stage[m] \in {"ask"} \cup InLoop /\ told[m] = "none" /\ Stopped(via[m])
         THEN "broken" ELSE told[m]]
  /\ via' = [m \in Messages |-> IF Stopped(via[m]) THEN NoHost ELSE via[m]]

LegendFollows ==
  /\ hurt' = hurt \cup { m \in Messages : \E u \in Users :
                           fate[m][u] # "lost" /\ fate'[m][u] = "lost" }
  /\ stirred' = stirred \cup { x \in Pairs : stage[x[1]] \in InLoop /\ row'[x[2]] # row[x[2]] }
  /\ overtaken' = overtaken \cup { x \in Pairs : /\ UnderWay(x[1], x[2])
                                                 /\ \E c \in Conns : Loads(c, x[2]) }

MessagesFollow ==
  /\ faults' + mishaps <= MaxFaults
  /\ FateFollows /\ SendersFollow /\ LegendFollows
  /\ UNCHANGED <<on, rest, mishaps, misled>>

SessionStep == Next /\ MessagesFollow

-----------------------------------------------------------------------------
Handler(m) ==
  \/ Look(m) \/ AskStates(m)
  \/ \E u \in Users : ReadHost(m, u) \/ Forward(m, u) \/ Save(m, u)

Carry(m, u) == Forwarded(m, u) \/ SaveForwarded(m, u) \/ Consume(m, u)

DeliveryNext ==
  \/ SessionStep
  \/ \E m \in Messages : Send(m) \/ Handler(m) \/ GiveUp(m)
  \/ \E m \in Messages, u \in Users : Carry(m, u)

DeliverySpec == DeliveryInit /\ [][DeliveryNext]_deliveryVars

\* Handlers run on, forwarded messages are read, consumers work.
DeliveryFairness ==
  /\ \A c \in Conns : WF_deliveryVars(Handle(c) /\ MessagesFollow)
  /\ \A p \in Proxies : WF_deliveryVars(Shutdown(p) /\ MessagesFollow)
  /\ \A m \in Messages : WF_deliveryVars(Handler(m))
  /\ \A m \in Messages, u \in Users : WF_deliveryVars(Carry(m, u))

FairDeliverySpec == DeliverySpec /\ DeliveryFairness

-----------------------------------------------------------------------------
(* Properties.                                                             *)

\* Type invariant.
DeliveryTypeOK ==
  /\ TypeOK
  /\ stage \in [Messages -> {"none", "look", "ask"} \cup InLoop \cup Done]
  /\ via \in [Messages -> Proxies \cup {NoHost}]
  /\ told \in [Messages -> {"none", "accepted", "refused", "assumed", "broken"}]
  /\ on \in [Messages -> SUBSET Users]
  /\ rest \in [Messages -> SUBSET Users]
  /\ at \in [Messages -> [Users -> Proxies \cup {NoHost}]]
  /\ fate \in [Messages -> [Users -> {"none", "stored", "shown", "unread", "misread", "lost"}
                                       \cup Moving]]
  /\ mishaps \in 0..MaxFaults
  /\ hurt \subseteq Messages
  /\ stirred \subseteq Pairs /\ overtaken \subseteq Pairs
  /\ misled \subseteq Messages \X Wrongs

\* A sender who is told that his message is accepted can rely on it: every
\* receiver's copy is with him, in his mailbox or moving towards one of them,
\* or was put out to a client that had just gone -- unless a fault or the end
\* of a proxy met the message, or the call that was to save it was told by the
\* cache that there is no such account.
AcceptedIsOnItsWay ==
  \A m \in Messages \ hurt : told[m] = "accepted" /\ <<m, "unsaved">> \notin misled =>
    \A u \in Receivers[m] : fate[m][u] \notin {"none", "lost"}

\* A push goes to the user it is for: nobody reads another's messages, except
\* those of accounts whose session the proxies have lost track of.
NobodyElseReads ==
  \A m \in Messages, u \in Users : fate[m][u] = "misread" => u \in upset

\* A message is refused only if one of its receivers logged in or out between
\* the look at his status and the look at his proxy, if a stale cache entry
\* had him online or an account not exist, or by a fault.
RefusalExplained ==
  \A m \in Messages \ hurt : stage[m] = "refused" =>
    \/ \E u \in Receivers[m] : <<m, u>> \in stirred \/ u \in upset
    \/ \E wrong \in {"forwarded", "refused"} : <<m, wrong>> \in misled

InSession(u) ==
  \E c \in Conns : /\ pc[c] = "ready" /\ who[c] = u /\ mode[Home[c]] = "up"
                   /\ Entry(c, u) = c /\ row[u] = Online /\ host[u] = Home[c]

\* A user who is logged in, at a proxy not being shut down, has no mail
\* waiting, except messages during whose way (decided on, not stored yet) his
\* login read the mailbox; forwarded saves such a message for a user who may
\* be online elsewhere by then.  A message a stale cache entry has sent to the
\* mailbox of a user who is online waits there.
MailWaitsOnlyIfOvertaken ==
  \A m \in Messages, u \in Users \ upset :
    fate[m][u] = "stored" /\ InSession(u) =>
      <<m, u>> \in overtaken \/ <<m, "mailed">> \in misled

\* Handlers, sessions and mailbox together keep the promises of Post; a copy
\* that a faulty look-up left out of an accepted message counts as gone.
Verdict(m) == IF stage[m] \in {"accepted", "refused"} THEN stage[m] ELSE "none"
PlaceOf(f) == CASE f = "none" -> "nowhere"
                [] f \in {"shown", "misread"} -> "shown"
                [] f \in {"unread", "lost"} -> "gone"
                [] OTHER -> "inside"
LeftOut(m, u) == /\ stage[m] = "accepted" /\ m \in hurt
                 /\ u \in Receivers[m] /\ fate[m][u] = "none"
Promise == INSTANCE Post WITH
  verdict <- [m \in Messages |-> Verdict(m)],
  place <- [m \in Messages |-> [u \in Users |->
              IF LeftOut(m, u) THEN "gone" ELSE PlaceOf(fate[m][u])]]
KeepsPostPromise == Promise!Spec

\* A sender whose proxy lives on hears of his message.
SendersAreTold ==
  \A m \in Messages :
    (stage[m] # "none" /\ told[m] = "none") ~> (told[m] # "none" \/ stage[m] = "none")

\* No copy is on its way for ever.
CopiesArrive ==
  \A m \in Messages, u \in Users :
    (fate[m][u] \in Moving) ~> (fate[m][u] \notin Moving)
=============================================================================
