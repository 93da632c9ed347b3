---------------------------- MODULE DeliveryProofs ----------------------------
(***************************************************************************)
(* Proofs about Delivery, which build on the invariant of SessionProofs:   *)
(* every step of Delivery is a step of the sessions or leaves them alone.  *)
(***************************************************************************)
EXTENDS Delivery, SessionProofs

Stages == {"none", "look", "ask"} \cup InLoop \cup Done
Fate   == {"none", "stored", "shown", "unread", "misread", "lost"} \cup Moving
Tellings == {"none", "accepted", "refused", "assumed", "broken"}

-----------------------------------------------------------------------------
(* The sessions beneath.                                                   *)

LEMMA Beneath == [DeliveryNext]_deliveryVars => [Next]_vars
BY DEF DeliveryNext, deliveryVars, SessionStep, Handler, Carry, Send, Look, GiveUp,
       AskStates, ReadHost, Forward, Save, Forwarded, SaveForwarded, Consume

LEMMA IInvStep == IInv /\ [Next]_vars => IInv'
BY TypeStep, LocalStep, LateStep, TableStep, EntriesStep, LiveStep, OnlineStep DEF IInv

\* What a session step does to a copy.
LEMMA SessionStepFates ==
  ASSUME DeliveryTypeOK, SessionStep, NEW m \in Messages, NEW u \in Users
  PROVE  /\ fate'[m][u] \in Fates(m, u)
         /\ at'[m][u] \in {at[m][u], NoHost}
         /\ fate[m][u] \in {"none", "queued"} => at'[m][u] = at[m][u]
         /\ fate'[m][u] # "lost" => at'[m][u] = at[m][u]
<1>1. PICK f \in [Pairs -> UNION { Fates(x[1], x[2]) : x \in Pairs }] :
        /\ \A x \in Pairs : f[x] \in Fates(x[1], x[2])
        /\ fate' = [n \in Messages |-> [v \in Users |-> f[<<n, v>>]]]
        /\ at' = [n \in Messages |-> [v \in Users |->
                    IF fate[n][v] \in {"away", "adrift"} /\ f[<<n, v>>] = "lost"
                      THEN NoHost ELSE at[n][v]]]
  BY DEF SessionStep, MessagesFollow, FateFollows
<1>2. <<m, u>> \in Pairs /\ f[<<m, u>>] \in Fates(m, u)
  BY <1>1 DEF Pairs
<1>. QED BY <1>1, <1>2

LEMMA FatesType ==
  ASSUME DeliveryTypeOK, NEW m \in Messages, NEW u \in Users
  PROVE  /\ Fates(m, u) \subseteq Fate
         /\ fate[m][u] \notin {"away", "adrift", "stored"} => Fates(m, u) = {fate[m][u]}
         /\ fate[m][u] \in {"away", "adrift"} => Fates(m, u) \subseteq {fate[m][u], "lost"}
         /\ fate[m][u] = "stored" => Fates(m, u) \subseteq {"stored", "shown", "unread"}
BY DEF DeliveryTypeOK, Fates, Read, Fate, Moving

LEMMA PushedType == ASSUME NEW c, NEW u PROVE Pushed(c, u) \in {"unread", "shown", "misread"}
BY DEF Pushed

-----------------------------------------------------------------------------
(* More about the sessions: upset accounts stay upset, where another user  *)
(* is changes with his status only, and a process that is down has no      *)
(* connections.                                                            *)

DownFits == \A c \in Conns : mode[Home[c]] = "down" => pc[c] = "none"

Quiet == /\ upset \subseteq upset' /\ DownFits'
         /\ \A u \in Users \ upset' : row'[u] = row[u] => host'[u] = host[u]

LEMMA QuietStep ==
  ASSUME IInv, DownFits, [Next]_vars
  PROVE  Quiet
<1>. USE HomeAssumption, ConnsAssumption
     DEF IInv, TypeOK, Quiet, DownFits, Online, Offline, Goto, Answer, Gone, Fault,
         service, coros, procs, env, vars
<1>1. ASSUME NEW c \in Conns, Client(c) PROVE Quiet
  BY <1>1 DEF Client, Connect, Exchange, Request, HangUp
<1>2. ASSUME NEW c \in Conns, LoginRpc(c) PROVE Quiet
  BY <1>2 DEF LoginRpc, Admit, TimeOut, GoWrong
<1>3. ASSUME NEW c \in Conns, Insert(c) \/ Load(c) PROVE Quiet
  BY <1>3 DEF Insert, Load
<1>4. ASSUME NEW c \in Conns, LogoutRpc(c) PROVE Quiet
  BY <1>4 DEF LogoutRpc, CallLogout, Retire, Refuse, TimeOut, GoWrong
<1>5. ASSUME NEW c \in Conns, Erase(c) \/ CloseErase(c) PROVE Quiet
  BY <1>5 DEF Erase, CloseErase
<1>6. ASSUME NEW c \in Conns, CloseRpc(c) PROVE Quiet
  BY <1>6 DEF CloseRpc, CallLogout, Retire, Refuse, TimeOut, GoWrong
<1>7. ASSUME NEW p \in Proxies, ResetRpc(p) PROVE Quiet
  BY <1>7 DEF ResetRpc, CallLogout, Retire, Refuse, TimeOut, GoWrong
<1>8. ASSUME NEW p \in Proxies, Interrupt(p) \/ Restart(p) PROVE Quiet
  BY <1>8 DEF Interrupt, Restart
<1>9. ASSUME NEW p \in Proxies, Exit(p) \/ Crash(p) PROVE Quiet
  BY <1>9 DEF Exit, Crash, Stop
<1>10. ASSUME NEW call \in late, ExecuteLate(call) PROVE Quiet
  BY <1>10 DEF ExecuteLate, Admit, Retire, Refuse
<1>11. CASE UNCHANGED vars
  BY <1>11
<1>. QED BY <1>1, <1>2, <1>3, <1>4, <1>5, <1>6, <1>7, <1>8, <1>9, <1>10, <1>11
         DEF Next, Handle, Shutdown

\* The proxy recorded for a user who is online is running.
LEMMA OnlineWhere ==
  ASSUME IInv, DownFits, NEW u \in Users \ upset, row[u] = Online
  PROVE  host[u] \in Proxies /\ mode[host[u]] # "down"
<1>1. PICK c \in Conns : Keeper(c, u)
  BY DEF IInv, OnlineFits
<1>. QED BY <1>1, HomeAssumption DEF Keeper, Live, Holds, Pending, DownFits

-----------------------------------------------------------------------------
(* Types.                                                                  *)

HandlersType ==
  /\ stage \in [Messages -> Stages] /\ via \in [Messages -> Proxies \cup {NoHost}]
  /\ told \in [Messages -> Tellings]
  /\ on \in [Messages -> SUBSET Users] /\ rest \in [Messages -> SUBSET Users]
FateType == fate \in [Messages -> [Users -> Fate]]
AtType   == at \in [Messages -> [Users -> Proxies \cup {NoHost}]]
RestType == /\ mishaps \in 0..MaxFaults /\ hurt \subseteq Messages
            /\ stirred \subseteq Pairs /\ overtaken \subseteq Pairs
            /\ misled \subseteq Messages \X Wrongs

LEMMA TypeParts ==
  DeliveryTypeOK <=> TypeOK /\ HandlersType /\ FateType /\ AtType /\ RestType
BY DEF DeliveryTypeOK, HandlersType, FateType, AtType, RestType, Stages, Tellings, Fate

LEMMA HandlersStep ==
  ASSUME HandlersType, NEW m \in Messages
  PROVE  /\ \A s \in Stages : Goes(m, s) => HandlersType'
         /\ \A v \in {"accepted", "refused"} : Conclude(m, v) => HandlersType'
         /\ \A u \in Users : Advance(m, u) => HandlersType'
<1>. USE DEF HandlersType, Stages, Done, InLoop, Tellings
<1>1. ASSUME NEW s \in Stages, Goes(m, s) PROVE HandlersType'
  BY <1>1 DEF Goes
<1>2. ASSUME NEW v \in {"accepted", "refused"}, Conclude(m, v) PROVE HandlersType'
  BY <1>2 DEF Conclude
<1>3. ASSUME NEW u \in Users, Advance(m, u) PROVE HandlersType'
  BY <1>2, <1>3 DEF Advance
<1>. QED BY <1>1, <1>2, <1>3

LEMMA CopyStep ==
  ASSUME FateType, AtType, NEW m \in Messages, NEW u \in Users, NEW f \in Fate
  PROVE  /\ Becomes(m, u, f) => FateType'
         /\ Lands(m, u, f) => FateType' /\ AtType'
<1>1. ASSUME Becomes(m, u, f) PROVE FateType'
  BY <1>1 DEF FateType, Becomes
<1>2. ASSUME at' = [at EXCEPT ![m][u] = NoHost] PROVE AtType'
  BY <1>2 DEF AtType
<1>. QED BY <1>1, <1>2 DEF Lands

LEMMA MishapStep ==
  ASSUME TypeOK, RestType, Mishap
  PROVE  mishaps' \in 0..MaxFaults
BY FaultAssumption DEF Mishap, RestType, TypeOK

LEMMA FaultStep ==
  ASSUME TypeOK, RestType, UNCHANGED legend, NEW m \in Messages, Hurts(m) \/ NoFault
  PROVE  RestType'
<1>1. CASE Hurts(m)
  BY <1>1, MishapStep DEF Hurts, RestType, legend, Pairs
<1>2. CASE NoFault
  BY <1>2 DEF NoFault, RestType, legend, Pairs
<1>. QED BY <1>1, <1>2

LEMMA MisledStep ==
  ASSUME TypeOK, RestType, NEW m \in Messages, NEW wrong \in Wrongs, Misled(m, wrong)
  PROVE  RestType'
BY MishapStep DEF Misled, RestType, Pairs

LEMMA DeliveryTypeStep ==
  ASSUME IInv, DeliveryTypeOK, [DeliveryNext]_deliveryVars
  PROVE  DeliveryTypeOK'
<1>1. TypeOK'
  BY Beneath, IInvStep DEF IInv
<1>2. TypeOK /\ HandlersType /\ FateType /\ AtType /\ RestType
  BY TypeParts
<1>3. SUFFICES HandlersType' /\ FateType' /\ AtType' /\ RestType'
  BY <1>1 DEF DeliveryTypeOK, HandlersType, FateType, AtType, RestType, Stages, Tellings, Fate
<1>. USE <1>2
<1>4. UNCHANGED handlers => HandlersType'
  BY DEF handlers, HandlersType
<1>5. (UNCHANGED fate => FateType') /\ (UNCHANGED at => AtType')
  BY DEF FateType, AtType
<1>6. CASE SessionStep
  <2>1. FateType' /\ AtType'
    <3>1. \A m \in Messages, u \in Users :
            fate'[m][u] \in Fate /\ at'[m][u] \in Proxies \cup {NoHost}
      BY <1>6, SessionStepFates, FatesType DEF AtType
    <3>2. /\ fate' = [m \in Messages |-> [u \in Users |-> fate'[m][u]]]
          /\ at' = [m \in Messages |-> [u \in Users |-> at'[m][u]]]
      BY <1>6 DEF SessionStep, MessagesFollow, FateFollows
    <3>. QED BY <3>1, <3>2 DEF FateType, AtType
  <2>2. HandlersType'
    BY <1>6 DEF SessionStep, MessagesFollow, SendersFollow, HandlersType, Stages, Tellings
  <2>3. RestType'
    BY <1>6 DEF SessionStep, MessagesFollow, LegendFollows, RestType, Pairs
  <2>. QED BY <2>1, <2>2, <2>3
<1>. USE DEF Stages, InLoop, Done, Fate, Moving, copies
<1>7. ASSUME NEW m \in Messages, Send(m) PROVE HandlersType' /\ FateType' /\ AtType' /\ RestType'
  BY <1>5, <1>7, FaultStep DEF Send, HandlersType
<1>8. ASSUME NEW m \in Messages, GiveUp(m) PROVE HandlersType' /\ FateType' /\ AtType' /\ RestType'
  BY <1>5, <1>8, FaultStep DEF GiveUp, HandlersType, Tellings
<1>9. ASSUME NEW m \in Messages, Look(m) PROVE HandlersType' /\ FateType' /\ AtType' /\ RestType'
  <2>1. RestType' /\ AtType'
    BY <1>5, <1>9, FaultStep DEF Look, legend
  <2>2. PICK u \in Receivers[m] :
          LET c == table[via[m]][u] IN
          \/ c # NoConn /\ Becomes(m, u, Pushed(c, u)) /\ Conclude(m, "accepted")
          \/ c = NoConn /\ Goes(m, "ask") /\ UNCHANGED fate
    BY <1>9 DEF Look
  <2>3. u \in Users
    BY ReceiversAssumption
  <2>. QED BY <1>5, <2>1, <2>2, <2>3, HandlersStep, CopyStep, PushedType
<1>10. ASSUME NEW m \in Messages, AskStates(m) PROVE HandlersType' /\ FateType' /\ AtType' /\ RestType'
  <2>1. AtType' /\ FateType'
    BY <1>5, <1>10 DEF AskStates
  <2>2. RestType'
    BY <1>10, FaultStep, MisledStep DEF AskStates, Wrongs
  <2>3. ASSUME NEW S \in SUBSET Users, Sees(m, S) PROVE HandlersType'
    BY <2>3, ReceiversAssumption DEF Sees, HandlersType
  <2>4. OnlineIn(m) \subseteq Users
    BY ReceiversAssumption DEF OnlineIn
  <2>5. HandlersType'
    BY <1>10, <2>3, <2>4, HandlersStep, ReceiversAssumption DEF AskStates
  <2>. QED BY <2>1, <2>2, <2>5
<1>11. ASSUME NEW m \in Messages, NEW u \in Users, ReadHost(m, u)
       PROVE  HandlersType' /\ FateType' /\ AtType' /\ RestType'
  <2>1. RestType' /\ FateType' /\ HandlersType'
    BY <1>5, <1>11, FaultStep, HandlersStep DEF ReadHost, legend
  <2>2. AtType'
    BY <1>5, <1>11 DEF ReadHost, TypeOK, AtType
  <2>. QED BY <2>1, <2>2
<1>12. ASSUME NEW m \in Messages, NEW u \in Users, Forward(m, u)
       PROVE  HandlersType' /\ FateType' /\ AtType' /\ RestType'
  BY <1>5, <1>12, FaultStep, HandlersStep, CopyStep DEF Forward
<1>13. ASSUME NEW m \in Messages, NEW u \in Users, Save(m, u)
       PROVE  HandlersType' /\ FateType' /\ AtType' /\ RestType'
  BY <1>5, <1>13, FaultStep, HandlersStep, CopyStep DEF Save, legend
<1>14. ASSUME NEW m \in Messages, NEW u \in Users, Forwarded(m, u)
       PROVE  HandlersType' /\ FateType' /\ AtType' /\ RestType'
  <2>1. RestType' /\ HandlersType'
    BY <1>4, <1>14, FaultStep DEF Forwarded
  <2>. QED BY <1>5, <1>14, <2>1, CopyStep, PushedType DEF Forwarded
<1>15. ASSUME NEW m \in Messages, NEW u \in Users, SaveForwarded(m, u) \/ Consume(m, u)
       PROVE  HandlersType' /\ FateType' /\ AtType' /\ RestType'
  <2>1. RestType' /\ HandlersType'
    BY <1>4, <1>15, FaultStep, MisledStep DEF SaveForwarded, Consume, Wrongs, legend, handlers
  <2>. QED BY <1>5, <1>15, <2>1, CopyStep DEF SaveForwarded, Consume
<1>16. CASE UNCHANGED deliveryVars
  BY <1>4, <1>5, <1>16 DEF deliveryVars, handlers, RestType, Pairs
<1>. QED BY <1>6, <1>7, <1>8, <1>9, <1>10, <1>11, <1>12, <1>13, <1>14, <1>15, <1>16
         DEF DeliveryNext, Handler, Carry

-----------------------------------------------------------------------------
(* The handlers.                                                           *)

\* Why a copy may be lost.
Excused(m) == m \in hurt \/ <<m, "unsaved">> \in misled

\* Where the handler of a message is, what it has done, and what has hurt it.
Fits(m) ==
  /\ on[m] \subseteq Receivers[m] /\ rest[m] \subseteq Receivers[m]
  /\ stage[m] \in {"none", "look", "ask"} =>
       \A u \in Users : fate[m][u] = "none" /\ at[m][u] = NoHost
  /\ stage[m] \in InLoop => \A u \in Receivers[m] : u \in rest[m] <=> fate[m][u] = "none"
  /\ stage[m] = "accepted" => m \in hurt \/ \A u \in Receivers[m] : fate[m][u] # "none"
  /\ told[m] = "accepted" => stage[m] = "accepted"
  /\ stage[m] = "look" => m \notin Groups
  /\ \A u \in Users : fate[m][u] = "lost" => Excused(m)

Untouched(m) ==
  /\ stage'[m] = stage[m] /\ told'[m] = told[m] /\ on'[m] = on[m] /\ rest'[m] = rest[m]
  /\ fate'[m] = fate[m] /\ at'[m] = at[m] /\ via'[m] = via[m]
  /\ (m \in hurt => m \in hurt') /\ misled \subseteq misled'

LEMMA FitsUntouched == ASSUME NEW m, Fits(m), Untouched(m) PROVE Fits(m)'
BY DEF Fits, Untouched, Excused

\* The messages leave the sessions alone, and no excuse is taken back.
LEMMA ExcusesStay ==
  ASSUME NEW m \in Messages,
         Send(m) \/ GiveUp(m) \/ Handler(m) \/ \E u \in Users : Carry(m, u)
  PROVE  /\ hurt \subseteq hurt' /\ misled \subseteq misled'
         /\ UNCHANGED <<vars, stirred, overtaken>>
<1>. USE DEF NoFault, Hurts, Misled, legend
<1>1. CASE Send(m) \/ GiveUp(m) \/ Look(m)
  BY <1>1 DEF Send, GiveUp, Look
<1>2. CASE AskStates(m)
  BY <1>2 DEF AskStates
<1>3. ASSUME NEW u \in Users, ReadHost(m, u) \/ Forward(m, u) \/ Save(m, u)
      PROVE  /\ hurt \subseteq hurt' /\ misled \subseteq misled'
             /\ UNCHANGED <<vars, stirred, overtaken>>
  BY <1>3 DEF ReadHost, Forward, Save
<1>4. ASSUME NEW u \in Users, Carry(m, u)
      PROVE  /\ hurt \subseteq hurt' /\ misled \subseteq misled'
             /\ UNCHANGED <<vars, stirred, overtaken>>
  BY <1>4 DEF Carry, Forwarded, SaveForwarded, Consume
<1>. QED BY <1>1, <1>2, <1>3, <1>4 DEF Handler

\* What the look at the states comes to: an answer that is not true of the rows
\* has its excuse.
LEMMA Asked ==
  ASSUME NEW n \in Messages, AskStates(n)
  PROVE  /\ stage[n] = "ask" /\ UNCHANGED <<fate, at, row, host>>
         /\ \/ \E S \in SUBSET Receivers[n] :
                 /\ Sees(n, S)
                 /\ \A u \in S : row[u] = Online \/ <<n, "forwarded">> \in misled'
                 /\ \A u \in Receivers[n] \ S :
                      row[u] # Online \/ <<n, "mailed">> \in misled'
            \/ Conclude(n, "refused") /\ (n \in hurt' \/ <<n, "refused">> \in misled')
            \/ Conclude(n, "accepted") /\ n \in hurt'
<1>1. stage[n] = "ask" /\ UNCHANGED <<fate, at, row, host>>
  BY DEF AskStates, copies, vars
<1>2. CASE Sees(n, OnlineIn(n))
  BY <1>1, <1>2 DEF OnlineIn
<1>3. CASE n \notin Groups /\ Sees(n, Receivers[n] \ OnlineIn(n))
           /\ Misled(n, IF OnlineIn(n) = {} THEN "forwarded" ELSE "mailed")
  <2>1. PICK v \in Users : Receivers[n] = {v}
    BY <1>3, GroupsAssumption
  <2>2. CASE row[v] = Online
    <3>1. OnlineIn(n) = {v} /\ Receivers[n] \ OnlineIn(n) = {}
      BY <2>1, <2>2 DEF OnlineIn
    <3>2. Sees(n, {}) /\ <<n, "mailed">> \in misled'
      BY <1>3, <3>1 DEF Misled
    <3>. QED BY <1>1, <3>2
  <2>3. CASE row[v] # Online
    <3>1. OnlineIn(n) = {} /\ Receivers[n] \ OnlineIn(n) = Receivers[n]
      BY <2>1, <2>3 DEF OnlineIn
    <3>2. Sees(n, Receivers[n]) /\ <<n, "forwarded">> \in misled'
      BY <1>3, <3>1 DEF Misled
    <3>. QED BY <1>1, <3>2
  <2>. QED BY <2>2, <2>3
<1>4. CASE Conclude(n, "refused") /\ Misled(n, "refused")
  BY <1>1, <1>4 DEF Misled
<1>5. CASE (Conclude(n, "refused") \/ Conclude(n, "accepted")) /\ Hurts(n)
  BY <1>1, <1>5 DEF Hurts
<1>. QED BY <1>2, <1>3, <1>4, <1>5 DEF AskStates

\* The loop begins.
LEMMA SeesEffect ==
  ASSUME HandlersType, NEW n \in Messages, NEW S \in SUBSET Receivers[n], Sees(n, S)
  PROVE  /\ stage'[n] = "loop" /\ told'[n] = told[n]
         /\ on'[n] = S /\ rest'[n] = Receivers[n]
BY DEF Sees, HandlersType

\* Only one message is touched by a handler.
LEMMA OthersUntouched ==
  ASSUME DeliveryTypeOK, NEW m \in Messages, NEW n \in Messages, n # m,
         Send(m) \/ GiveUp(m) \/ Handler(m) \/ \E u \in Users : Carry(m, u)
  PROVE  Untouched(n)
<1>. USE ExcusesStay DEF DeliveryTypeOK, Untouched, handlers, copies, Conclude, Advance, Goes,
         Becomes, Lands
<1>1. CASE Send(m) \/ GiveUp(m)
  BY <1>1 DEF Send, GiveUp
<1>2. CASE Look(m)
  BY <1>2 DEF Look, Handler
<1>3. CASE AskStates(m)
  BY <1>3 DEF AskStates, Sees, Handler
<1>4. ASSUME NEW u \in Users, ReadHost(m, u) PROVE Untouched(n)
  BY <1>4 DEF ReadHost, Handler
<1>5. ASSUME NEW u \in Users, Forward(m, u) PROVE Untouched(n)
  BY <1>5 DEF Forward, Handler
<1>6. ASSUME NEW u \in Users, Save(m, u) PROVE Untouched(n)
  BY <1>6 DEF Save, Handler
<1>7. ASSUME NEW u \in Users, Forwarded(m, u) PROVE Untouched(n)
  BY <1>7 DEF Forwarded, Carry
<1>8. ASSUME NEW u \in Users, SaveForwarded(m, u) \/ Consume(m, u) PROVE Untouched(n)
  BY <1>8 DEF SaveForwarded, Consume, Carry
<1>. QED BY <1>1, <1>2, <1>3, <1>4, <1>5, <1>6, <1>7, <1>8 DEF Handler, Carry

\* What the helpers do to their own message.
LEMMA Effects ==
  ASSUME HandlersType, FateType, AtType, NEW n \in Messages
  PROVE  /\ \A v \in {"accepted", "refused"} : Conclude(n, v) =>
              /\ stage'[n] = v /\ told'[n] = (IF told[n] = "none" THEN v ELSE told[n])
              /\ on'[n] = {} /\ rest'[n] = {}
         /\ \A s \in Stages : Goes(n, s) =>
              stage'[n] = s /\ told'[n] = told[n] /\ on'[n] = on[n] /\ rest'[n] = rest[n]
         /\ \A u \in Users : Advance(n, u) =>
              \/ rest[n] = {u} /\ Conclude(n, "accepted")
              \/ /\ stage'[n] = "loop" /\ told'[n] = told[n] /\ on'[n] = on[n]
                 /\ rest'[n] = rest[n] \ {u}
         /\ \A u \in Users, f \in Fate : Becomes(n, u, f) =>
              fate'[n][u] = f /\ \A w \in Users : w # u => fate'[n][w] = fate[n][w]
<1>1. ASSUME NEW v \in {"accepted", "refused"}, Conclude(n, v)
      PROVE  /\ stage'[n] = v /\ told'[n] = (IF told[n] = "none" THEN v ELSE told[n])
             /\ on'[n] = {} /\ rest'[n] = {}
  BY <1>1 DEF Conclude, HandlersType
<1>2. ASSUME NEW s \in Stages, Goes(n, s)
      PROVE  stage'[n] = s /\ told'[n] = told[n] /\ on'[n] = on[n] /\ rest'[n] = rest[n]
  BY <1>2 DEF Goes, HandlersType
<1>3. ASSUME NEW u \in Users, Advance(n, u), ~(rest[n] = {u} /\ Conclude(n, "accepted"))
      PROVE  /\ stage'[n] = "loop" /\ told'[n] = told[n] /\ on'[n] = on[n]
             /\ rest'[n] = rest[n] \ {u}
  BY <1>3 DEF Advance, HandlersType
<1>4. ASSUME NEW u \in Users, NEW f \in Fate, Becomes(n, u, f)
      PROVE  fate'[n][u] = f /\ \A w \in Users : w # u => fate'[n][w] = fate[n][w]
  BY <1>4 DEF Becomes, FateType
<1>. QED BY <1>1, <1>2, <1>3, <1>4

\* A handler ends: nothing has to be known of a refused message.
LEMMA FitsRefused ==
  ASSUME HandlersType, FateType, AtType, NEW n \in Messages, Fits(n), Conclude(n, "refused"),
         \A u \in Users : fate'[n][u] = "lost" => Excused(n)', told[n] # "accepted"
  PROVE  Fits(n)'
BY Effects DEF Fits, InLoop

\* A receiver is dealt with.
LEMMA FitsAdvance ==
  ASSUME HandlersType, FateType, AtType, NEW n \in Messages, NEW u \in Users, Fits(n),
         stage[n] \in InLoop, Advance(n, u), NEW f \in Fate \ {"none", "lost"},
         Becomes(n, u, f), n \in hurt => n \in hurt', misled \subseteq misled'
  PROVE  Fits(n)'
<1>. USE ReceiversAssumption DEF InLoop, Fits, Excused
<1>1. fate'[n][u] = f /\ \A w \in Users : w # u => fate'[n][w] = fate[n][w]
  BY Effects
<1>2. CASE rest[n] = {u} /\ Conclude(n, "accepted")
  BY <1>1, <1>2, Effects
<1>3. CASE /\ stage'[n] = "loop" /\ told'[n] = told[n] /\ on'[n] = on[n]
           /\ rest'[n] = rest[n] \ {u}
  BY <1>1, <1>3
<1>. QED BY <1>2, <1>3, Effects

\* The copy of a receiver dealt with moves on.
LEMMA FitsMoved ==
  ASSUME HandlersType, FateType, AtType, NEW n \in Messages, NEW u \in Users, Fits(n),
         UNCHANGED handlers, fate[n][u] \in Moving, NEW f \in Fate \ {"none"},
         Becomes(n, u, f), n \in hurt => n \in hurt', misled \subseteq misled',
         f = "lost" => Excused(n)'
  PROVE  Fits(n)'
<1>1. fate'[n][u] = f /\ \A w \in Users : w # u => fate'[n][w] = fate[n][w]
  BY Effects
<1>. QED BY <1>1, ReceiversAssumption DEF Fits, Excused, handlers, Moving, InLoop

LEMMA FitsStep ==
  ASSUME DeliveryTypeOK, DeliveryTypeOK', \A m \in Messages : Fits(m),
         [DeliveryNext]_deliveryVars, NEW n \in Messages
  PROVE  Fits(n)'
<1>. USE ReceiversAssumption
<1>0. HandlersType /\ FateType /\ AtType
  BY TypeParts
<1>1. CASE SessionStep
  <2>1. /\ on'[n] = on[n] /\ rest'[n] = rest[n]
        /\ stage'[n] = stage[n] \/ (stage[n] = "look" /\ stage'[n] = "none")
        /\ told'[n] \in {told[n], "broken"}
    BY <1>0, <1>1 DEF SessionStep, MessagesFollow, SendersFollow, HandlersType
  <2>2. /\ \A u \in Users : fate'[n][u] = "lost" => Excused(n)'
        /\ n \in hurt => n \in hurt'
    BY <1>1 DEF SessionStep, MessagesFollow, LegendFollows, Fits, Excused
  <2>3. \A u \in Users : /\ fate'[n][u] = "none" <=> fate[n][u] = "none"
                         /\ fate[n][u] = "none" => at'[n][u] = at[n][u]
    BY <1>1, SessionStepFates, FatesType
  <2>. QED BY <2>1, <2>2, <2>3 DEF Fits, InLoop
<1>2. CASE UNCHANGED deliveryVars
  BY <1>2, FitsUntouched DEF deliveryVars, Untouched
<1>3. ASSUME NEW m \in Messages, n # m,
             Send(m) \/ GiveUp(m) \/ Handler(m) \/ \E u \in Users : Carry(m, u)
      PROVE  Fits(n)'
  BY <1>3, OthersUntouched, FitsUntouched
<1>. USE <1>0
<1>4. CASE Send(n)
  BY <1>4, ExcusesStay DEF Send, HandlersType, Fits, Excused, copies, InLoop
<1>5. CASE GiveUp(n)
  BY <1>5, ExcusesStay DEF GiveUp, HandlersType, Fits, Excused, copies, InLoop
<1>6. CASE Look(n)
  <2>1. PICK v \in Users : Receivers[n] = {v}
    BY <1>6, GroupsAssumption DEF Look, Fits
  <2>2. /\ UNCHANGED <<at, hurt>> /\ stage[n] = "look"
        /\ \/ Becomes(n, v, Pushed(table[via[n]][v], v)) /\ Conclude(n, "accepted")
           \/ Goes(n, "ask") /\ UNCHANGED fate
    BY <1>6, <2>1 DEF Look, NoFault
  <2>3. \A u \in Users : fate[n][u] = "none" /\ at[n][u] = NoHost
    BY <2>2 DEF Fits
  <2>4. CASE Becomes(n, v, Pushed(table[via[n]][v], v)) /\ Conclude(n, "accepted")
    <3>1. Pushed(table[via[n]][v], v) \in Fate \ {"none", "lost"}
      BY PushedType DEF Fate
    <3>2. /\ fate'[n][v] \notin {"none", "lost"}
          /\ \A w \in Users : w # v => fate'[n][w] = "none"
      BY <2>3, <2>4, <3>1, Effects
    <3>3. /\ stage'[n] = "accepted" /\ on'[n] = {} /\ rest'[n] = {}
      BY <2>4, Effects
    <3>. QED BY <2>1, <3>2, <3>3 DEF Fits, InLoop
  <2>5. CASE Goes(n, "ask") /\ UNCHANGED fate
    <3>1. stage'[n] = "ask" /\ told'[n] = told[n] /\ on'[n] = on[n] /\ rest'[n] = rest[n]
      BY <2>5, Effects DEF Stages
    <3>. QED BY <2>2, <2>3, <2>5, <3>1 DEF Fits, InLoop
  <2>. QED BY <2>2, <2>4, <2>5
<1>7. CASE AskStates(n)
  <2>1. /\ UNCHANGED <<fate, at>> /\ stage[n] = "ask"
        /\ hurt \subseteq hurt' /\ misled \subseteq misled'
    BY <1>7, Asked, ExcusesStay DEF Handler
  <2>2. CASE Conclude(n, "refused")
    BY <2>1, <2>2, FitsRefused DEF Fits, Excused
  <2>3. ASSUME NEW S \in SUBSET Receivers[n], Sees(n, S) PROVE Fits(n)'
    BY <2>1, <2>3, SeesEffect DEF Fits, Excused, InLoop
  <2>4. CASE Conclude(n, "accepted") /\ n \in hurt'
    BY <2>1, <2>4, Effects DEF Fits, Excused, InLoop
  <2>. QED BY <1>7, <2>2, <2>3, <2>4, Asked
<1>8. ASSUME NEW u \in Users, ReadHost(n, u) PROVE Fits(n)'
  <2>1. /\ UNCHANGED fate /\ stage[n] = "loop"
        /\ hurt \subseteq hurt' /\ misled \subseteq misled'
    BY <1>8, ExcusesStay DEF ReadHost, Handler
  <2>2. CASE Conclude(n, "refused")
    BY <2>1, <2>2, FitsRefused DEF Fits, Excused
  <2>3. CASE Goes(n, "forward")
    BY <2>1, <2>3, Effects DEF Fits, Excused, InLoop, Stages
  <2>. QED BY <1>8, <2>2, <2>3 DEF ReadHost
<1>9. ASSUME NEW u \in Users, Forward(n, u) PROVE Fits(n)'
  <2>1. /\ stage[n] = "forward" /\ told[n] # "accepted"
        /\ hurt \subseteq hurt' /\ misled \subseteq misled'
    BY <1>9, ExcusesStay DEF Forward, Handler, Fits
  <2>2. CASE Becomes(n, u, "away") /\ Advance(n, u)
    BY <2>1, <2>2, FitsAdvance DEF InLoop, Fate, Moving
  <2>3. CASE Becomes(n, u, "none") /\ Conclude(n, "refused")
    <3>1. \A w \in Users : fate'[n][w] = "lost" => Excused(n)'
      BY <2>1, <2>3, Effects DEF Fits, Excused, Fate
    <3>. QED BY <2>1, <2>3, <3>1, FitsRefused
  <2>. QED BY <1>9, <2>2, <2>3 DEF Forward, Lands
<1>10. ASSUME NEW u \in Users, Save(n, u) PROVE Fits(n)'
  <2>1. /\ stage[n] = "loop" /\ told[n] # "accepted"
        /\ hurt \subseteq hurt' /\ misled \subseteq misled'
    BY <1>10, ExcusesStay DEF Save, Handler, Fits
  <2>2. CASE Becomes(n, u, "queued") /\ Advance(n, u)
    BY <2>1, <2>2, FitsAdvance DEF InLoop, Fate, Moving
  <2>3. CASE Conclude(n, "refused") /\ n \in hurt'
    BY <2>1, <2>3, FitsRefused DEF Excused
  <2>. QED BY <1>10, <2>2, <2>3 DEF Save, Hurts
<1>11. ASSUME NEW u \in Users, Forwarded(n, u) PROVE Fits(n)'
  <2>1. /\ UNCHANGED handlers /\ fate[n][u] \in Moving
        /\ hurt \subseteq hurt' /\ misled \subseteq misled'
        /\ \/ Becomes(n, u, Pushed(table[at[n][u]][u], u))
           \/ Becomes(n, u, "adrift")
    BY <1>11, ExcusesStay DEF Carry, Forwarded, Lands, Moving
  <2>2. Pushed(table[at[n][u]][u], u) \in Fate \ {"none", "lost"}
    BY PushedType DEF Fate
  <2>. QED BY <2>1, <2>2, FitsMoved DEF Fate, Moving
<1>12. ASSUME NEW u \in Users, SaveForwarded(n, u) \/ Consume(n, u) PROVE Fits(n)'
  <2>1. PICK f \in {"queued", "stored", "lost"} :
          /\ UNCHANGED handlers /\ fate[n][u] \in Moving /\ Becomes(n, u, f)
          /\ hurt \subseteq hurt' /\ misled \subseteq misled'
          /\ f = "lost" => Excused(n)'
    <3>1. hurt \subseteq hurt' /\ misled \subseteq misled'
      BY <1>12, ExcusesStay DEF Carry
    <3>. QED BY <1>12, <3>1
         DEF SaveForwarded, Consume, Lands, Excused, Hurts, Misled, Moving, handlers
  <2>. QED BY <2>1, FitsMoved DEF Fate, Moving
<1>13. CASE Handler(n)
  BY <1>6, <1>7, <1>8, <1>9, <1>10, <1>13 DEF Handler
<1>14. CASE \E u \in Users : Carry(n, u)
  BY <1>11, <1>12, <1>14 DEF Carry
<1>15. CASE \E m \in Messages :
              Send(m) \/ GiveUp(m) \/ Handler(m) \/ \E u \in Users : Carry(m, u)
  BY <1>3, <1>4, <1>5, <1>13, <1>14, <1>15
<1>. QED BY <1>1, <1>2, <1>15 DEF DeliveryNext

-----------------------------------------------------------------------------
(* What is true of the copies and of what ChatService has read.            *)

\* Who is asked to deal with a copy is a proxy, and a copy another user has
\* seen was for a user whose session is not known any more.
Whereabouts(m) ==
  /\ stage[m] = "look" => via[m] # NoHost
  /\ \A u \in Users : /\ fate[m][u] \in {"away", "adrift"} => at[m][u] # NoHost
                      /\ fate[m][u] = "misread" => u \in upset

\* What has been read is true of who has neither logged in nor out since, but
\* for the stale entries that have the receiver online.
Readings(m) ==
  stage[m] \in InLoop =>
    \A u \in Receivers[m] \ upset : <<m, u>> \notin stirred =>
      /\ u \in on[m] => row[u] = Online \/ <<m, "forwarded">> \in misled
      /\ u \in rest[m] /\ at[m][u] # NoHost => u \in on[m] /\ host[u] = at[m][u]

Refusals(m) ==
  stage[m] = "refused" /\ m \notin hurt =>
    \/ \E u \in Receivers[m] : <<m, u>> \in stirred \/ u \in upset
    \/ \E wrong \in {"forwarded", "refused"} : <<m, wrong>> \in misled

Course(m) == Whereabouts(m) /\ Readings(m) /\ Refusals(m)

LEMMA CourseUntouched ==
  ASSUME NEW m, Course(m), Untouched(m), UNCHANGED <<upset, stirred, row, host>>
  PROVE  Course(m)'
BY DEF Course, Whereabouts, Readings, Refusals, Untouched

\* Whoever is pushed a message is who it is for.
LEMMA PushedRight ==
  ASSUME IInv, NEW p \in Proxies, NEW u \in Users, table[p][u] # NoConn,
         Pushed(table[p][u], u) = "misread"
  PROVE  u \in upset
BY EntriesOwned DEF EntryHasOwner, Pushed

LEMMA WhereaboutsStep ==
  ASSUME IInv, DownFits, DeliveryTypeOK, NEW n \in Messages, Fits(n), Whereabouts(n),
         SessionStep \/ Send(n) \/ GiveUp(n) \/ Handler(n) \/ \E u \in Users : Carry(n, u)
  PROVE  Whereabouts(n)'
<1>0. HandlersType /\ FateType /\ AtType
  BY TypeParts
<1>. USE <1>0, ReceiversAssumption, ConnsAssumption DEF Whereabouts
<1>1. CASE SessionStep
  <2>1. stage'[n] = "look" => via'[n] # NoHost
    BY <1>1 DEF SessionStep, MessagesFollow, SendersFollow, HandlersType
  <2>2. upset \subseteq upset'
    BY <1>1, QuietStep DEF SessionStep, Quiet
  <2>3. ASSUME NEW u \in Users
        PROVE  /\ fate'[n][u] \in {"away", "adrift"} => at'[n][u] # NoHost
               /\ fate'[n][u] = "misread" => u \in upset'
    BY <1>1, <2>2, SessionStepFates, FatesType
  <2>. QED BY <2>1, <2>3
<1>2. CASE Send(n)
  BY <1>2 DEF Send, HandlersType, copies, vars
<1>3. CASE GiveUp(n)
  BY <1>3 DEF GiveUp, HandlersType, copies, vars
<1>4. CASE Look(n)
  <2>1. via[n] \in Proxies
    BY <1>4 DEF Look, HandlersType
  <2>2. PICK v \in Users :
          /\ UNCHANGED <<at, upset>>
          /\ \/ /\ table[via[n]][v] # NoConn /\ Conclude(n, "accepted")
                /\ Becomes(n, v, Pushed(table[via[n]][v], v))
             \/ Goes(n, "ask") /\ UNCHANGED fate
    BY <1>4 DEF Look, vars
  <2>3. stage'[n] # "look"
    BY <2>2, Effects DEF Stages
  <2>4. CASE UNCHANGED fate
    BY <2>2, <2>3, <2>4
  <2>5. CASE table[via[n]][v] # NoConn /\ Becomes(n, v, Pushed(table[via[n]][v], v))
    <3>1. /\ fate'[n][v] = Pushed(table[via[n]][v], v)
          /\ \A w \in Users : w # v => fate'[n][w] = fate[n][w]
      BY <2>5, Effects, PushedType DEF Fate
    <3>. QED BY <2>1, <2>2, <2>3, <2>5, <3>1, PushedRight, PushedType
  <2>. QED BY <2>2, <2>4, <2>5
<1>5. CASE AskStates(n)
  <2>1. stage'[n] # "look"
    BY <1>5, Asked, SeesEffect, Effects
  <2>. QED BY <1>5, <2>1, Asked, ExcusesStay DEF Handler, vars
<1>6. ASSUME NEW u \in Users, ReadHost(n, u) PROVE Whereabouts(n)'
  <2>1. stage'[n] # "look"
    BY <1>6, Effects DEF ReadHost, Stages, InLoop
  <2>2. \A w \in Users : at'[n][w] = NoHost => at[n][w] = NoHost
    BY <1>6 DEF ReadHost, AtType
  <2>. QED BY <1>6, <2>1, <2>2 DEF ReadHost, vars
<1>7. ASSUME NEW u \in Users, Forward(n, u) PROVE Whereabouts(n)'
  <2>1. stage'[n] # "look"
    BY <1>7, Effects DEF Forward
  <2>2. UNCHANGED upset
    BY <1>7 DEF Forward, vars
  <2>3. CASE Becomes(n, u, "away") /\ UNCHANGED at /\ at[n][u] # NoHost
    BY <2>1, <2>2, <2>3, Effects DEF Fate, Moving
  <2>4. CASE Lands(n, u, "none")
    BY <2>1, <2>2, <2>4, Effects DEF Fate, Lands, AtType
  <2>. QED BY <1>7, <2>3, <2>4 DEF Forward
<1>8. ASSUME NEW u \in Users, Save(n, u) PROVE Whereabouts(n)'
  <2>1. stage'[n] # "look"
    BY <1>8, Effects DEF Save
  <2>2. UNCHANGED <<at, upset>>
    BY <1>8 DEF Save, vars
  <2>. QED BY <1>8, <2>1, <2>2, Effects DEF Save, Fate, Moving
<1>9. ASSUME NEW u \in Users, Forwarded(n, u) PROVE Whereabouts(n)'
  <2>1. at[n][u] \in Proxies /\ UNCHANGED <<stage, via, upset>>
    BY <1>9 DEF Forwarded, AtType, handlers, vars
  <2>2. CASE Becomes(n, u, "adrift") /\ UNCHANGED at
    BY <2>1, <2>2, Effects DEF Fate, Moving
  <2>3. CASE table[at[n][u]][u] # NoConn /\ Lands(n, u, Pushed(table[at[n][u]][u], u))
    <3>1. /\ fate'[n][u] = Pushed(table[at[n][u]][u], u)
          /\ \A w \in Users : w # u => fate'[n][w] = fate[n][w] /\ at'[n][w] = at[n][w]
      BY <2>3, Effects, PushedType DEF Fate, Lands, AtType
    <3>. QED BY <2>1, <2>3, <3>1, PushedRight, PushedType
  <2>. QED BY <1>9, <2>2, <2>3 DEF Forwarded
<1>10. ASSUME NEW u \in Users, SaveForwarded(n, u) PROVE Whereabouts(n)'
  <2>1. UNCHANGED <<stage, via, upset>>
    BY <1>10 DEF SaveForwarded, handlers, vars
  <2>. QED BY <1>10, <2>1, Effects DEF SaveForwarded, Lands, Fate, Moving, AtType
<1>11. ASSUME NEW u \in Users, Consume(n, u) PROVE Whereabouts(n)'
  <2>1. UNCHANGED <<stage, via, at, upset>>
    BY <1>11 DEF Consume, handlers, vars
  <2>. QED BY <1>11, <2>1, Effects DEF Consume, Fate, Moving
<1>. QED BY <1>1, <1>2, <1>3, <1>4, <1>5, <1>6, <1>7, <1>8, <1>9, <1>10, <1>11
         DEF Handler, Carry

LEMMA ReadingsStep ==
  ASSUME IInv, DownFits, DeliveryTypeOK, NEW n \in Messages, Fits(n), Readings(n),
         SessionStep \/ Send(n) \/ GiveUp(n) \/ Handler(n) \/ \E u \in Users : Carry(n, u)
  PROVE  Readings(n)'
<1>0. HandlersType /\ FateType /\ AtType
  BY TypeParts
<1>. USE <1>0, ReceiversAssumption DEF Readings
<1>1. CASE SessionStep
  <2>1. /\ on'[n] = on[n] /\ rest'[n] = rest[n]
        /\ stage'[n] \in InLoop => stage[n] \in InLoop
    BY <1>1 DEF SessionStep, MessagesFollow, SendersFollow, HandlersType, InLoop
  <2>. SUFFICES ASSUME stage[n] \in InLoop, NEW u \in Receivers[n] \ upset', <<n, u>> \notin stirred'
               PROVE  /\ u \in on[n] => row'[u] = Online \/ <<n, "forwarded">> \in misled'
                      /\ u \in rest[n] /\ at'[n][u] # NoHost => u \in on[n] /\ host'[u] = at'[n][u]
    BY <2>1
  <2>2. <<n, u>> \notin stirred /\ row'[u] = row[u] /\ misled' = misled
    BY <1>1 DEF SessionStep, MessagesFollow, LegendFollows, Pairs
  <2>3. u \notin upset /\ host'[u] = host[u]
    BY <1>1, <2>2, QuietStep DEF SessionStep, Quiet
  <2>4. at'[n][u] # NoHost => at'[n][u] = at[n][u]
    BY <1>1, SessionStepFates
  <2>. QED BY <2>2, <2>3, <2>4
<1>2. CASE Send(n)
  BY <1>2 DEF Send, HandlersType, InLoop
<1>3. CASE GiveUp(n)
  BY <1>3, ExcusesStay DEF GiveUp, HandlersType, copies, legend, vars, InLoop
<1>4. CASE Look(n)
  <2>1. stage'[n] \notin InLoop
    BY <1>4, Effects DEF Look, Stages, InLoop
  <2>. QED BY <2>1
<1>5. CASE AskStates(n)
  <2>1. CASE \E v \in {"accepted", "refused"} : Conclude(n, v)
    BY <2>1, Effects DEF InLoop
  <2>2. ASSUME NEW S \in SUBSET Receivers[n], Sees(n, S),
               \A u \in S : row[u] = Online \/ <<n, "forwarded">> \in misled'
        PROVE  Readings(n)'
    <3>1. (\A u \in Users : at'[n][u] = NoHost) /\ UNCHANGED row
      BY <1>5, Asked DEF Fits
    <3>. QED BY <2>2, <3>1, SeesEffect
  <2>. QED BY <1>5, <2>1, <2>2, Asked
<1>6. ASSUME NEW u \in Users, ReadHost(n, u) PROVE Readings(n)'
  <2>1. CASE Conclude(n, "refused")
    BY <2>1, Effects DEF InLoop
  <2>2. CASE at' = [at EXCEPT ![n][u] = host[u]] /\ Goes(n, "forward")
    <3>1. on'[n] = on[n] /\ rest'[n] = rest[n] /\ stage[n] \in InLoop /\ u \in on[n]
      BY <1>6, <2>2, Effects DEF ReadHost, Stages, InLoop
    <3>2. \A w \in Users : at'[n][w] = IF w = u THEN host[u] ELSE at[n][w]
      BY <2>2 DEF AtType
    <3>3. UNCHANGED <<row, host, upset, legend>>
      BY <1>6 DEF ReadHost, vars
    <3>. QED BY <1>6, <3>1, <3>2, <3>3 DEF legend
  <2>. QED BY <1>6, <2>1, <2>2 DEF ReadHost
<1>7. ASSUME NEW u \in Users, Forward(n, u) \/ Save(n, u) PROVE Readings(n)'
  <2>1. stage[n] \in InLoop /\ UNCHANGED <<upset, stirred, misled, row, host>>
    BY <1>7 DEF Forward, Save, InLoop, vars, legend
  <2>2. CASE \E v \in {"accepted", "refused"} : Conclude(n, v)
    BY <2>2, Effects DEF InLoop
  <2>3. CASE Advance(n, u) /\ ~(rest[n] = {u} /\ Conclude(n, "accepted")) /\ UNCHANGED at
    BY <2>1, <2>3, Effects
  <2>. QED BY <1>7, <2>2, <2>3 DEF Forward, Save
<1>8. ASSUME NEW u \in Users, Carry(n, u) PROVE Readings(n)'
  <2>1. /\ UNCHANGED handlers /\ UNCHANGED <<upset, stirred, row, host>>
        /\ misled \subseteq misled'
    <3>1. UNCHANGED handlers
      BY <1>8 DEF Carry, Forwarded, SaveForwarded, Consume
    <3>. QED BY <1>8, <3>1, ExcusesStay DEF vars
  <2>2. \A w \in Users : at'[n][w] \in {at[n][w], NoHost}
    BY <1>8 DEF Carry, Forwarded, SaveForwarded, Consume, Lands, AtType
  <2>. QED BY <2>1, <2>2 DEF handlers
<1>. QED BY <1>1, <1>2, <1>3, <1>4, <1>5, <1>6, <1>7, <1>8 DEF Handler

\* A look-up of the proxy of a user who is online finds it, and it is up.
LEMMA RefusalsStep ==
  ASSUME IInv, DownFits, DeliveryTypeOK, NEW n \in Messages, Fits(n), Readings(n), Refusals(n),
         SessionStep \/ Send(n) \/ GiveUp(n) \/ Handler(n) \/ \E u \in Users : Carry(n, u)
  PROVE  Refusals(n)'
<1>0. HandlersType /\ FateType /\ AtType
  BY TypeParts
<1>. USE <1>0, ReceiversAssumption, ConnsAssumption DEF Refusals
<1>1. CASE SessionStep
  <2>1. /\ stage'[n] = "refused" => stage[n] = "refused"
        /\ hurt \subseteq hurt' /\ stirred \subseteq stirred' /\ misled' = misled
    BY <1>1 DEF SessionStep, MessagesFollow, SendersFollow, LegendFollows, HandlersType
  <2>. QED BY <1>1, <2>1, QuietStep DEF SessionStep, Quiet
<1>2. CASE Send(n) \/ GiveUp(n) \/ \E u \in Users : Carry(n, u)
  <2>1. stage'[n] = "refused" => stage[n] = "refused"
    BY <1>2 DEF Send, GiveUp, Carry, Forwarded, SaveForwarded, Consume, HandlersType, handlers
  <2>. QED BY <1>2, <2>1, ExcusesStay DEF vars
<1>3. CASE Look(n)
  BY <1>3, Effects DEF Look, Stages
<1>4. CASE AskStates(n)
  BY <1>4, Asked, SeesEffect, Effects
<1>5. ASSUME NEW u \in Users, ReadHost(n, u) PROVE Refusals(n)'
  <2>1. CASE host[u] = NoHost
    <3>1. /\ u \in Receivers[n]
          /\ <<n, u>> \in stirred \/ u \in upset \/ <<n, "forwarded">> \in misled
      BY <1>5, <2>1, OnlineWhere DEF ReadHost, Readings, Fits, InLoop
    <3>. QED BY <1>5, <3>1, ExcusesStay DEF Handler, vars
  <2>2. CASE n \in hurt'
    BY <2>2
  <2>3. CASE Goes(n, "forward")
    BY <2>3, Effects DEF Stages, InLoop
  <2>. QED BY <1>5, <2>1, <2>2, <2>3 DEF ReadHost, Hurts
<1>6. ASSUME NEW u \in Users, Forward(n, u) PROVE Refusals(n)'
  <2>1. CASE mode[at[n][u]] = "down"
    <3>1. /\ u \in Receivers[n]
          /\ <<n, u>> \in stirred \/ u \in upset \/ <<n, "forwarded">> \in misled
      BY <1>6, <2>1, OnlineWhere DEF Forward, Readings, Fits, InLoop
    <3>. QED BY <1>6, <3>1, ExcusesStay DEF Handler, vars
  <2>2. CASE n \in hurt'
    BY <2>2
  <2>3. CASE Advance(n, u)
    BY <2>3, Effects
  <2>. QED BY <1>6, <2>1, <2>2, <2>3 DEF Forward, Hurts
<1>7. ASSUME NEW u \in Users, Save(n, u) PROVE Refusals(n)'
  <2>1. CASE n \in hurt'
    BY <2>1
  <2>2. CASE Advance(n, u)
    BY <2>2, Effects
  <2>. QED BY <1>7, <2>1, <2>2 DEF Save, Hurts
<1>. QED BY <1>1, <1>2, <1>3, <1>4, <1>5, <1>6, <1>7 DEF Handler

LEMMA CourseStep ==
  ASSUME IInv, DownFits, DeliveryTypeOK, \A m \in Messages : Fits(m) /\ Course(m),
         [DeliveryNext]_deliveryVars, NEW n \in Messages
  PROVE  Course(n)'
<1>1. CASE SessionStep \/ Send(n) \/ GiveUp(n) \/ Handler(n) \/ \E u \in Users : Carry(n, u)
  BY <1>1, WhereaboutsStep, ReadingsStep, RefusalsStep DEF Course
<1>2. CASE UNCHANGED deliveryVars
  BY <1>2, CourseUntouched DEF deliveryVars, vars, Untouched
<1>3. ASSUME NEW m \in Messages, n # m,
             Send(m) \/ GiveUp(m) \/ Handler(m) \/ \E u \in Users : Carry(m, u)
      PROVE  Course(n)'
  <2>1. UNCHANGED <<upset, stirred, row, host>>
    BY <1>3, ExcusesStay DEF vars
  <2>. QED BY <1>3, <2>1, OthersUntouched, CourseUntouched
<1>. QED BY <1>1, <1>2, <1>3 DEF DeliveryNext

-----------------------------------------------------------------------------
DInv == /\ IInv /\ DownFits /\ DeliveryTypeOK
        /\ \A m \in Messages : Fits(m) /\ Course(m)

LEMMA DeliveryInitially == DeliveryInit => DInv
<1>. SUFFICES ASSUME DeliveryInit PROVE DInv
  OBVIOUS
<1>1. IInv
  BY Initially DEF DeliveryInit
<1>2. DeliveryTypeOK
  BY <1>1, FaultAssumption DEF DeliveryInit, DeliveryTypeOK, IInv, InLoop, Done
<1>3. DownFits
  BY DEF DeliveryInit, Init, DownFits
<1>4. ASSUME NEW m \in Messages PROVE Fits(m) /\ Course(m)
  BY <1>4 DEF DeliveryInit, Fits, Course, Whereabouts, Readings, Refusals, InLoop
<1>. QED BY <1>1, <1>2, <1>3, <1>4 DEF DInv

LEMMA DInvStep == DInv /\ [DeliveryNext]_deliveryVars => DInv'
BY Beneath, IInvStep, QuietStep, DeliveryTypeStep, FitsStep, CourseStep DEF DInv, Quiet

LEMMA DeliveryInvariance == DeliverySpec => []DInv
BY DeliveryInitially, DInvStep, PTL DEF DeliverySpec

\* Every variable keeps to what it stands for, whatever fails in between.
THEOREM DeliveryTypeCorrect == DeliverySpec => []DeliveryTypeOK
<1>1. DInv => DeliveryTypeOK
  BY DEF DInv
<1>. QED BY <1>1, DeliveryInvariance, PTL

\* The sessions under the messages are those of Session: what is proved of
\* them there holds here.
THEOREM SessionsBeneath == DeliverySpec => Spec
<1>1. DeliveryInit => Init
  BY DEF DeliveryInit
<1>. QED BY <1>1, Beneath, PTL DEF DeliverySpec, Spec

\* Who is told that his message is accepted can rely on it, whatever the cache
\* said of its receiver when it was handled.
THEOREM AcceptanceHolds == DeliverySpec => []AcceptedIsOnItsWay
<1>1. DInv => AcceptedIsOnItsWay
  BY ReceiversAssumption DEF DInv, Fits, Excused, AcceptedIsOnItsWay
<1>. QED BY <1>1, DeliveryInvariance, PTL

\* Nobody reads what was written to another.
THEOREM OnlyReceiversRead == DeliverySpec => []NobodyElseReads
<1>1. DInv => NobodyElseReads
  BY DEF DInv, Course, Whereabouts, NobodyElseReads
<1>. QED BY <1>1, DeliveryInvariance, PTL

\* A refusal has its reason in a fault, in a receiver who came or went, or in a
\* stale entry of the cache.
THEOREM RefusalsExplained == DeliverySpec => []RefusalExplained
<1>1. DInv => RefusalExplained
  BY DEF DInv, Course, Refusals, RefusalExplained
<1>. QED BY <1>1, DeliveryInvariance, PTL

-----------------------------------------------------------------------------
(* The promises of Post.                                                   *)

\* The ways a copy can go in one step.
CopyRests(m, u)  == fate'[m][u] = fate[m][u]
CopyEnters(m, u) == /\ stage[m] \in {"look"} \cup InLoop /\ u \in Receivers[m]
                    /\ fate[m][u] = "none"
CopyMoves(m, u)  == fate[m][u] \in Moving \cup {"stored"} /\ fate'[m][u] # "none"

LEMMA Ways ==
  ASSUME DeliveryTypeOK, NEW n \in Messages, Fits(n), NEW u \in Users,
         SessionStep \/ Send(n) \/ GiveUp(n) \/ Handler(n) \/ \E v \in Users : Carry(n, v)
  PROVE  CopyRests(n, u) \/ CopyEnters(n, u) \/ CopyMoves(n, u)
<1>0. HandlersType /\ FateType /\ AtType
  BY TypeParts
<1>. USE <1>0, ReceiversAssumption DEF CopyRests, CopyEnters, CopyMoves
<1>1. CASE SessionStep
  BY <1>1, SessionStepFates, FatesType DEF Moving
<1>2. CASE Send(n) \/ GiveUp(n) \/ AskStates(n)
  BY <1>2 DEF Send, GiveUp, AskStates, copies
<1>3. CASE Look(n)
  BY <1>3, Effects, PushedType DEF Look, Fits, Fate
<1>4. ASSUME NEW v \in Users, ReadHost(n, v) PROVE CopyRests(n, u)
  BY <1>4 DEF ReadHost
<1>5. ASSUME NEW v \in Users, Forward(n, v) \/ Save(n, v)
      PROVE  CopyRests(n, u) \/ CopyEnters(n, u)
  <2>1. stage[n] \in InLoop /\ v \in Receivers[n] /\ fate[n][v] = "none"
    BY <1>5 DEF Forward, Save, Fits, InLoop
  <2>2. \E f \in Fate : Becomes(n, v, f) \/ UNCHANGED fate
    BY <1>5 DEF Forward, Save, Lands, Fate, Moving
  <2>. QED BY <2>1, <2>2, Effects
<1>6. ASSUME NEW v \in Users, Carry(n, v) PROVE CopyRests(n, u) \/ CopyMoves(n, u)
  <2>1. fate[n][v] \in Moving /\ \E f \in Fate \ {"none"} : Becomes(n, v, f)
    BY <1>6, PushedType DEF Carry, Forwarded, SaveForwarded, Consume, Lands, Fate, Moving
  <2>. QED BY <2>1, Effects
<1>. QED BY <1>1, <1>2, <1>3, <1>4, <1>5, <1>6 DEF Handler

LEMMA VerdictStays ==
  ASSUME DeliveryTypeOK, NEW n \in Messages,
         SessionStep \/ Send(n) \/ GiveUp(n) \/ Handler(n) \/ \E v \in Users : Carry(n, v)
  PROVE  Verdict(n)' = Verdict(n) \/ Verdict(n) = "none"
<1>0. HandlersType
  BY TypeParts
<1>1. stage[n] \in {"accepted", "refused"} => stage'[n] = stage[n]
  BY <1>0, Asked DEF SessionStep, MessagesFollow, SendersFollow, Send, GiveUp, Handler, Look, ReadHost,
              Forward, Save, Carry, Forwarded, SaveForwarded, Consume, HandlersType, handlers, InLoop
<1>. QED BY <1>1 DEF Verdict

LEMMA PostInit == DeliveryInit => Promise!Init
BY DEF DeliveryInit, Promise!Init, Verdict, PlaceOf, LeftOut

LEMMA PostStep == DInv /\ DInv' /\ [DeliveryNext]_deliveryVars => [Promise!Next]_(Promise!vars)
<1>. SUFFICES ASSUME DInv, DInv', [DeliveryNext]_deliveryVars
             PROVE  [Promise!Next]_(Promise!vars)
  OBVIOUS
<1>1. CASE UNCHANGED deliveryVars
  BY <1>1 DEF deliveryVars, Promise!vars, Verdict, PlaceOf, LeftOut
<1>2. ASSUME NEW n \in Messages, NEW u \in Users, DeliveryNext
      PROVE  CopyRests(n, u) \/ CopyEnters(n, u) \/ CopyMoves(n, u)
  <2>1. CASE SessionStep \/ Send(n) \/ GiveUp(n) \/ Handler(n) \/ \E v \in Users : Carry(n, v)
    BY <2>1, Ways DEF DInv
  <2>2. ASSUME NEW m \in Messages, n # m,
               Send(m) \/ GiveUp(m) \/ Handler(m) \/ \E v \in Users : Carry(m, v)
        PROVE  CopyRests(n, u)
    BY <2>2, OthersUntouched DEF DInv, Untouched, CopyRests
  <2>. QED BY <1>2, <2>1, <2>2 DEF DeliveryNext
<1>3. ASSUME NEW n \in Messages, DeliveryNext
      PROVE  Verdict(n)' = Verdict(n) \/ Verdict(n) = "none"
  <2>1. CASE SessionStep \/ Send(n) \/ GiveUp(n) \/ Handler(n) \/ \E v \in Users : Carry(n, v)
    BY <2>1, VerdictStays DEF DInv
  <2>2. ASSUME NEW m \in Messages, n # m,
               Send(m) \/ GiveUp(m) \/ Handler(m) \/ \E v \in Users : Carry(m, v)
        PROVE  Verdict(n)' = Verdict(n)
    BY <2>2, OthersUntouched DEF DInv, Untouched, Verdict
  <2>. QED BY <1>3, <2>1, <2>2 DEF DeliveryNext
<1>4. ASSUME NEW n \in Messages, DeliveryNext PROVE n \in hurt => n \in hurt'
  <2>1. CASE SessionStep
    BY <2>1 DEF SessionStep, MessagesFollow, LegendFollows
  <2>2. ASSUME NEW m \in Messages,
               Send(m) \/ GiveUp(m) \/ Handler(m) \/ \E v \in Users : Carry(m, v)
        PROVE  n \in hurt => n \in hurt'
    BY <2>2, ExcusesStay
  <2>. QED BY <1>4, <2>1, <2>2 DEF DeliveryNext
<1>5. CASE DeliveryNext
  <2>. DEFINE Place(m, u) == IF LeftOut(m, u) THEN "gone" ELSE PlaceOf(fate[m][u])
  <2>1. \A m \in Messages, u \in Users : fate[m][u] \in Fate /\ fate'[m][u] \in Fate
    BY TypeParts DEF DInv, FateType, DeliveryTypeOK, Fate
  <2>2. ASSUME NEW m \in Messages, NEW u \in Users
        PROVE  \/ Place(m, u)' = Place(m, u)
               \/ /\ Verdict(m) = "none" /\ u \in Receivers[m] /\ Place(m, u) = "nowhere"
                  /\ Place(m, u)' \in {"inside", "shown", "gone"}
               \/ Place(m, u) = "inside" /\ Place(m, u)' \in {"shown", "gone"}
    <3>1. CASE CopyRests(m, u)
      <4>1. LeftOut(m, u) => LeftOut(m, u)'
        BY <1>3, <1>4, <1>5, <3>1 DEF LeftOut, CopyRests, Verdict
      <4>2. LeftOut(m, u)' => LeftOut(m, u) \/ (Verdict(m) = "none" /\ Place(m, u) = "nowhere")
        <5>1. stage[m] = "accepted" /\ fate[m][u] = "none" /\ u \in Receivers[m] => m \in hurt
          BY ReceiversAssumption DEF DInv, Fits
        <5>2. Verdict(m)' = Verdict(m) \/ Verdict(m) = "none"
          BY <1>3, <1>5
        <5>. QED BY <3>1, <5>1, <5>2 DEF LeftOut, CopyRests, Verdict, PlaceOf
      <4>3. PlaceOf(fate[m][u])' = PlaceOf(fate[m][u])
        BY <3>1 DEF CopyRests
      <4>. QED BY <4>1, <4>2, <4>3 DEF LeftOut
    <3>2. CASE CopyEnters(m, u)
      <4>1. ~LeftOut(m, u) /\ Place(m, u) = "nowhere" /\ Verdict(m) = "none"
        BY <3>2 DEF CopyEnters, LeftOut, PlaceOf, Verdict, InLoop
      <4>2. Place(m, u)' \in {"nowhere", "inside", "shown", "gone"}
        BY <2>1 DEF PlaceOf, Fate
      <4>. QED BY <3>2, <4>1, <4>2 DEF CopyEnters
    <3>3. CASE CopyMoves(m, u)
      <4>1. ~LeftOut(m, u) /\ ~LeftOut(m, u)' /\ PlaceOf(fate[m][u]) = "inside"
        BY <3>3 DEF CopyMoves, LeftOut, PlaceOf, Moving
      <4>2. PlaceOf(fate[m][u])' \in {"inside", "shown", "gone"}
        BY <2>1, <3>3 DEF CopyMoves, PlaceOf, Fate
      <4>. QED BY <4>1, <4>2
    <3>. QED BY <1>2, <1>5, <3>1, <3>2, <3>3
  <2>3. ASSUME NEW m \in Messages
        PROVE  \/ Verdict(m)' = Verdict(m)
               \/ /\ Verdict(m) = "none"
                  /\ \/ Verdict(m)' = "refused"
                     \/ /\ Verdict(m)' = "accepted"
                        /\ \A u \in Receivers[m] : Place(m, u)' # "nowhere"
    <3>1. Verdict(m)' = "accepted" => \A u \in Receivers[m] :
                                        LeftOut(m, u)' \/ fate'[m][u] \in Fate \ {"none"}
      BY <2>1, ReceiversAssumption DEF DInv, Fits, Verdict, LeftOut
    <3>2. Verdict(m)' \in {"none", "accepted", "refused"}
      BY DEF Verdict
    <3>. QED BY <1>3, <1>5, <3>1, <3>2 DEF PlaceOf, Fate
  <2>. QED BY <2>2, <2>3, ReceiversAssumption
           DEF Promise!Next, Promise!Rests, Promise!Enters, Promise!Ends, Promise!Concludes,
               Promise!Final
<1>. QED BY <1>1, <1>5

\* Proxies, ChatService, queue and mailbox implement what sending promises.
THEOREM ImplementsPost == DeliverySpec => KeepsPostPromise
<1>1. KeepsPostPromise <=> Promise!Init /\ [][Promise!Next]_(Promise!vars)
  BY DEF KeepsPostPromise, Promise!Spec
<1>. QED BY <1>1, PostInit, PostStep, DeliveryInvariance, PTL DEF DeliverySpec

-----------------------------------------------------------------------------
(* Mail for a user who is logged in.                                       *)

\* u's session is on c, and has been since a login that ended with his mail.
Settled(c, u) ==
  /\ who[c] = u /\ pc[c] \in {"ready", "logout_rpc"}
  /\ mode[Home[c]] = "up" /\ row[u] = Online /\ host[u] = Home[c]

\* Only receivers have copies.
OwnOnly(m) == \A u \in Users \ Receivers[m] : fate[m][u] = "none"

\* A copy that no login of its receiver has overtaken, and that no stale entry
\* has sent to the mailbox instead, comes to him where he is:
\* it is not in the mailbox nor on its way there, if it has been forwarded it is
\* at his proxy, and if it has not been dealt with ChatService has seen him
\* online, and at his proxy.
CopyFollows(c, m, u) ==
  /\ fate[m][u] \notin {"adrift", "queued", "stored"}
  /\ fate[m][u] = "away" => at[m][u] = Home[c]
  /\ stage[m] \in InLoop /\ u \in rest[m] =>
       /\ u \in on[m]
       /\ at[m][u] # NoHost => at[m][u] = Home[c]

Follows(m) ==
  \A c \in Conns, u \in Users \ upset :
    Settled(c, u) /\ <<m, u>> \notin overtaken /\ <<m, "mailed">> \notin misled =>
      CopyFollows(c, m, u)

MailInv == DInv /\ \A m \in Messages : OwnOnly(m) /\ Follows(m)

LEMMA OwnOnlyStep ==
  ASSUME DInv, [DeliveryNext]_deliveryVars, NEW n \in Messages, OwnOnly(n)
  PROVE  OwnOnly(n)'
<1>1. CASE SessionStep \/ Send(n) \/ GiveUp(n) \/ Handler(n) \/ \E u \in Users : Carry(n, u)
  <2>. SUFFICES ASSUME NEW u \in Users \ Receivers[n] PROVE fate'[n][u] = "none"
    BY DEF OwnOnly
  <2>1. CopyRests(n, u) \/ CopyEnters(n, u) \/ CopyMoves(n, u)
    BY <1>1, Ways DEF DInv
  <2>. QED BY <2>1 DEF OwnOnly, CopyRests, CopyEnters, CopyMoves, Moving
<1>2. CASE UNCHANGED deliveryVars
  BY <1>2 DEF deliveryVars, OwnOnly
<1>3. ASSUME NEW m \in Messages, n # m,
             Send(m) \/ GiveUp(m) \/ Handler(m) \/ \E u \in Users : Carry(m, u)
      PROVE  OwnOnly(n)'
  BY <1>3, OthersUntouched DEF DInv, Untouched, OwnOnly
<1>. QED BY <1>1, <1>2, <1>3 DEF DeliveryNext

\* A client gets a user only by a login that ends.
LEMMA Arrivals ==
  ASSUME IInv, [Next]_vars, NEW c \in Conns, NEW u \in Users,
         who'[c] = u, pc'[c] \in {"ready", "logout_rpc"}
  PROVE  (who[c] = u /\ pc[c] \in {"ready", "logout_rpc"}) \/ Loads(c, u)
<1>. USE UsersAssumption DEF IInv, TypeOK, LocalFit, AtRest, Goto, Answer, Gone, coros, vars
<1>1. ASSUME NEW d \in Conns, Client(d)
      PROVE  who[c] = u /\ pc[c] \in {"ready", "logout_rpc"}
  BY <1>1 DEF Client, Connect, Exchange, Request, HangUp
<1>2. ASSUME NEW d \in Conns, LoginRpc(d) \/ Insert(d) \/ Erase(d) \/ CloseErase(d) \/ CloseRpc(d)
      PROVE  who[c] = u /\ pc[c] \in {"ready", "logout_rpc"}
  BY <1>2 DEF LoginRpc, Insert, Erase, CloseErase, CloseRpc
<1>3. ASSUME NEW d \in Conns, LogoutRpc(d)
      PROVE  who[c] = u /\ pc[c] \in {"ready", "logout_rpc"}
  BY <1>3 DEF LogoutRpc
<1>4. ASSUME NEW d \in Conns, Load(d)
      PROVE  (who[c] = u /\ pc[c] \in {"ready", "logout_rpc"}) \/ Loads(c, u)
  BY <1>4 DEF Load, Loads
<1>5. ASSUME NEW p \in Proxies, Interrupt(p) \/ Shutdown(p) \/ Crash(p) \/ Restart(p)
      PROVE  who[c] = u /\ pc[c] \in {"ready", "logout_rpc"}
  BY <1>5 DEF Interrupt, Shutdown, ResetRpc, Exit, Crash, Stop, Restart
<1>6. ASSUME NEW call \in late, ExecuteLate(call)
      PROVE  who[c] = u /\ pc[c] \in {"ready", "logout_rpc"}
  BY <1>6 DEF ExecuteLate
<1>7. CASE UNCHANGED vars
  BY <1>7
<1>. QED BY <1>1, <1>2, <1>3, <1>4, <1>5, <1>6, <1>7 DEF Next, Handle

LEMMA ComesUp ==
  ASSUME IInv, [Next]_vars, NEW p \in Proxies, mode'[p] = "up"
  PROVE  mode[p] # "reset"
BY DEF IInv, TypeOK, Next, Client, Connect, Exchange, Request, HangUp, Handle, LoginRpc, Insert,
       Load, LogoutRpc, Erase, CloseErase, CloseRpc, Interrupt, Shutdown, ResetRpc, Exit, Crash,
       Stop, Restart, ExecuteLate, procs, vars

LEMMA SettledStep ==
  ASSUME IInv, DownFits, [Next]_vars, NEW c \in Conns, NEW u \in Users, u \notin upset',
         Settled(c, u)'
  PROVE  Settled(c, u) \/ (Loads(c, u) /\ who'[c] = u)
<1>1. u \notin upset
  BY QuietStep DEF Quiet
<1>2. Home[c] \in Proxies /\ mode'[Home[c]] = "up"
  BY HomeAssumption DEF Settled
<1>3. (who[c] = u /\ pc[c] \in {"ready", "logout_rpc"}) \/ Loads(c, u)
  BY Arrivals DEF Settled
<1>4. CASE who[c] = u /\ pc[c] \in {"ready", "logout_rpc"}
  <2>1. mode[Home[c]] = "up"
    BY <1>2, <1>4, ComesUp DEF IInv, TypeOK, DownFits
  <2>2. row[u] = Online /\ host[u] = Home[c]
    BY <1>1, <1>4, <2>1 DEF IInv, LiveFits, Live, Holds
  <2>. QED BY <1>4, <2>1, <2>2 DEF Settled
<1>. QED BY <1>3, <1>4 DEF Settled

LEMMA FollowsSessions ==
  ASSUME MailInv, SessionStep, NEW n \in Messages
  PROVE  Follows(n)'
<1>0. HandlersType /\ FateType /\ AtType /\ IInv /\ DownFits /\ DeliveryTypeOK /\ Fits(n)
  BY TypeParts DEF MailInv, DInv
<1>1. [Next]_vars
  BY DEF SessionStep
<1>2. /\ on'[n] = on[n] /\ rest'[n] = rest[n]
      /\ stage'[n] \in InLoop => stage[n] \in InLoop
  BY <1>0 DEF SessionStep, MessagesFollow, SendersFollow, HandlersType, InLoop
<1>. SUFFICES ASSUME NEW c \in Conns, NEW u \in Users, u \notin upset', Settled(c, u)',
                     <<n, u>> \notin overtaken', <<n, "mailed">> \notin misled'
              PROVE  CopyFollows(c, n, u)'
  BY DEF Follows
<1>3. u \notin upset /\ <<n, u>> \notin overtaken /\ <<n, "mailed">> \notin misled
  BY <1>0, <1>1, QuietStep DEF Quiet, SessionStep, MessagesFollow, LegendFollows
<1>4. /\ fate'[n][u] \in Fates(n, u)
      /\ fate[n][u] = "none" => at'[n][u] = at[n][u]
      /\ fate'[n][u] # "lost" => at'[n][u] = at[n][u]
  BY <1>0, SessionStepFates
<1>5. stage[n] \in InLoop /\ u \in rest[n] => fate[n][u] = "none"
  BY <1>0 DEF Fits
<1>6. CASE Settled(c, u)
  <2>1. CopyFollows(c, n, u)
    BY <1>3, <1>6 DEF MailInv, Follows
  <2>2. fate'[n][u] \in {fate[n][u], "lost"}
    BY <1>0, <1>4, <2>1, FatesType DEF CopyFollows
  <2>. QED BY <1>2, <1>4, <1>5, <2>1, <2>2 DEF CopyFollows
\* The login that ends reads what is stored, and overtakes what is not.
<1>7. CASE Loads(c, u) /\ who'[c] = u
  <2>1. ~UnderWay(n, u)
    BY <1>7 DEF SessionStep, MessagesFollow, LegendFollows, Pairs
  <2>2. u \in Receivers[n] \/ fate[n][u] = "none"
    BY DEF MailInv, OwnOnly
  <2>3. ~(stage[n] \in InLoop /\ u \in rest[n])
    BY <1>0, <1>5, <2>1 DEF Fits, UnderWay
  <2>4. fate[n][u] \notin Moving
    BY <2>1, <2>2 DEF UnderWay, Moving
  <2>5. fate[n][u] = "stored" => Fates(n, u) \subseteq {"shown", "unread"}
    BY <1>7 DEF Fates, Read
  <2>6. fate[n][u] \notin Moving \cup {"stored"} => Fates(n, u) = {fate[n][u]}
    BY <1>0, FatesType DEF Moving
  <2>7. fate'[n][u] \notin Moving \cup {"stored"}
    BY <1>4, <2>4, <2>5, <2>6 DEF Moving
  <2>. QED BY <1>2, <2>3, <2>7 DEF CopyFollows, Moving
<1>. QED BY <1>0, <1>1, <1>6, <1>7, SettledStep

LEMMA FollowsHandlers ==
  ASSUME MailInv, NEW n \in Messages,
         Send(n) \/ GiveUp(n) \/ Handler(n) \/ \E u \in Users : Carry(n, u)
  PROVE  Follows(n)'
<1>0. HandlersType /\ FateType /\ AtType /\ IInv /\ DownFits /\ DeliveryTypeOK /\ Fits(n)
  BY TypeParts DEF MailInv, DInv
<1>1. UNCHANGED <<row, host, table, pc, who, mode, upset, overtaken>>
  BY ExcusesStay DEF vars
<1>. SUFFICES ASSUME NEW c \in Conns, NEW u \in Users \ upset, Settled(c, u),
                     <<n, "mailed">> \notin misled', CopyFollows(c, n, u)
              PROVE  CopyFollows(c, n, u)'
  BY <1>1, ExcusesStay DEF MailInv, Follows, Settled
<1>. USE <1>0, ReceiversAssumption DEF CopyFollows
<1>2. row[u] = Online /\ host[u] = Home[c] /\ Home[c] \in Proxies /\ Home[c] # NoHost
  BY HomeAssumption, ConnsAssumption DEF Settled
<1>3. Entry(c, u) = c /\ c # NoConn
  BY ConnsAssumption DEF Settled, IInv, EntriesFit, Holds
<1>4. stage[n] \in InLoop => rest[n] \subseteq Receivers[n] /\ \A w \in rest[n] : fate[n][w] = "none"
  BY DEF Fits
<1>5. CASE Send(n)
  BY <1>5 DEF Send, copies, HandlersType, InLoop
<1>6. CASE GiveUp(n)
  BY <1>6 DEF GiveUp, copies, HandlersType, InLoop
<1>7. CASE Look(n)
  <2>1. PICK v \in Users :
          /\ UNCHANGED at
          /\ \/ Becomes(n, v, Pushed(table[via[n]][v], v)) /\ Conclude(n, "accepted")
             \/ Goes(n, "ask") /\ UNCHANGED fate
    BY <1>7 DEF Look
  <2>2. stage'[n] \notin InLoop
    BY <2>1, Effects DEF Stages, InLoop
  <2>3. fate'[n][u] \in {fate[n][u], "unread", "shown", "misread"}
    BY <2>1, Effects, PushedType DEF Fate
  <2>. QED BY <2>1, <2>2, <2>3
<1>8. CASE AskStates(n)
  <2>1. UNCHANGED <<fate, at>>
    BY <1>8, Asked
  <2>2. CASE \E v \in {"accepted", "refused"} : Conclude(n, v)
    BY <2>1, <2>2, Effects DEF InLoop
  <2>3. ASSUME NEW S \in SUBSET Receivers[n], Sees(n, S),
               \A w \in Receivers[n] \ S : row[w] # Online \/ <<n, "mailed">> \in misled'
        PROVE  CopyFollows(c, n, u)'
    <3>1. u \in rest'[n] => u \in on'[n]
      BY <1>2, <2>3, SeesEffect
    <3>2. at[n][u] = NoHost
      BY <1>8, Asked DEF Fits
    <3>. QED BY <2>1, <3>1, <3>2
  <2>. QED BY <1>8, <2>2, <2>3, Asked
<1>9. ASSUME NEW v \in Users, ReadHost(n, v) PROVE CopyFollows(c, n, u)'
  <2>1. UNCHANGED fate /\ stage[n] \in InLoop /\ fate[n][v] = "none"
    BY <1>4, <1>9 DEF ReadHost, InLoop
  <2>2. CASE Conclude(n, "refused") /\ UNCHANGED at
    BY <2>1, <2>2, Effects DEF InLoop
  <2>3. CASE at' = [at EXCEPT ![n][v] = host[v]] /\ Goes(n, "forward")
    <3>1. on'[n] = on[n] /\ rest'[n] = rest[n]
      BY <2>3, Effects DEF Stages, InLoop
    <3>2. at'[n][u] = IF u = v THEN host[u] ELSE at[n][u]
      BY <2>3 DEF AtType
    <3>. QED BY <1>2, <2>1, <3>1, <3>2
  <2>. QED BY <1>9, <2>2, <2>3 DEF ReadHost
<1>10. ASSUME NEW v \in Users, Forward(n, v) PROVE CopyFollows(c, n, u)'
  <2>1. stage[n] \in InLoop /\ v \in rest[n] /\ fate[n][v] = "none" /\ at[n][v] # NoHost
    BY <1>4, <1>10 DEF Forward, InLoop
  <2>2. CASE Becomes(n, v, "away") /\ Advance(n, v) /\ UNCHANGED at
    <3>1. fate'[n][v] = "away" /\ \A w \in Users : w # v => fate'[n][w] = fate[n][w]
      BY <2>2, Effects DEF Fate, Moving
    <3>2. stage'[n] \in InLoop => on'[n] = on[n] /\ rest'[n] \subseteq rest[n]
      BY <2>2, Effects DEF InLoop
    <3>. QED BY <2>1, <2>2, <3>1, <3>2
  <2>3. CASE Lands(n, v, "none") /\ Conclude(n, "refused")
    <3>1. fate'[n][v] = "none" /\ \A w \in Users : w # v => fate'[n][w] = fate[n][w]
      BY <2>3, Effects DEF Fate, Lands
    <3>2. u # v => at'[n][u] = at[n][u]
      BY <2>3 DEF Lands, AtType
    <3>3. stage'[n] \notin InLoop
      BY <2>3, Effects DEF InLoop
    <3>. QED BY <3>1, <3>2, <3>3
  <2>. QED BY <1>10, <2>2, <2>3 DEF Forward
<1>11. ASSUME NEW v \in Users, Save(n, v) PROVE CopyFollows(c, n, u)'
  <2>1. stage[n] \in InLoop /\ v \in rest[n] \ on[n] /\ UNCHANGED at
    BY <1>11 DEF Save, InLoop
  <2>2. u # v
    BY <2>1
  <2>3. fate'[n][u] = fate[n][u]
    BY <1>11, <2>2, Effects DEF Save, Fate, Moving
  <2>4. stage'[n] \in InLoop => on'[n] = on[n] /\ rest'[n] \subseteq rest[n]
    BY <1>11, Effects DEF Save, InLoop
  <2>. QED BY <2>1, <2>3, <2>4
<1>12. ASSUME NEW v \in Users, Forwarded(n, v) PROVE CopyFollows(c, n, u)'
  <2>1. UNCHANGED handlers /\ fate[n][v] = "away"
    BY <1>12 DEF Forwarded
  <2>2. stage[n] \in InLoop => v \notin rest[n]
    BY <1>4, <2>1
  <2>3. u # v => fate'[n][u] = fate[n][u] /\ at'[n][u] = at[n][u]
    BY <1>12, Effects, PushedType DEF Forwarded, Lands, AtType, Fate, Moving
  <2>4. u = v => fate'[n][u] \in {"unread", "shown", "misread"}
    <3>1. u = v => table[at[n][u]][u] = c
      BY <1>3, <2>1 DEF Entry
    <3>2. u = v => Lands(n, u, Pushed(c, u))
      BY <1>3, <1>12, <3>1 DEF Forwarded
    <3>. QED BY <3>2, Effects, PushedType DEF Lands, Fate
  <2>. QED BY <2>1, <2>2, <2>3, <2>4 DEF handlers
<1>13. ASSUME NEW v \in Users, SaveForwarded(n, v) \/ Consume(n, v) PROVE CopyFollows(c, n, u)'
  <2>1. UNCHANGED handlers /\ fate[n][v] \in {"adrift", "queued"}
    BY <1>13 DEF SaveForwarded, Consume
  <2>2. u # v
    BY <2>1
  <2>3. fate'[n][u] = fate[n][u] /\ at'[n][u] = at[n][u]
    BY <1>13, <2>2, Effects DEF SaveForwarded, Consume, Lands, AtType, Fate, Moving
  <2>. QED BY <2>1, <2>3 DEF handlers
<1>. QED BY <1>5, <1>6, <1>7, <1>8, <1>9, <1>10, <1>11, <1>12, <1>13 DEF Handler, Carry

LEMMA FollowsStep ==
  ASSUME MailInv, [DeliveryNext]_deliveryVars, NEW n \in Messages
  PROVE  Follows(n)'
<1>1. ASSUME Untouched(n), UNCHANGED <<row, host, pc, who, mode, upset, overtaken>>
      PROVE  Follows(n)'
  BY <1>1 DEF MailInv, Follows, CopyFollows, Settled, Untouched
<1>2. CASE UNCHANGED deliveryVars
  BY <1>1, <1>2 DEF deliveryVars, vars, Untouched
<1>3. ASSUME NEW m \in Messages, n # m,
             Send(m) \/ GiveUp(m) \/ Handler(m) \/ \E u \in Users : Carry(m, u)
      PROVE  Follows(n)'
  <2>1. UNCHANGED <<row, host, pc, who, mode, upset, overtaken>>
    BY <1>3, ExcusesStay DEF vars
  <2>2. Untouched(n)
    BY <1>3, OthersUntouched DEF MailInv, DInv
  <2>. QED BY <1>1, <2>1, <2>2
<1>. QED BY <1>2, <1>3, FollowsSessions, FollowsHandlers DEF DeliveryNext

\* Who is logged in has no mail waiting, wherever he has moved and whatever has
\* failed, except messages his login has overtaken and those a stale entry that
\* had him offline has sent there.
THEOREM NoMailWaits == DeliverySpec => []MailWaitsOnlyIfOvertaken
<1>1. DeliveryInit => MailInv
  <2>1. DeliveryInit => \A m \in Messages : OwnOnly(m) /\ Follows(m)
    BY DEF DeliveryInit, Init, OwnOnly, Follows, Settled
  <2>. QED BY <2>1, DeliveryInitially DEF MailInv
<1>2. MailInv /\ [DeliveryNext]_deliveryVars => MailInv'
  BY DInvStep, OwnOnlyStep, FollowsStep DEF MailInv
<1>3. MailInv => MailWaitsOnlyIfOvertaken
  BY DEF MailInv, Follows, CopyFollows, Settled, MailWaitsOnlyIfOvertaken, InSession
<1>. QED BY <1>1, <1>2, <1>3, PTL DEF DeliverySpec
=============================================================================
