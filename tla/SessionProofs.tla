---------------------------- MODULE SessionProofs ----------------------------
(***************************************************************************)
(* Proofs about Session: the type invariant, and that for every account    *)
(* whose session was not upset UserService's view, the proxies' tables and *)
(* the clients' belief fit together.                                       *)
(*                                                                         *)
(* None of the three invariants is inductive.  The proofs go through one   *)
(* that says of each connection whether it holds a user's session (Holds,  *)
(* Pending, Live) and of each user online which connection keeps it        *)
(* (Keeper).  The keeper is also where Accounts has the user logged in.    *)
(***************************************************************************)
EXTENDS Session, TLAPS

AtRest  == {"none", "greeted", "ready"}

\* A request in progress is about a user, and its client knows which.
LocalFit ==
  \A c \in Conns :
    /\ IF pc[c] \in AtRest THEN arg[c] = NoUser ELSE arg[c] \in Users
    /\ pc[c] \in {"none", "greeted", "login_rpc", "insert", "load"} => who[c] = NoUser
    /\ pc[c] \in {"logout_rpc", "erase"} => who[c] = arg[c]
    /\ pc[c] \notin {"none", "greeted", "close_rpc"} => cipher[c] = "key"

\* Calls that may still be executed are of accounts known to be upset.
LateFits == \A call \in late : call.user \in upset

\* Entries are of the proxy's own connections, and a connection two users
\* share has upset both.
TableFits ==
  /\ \A p \in Proxies, u \in Users, c \in Conns : table[p][u] = c => Home[c] = p
  /\ \A c \in Conns : \A u \in Users \ upset : \A v \in Users :
       Entry(c, u) = c /\ Entry(c, v) = c => u = v

\* The table says of an account exactly what its client believes.
EntriesFit ==
  \A c \in Conns : \A u \in Users \ upset : Entry(c, u) = c <=> Holds(c, u)

\* A live session is the only one on its proxy, and it is the one UserService
\* knows, unless reset() has dealt with the user already.
LiveFits ==
  \A c \in Conns : \A u \in Users \ upset : Live(c, u) =>
    \/ /\ row[u] = Online /\ host[u] = Home[c]
       /\ \A d \in Conns : Home[d] = Home[c] /\ Live(d, u) => d = c
    \/ mode[Home[c]] = "reset" /\ u \notin todo[Home[c]]

\* Whoever is online has a live session, one that reset() will still end.
OnlineFits == \A u \in Users \ upset : row[u] = Online => \E c \in Conns : Keeper(c, u)

IInv == TypeOK /\ LocalFit /\ LateFits /\ TableFits /\ EntriesFit /\ LiveFits /\ OnlineFits

-----------------------------------------------------------------------------
(* Types.  The helpers first: what they do to the variables they change.   *)

ServiceType == row \in [Users -> {Online, Offline}] /\ host \in [Users -> Proxies \cup {NoHost}]
CoroType    == /\ pc \in [Conns -> Steps]
               /\ arg \in [Conns -> Users \cup {NoUser}]
               /\ who \in [Conns -> Users \cup {NoUser}]
EnvType     == late \subseteq Calls /\ faults \in 0..MaxFaults /\ upset \subseteq Users

LEMMA HomeType == \A c \in Conns : Home[c] \in Proxies
BY HomeAssumption

\* An RPC about a user, sent from a proxy: every outcome there is.
LEMMA ServiceStep ==
  ASSUME TypeOK, NEW u \in Users, NEW p \in Proxies
  PROVE  /\ Admit(u, p) => ServiceType'
         /\ Retire(u) => ServiceType'
         /\ \A s \in {Online, Offline} : Refuse(u, s) => ServiceType'
         /\ CallLogout(u, p) => ServiceType' /\ EnvType'
         /\ \A kind \in {"login", "logout"} : TimeOut(kind, u, p) => ServiceType' /\ EnvType'
         /\ \A h \in Proxies \cup {NoHost} : GoWrong(u, h) => ServiceType' /\ EnvType'
<1>. USE DEF ServiceType, EnvType, TypeOK
<1>1. Admit(u, p) => ServiceType'
  BY DEF Admit
<1>2. Retire(u) => ServiceType'
  BY DEF Retire
<1>3. ASSUME NEW s, Refuse(u, s) PROVE ServiceType'
  BY <1>3 DEF Refuse, service
<1>4. CallLogout(u, p) => ServiceType' /\ EnvType'
  BY <1>2, <1>3 DEF CallLogout, env
<1>5. ASSUME NEW kind \in {"login", "logout"}, TimeOut(kind, u, p) PROVE ServiceType' /\ EnvType'
  <2>1. [kind |-> kind, user |-> u, proxy |-> p] \in Calls
    BY DEF Calls
  <2>2. faults + 1 \in 0..MaxFaults
    BY <1>5, FaultAssumption DEF TimeOut, GoWrong, Fault
  <2>. QED BY <1>5, <2>1, <2>2 DEF TimeOut, Fault, service
<1>6. ASSUME NEW h \in Proxies \cup {NoHost}, GoWrong(u, h) PROVE ServiceType' /\ EnvType'
  <2>1. faults + 1 \in 0..MaxFaults
    BY <1>6, FaultAssumption DEF GoWrong, Fault
  <2>. QED BY <1>6, <2>1 DEF GoWrong, Fault
<1>. QED BY <1>1, <1>2, <1>3, <1>4, <1>5, <1>6

LEMMA CoroStep ==
  ASSUME TypeOK, NEW c \in Conns
  PROVE  /\ \A step \in Steps : Goto(c, step) => CoroType'
         /\ \A u \in Users \cup {NoUser} : Answer(c, u) => CoroType'
         /\ Gone(c) => CoroType'
<1>. USE DEF TypeOK, CoroType
<1>1. ASSUME NEW step \in Steps, Goto(c, step) PROVE CoroType'
  BY <1>1 DEF Goto
<1>2. ASSUME NEW u \in Users \cup {NoUser}, Answer(c, u) PROVE CoroType'
  BY <1>2 DEF Answer, Steps
<1>3. ASSUME Gone(c) PROVE CoroType'
  BY <1>3 DEF Gone, Steps
<1>. QED BY <1>1, <1>2, <1>3

LEMMA FaultType ==
  ASSUME TypeOK, Fault
  PROVE  faults' \in 0..MaxFaults
BY FaultAssumption DEF TypeOK, Fault

LEMMA MidSessionType ==
  ASSUME TypeOK, LocalFit, NEW p \in Proxies
  PROVE  /\ MidSession(p) \subseteq Users
         /\ { CallOf(c) : c \in MidCall(p) } \subseteq Calls
<1>1. ASSUME NEW c \in MidCall(p) PROVE c \in Conns /\ arg[c] \in Users /\ CallOf(c) \in Calls
  BY <1>1, HomeType DEF TypeOK, LocalFit, AtRest, Steps, MidCall, Local, CallOf, Calls
<1>2. ASSUME NEW c \in Local(p), pc[c] = "insert" PROVE arg[c] \in Users
  BY <1>2 DEF LocalFit, AtRest, Local
<1>. QED BY <1>1, <1>2 DEF MidSession

LEMMA StopType ==
  ASSUME TypeOK, LocalFit, NEW p \in Proxies, Stop(p)
  PROVE  /\ ServiceType' /\ CoroType'
         /\ table' \in [Proxies -> [Users -> Conns \cup {NoConn}]]
         /\ cipher' \in [Conns -> {"none", "plain", "key"}]
         /\ alive' \in [Conns -> BOOLEAN]
         /\ mode' \in [Proxies -> {"up", "reset", "down"}]
         /\ todo' \in [Proxies -> SUBSET Users]
         /\ late' \subseteq Calls
<1>. USE DEF Stop, TypeOK, ServiceType, CoroType, Steps
<1>1. ServiceType' /\ CoroType'
  BY DEF service
<1>2. /\ table' \in [Proxies -> [Users -> Conns \cup {NoConn}]]
      /\ mode' \in [Proxies -> {"up", "reset", "down"}]
      /\ todo' \in [Proxies -> SUBSET Users]
  OBVIOUS
<1>3. alive' \in [Conns -> BOOLEAN]
  <2>1. \A c \in Conns : (Home[c] # p /\ alive[c]) \in BOOLEAN
    OBVIOUS
  <2>. QED BY <2>1
<1>4. late' \subseteq Calls
  BY MidSessionType
<1>. QED BY <1>1, <1>2, <1>3, <1>4

LEMMA TypeStep ==
  ASSUME IInv, [Next]_vars
  PROVE  TypeOK'
<1>. USE HomeType DEF IInv, service, coros, procs, env, vars
<1>1. ASSUME NEW c \in Conns, Connect(c) PROVE TypeOK'
  BY <1>1 DEF Connect, Goto, TypeOK, Steps
<1>2. ASSUME NEW c \in Conns, Exchange(c) PROVE TypeOK'
  BY <1>2 DEF Exchange, Goto, TypeOK, Steps
<1>3. ASSUME NEW c \in Conns, Request(c) PROVE TypeOK'
  <2>1. CoroType'
    <3>1. PICK u \in Users \cup {NoUser} : arg' = [arg EXCEPT ![c] = u]
      BY <1>3 DEF Request, TypeOK
    <3>2. pc' = [pc EXCEPT ![c] = "login_rpc"] \/ pc' = [pc EXCEPT ![c] = "logout_rpc"]
      BY <1>3 DEF Request
    <3>. QED BY <1>3, <3>1, <3>2 DEF Request, CoroType, TypeOK, Steps
  <2>. QED BY <1>3, <2>1 DEF Request, CoroType, TypeOK
<1>4. ASSUME NEW c \in Conns, HangUp(c) PROVE TypeOK'
  BY <1>4 DEF HangUp, TypeOK
<1>5. ASSUME NEW c \in Conns, LoginRpc(c) PROVE TypeOK'
  <2>1. arg[c] \in Users
    BY <1>5 DEF LoginRpc, LocalFit, AtRest
  <2>2. CoroType'
    BY <1>5, CoroStep DEF LoginRpc, Steps
  <2>3. ServiceType' /\ EnvType'
    <3>1. CASE Admit(arg[c], Home[c]) /\ UNCHANGED <<env, upset>>
      BY <2>1, <3>1, ServiceStep DEF EnvType, TypeOK
    <3>2. CASE UNCHANGED <<service, env, upset>>
      BY <3>2 DEF ServiceType, EnvType, TypeOK
    <3>3. CASE TimeOut("login", arg[c], Home[c]) \/ GoWrong(arg[c], Home[c])
      BY <2>1, <3>3, ServiceStep
    <3>. QED BY <1>5, <3>1, <3>2, <3>3 DEF LoginRpc
  <2>. QED BY <1>5, <2>2, <2>3 DEF LoginRpc, TypeOK, CoroType, ServiceType, EnvType
<1>6. ASSUME NEW c \in Conns, Insert(c) PROVE TypeOK'
  <2>1. arg[c] \in Users
    BY <1>6 DEF Insert, LocalFit, AtRest
  <2>2. CoroType'
    BY <1>6, CoroStep DEF Insert, Steps
  <2>3. table' \in [Proxies -> [Users -> Conns \cup {NoConn}]]
    BY <1>6, <2>1 DEF Insert, TypeOK
  <2>4. upset' \subseteq Users
    BY <1>6, <2>1 DEF Insert, Under, TypeOK
  <2>. QED BY <1>6, <2>2, <2>3, <2>4 DEF Insert, TypeOK, CoroType
<1>7. ASSUME NEW c \in Conns, Load(c) PROVE TypeOK'
  <2>1. arg[c] \in Users
    BY <1>7 DEF Load, LocalFit, AtRest
  <2>2. CoroType'
    BY <1>7, <2>1, CoroStep DEF Load
  <2>3. faults' \in 0..MaxFaults /\ upset' \subseteq Users
    BY <1>7, <2>1, FaultType DEF Load, TypeOK
  <2>. QED BY <1>7, <2>2, <2>3 DEF Load, TypeOK, CoroType
<1>8. ASSUME NEW c \in Conns, LogoutRpc(c) PROVE TypeOK'
  <2>1. arg[c] \in Users /\ who[c] \in Users
    BY <1>8 DEF LogoutRpc, LocalFit, AtRest
  <2>2. CoroType'
    BY <1>8, <2>1, CoroStep DEF LogoutRpc, Steps
  <2>3. ServiceType' /\ EnvType'
    <3>1. CASE \/ CallLogout(arg[c], Home[c]) \/ TimeOut("logout", arg[c], Home[c])
               \/ GoWrong(arg[c], NoHost)
      BY <2>1, <3>1, ServiceStep
    <3>2. CASE Fault /\ UNCHANGED <<service, late, upset>>
      BY <3>2, FaultType DEF ServiceType, EnvType, TypeOK
    <3>. QED BY <1>8, <3>1, <3>2 DEF LogoutRpc
  <2>. QED BY <1>8, <2>2, <2>3 DEF LogoutRpc, TypeOK, CoroType, ServiceType, EnvType
<1>9. ASSUME NEW c \in Conns, Erase(c) PROVE TypeOK'
  BY <1>9, CoroStep DEF Erase, TypeOK, CoroType
<1>10. ASSUME NEW c \in Conns, CloseErase(c) PROVE TypeOK'
  <2>1. CASE Gone(c) /\ UNCHANGED <<table, cipher>>
    BY <1>10, <2>1, CoroStep DEF CloseErase, TypeOK, CoroType
  <2>2. ASSUME NEW u \in Under(c),
               table' = [table EXCEPT ![Home[c]][u] = NoConn],
               arg' = [arg EXCEPT ![c] = u],
               cipher' = [cipher EXCEPT ![c] = "none"],
               pc' = [pc EXCEPT ![c] = "close_rpc"], UNCHANGED who
        PROVE  TypeOK'
    <3>1. u \in Users
      BY DEF Under
    <3>2. table' \in [Proxies -> [Users -> Conns \cup {NoConn}]]
      BY <2>2, <3>1 DEF TypeOK
    <3>3. CoroType'
      BY <2>2, <3>1 DEF TypeOK, CoroType, Steps
    <3>4. cipher' \in [Conns -> {"none", "plain", "key"}]
      BY <2>2 DEF TypeOK
    <3>. QED BY <1>10, <3>2, <3>3, <3>4 DEF CloseErase, TypeOK, CoroType
  <2>. QED BY <1>10, <2>1, <2>2 DEF CloseErase
<1>11. ASSUME NEW c \in Conns, CloseRpc(c) PROVE TypeOK'
  <2>1. arg[c] \in Users
    BY <1>11 DEF CloseRpc, LocalFit, AtRest
  <2>2. CoroType' /\ ServiceType' /\ EnvType'
    BY <1>11, <2>1, CoroStep, ServiceStep DEF CloseRpc
  <2>. QED BY <1>11, <2>2 DEF CloseRpc, TypeOK, CoroType, ServiceType, EnvType
<1>12. ASSUME NEW p \in Proxies, Interrupt(p) PROVE TypeOK'
  BY <1>12 DEF Interrupt, TypeOK
<1>13. ASSUME NEW p \in Proxies, ResetRpc(p) PROVE TypeOK'
  <2>1. PICK u \in todo[p] : /\ \/ CallLogout(u, p) \/ TimeOut("logout", u, p)
                                \/ GoWrong(u, NoHost)
                             /\ todo' = [todo EXCEPT ![p] = @ \ {u}]
    BY <1>13 DEF ResetRpc
  <2>2. u \in Users
    BY DEF TypeOK
  <2>3. ServiceType' /\ EnvType'
    BY <2>1, <2>2, ServiceStep
  <2>. QED BY <1>13, <2>1, <2>3 DEF ResetRpc, TypeOK, ServiceType, EnvType
<1>14. ASSUME NEW p \in Proxies, Exit(p) PROVE TypeOK'
  <2>1. upset' \subseteq Users /\ faults' \in 0..MaxFaults
    BY <1>14, MidSessionType DEF Exit, TypeOK
  <2>. QED BY <1>14, <2>1, StopType DEF Exit, TypeOK, ServiceType, CoroType
<1>15. ASSUME NEW p \in Proxies, Crash(p) PROVE TypeOK'
  <2>1. upset' \subseteq Users /\ faults' \in 0..MaxFaults
    BY <1>15, MidSessionType, FaultType DEF Crash, TypeOK
  <2>. QED BY <1>15, <2>1, StopType DEF Crash, TypeOK, ServiceType, CoroType
<1>16. ASSUME NEW p \in Proxies, Restart(p) PROVE TypeOK'
  BY <1>16 DEF Restart, TypeOK
<1>17. ASSUME NEW call \in late, ExecuteLate(call) PROVE TypeOK'
  <2>1. call.user \in Users /\ call.proxy \in Proxies
    BY DEF TypeOK, Calls
  <2>2. ServiceType'
    BY <1>17, <2>1, ServiceStep DEF ExecuteLate
  <2>. QED BY <1>17, <2>2 DEF ExecuteLate, TypeOK, ServiceType
<1>18. CASE UNCHANGED vars
  BY <1>18 DEF TypeOK
<1>. QED
  BY <1>1, <1>2, <1>3, <1>4, <1>5, <1>6, <1>7, <1>8, <1>9, <1>10,
     <1>11, <1>12, <1>13, <1>14, <1>15, <1>16, <1>17, <1>18
  DEF Next, Client, Handle, Shutdown

-----------------------------------------------------------------------------
(* Every step preserves each part of the invariant.                        *)

LEMMA LocalStep ==
  ASSUME IInv, [Next]_vars
  PROVE  LocalFit'
<1>. USE HomeAssumption, ConnsAssumption, UsersAssumption 
     DEF IInv, TypeOK, LocalFit, AtRest, Steps, service, coros, procs, env, vars
<1>1. ASSUME NEW c \in Conns, Connect(c) PROVE LocalFit'
  BY <1>1 DEF Connect, Goto
<1>2. ASSUME NEW c \in Conns, Exchange(c) PROVE LocalFit'
  BY <1>2 DEF Exchange, Goto
<1>3. ASSUME NEW c \in Conns, Request(c) PROVE LocalFit'
  BY <1>3 DEF Request
<1>4. ASSUME NEW c \in Conns, HangUp(c) PROVE LocalFit'
  BY <1>4 DEF HangUp
<1>5. ASSUME NEW c \in Conns, LoginRpc(c) PROVE LocalFit'
  BY <1>5 DEF LoginRpc, Admit, TimeOut, GoWrong, Fault, Goto, Answer
<1>6. ASSUME NEW c \in Conns, Insert(c) PROVE LocalFit'
  BY <1>6 DEF Insert, Entry, Under, Lockable, Goto
<1>7. ASSUME NEW c \in Conns, Load(c) PROVE LocalFit'
  BY <1>7 DEF Load, Fault, Answer
<1>8. ASSUME NEW c \in Conns, LogoutRpc(c) PROVE LocalFit'
  BY <1>8 DEF LogoutRpc, CallLogout, Retire, Refuse, TimeOut, GoWrong, Fault, Goto, Answer
<1>9. ASSUME NEW c \in Conns, Erase(c) PROVE LocalFit'
  BY <1>9 DEF Erase, Answer, Lockable
<1>10. ASSUME NEW c \in Conns, CloseErase(c) PROVE LocalFit'
  BY <1>10 DEF CloseErase, Under, Entry, Gone, Lockable
<1>11. ASSUME NEW c \in Conns, CloseRpc(c) PROVE LocalFit'
  BY <1>11 DEF CloseRpc, CallLogout, Retire, Refuse, TimeOut, GoWrong, Fault, Gone
<1>12. ASSUME NEW p \in Proxies, Interrupt(p) PROVE LocalFit'
  BY <1>12 DEF Interrupt
<1>13. ASSUME NEW p \in Proxies, ResetRpc(p) PROVE LocalFit'
  BY <1>13 DEF ResetRpc, CallLogout, Retire, Refuse, TimeOut, GoWrong, Fault
<1>14. ASSUME NEW p \in Proxies, Exit(p) PROVE LocalFit'
  BY <1>14 DEF Exit, Stop, MidSession, MidCall, Local, CallOf
<1>15. ASSUME NEW p \in Proxies, Crash(p) PROVE LocalFit'
  BY <1>15 DEF Crash, Stop, MidSession, MidCall, Local, CallOf, Fault
<1>16. ASSUME NEW p \in Proxies, Restart(p) PROVE LocalFit'
  BY <1>16 DEF Restart
<1>17. ASSUME NEW call \in late, ExecuteLate(call) PROVE LocalFit'
  BY <1>17 DEF ExecuteLate, Admit, Retire, Refuse
<1>18. CASE UNCHANGED vars
  BY <1>18
<1>. QED
  BY <1>1, <1>2, <1>3, <1>4, <1>5, <1>6, <1>7, <1>8, <1>9, <1>10,
     <1>11, <1>12, <1>13, <1>14, <1>15, <1>16, <1>17, <1>18
  DEF Next, Client, Handle, Shutdown

LEMMA LateStep ==
  ASSUME IInv, [Next]_vars
  PROVE  LateFits'
<1>. USE HomeAssumption, ConnsAssumption, UsersAssumption
     DEF IInv, TypeOK, LateFits, LocalFit, AtRest, Calls,
         service, coros, procs, env, vars
<1>1. ASSUME NEW c \in Conns, Connect(c) PROVE LateFits'
  BY <1>1 DEF Connect, Goto
<1>2. ASSUME NEW c \in Conns, Exchange(c) PROVE LateFits'
  BY <1>2 DEF Exchange, Goto
<1>3. ASSUME NEW c \in Conns, Request(c) PROVE LateFits'
  BY <1>3 DEF Request
<1>4. ASSUME NEW c \in Conns, HangUp(c) PROVE LateFits'
  BY <1>4 DEF HangUp
<1>5. ASSUME NEW c \in Conns, LoginRpc(c) PROVE LateFits'
  BY <1>5 DEF LoginRpc, Admit, TimeOut, GoWrong, Fault, Goto, Answer
<1>6. ASSUME NEW c \in Conns, Insert(c) PROVE LateFits'
  BY <1>6 DEF Insert, Entry, Under, Lockable, Goto
<1>7. ASSUME NEW c \in Conns, Load(c) PROVE LateFits'
  BY <1>7 DEF Load, Fault, Answer
<1>8. ASSUME NEW c \in Conns, LogoutRpc(c) PROVE LateFits'
  BY <1>8 DEF LogoutRpc, CallLogout, Retire, Refuse, TimeOut, GoWrong, Fault, Goto, Answer
<1>9. ASSUME NEW c \in Conns, Erase(c) PROVE LateFits'
  BY <1>9 DEF Erase, Answer, Lockable
<1>10. ASSUME NEW c \in Conns, CloseErase(c) PROVE LateFits'
  BY <1>10 DEF CloseErase, Under, Entry, Gone, Lockable
<1>11. ASSUME NEW c \in Conns, CloseRpc(c) PROVE LateFits'
  BY <1>11 DEF CloseRpc, CallLogout, Retire, Refuse, TimeOut, GoWrong, Fault, Gone
<1>12. ASSUME NEW p \in Proxies, Interrupt(p) PROVE LateFits'
  BY <1>12 DEF Interrupt
<1>13. ASSUME NEW p \in Proxies, ResetRpc(p) PROVE LateFits'
  BY <1>13 DEF ResetRpc, CallLogout, Retire, Refuse, TimeOut, GoWrong, Fault
<1>14. ASSUME NEW p \in Proxies, Exit(p) PROVE LateFits'
  BY <1>14 DEF Exit, Stop, MidSession, MidCall, Local, CallOf
<1>15. ASSUME NEW p \in Proxies, Crash(p) PROVE LateFits'
  BY <1>15 DEF Crash, Stop, MidSession, MidCall, Local, CallOf, Fault
<1>16. ASSUME NEW p \in Proxies, Restart(p) PROVE LateFits'
  BY <1>16 DEF Restart
<1>17. ASSUME NEW call \in late, ExecuteLate(call) PROVE LateFits'
  BY <1>17 DEF ExecuteLate, Admit, Retire, Refuse
<1>18. CASE UNCHANGED vars
  BY <1>18
<1>. QED
  BY <1>1, <1>2, <1>3, <1>4, <1>5, <1>6, <1>7, <1>8, <1>9, <1>10,
     <1>11, <1>12, <1>13, <1>14, <1>15, <1>16, <1>17, <1>18
  DEF Next, Client, Handle, Shutdown

LEMMA TableStep ==
  ASSUME IInv, [Next]_vars
  PROVE  TableFits'
<1>. USE HomeAssumption, ConnsAssumption, UsersAssumption
     DEF IInv, TypeOK, TableFits, Entry, LocalFit, AtRest,
         service, coros, procs, env, vars
<1>1. ASSUME NEW c \in Conns, Connect(c) PROVE TableFits'
  BY <1>1 DEF Connect, Goto
<1>2. ASSUME NEW c \in Conns, Exchange(c) PROVE TableFits'
  BY <1>2 DEF Exchange, Goto
<1>3. ASSUME NEW c \in Conns, Request(c) PROVE TableFits'
  BY <1>3 DEF Request
<1>4. ASSUME NEW c \in Conns, HangUp(c) PROVE TableFits'
  BY <1>4 DEF HangUp
<1>5. ASSUME NEW c \in Conns, LoginRpc(c) PROVE TableFits'
  BY <1>5 DEF LoginRpc, Admit, TimeOut, GoWrong, Fault, Goto, Answer
<1>6. ASSUME NEW c \in Conns, Insert(c) PROVE TableFits'
  BY <1>6 DEF Insert, Entry, Under, Lockable, Goto
<1>7. ASSUME NEW c \in Conns, Load(c) PROVE TableFits'
  BY <1>7 DEF Load, Fault, Answer
<1>8. ASSUME NEW c \in Conns, LogoutRpc(c) PROVE TableFits'
  BY <1>8 DEF LogoutRpc, CallLogout, Retire, Refuse, TimeOut, GoWrong, Fault, Goto, Answer
<1>9. ASSUME NEW c \in Conns, Erase(c) PROVE TableFits'
  BY <1>9 DEF Erase, Answer
<1>10. ASSUME NEW c \in Conns, CloseErase(c) PROVE TableFits'
  <2>1. CASE Gone(c) /\ Under(c) = {} /\ UNCHANGED <<table, cipher>>
    BY <1>10, <2>1 DEF CloseErase, Under, Entry, Gone
  <2>2. ASSUME NEW v \in Under(c),
               table' = [table EXCEPT ![Home[c]][v] = NoConn],
               arg' = [arg EXCEPT ![c] = v],
               pc' = [pc EXCEPT ![c] = "close_rpc"], UNCHANGED who
        PROVE  TableFits'
    BY <1>10, <2>2 DEF CloseErase, Under, Entry
  <2>. QED BY <1>10, <2>1, <2>2 DEF CloseErase
<1>11. ASSUME NEW c \in Conns, CloseRpc(c) PROVE TableFits'
  BY <1>11 DEF CloseRpc, CallLogout, Retire, Refuse, TimeOut, GoWrong, Fault, Gone
<1>12. ASSUME NEW p \in Proxies, Interrupt(p) PROVE TableFits'
  BY <1>12 DEF Interrupt
<1>13. ASSUME NEW p \in Proxies, ResetRpc(p) PROVE TableFits'
  BY <1>13 DEF ResetRpc, CallLogout, Retire, Refuse, TimeOut, GoWrong, Fault
<1>14. ASSUME NEW p \in Proxies, Exit(p) PROVE TableFits'
  BY <1>14 DEF Exit, Stop, MidSession, MidCall, Local, CallOf
<1>15. ASSUME NEW p \in Proxies, Crash(p) PROVE TableFits'
  BY <1>15 DEF Crash, Stop, MidSession, MidCall, Local, CallOf, Fault
<1>16. ASSUME NEW p \in Proxies, Restart(p) PROVE TableFits'
  BY <1>16 DEF Restart
<1>17. ASSUME NEW call \in late, ExecuteLate(call) PROVE TableFits'
  BY <1>17 DEF ExecuteLate, Admit, Retire, Refuse
<1>18. CASE UNCHANGED vars
  BY <1>18
<1>. QED
  BY <1>1, <1>2, <1>3, <1>4, <1>5, <1>6, <1>7, <1>8, <1>9, <1>10,
     <1>11, <1>12, <1>13, <1>14, <1>15, <1>16, <1>17, <1>18
  DEF Next, Client, Handle, Shutdown

LEMMA EntriesStep ==
  ASSUME IInv, [Next]_vars
  PROVE  EntriesFit'
<1>. USE HomeAssumption, ConnsAssumption, UsersAssumption
     DEF IInv, TypeOK, EntriesFit, TableFits, Entry, Holds, LocalFit, AtRest,
         service, coros, procs, env, vars
<1>1. ASSUME NEW c \in Conns, Connect(c) PROVE EntriesFit'
  BY <1>1 DEF Connect, Goto
<1>2. ASSUME NEW c \in Conns, Exchange(c) PROVE EntriesFit'
  BY <1>2 DEF Exchange, Goto
<1>3. ASSUME NEW c \in Conns, Request(c) PROVE EntriesFit'
  BY <1>3 DEF Request
<1>4. ASSUME NEW c \in Conns, HangUp(c) PROVE EntriesFit'
  BY <1>4 DEF HangUp
<1>5. ASSUME NEW c \in Conns, LoginRpc(c) PROVE EntriesFit'
  BY <1>5 DEF LoginRpc, Admit, TimeOut, GoWrong, Fault, Goto, Answer
<1>6. ASSUME NEW c \in Conns, Insert(c) PROVE EntriesFit'
  BY <1>6 DEF Insert, Entry, Under, Lockable, Goto
<1>7. ASSUME NEW c \in Conns, Load(c) PROVE EntriesFit'
  <2>1. pc[c] = "load" /\ who[c] = NoUser /\ UNCHANGED table
    BY <1>7 DEF Load
  <2>2. CASE Answer(c, arg[c]) /\ UNCHANGED upset
    BY <2>1, <2>2 DEF Answer
  <2>3. CASE Answer(c, NoUser) /\ upset' = upset \cup {arg[c]}
    BY <2>1, <2>3 DEF Answer
  <2>. QED BY <1>7, <2>2, <2>3 DEF Load
<1>8. ASSUME NEW c \in Conns, LogoutRpc(c) PROVE EntriesFit'
  <2>1. pc[c] = "logout_rpc" /\ who[c] = arg[c] /\ table' = table
    BY <1>8 DEF LogoutRpc
  <2>2. upset \subseteq upset'
    BY <1>8 DEF LogoutRpc, CallLogout, TimeOut, GoWrong
  <2>3. Goto(c, "erase") \/ Answer(c, who[c])
    BY <1>8 DEF LogoutRpc
  <2>. QED BY <2>1, <2>2, <2>3 DEF Goto, Answer
<1>9. ASSUME NEW c \in Conns, Erase(c) PROVE EntriesFit'
  BY <1>9 DEF Erase, Answer, Lockable
<1>10. ASSUME NEW c \in Conns, CloseErase(c) PROVE EntriesFit'
  <2>1. CASE Gone(c) /\ Under(c) = {} /\ UNCHANGED <<table, cipher>>
    BY <1>10, <2>1 DEF CloseErase, Under, Entry, Gone
  <2>2. ASSUME NEW v \in Under(c),
               table' = [table EXCEPT ![Home[c]][v] = NoConn],
               arg' = [arg EXCEPT ![c] = v],
               pc' = [pc EXCEPT ![c] = "close_rpc"], UNCHANGED who
        PROVE  EntriesFit'
    BY <1>10, <2>2 DEF CloseErase, Under, Entry
  <2>. QED BY <1>10, <2>1, <2>2 DEF CloseErase
<1>11. ASSUME NEW c \in Conns, CloseRpc(c) PROVE EntriesFit'
  BY <1>11 DEF CloseRpc, CallLogout, Retire, Refuse, TimeOut, GoWrong, Fault, Gone
<1>12. ASSUME NEW p \in Proxies, Interrupt(p) PROVE EntriesFit'
  BY <1>12 DEF Interrupt
<1>13. ASSUME NEW p \in Proxies, ResetRpc(p) PROVE EntriesFit'
  BY <1>13 DEF ResetRpc, CallLogout, Retire, Refuse, TimeOut, GoWrong, Fault
<1>14. ASSUME NEW p \in Proxies, Exit(p) PROVE EntriesFit'
  BY <1>14 DEF Exit, Stop, MidSession, MidCall, Local, CallOf
<1>15. ASSUME NEW p \in Proxies, Crash(p) PROVE EntriesFit'
  BY <1>15 DEF Crash, Stop, MidSession, MidCall, Local, CallOf, Fault
<1>16. ASSUME NEW p \in Proxies, Restart(p) PROVE EntriesFit'
  BY <1>16 DEF Restart
<1>17. ASSUME NEW call \in late, ExecuteLate(call) PROVE EntriesFit'
  BY <1>17 DEF ExecuteLate, Admit, Retire, Refuse
<1>18. CASE UNCHANGED vars
  BY <1>18
<1>. QED
  BY <1>1, <1>2, <1>3, <1>4, <1>5, <1>6, <1>7, <1>8, <1>9, <1>10,
     <1>11, <1>12, <1>13, <1>14, <1>15, <1>16, <1>17, <1>18
  DEF Next, Client, Handle, Shutdown

LEMMA LiveStep ==
  ASSUME IInv, [Next]_vars
  PROVE  LiveFits'
<1>. USE HomeAssumption, ConnsAssumption, UsersAssumption
     DEF IInv, TypeOK, LiveFits, EntriesFit, TableFits, Entry, Live, Pending,
         Holds, LocalFit, AtRest, Online, Offline,
         service, coros, procs, env, vars
<1>1. ASSUME NEW c \in Conns, Connect(c) PROVE LiveFits'
  BY <1>1 DEF Connect, Goto
<1>2. ASSUME NEW c \in Conns, Exchange(c) PROVE LiveFits'
  BY <1>2 DEF Exchange, Goto
<1>3. ASSUME NEW c \in Conns, Request(c) PROVE LiveFits'
  <2>. pc[c] = "ready" /\ UNCHANGED <<row, host, table, who, mode, todo, upset>>
    BY <1>3 DEF Request
  <2>1. CASE who[c] = NoUser
    <3>1. PICK u \in Users : arg' = [arg EXCEPT ![c] = u] /\ pc' = [pc EXCEPT ![c] = "login_rpc"]
      BY <1>3, <2>1 DEF Request
    <3>. QED BY <2>1, <3>1
  <2>2. CASE who[c] # NoUser
    <3>1. arg' = [arg EXCEPT ![c] = who[c]] /\ pc' = [pc EXCEPT ![c] = "logout_rpc"]
      BY <1>3, <2>2 DEF Request
    <3>. QED BY <2>2, <3>1
  <2>. QED BY <2>1, <2>2
<1>4. ASSUME NEW c \in Conns, HangUp(c) PROVE LiveFits'
  BY <1>4 DEF HangUp
<1>5. ASSUME NEW c \in Conns, LoginRpc(c) PROVE LiveFits'
  <2>. USE DEF Goto, Answer
  <2>1. pc[c] = "login_rpc" /\ UNCHANGED <<table, mode, todo>>
    BY <1>5 DEF LoginRpc
  <2>2. CASE Admit(arg[c], Home[c]) /\ Goto(c, "insert") /\ UNCHANGED upset
    BY <2>1, <2>2 DEF Admit
  <2>3. CASE Answer(c, NoUser) /\ UNCHANGED <<row, host, upset>>
    BY <2>1, <2>3
  <2>4. CASE TimeOut("login", arg[c], Home[c]) /\ Goto(c, "insert")
    BY <2>1, <2>4 DEF TimeOut
  <2>5. CASE GoWrong(arg[c], Home[c]) /\ (Goto(c, "insert") \/ Answer(c, NoUser))
    BY <2>1, <2>5 DEF GoWrong
  <2>. QED BY <1>5, <2>2, <2>3, <2>4, <2>5 DEF LoginRpc
<1>6. ASSUME NEW c \in Conns, Insert(c) PROVE LiveFits'
  BY <1>6 DEF Insert, Entry, Under, Lockable, Goto
<1>7. ASSUME NEW c \in Conns, Load(c) PROVE LiveFits'
  <2>1. pc[c] = "load" /\ who[c] = NoUser /\ UNCHANGED <<row, host, table, mode, todo>>
    BY <1>7 DEF Load
  <2>2. CASE Answer(c, arg[c]) /\ UNCHANGED upset
    BY <2>1, <2>2 DEF Answer
  <2>3. CASE Answer(c, NoUser) /\ upset' = upset \cup {arg[c]}
    BY <2>1, <2>3 DEF Answer
  <2>. QED BY <1>7, <2>2, <2>3 DEF Load
<1>8. ASSUME NEW c \in Conns, LogoutRpc(c) PROVE LiveFits'
  <2>. USE DEF Goto, Answer
  <2>1. pc[c] = "logout_rpc" /\ UNCHANGED <<table, mode, todo>>
    BY <1>8 DEF LogoutRpc
  <2>2. CASE /\ Retire(arg[c]) /\ Goto(c, "erase")
             /\ upset' = IF host[arg[c]] = Home[c] THEN upset ELSE upset \cup {arg[c]}
    BY <2>1, <2>2 DEF Retire
  <2>3. CASE Answer(c, who[c]) /\ UNCHANGED <<row, host, upset>>
    BY <2>1, <2>3
  <2>4. CASE TimeOut("logout", arg[c], Home[c]) /\ Goto(c, "erase")
    BY <2>1, <2>4 DEF TimeOut
  <2>5. CASE GoWrong(arg[c], NoHost) /\ (Goto(c, "erase") \/ Answer(c, who[c]))
    BY <2>1, <2>5 DEF GoWrong
  <2>. QED BY <1>8, <2>2, <2>3, <2>4, <2>5 DEF LogoutRpc, CallLogout, Retire, Refuse
<1>9. ASSUME NEW c \in Conns, Erase(c) PROVE LiveFits'
  BY <1>9 DEF Erase, Answer, Lockable
<1>10. ASSUME NEW c \in Conns, CloseErase(c) PROVE LiveFits'
  <2>1. CASE Gone(c) /\ Under(c) = {} /\ UNCHANGED <<table, cipher>>
    BY <1>10, <2>1 DEF CloseErase, Under, Entry, Gone
  <2>2. ASSUME NEW v \in Under(c),
               table' = [table EXCEPT ![Home[c]][v] = NoConn],
               arg' = [arg EXCEPT ![c] = v],
               pc' = [pc EXCEPT ![c] = "close_rpc"], UNCHANGED who
        PROVE  LiveFits'
    BY <1>10, <2>2 DEF CloseErase, Under, Entry
  <2>. QED BY <1>10, <2>1, <2>2 DEF CloseErase
<1>11. ASSUME NEW c \in Conns, CloseRpc(c) PROVE LiveFits'
  BY <1>11 DEF CloseRpc, CallLogout, Retire, Refuse, TimeOut, GoWrong, Fault, Gone
<1>12. ASSUME NEW p \in Proxies, Interrupt(p) PROVE LiveFits'
  BY <1>12 DEF Interrupt
<1>13. ASSUME NEW p \in Proxies, ResetRpc(p) PROVE LiveFits'
  BY <1>13 DEF ResetRpc, CallLogout, Retire, Refuse, TimeOut, GoWrong, Fault
<1>14. ASSUME NEW p \in Proxies, Exit(p) PROVE LiveFits'
  BY <1>14 DEF Exit, Stop, MidSession, MidCall, Local, CallOf
<1>15. ASSUME NEW p \in Proxies, Crash(p) PROVE LiveFits'
  BY <1>15 DEF Crash, Stop, MidSession, MidCall, Local, CallOf, Fault
<1>16. ASSUME NEW p \in Proxies, Restart(p) PROVE LiveFits'
  BY <1>16 DEF Restart
<1>17. ASSUME NEW call \in late, ExecuteLate(call) PROVE LiveFits'
  BY <1>17 DEF ExecuteLate, Admit, Retire, Refuse, LateFits
<1>18. CASE UNCHANGED vars
  BY <1>18
<1>. QED
  BY <1>1, <1>2, <1>3, <1>4, <1>5, <1>6, <1>7, <1>8, <1>9, <1>10,
     <1>11, <1>12, <1>13, <1>14, <1>15, <1>16, <1>17, <1>18
  DEF Next, Client, Handle, Shutdown

\* A step that takes nobody online and leaves the session of everybody who
\* stays online where it is.
Steady ==
  /\ upset \subseteq upset'
  /\ \A u \in Users \ upset' : row'[u] = Online =>
       row[u] = Online /\ \A c \in Conns : Keeper(c, u) => Keeper(c, u)'

LEMMA SteadyStep == OnlineFits /\ Steady => OnlineFits'
BY DEF OnlineFits, Steady

\* The one step that takes a user online.
Arrives(c) ==
  /\ pc[c] = "login_rpc"
  /\ Admit(arg[c], Home[c]) /\ Goto(c, "insert")
  /\ UNCHANGED <<table, mode, todo, upset>>

LEMMA Steadies ==
  ASSUME IInv, [Next]_vars
  PROVE  Steady \/ \E c \in Conns : Arrives(c)
<1>. USE HomeAssumption, ConnsAssumption, UsersAssumption
     DEF IInv, TypeOK, LocalFit, AtRest, Keeper, Live, Holds, Pending, Online, Offline,
         service, coros, procs, env, vars
<1>1. ASSUME NEW c \in Conns, Connect(c) PROVE Steady
  BY <1>1 DEF Steady, Connect, Goto
<1>2. ASSUME NEW c \in Conns, Exchange(c) PROVE Steady
  BY <1>2 DEF Steady, Exchange, Goto
<1>3. ASSUME NEW c \in Conns, Request(c) PROVE Steady
  BY <1>3 DEF Steady, Request
<1>4. ASSUME NEW c \in Conns, HangUp(c) PROVE Steady
  BY <1>4 DEF Steady, HangUp
<1>5. ASSUME NEW c \in Conns, LoginRpc(c) PROVE Steady \/ Arrives(c)
  <2>1. pc[c] = "login_rpc" /\ UNCHANGED <<table, mode, todo>>
    BY <1>5 DEF LoginRpc
  <2>2. CASE Admit(arg[c], Home[c]) /\ Goto(c, "insert") /\ UNCHANGED upset
    BY <2>1, <2>2 DEF Arrives
  <2>3. CASE Answer(c, NoUser) /\ UNCHANGED <<row, host, upset>>
    BY <2>1, <2>3 DEF Steady, Answer
  <2>4. CASE TimeOut("login", arg[c], Home[c]) /\ Goto(c, "insert")
    BY <2>1, <2>4 DEF Steady, TimeOut, Goto
  <2>5. CASE GoWrong(arg[c], Home[c]) /\ (Goto(c, "insert") \/ Answer(c, NoUser))
    BY <2>1, <2>5 DEF Steady, GoWrong, Goto, Answer
  <2>. QED BY <1>5, <2>2, <2>3, <2>4, <2>5 DEF LoginRpc
<1>6. ASSUME NEW c \in Conns, Insert(c) PROVE Steady
  BY <1>6 DEF Steady, Insert, Entry, Under, Lockable, Goto
<1>7. ASSUME NEW c \in Conns, Load(c) PROVE Steady
  BY <1>7 DEF Steady, Load, Fault, Answer
<1>8. ASSUME NEW c \in Conns, LogoutRpc(c) PROVE Steady
  BY <1>8 DEF Steady, LogoutRpc, CallLogout, Retire, Refuse, TimeOut, GoWrong, Fault, Goto, Answer
<1>9. ASSUME NEW c \in Conns, Erase(c) PROVE Steady
  BY <1>9 DEF Steady, Erase, Answer, Lockable
<1>10. ASSUME NEW c \in Conns, CloseErase(c) PROVE Steady
  BY <1>10 DEF Steady, CloseErase, Under, Entry, Gone, Lockable, TableFits, EntriesFit
<1>11. ASSUME NEW c \in Conns, CloseRpc(c) PROVE Steady
  BY <1>11 DEF Steady, CloseRpc, CallLogout, Retire, Refuse, TimeOut, GoWrong, Fault, Gone
<1>12. ASSUME NEW p \in Proxies, Interrupt(p) PROVE Steady
  BY <1>12 DEF Steady, Interrupt, EntriesFit, Entry
<1>13. ASSUME NEW p \in Proxies, ResetRpc(p) PROVE Steady
  BY <1>13 DEF Steady, ResetRpc, CallLogout, Retire, Refuse, TimeOut, GoWrong, Fault
<1>14. ASSUME NEW p \in Proxies, Exit(p) PROVE Steady
  BY <1>14 DEF Steady, Exit, Stop, MidSession, MidCall, Local, CallOf
<1>15. ASSUME NEW p \in Proxies, Crash(p) PROVE Steady
  BY <1>15 DEF Steady, Crash, Stop, MidSession, MidCall, Local, CallOf, Fault, EntriesFit, Entry
<1>16. ASSUME NEW p \in Proxies, Restart(p) PROVE Steady
  BY <1>16 DEF Steady, Restart
<1>17. ASSUME NEW call \in late, ExecuteLate(call) PROVE Steady
  BY <1>17 DEF Steady, ExecuteLate, Admit, Retire, Refuse, LateFits
<1>18. CASE UNCHANGED vars
  BY <1>18 DEF Steady
<1>. QED
  BY <1>1, <1>2, <1>3, <1>4, <1>5, <1>6, <1>7, <1>8, <1>9, <1>10,
     <1>11, <1>12, <1>13, <1>14, <1>15, <1>16, <1>17, <1>18
  DEF Next, Client, Handle, Shutdown

\* The new session has a keeper, and the sessions of others keep theirs.
LEMMA ArrivalStep ==
  ASSUME IInv, NEW c \in Conns, Arrives(c)
  PROVE  /\ Keeper(c, arg[c])'
         /\ \A u \in Users \ {arg[c]}, d \in Conns : Keeper(d, u) => Keeper(d, u)'
<1>. USE DEF IInv, TypeOK, LocalFit, AtRest, Keeper, Live, Holds, Pending, Online, Offline,
             Arrives, Admit, Goto
<1>1. arg[c] \in Users /\ host'[arg[c]] = Home[c] /\ pc'[c] = "insert" /\ arg' = arg
  OBVIOUS
<1>. QED BY <1>1

LEMMA OnlineStep ==
  ASSUME IInv, [Next]_vars
  PROVE  OnlineFits'
<1>1. CASE Steady
  BY <1>1, SteadyStep DEF IInv
<1>2. ASSUME NEW c \in Conns, Arrives(c) PROVE OnlineFits'
  <2>. SUFFICES ASSUME NEW u \in Users \ upset, row'[u] = Online
               PROVE  \E d \in Conns : Keeper(d, u)'
    BY <1>2 DEF OnlineFits, Arrives
  <2>1. CASE u = arg[c]
    <3>1. arg' = arg
      BY <1>2 DEF Arrives, Goto
    <3>. QED BY <1>2, <2>1, <3>1, ArrivalStep DEF Keeper, Live, Holds, Pending
  <2>2. CASE u # arg[c]
    <3>1. row[u] = Online
      BY <1>2, <2>2 DEF Arrives, Admit, IInv, TypeOK
    <3>. QED BY <1>2, <2>2, <3>1, ArrivalStep DEF IInv, OnlineFits
  <2>. QED BY <2>1, <2>2
<1>. QED BY <1>1, <1>2, Steadies

-----------------------------------------------------------------------------
(* The invariant, and what follows from it.                                *)

LEMMA Initially == Init => IInv
<1>. SUFFICES ASSUME Init PROVE IInv
  OBVIOUS
<1>. USE HomeAssumption, ConnsAssumption, UsersAssumption, FaultAssumption DEF Init
<1>1. TypeOK
  BY DEF TypeOK, Steps
<1>2. LocalFit /\ LateFits
  BY DEF LocalFit, LateFits, AtRest
<1>3. TableFits /\ EntriesFit
  BY DEF TableFits, EntriesFit, Entry, Holds
<1>4. LiveFits /\ OnlineFits
  BY DEF LiveFits, OnlineFits, Keeper, Live, Holds, Pending, Online, Offline
<1>. QED BY <1>1, <1>2, <1>3, <1>4 DEF IInv

LEMMA Invariance == Spec => []IInv
<1>1. IInv /\ [Next]_vars => IInv'
  BY TypeStep, LocalStep, LateStep, TableStep, EntriesStep, LiveStep, OnlineStep DEF IInv
<1>. QED BY Initially, <1>1, PTL DEF Spec

\* The maps, the coroutines and UserService's stores only ever hold what they
\* are meant to hold, whatever is lost, killed or restarted.
THEOREM TypeCorrect == Spec => []TypeOK
<1>1. IInv => TypeOK
  BY DEF IInv
<1>. QED BY Invariance, <1>1, PTL

\* Nobody is locked out: whoever UserService refuses a login for being online
\* has a session that will see to it that he goes offline.
THEOREM NobodyLockedOut == Spec => []OnlineHasSession
<1>1. IInv => OnlineHasSession
  <2>. SUFFICES ASSUME IInv, NEW u \in Users \ upset, row[u] = Online
               PROVE  /\ host[u] \in Proxies
                      /\ \/ table[host[u]][u] # NoConn
                         \/ Changing(host[u], u, {"insert", "close_rpc"})
    BY DEF OnlineHasSession
  <2>1. PICK c \in Conns : Live(c, u) /\ host[u] = Home[c]
    BY DEF IInv, OnlineFits, Keeper
  <2>2. host[u] \in Proxies
    BY <2>1, HomeType
  <2>3. CASE Pending(c, u)
    BY <2>1, <2>2, <2>3 DEF Pending, Changing, Local
  <2>4. CASE Holds(c, u)
    <3>1. table[host[u]][u] = c
      BY <2>1, <2>4 DEF IInv, EntriesFit, Entry
    <3>. QED BY <2>2, <3>1, ConnsAssumption
  <2>. QED BY <2>1, <2>3, <2>4 DEF Live
<1>. QED BY Invariance, <1>1, PTL

LEMMA EntriesOwned == IInv => EntryHasOwner
<1>. SUFFICES ASSUME IInv, NEW p \in Proxies, NEW u \in Users \ upset, NEW c \in Conns,
                     table[p][u] = c
             PROVE  /\ Home[c] = p /\ pc[c] \notin {"none", "greeted"} /\ cipher[c] = "key"
                    /\ who[c] = u \/ (arg[c] = u /\ pc[c] = "load")
  BY DEF EntryHasOwner, IInv, TypeOK
<1>1. Home[c] = p
  BY DEF IInv, TableFits
<1>2. Holds(c, u)
  BY <1>1 DEF IInv, EntriesFit, Entry
<1>. QED BY <1>1, <1>2 DEF Holds, IInv, LocalFit

\* A message for a user goes to his own client, on a connection with a key.
THEOREM MessagesReachTheirUser == Spec => []EntryHasOwner
BY Invariance, EntriesOwned, PTL

\* A user in a proxy's table is online at that proxy for everybody else too.
THEOREM EntriesAreOnline == Spec => []EntryIsOnline
<1>1. IInv => EntryIsOnline
  <2>. SUFFICES ASSUME IInv, NEW p \in Proxies, NEW u \in Users \ upset, NEW c \in Conns,
                       table[p][u] = c
               PROVE  \/ row[u] = Online /\ host[u] = p
                      \/ Changing(p, u, {"erase"})
                      \/ mode[p] = "reset" /\ u \notin todo[p]
    BY DEF EntryIsOnline, IInv, TypeOK
  <2>1. Home[c] = p
    BY DEF IInv, TableFits
  <2>2. Holds(c, u)
    BY <2>1 DEF IInv, EntriesFit, Entry
  <2>3. CASE pc[c] = "erase"
    <3>1. arg[c] = u
      BY <2>2, <2>3 DEF Holds, IInv, LocalFit
    <3>. QED BY <2>1, <2>3, <3>1 DEF Changing, Local
  <2>4. CASE pc[c] # "erase"
    BY <2>1, <2>2, <2>4 DEF Live, IInv, LiveFits
  <2>. QED BY <2>3, <2>4
<1>. QED BY Invariance, <1>1, PTL

\* Nobody's session is ended through another connection.
THEOREM SessionsOnlyEndThemselves == Spec => SessionsEndThemselves
<1>1. ASSUME IInv, [Next]_vars, NEW p \in Proxies, NEW u \in Users \ upset',
             table[p][u] # NoConn, table'[p][u] # table[p][u]
      PROVE  LET c == table[p][u] IN
               mode'[p] = "down" \/ ~alive[c] \/ (pc[c] = "erase" /\ arg[c] = u)
  <2>. USE DEF IInv, TypeOK
  <2>1. ASSUME NEW c \in Conns, Insert(c) PROVE FALSE
    BY <1>1, <2>1 DEF Insert, Entry
  <2>2. ASSUME NEW c \in Conns, Erase(c) PROVE pc[table[p][u]] = "erase" /\ arg[table[p][u]] = u
    <3>1. arg[c] = u /\ Home[c] = p /\ u \notin upset
      BY <1>1, <2>2 DEF Erase
    <3>2. Holds(c, u)
      BY <1>1, <2>2, <3>1 DEF Erase, LocalFit, Holds
    <3>3. table[p][u] = c
      BY <1>1, <3>1, <3>2 DEF EntriesFit, Entry
    <3>. QED BY <2>2, <3>1, <3>3 DEF Erase
  <2>3. ASSUME NEW c \in Conns, CloseErase(c) PROVE ~alive[table[p][u]]
    <3>1. PICK v \in Under(c) : table' = [table EXCEPT ![Home[c]][v] = NoConn]
      BY <1>1, <2>3 DEF CloseErase
    <3>2. v = u /\ Home[c] = p
      BY <1>1, <3>1
    <3>. QED BY <2>3, <3>1, <3>2 DEF CloseErase, Under, Entry
  <2>4. ASSUME NEW q \in Proxies, Stop(q) PROVE mode'[p] = "down"
    BY <1>1, <2>4 DEF Stop
  <2>5. CASE UNCHANGED table
    BY <1>1, <2>5
  <2>6. \/ UNCHANGED table
        \/ \E c \in Conns : Insert(c) \/ Erase(c) \/ CloseErase(c)
        \/ \E q \in Proxies : Stop(q)
    BY <1>1 DEF Next, Client, Handle, Shutdown, Connect, Exchange, Request, HangUp, LoginRpc,
                Load, LogoutRpc, CloseRpc, Interrupt, ResetRpc, Exit, Crash, Restart,
                ExecuteLate, vars
  <2>. QED BY <2>1, <2>2, <2>3, <2>4, <2>5, <2>6
<1>2. IInv /\ [Next]_vars =>
        [\A p \in Proxies : \A u \in Users \ upset' :
           table[p][u] # NoConn /\ table'[p][u] # table[p][u] =>
             LET c == table[p][u] IN
               mode'[p] = "down" \/ ~alive[c] \/ (pc[c] = "erase" /\ arg[c] = u)]_vars
  BY <1>1
<1>. QED BY Invariance, <1>2, PTL DEF Spec, SessionsEndThemselves

-----------------------------------------------------------------------------
(* Session implements Accounts.                                            *)

\* A step that makes no other connection the keeper of a session that goes on.
NoNewKeeper ==
  \A u \in Users \ upset' : row[u] = Online /\ row'[u] = Online =>
    \A c \in Conns : Keeper(c, u)' => Keeper(c, u)

LEMMA KeepersStay ==
  ASSUME IInv, [Next]_vars
  PROVE  NoNewKeeper
<1>. USE HomeAssumption, ConnsAssumption, UsersAssumption
     DEF IInv, TypeOK, LocalFit, AtRest, Keeper, Live, Holds, Pending, Online, Offline,
         NoNewKeeper, service, coros, procs, env, vars
<1>1. ASSUME NEW c \in Conns, Connect(c) PROVE NoNewKeeper
  BY <1>1 DEF Connect, Goto
<1>2. ASSUME NEW c \in Conns, Exchange(c) PROVE NoNewKeeper
  BY <1>2 DEF Exchange, Goto
<1>3. ASSUME NEW c \in Conns, Request(c) PROVE NoNewKeeper
  <2>. pc[c] = "ready" /\ UNCHANGED <<host, who, mode, todo>>
    BY <1>3 DEF Request
  <2>1. CASE who[c] = NoUser
    <3>1. PICK u \in Users : arg' = [arg EXCEPT ![c] = u] /\ pc' = [pc EXCEPT ![c] = "login_rpc"]
      BY <1>3, <2>1 DEF Request
    <3>. QED BY <2>1, <3>1
  <2>2. CASE who[c] # NoUser
    <3>1. arg' = [arg EXCEPT ![c] = who[c]] /\ pc' = [pc EXCEPT ![c] = "logout_rpc"]
      BY <1>3, <2>2 DEF Request
    <3>. QED BY <2>2, <3>1
  <2>. QED BY <2>1, <2>2
<1>4. ASSUME NEW c \in Conns, HangUp(c) PROVE NoNewKeeper
  BY <1>4 DEF HangUp
<1>5. ASSUME NEW c \in Conns, LoginRpc(c) PROVE NoNewKeeper
  <2>1. pc[c] = "login_rpc" /\ UNCHANGED <<mode, todo>>
    BY <1>5 DEF LoginRpc
  <2>2. CASE Admit(arg[c], Home[c]) /\ Goto(c, "insert") /\ UNCHANGED upset
    BY <2>1, <2>2 DEF Admit, Goto
  <2>3. CASE Answer(c, NoUser) /\ UNCHANGED <<row, host, upset>>
    BY <2>1, <2>3 DEF Answer
  <2>4. CASE TimeOut("login", arg[c], Home[c]) /\ Goto(c, "insert")
    BY <2>1, <2>4 DEF TimeOut, Goto
  <2>5. CASE GoWrong(arg[c], Home[c]) /\ (Goto(c, "insert") \/ Answer(c, NoUser))
    BY <2>1, <2>5 DEF GoWrong, Goto, Answer
  <2>. QED BY <1>5, <2>2, <2>3, <2>4, <2>5 DEF LoginRpc
<1>6. ASSUME NEW c \in Conns, Insert(c) PROVE NoNewKeeper
  BY <1>6 DEF Insert, Entry, Under, Lockable, Goto
<1>7. ASSUME NEW c \in Conns, Load(c) PROVE NoNewKeeper
  <2>1. pc[c] = "load" /\ who[c] = NoUser /\ UNCHANGED <<host, mode, todo>>
    BY <1>7 DEF Load
  <2>2. CASE Answer(c, arg[c]) /\ UNCHANGED upset
    BY <2>1, <2>2 DEF Answer
  <2>3. CASE Answer(c, NoUser) /\ upset' = upset \cup {arg[c]}
    BY <2>1, <2>3 DEF Answer
  <2>. QED BY <1>7, <2>2, <2>3 DEF Load
<1>8. ASSUME NEW c \in Conns, LogoutRpc(c) PROVE NoNewKeeper
  BY <1>8 DEF LogoutRpc, CallLogout, Retire, Refuse, TimeOut, GoWrong, Fault, Goto, Answer
<1>9. ASSUME NEW c \in Conns, Erase(c) PROVE NoNewKeeper
  BY <1>9 DEF Erase, Answer
<1>10. ASSUME NEW c \in Conns, CloseErase(c) PROVE NoNewKeeper
  <2>1. CASE Gone(c)
    BY <1>10, <2>1 DEF CloseErase, Gone
  <2>2. ASSUME NEW v \in Under(c),
               arg' = [arg EXCEPT ![c] = v],
               pc' = [pc EXCEPT ![c] = "close_rpc"], UNCHANGED who
        PROVE  NoNewKeeper
    BY <1>10, <2>2 DEF CloseErase, Under, Lockable, EntriesFit
  <2>. QED BY <1>10, <2>1, <2>2 DEF CloseErase
<1>11. ASSUME NEW c \in Conns, CloseRpc(c) PROVE NoNewKeeper
  BY <1>11 DEF CloseRpc, CallLogout, Retire, Refuse, TimeOut, GoWrong, Fault, Gone
<1>12. ASSUME NEW p \in Proxies, Interrupt(p) PROVE NoNewKeeper
  BY <1>12 DEF Interrupt
<1>13. ASSUME NEW p \in Proxies, ResetRpc(p) PROVE NoNewKeeper
  BY <1>13 DEF ResetRpc, CallLogout, Retire, Refuse, TimeOut, GoWrong, Fault
<1>14. ASSUME NEW p \in Proxies, Exit(p) PROVE NoNewKeeper
  BY <1>14 DEF Exit, Stop
<1>15. ASSUME NEW p \in Proxies, Crash(p) PROVE NoNewKeeper
  BY <1>15 DEF Crash, Stop
<1>16. ASSUME NEW p \in Proxies, Restart(p) PROVE NoNewKeeper
  BY <1>16 DEF Restart
<1>17. ASSUME NEW call \in late, ExecuteLate(call) PROVE NoNewKeeper
  BY <1>17 DEF ExecuteLate, Admit, Retire, Refuse, LateFits
<1>18. CASE UNCHANGED vars
  BY <1>18
<1>. QED
  BY <1>1, <1>2, <1>3, <1>4, <1>5, <1>6, <1>7, <1>8, <1>9, <1>10,
     <1>11, <1>12, <1>13, <1>14, <1>15, <1>16, <1>17, <1>18
  DEF Next, Client, Handle, Shutdown

\* A stranded login stays stranded until the proxy is gone.
LEMMA LostStaysLost ==
  ASSUME IInv, [Next]_vars
  PROVE  Lost \subseteq Lost'
<1>1. upset \subseteq upset'
  <2>1. Steady => upset \subseteq upset'
    BY DEF Steady
  <2>2. ASSUME NEW c \in Conns, Arrives(c) PROVE upset \subseteq upset'
    BY <2>2 DEF Arrives
  <2>. QED BY <2>1, <2>2, Steadies
<1>2. ASSUME NEW c \in Conns, NEW u \in Users, Stranded(c, u)
      PROVE  Stranded(c, u)' \/ u \in upset'
  <2>0. arg[c] = u /\ pc[c] = "insert" /\ mode[Home[c]] = "reset" /\ Home[c] \in Proxies
    BY <1>2, HomeType DEF Stranded
  <2>1. CASE arg'[c] = arg[c] /\ pc'[c] = pc[c] /\ mode'[Home[c]] = "reset"
    BY <2>0, <2>1 DEF Stranded
  <2>2. ASSUME NEW d \in Conns, Client(d) \/ Handle(d)
        PROVE  arg'[c] = arg[c] /\ pc'[c] = pc[c] /\ mode' = mode
    <3>1. mode' = mode
      BY <2>2 DEF Client, Handle, Connect, Exchange, Request, HangUp, LoginRpc, Insert, Load,
         LogoutRpc, Erase, CloseErase, CloseRpc, procs
    <3>2. CASE d = c
      <4>1. HangUp(c)
        BY <2>0, <2>2, <3>2 DEF Client, Handle, Connect, Exchange, Request, LoginRpc, Insert,
           Load, LogoutRpc, Erase, CloseErase, CloseRpc, Lockable
      <4>. QED BY <3>1, <4>1 DEF HangUp, coros
    <3>. QED BY <2>2, <3>1, <3>2
         DEF Client, Handle, Connect, Exchange, Request, HangUp, LoginRpc, Insert, Load,
             LogoutRpc, Erase, CloseErase, CloseRpc, Goto, Answer, Gone, coros, IInv, TypeOK
  <2>3. ASSUME NEW p \in Proxies, Interrupt(p) \/ ResetRpc(p) \/ Restart(p)
        PROVE  arg'[c] = arg[c] /\ pc'[c] = pc[c] /\ mode'[Home[c]] = "reset"
    BY <2>0, <2>3 DEF Interrupt, ResetRpc, Restart, coros, IInv, TypeOK
  <2>4. ASSUME NEW p \in Proxies, Exit(p) \/ Crash(p)
        PROVE  Stranded(c, u)' \/ u \in upset'
    <3>1. CASE Home[c] = p
      BY <2>0, <2>4, <3>1 DEF Exit, Crash, MidSession, Local
    <3>2. CASE Home[c] # p
      BY <2>0, <2>1, <2>4, <3>2 DEF Exit, Crash, Stop, IInv, TypeOK
    <3>. QED BY <3>1, <3>2
  <2>5. ASSUME NEW call \in late, ExecuteLate(call) PROVE UNCHANGED <<arg, pc, mode>>
    BY <2>5 DEF ExecuteLate, coros, procs
  <2>6. CASE UNCHANGED <<arg, pc, mode>>
    BY <2>0, <2>1, <2>6
  <2>. QED BY <2>0, <2>1, <2>2, <2>3, <2>4, <2>5, <2>6 DEF Next, Shutdown, vars, coros, procs
<1>. QED BY <1>1, <1>2 DEF Lost

\* Who changes the status of an account that is not upset by that.
Departs(u) ==
  /\ Retire(u)
  /\ UNCHANGED <<upset, mode>>
  /\ \A c \in Conns, v \in Users : Stranded(c, v)' <=> Stranded(c, v)

LEMMA StatusStep ==
  ASSUME IInv, [Next]_vars, NEW u \in Users \ upset', row'[u] # row[u]
  PROVE  Departs(u) \/ \E c \in Conns : Arrives(c) /\ arg[c] = u
<1>. USE DEF IInv, TypeOK, service, coros, procs, env
<1>1. ASSUME NEW c \in Conns, LoginRpc(c) PROVE Arrives(c) /\ arg[c] = u
  <2>1. Admit(arg[c], Home[c]) /\ Goto(c, "insert") /\ UNCHANGED upset
    BY <1>1 DEF LoginRpc, TimeOut, GoWrong
  <2>. QED BY <1>1, <2>1 DEF LoginRpc, Arrives, Admit
<1>2. ASSUME NEW v \in Users, NEW p \in Proxies, CallLogout(v, p)
      PROVE  v = u /\ Retire(u) /\ upset' = upset
  <2>1. Retire(v) /\ upset' = IF host[v] = p THEN upset ELSE upset \cup {v}
    BY <1>2 DEF CallLogout, Refuse
  <2>. QED BY <2>1 DEF Retire
<1>3. ASSUME NEW c \in Conns, LogoutRpc(c) PROVE Departs(u)
  <2>1. arg[c] \in Users /\ pc[c] = "logout_rpc"
    BY <1>3 DEF LogoutRpc, LocalFit, AtRest
  <2>2. CallLogout(arg[c], Home[c]) /\ mode' = mode
    BY <1>3 DEF LogoutRpc, TimeOut, GoWrong
  <2>3. Retire(u) /\ upset' = upset
    BY <1>2, <2>1, <2>2, HomeType
  <2>4. /\ \A d \in Conns \ {c} : pc'[d] = pc[d] /\ arg'[d] = arg[d]
        /\ pc'[c] # "insert"
    BY <1>3, <2>1 DEF LogoutRpc, Goto, Answer
  <2>. QED BY <2>1, <2>2, <2>3, <2>4 DEF Departs, Stranded
<1>4. ASSUME NEW c \in Conns, CloseRpc(c) PROVE Departs(u)
  <2>1. arg[c] \in Users /\ pc[c] = "close_rpc"
    BY <1>4 DEF CloseRpc, LocalFit, AtRest
  <2>2. CallLogout(arg[c], Home[c]) /\ mode' = mode
    BY <1>4 DEF CloseRpc, TimeOut, GoWrong
  <2>3. Retire(u) /\ upset' = upset
    BY <1>2, <2>1, <2>2, HomeType
  <2>4. /\ \A d \in Conns \ {c} : pc'[d] = pc[d] /\ arg'[d] = arg[d]
        /\ pc'[c] # "insert"
    BY <1>4, <2>1 DEF CloseRpc, Gone
  <2>. QED BY <2>1, <2>2, <2>3, <2>4 DEF Departs, Stranded
<1>5. ASSUME NEW p \in Proxies, ResetRpc(p) PROVE Departs(u)
  <2>1. PICK v \in Users : \/ CallLogout(v, p) \/ TimeOut("logout", v, p)
                             \/ GoWrong(v, NoHost)
    BY <1>5 DEF ResetRpc
  <2>2. Retire(u) /\ upset' = upset
    BY <1>2, <2>1 DEF TimeOut, GoWrong
  <2>. QED BY <1>5, <2>2 DEF ResetRpc, Departs, Stranded
<1>6. ASSUME NEW call \in late, ExecuteLate(call) PROVE FALSE
  <2>1. call.user \in upset /\ upset' = upset
    BY <1>6 DEF ExecuteLate, LateFits
  <2>. QED BY <1>6, <2>1 DEF ExecuteLate, Admit, Retire, Refuse
<1>7. ~UNCHANGED row
  OBVIOUS
<1>. QED BY <1>1, <1>3, <1>4, <1>5, <1>6, <1>7
     DEF Next, vars, Client, Handle, Shutdown, Connect, Exchange, Request, HangUp, Insert, Load,
         Erase, CloseErase, Interrupt, Exit, Crash, Stop, Restart

\* An account that is not lost and keeps its status keeps its connection.
LEMMA StaysPut ==
  ASSUME IInv, [Next]_vars, NEW u \in Users \ Lost', row'[u] = row[u]
  PROVE  At'[u] = At[u]
<1>1. u \notin Lost /\ u \notin upset' /\ u \notin Lost'
  BY LostStaysLost DEF Lost
<1>2. CASE row[u] # Online
  BY <1>2 DEF At
<1>3. CASE row[u] = Online
  <2>1. \A c \in Conns : Keeper(c, u)' => Keeper(c, u)
    BY <1>1, <1>3, KeepersStay DEF NoNewKeeper
  <2>2. \A c \in Conns : Keeper(c, u) => Keeper(c, u)'
    <3>1. CASE Steady
      BY <1>1, <1>3, <3>1 DEF Steady
    <3>2. ASSUME NEW c \in Conns, Arrives(c)
          PROVE  \A d \in Conns : Keeper(d, u) => Keeper(d, u)'
      <4>1. arg[c] # u
        BY <1>3, <3>2 DEF Arrives, Admit, Online, Offline
      <4>. QED BY <3>2, <4>1, ArrivalStep
    <3>. QED BY <3>1, <3>2, Steadies
  <2>3. { c \in Conns : Keeper(c, u) }' = { c \in Conns : Keeper(c, u) }
    BY <2>1, <2>2
  <2>. QED BY <1>1, <1>3, <2>3 DEF At
<1>. QED BY <1>2, <1>3

LEMMA StepImplements ==
  ASSUME IInv, IInv', [Next]_vars
  PROVE  [Ledger!Next]_(Ledger!vars)
<1>0. /\ Lost \subseteq Lost' /\ Lost' \subseteq Users
      /\ \A u \in Users : u \in Lost => At[u] = {}
      /\ \A u \in Users : u \in Lost' => At'[u] = {}
      /\ \A u \in Users : row[u] # Online => At[u] = {}
      /\ \A u \in Users : row'[u] # Online => At'[u] = {}
  BY LostStaysLost DEF At, Lost, IInv, TypeOK
<1>1. CASE \A u \in Users \ Lost' : row'[u] = row[u]
  <2>1. \A u \in Users : At'[u] = IF u \in Lost' \ Lost THEN {} ELSE At[u]
    BY <1>0, <1>1, StaysPut
  <2>2. At' = [u \in Users |-> IF u \in Lost' \ Lost THEN {} ELSE At[u]]
    BY <2>1 DEF At
  <2>3. Ledger!Lose(Lost' \ Lost)
    BY <1>0, <2>2 DEF Ledger!Lose
  <2>. QED BY <1>0, <2>3 DEF Ledger!Next
<1>2. ASSUME NEW u \in Users \ Lost', row'[u] # row[u]
      PROVE  Ledger!Next
  <2>0. u \notin upset' /\ u \notin Lost
    BY <1>0, <1>2 DEF Lost
  <2>1. CASE Departs(u)
    <3>1. Lost' = Lost
      BY <2>1 DEF Departs, Lost
    <3>2. row[u] = Online /\ row'[u] = Offline /\ \A v \in Users \ {u} : row'[v] = row[v]
      BY <2>1 DEF Departs, Retire, IInv, TypeOK
    <3>3. At'[u] = {}
      BY <1>0, <3>2 DEF Online, Offline
    <3>4. At[u] # {}
      <4>1. PICK c \in Conns : Keeper(c, u)
        BY <2>0, <3>2 DEF IInv, OnlineFits, Lost
      <4>. QED BY <2>0, <3>2, <4>1 DEF At
    <3>5. \A v \in Users \ {u} : At'[v] = At[v]
      BY <1>0, <3>1, <3>2, StaysPut
    <3>6. At' = [At EXCEPT ![u] = {}]
      BY <3>3, <3>5 DEF At
    <3>7. Ledger!Logout(u)
      BY <3>1, <3>4, <3>6 DEF Ledger!Logout
    <3>. QED BY <3>7 DEF Ledger!Next
  <2>2. ASSUME NEW c \in Conns, Arrives(c), arg[c] = u PROVE Ledger!Next
    <3>1. /\ pc' = [pc EXCEPT ![c] = "insert"] /\ UNCHANGED <<arg, who, mode, todo, upset>>
          /\ row[u] = Offline /\ row' = [row EXCEPT ![u] = Online]
          /\ host' = [host EXCEPT ![u] = Home[c]]
      BY <2>2 DEF Arrives, Admit, Goto
    <3>2. /\ pc'[c] = "insert" /\ row'[u] = Online /\ host'[u] = Home[c]
          /\ \A d \in Conns \ {c} : pc'[d] = pc[d]
          /\ \A v \in Users \ {u} : row'[v] = row[v]
      BY <3>1 DEF IInv, TypeOK
    <3>3. mode[Home[c]] # "reset"
      BY <1>2, <2>2, <3>1, <3>2 DEF Lost, Stranded
    <3>4. Lost' = Lost
      <4>1. \A d \in Conns, v \in Users : Stranded(d, v)' <=> Stranded(d, v)
        BY <2>2, <3>1, <3>2, <3>3 DEF Stranded, Arrives
      <4>. QED BY <3>1, <4>1 DEF Lost
    <3>5. At'[u] = {c}
      <4>1. Keeper(c, u)'
        BY <2>2, <3>1, <3>2 DEF Keeper, Live, Pending
      <4>2. ASSUME NEW d \in Conns \ {c} PROVE ~Keeper(d, u)'
        <5>1. SUFFICES ASSUME Keeper(d, u)' PROVE FALSE
          OBVIOUS
        <5>2. Live(d, u) /\ Home[d] = Home[c]
          BY <3>1, <3>2, <5>1 DEF Keeper, Live, Holds, Pending
        <5>. QED BY <2>0, <3>1, <3>3, <5>2 DEF IInv, LiveFits, Online, Offline
      <4>3. { d \in Conns : Keeper(d, u) }' = {c}
        BY <4>1, <4>2
      <4>. QED BY <1>2, <3>2, <4>3 DEF At
    <3>6. \A v \in Users \ {u} : At'[v] = At[v]
      BY <1>0, <3>2, <3>4, StaysPut
    <3>7. At[u] = {} /\ At' = [At EXCEPT ![u] = {c}]
      BY <1>0, <3>1, <3>5, <3>6 DEF At, Online, Offline
    <3>8. Ledger!Login(u, c)
      BY <2>0, <3>4, <3>7 DEF Ledger!Login
    <3>. QED BY <3>8 DEF Ledger!Next
  <2>. QED BY <1>2, <2>0, <2>1, <2>2, StatusStep
<1>. QED BY <1>1, <1>2

\* A user is in through one connection at most, from the moment UserService
\* admits him until it retires him, at whichever of the proxies, and through
\* every shutdown and crash that does not upset his account.
THEOREM OneSessionEach == Spec => KeepsAccountsPromise
<1>1. Init => Ledger!Init
  <2>. SUFFICES ASSUME Init PROVE Ledger!Init
    OBVIOUS
  <2>1. \A c \in Conns, u \in Users : ~Stranded(c, u)
    BY DEF Init, Stranded
  <2>2. Lost = {} /\ At = [u \in Users |-> {}]
    BY <2>1 DEF Init, Lost, At, Online, Offline
  <2>. QED BY <2>2 DEF Ledger!Init
<1>. QED BY <1>1, Invariance, StepImplements, PTL DEF Spec, KeepsAccountsPromise, Ledger!Spec
=============================================================================
