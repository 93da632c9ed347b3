------------------------------- MODULE Session -------------------------------
(***************************************************************************)
(* Who is connected where: the sessions ProxyService keeps, against what   *)
(* UserService believes.                                                   *)
(*                                                                         *)
(* A proxy keeps two maps, each under a mutex of its own:                  *)
(*   table   userConnMap_, the connection of every user logged in here     *)
(*   cipher  userCipherMap_, the AES key of every connection               *)
(* and UserService keeps the status (row) and the proxy (host) of every    *)
(* account.  The requests of one connection are handled one after the      *)
(* other, those of different connections concurrently, and a handler that  *)
(* waits for an RPC holds no lock: one action is one RPC or one critical   *)
(* section.  An RPC the caller has given up on may still be executed.      *)
(*                                                                         *)
(* Login and Logout of UserService are atomic here, and read what is true; *)
(* Presence shows what interleavings, failing statements and stale cache   *)
(* entries can do.  What it gives up is here a call that goes wrong.       *)
(***************************************************************************)
EXTENDS Integers, FiniteSets

CONSTANTS
  Users,      \* the registered accounts
  Proxies,    \* ProxyService processes
  Conns,      \* connection objects
  Home,       \* the proxy each connection is made to
  MaxFaults   \* bound: lost or failed calls, calls that go wrong, crashes

NoUser == "no_user"
NoConn == "no_conn"
NoHost == "no_host"

ASSUME UsersAssumption == NoUser \notin Users
ASSUME ConnsAssumption == NoConn \notin Conns /\ NoHost \notin Proxies
ASSUME HomeAssumption  == Home \in [Conns -> Proxies]
ASSUME FaultAssumption == MaxFaults \in Nat

VARIABLES
  row,      \* UserService: the status of every account
  host,     \* UserService: the proxy of every user who is online
  table,    \* per proxy: userConnMap_
  cipher,   \* per connection: its entry in the userCipherMap_ of its proxy
  pc,       \* per connection: what its coroutine does next, "none" when closed
  arg,      \* per connection: the user its current request is about
  who,      \* per connection: the user its client takes itself to be
  alive,    \* per connection: its client is still there
  mode,     \* per proxy: "up", "reset" (SIGINT came) or "down"
  todo,     \* per proxy: users reset() has still to log out
  late,     \* calls given up on that UserService may still execute
  faults,   \* number of faults and of calls that went wrong so far
  upset     \* history: accounts that met a fault or the end of a proxy in
            \* mid-request, one of whose calls went wrong in UserService,
            \* whose insertion into table found the user or the connection
            \* there already, or that a proxy they had left for another
            \* logged out

service == <<row, host>>
coros   == <<pc, arg, who>>
procs   == <<mode, todo>>
env     == <<late, faults>>
vars    == <<row, host, table, cipher, pc, arg, who, alive, mode, todo,
             late, faults, upset>>

Online  == "online"
Offline == "offline"
Steps   == {"none", "greeted", "ready", "login_rpc", "insert", "load",
            "logout_rpc", "erase", "close_rpc"}
Calls   == [kind : {"login", "logout"}, user : Users, proxy : Proxies]

Init ==
  /\ row = [u \in Users |-> Offline]
  /\ host = [u \in Users |-> NoHost]
  /\ table = [p \in Proxies |-> [u \in Users |-> NoConn]]
  /\ cipher = [c \in Conns |-> "none"]
  /\ pc = [c \in Conns |-> "none"]
  /\ arg = [c \in Conns |-> NoUser]
  /\ who = [c \in Conns |-> NoUser]
  /\ alive = [c \in Conns |-> FALSE]
  /\ mode = [p \in Proxies |-> "up"]
  /\ todo = [p \in Proxies |-> {}]
  /\ late = {}
  /\ faults = 0
  /\ upset = {}

-----------------------------------------------------------------------------
(* The services as the proxies see them.                                   *)

Admit(u, p) ==
  /\ row[u] = Offline
  /\ row' = [row EXCEPT ![u] = Online]
  /\ host' = [host EXCEPT ![u] = p]

Retire(u) ==
  /\ row[u] = Online
  /\ row' = [row EXCEPT ![u] = Offline]
  /\ host' = [host EXCEPT ![u] = NoHost]

Refuse(u, s) == row[u] = s /\ UNCHANGED service  \* u is online, or offline, already

Fault == faults < MaxFaults /\ faults' = faults + 1

\* No answer within five seconds: the caller goes on with an empty response,
\* whose return code reads 0, and the call may be executed yet.
TimeOut(kind, u, p) ==
  /\ Fault
  /\ late' = late \cup {[kind |-> kind, user |-> u, proxy |-> p]}
  /\ upset' = upset \cup {u}
  /\ UNCHANGED service

\* UserService believes a stale entry of its cache, works on two requests about
\* the user at once, or one of its statements fails, executed or not (module
\* Presence): row and host entry are each written or not, whatever it answers.
GoWrong(u, h) ==
  /\ Fault
  /\ \E s \in {Online, Offline} : row' = [row EXCEPT ![u] = s]
  /\ \E p \in {host[u], h} : host' = [host EXCEPT ![u] = p]
  /\ upset' = upset \cup {u}
  /\ UNCHANGED late

\* A logout does not say where the user is: the one sent from p also ends a
\* session that has since begun on another proxy.
CallLogout(u, p) ==
  /\ \/ Retire(u)
        /\ upset' = IF host[u] = p THEN upset ELSE upset \cup {u}
     \/ Refuse(u, Offline) /\ UNCHANGED upset
  /\ UNCHANGED env

ExecuteLate(call) ==
  /\ late' = late \ {call}
  /\ \/ call.kind = "login" /\ (Admit(call.user, call.proxy) \/ Refuse(call.user, Online))
     \/ call.kind = "logout" /\ (Retire(call.user) \/ Refuse(call.user, Offline))
  /\ UNCHANGED <<table, cipher, coros, alive, procs, faults, upset>>

-----------------------------------------------------------------------------
(* Connections and their clients.                                          *)

\* reset() keeps connMutex_ from its first call to the exit of the process.
Lockable(c) == mode[Home[c]] = "up"
Entry(c, u) == table[Home[c]][u]
Under(c)    == { u \in Users : Entry(c, u) = c }

Goto(c, step) == pc' = [pc EXCEPT ![c] = step] /\ UNCHANGED <<arg, who>>
\* The request is answered, and its client takes itself to be user u.
Answer(c, u) ==
  /\ pc' = [pc EXCEPT ![c] = "ready"]
  /\ arg' = [arg EXCEPT ![c] = NoUser]
  /\ who' = [who EXCEPT ![c] = u]
Gone(c) ==
  /\ pc' = [pc EXCEPT ![c] = "none"]
  /\ arg' = [arg EXCEPT ![c] = NoUser]
  /\ who' = [who EXCEPT ![c] = NoUser]

\* A connection object that a map still holds is not a new connection.
Connect(c) ==
  /\ pc[c] = "none" /\ mode[Home[c]] # "down"
  /\ cipher[c] = "none" /\ Under(c) = {}
  /\ cipher' = [cipher EXCEPT ![c] = "plain"]
  /\ alive' = [alive EXCEPT ![c] = TRUE]
  /\ Goto(c, "greeted")
  /\ UNCHANGED <<service, table, procs, env, upset>>

Exchange(c) ==
  /\ pc[c] = "greeted" /\ alive[c]
  /\ cipher' = [cipher EXCEPT ![c] = "key"]
  /\ Goto(c, "ready")
  /\ UNCHANGED <<service, table, alive, procs, env, upset>>

\* The client's menus: login and nothing else before a login succeeded.
Request(c) ==
  /\ pc[c] = "ready" /\ alive[c]
  /\ \/ /\ who[c] = NoUser
        /\ \E u \in Users : arg' = [arg EXCEPT ![c] = u]
        /\ pc' = [pc EXCEPT ![c] = "login_rpc"]
     \/ /\ who[c] # NoUser
        /\ arg' = [arg EXCEPT ![c] = who[c]]
        /\ pc' = [pc EXCEPT ![c] = "logout_rpc"]
  /\ UNCHANGED <<service, table, cipher, who, alive, procs, env, upset>>

\* The client quits or dies, or the proxy's time wheel gives it up.
HangUp(c) ==
  /\ pc[c] # "none" /\ alive[c]
  /\ alive' = [alive EXCEPT ![c] = FALSE]
  /\ UNCHANGED <<service, table, cipher, coros, procs, env, upset>>

-----------------------------------------------------------------------------
(* ChatServiceDispatcher::login.                                           *)

\* Mutant: the return code of the login is not looked at.
LoginUnchecked(c) ==
  /\ pc[c] = "login_rpc"
  /\ Admit(arg[c], Home[c]) \/ UNCHANGED service
  /\ Goto(c, "insert")
  /\ UNCHANGED <<table, cipher, alive, procs, env, upset>>

\* A login is refused of a user who is online already, but also for a wrong
\* password.
LoginRpc(c) ==
  /\ pc[c] = "login_rpc"
  /\ \/ Admit(arg[c], Home[c]) /\ Goto(c, "insert") /\ UNCHANGED <<env, upset>>
     \/ Answer(c, NoUser) /\ UNCHANGED <<service, env, upset>>
     \/ TimeOut("login", arg[c], Home[c]) /\ Goto(c, "insert")
     \/ GoWrong(arg[c], Home[c]) /\ (Goto(c, "insert") \/ Answer(c, NoUser))
  /\ UNCHANGED <<table, cipher, alive, procs>>

\* Mutant: the map is assigned to instead of inserted into.
InsertOrAssign(c) ==
  /\ pc[c] = "insert" /\ Lockable(c)
  /\ table' = [table EXCEPT ![Home[c]][arg[c]] = c]
  /\ Goto(c, "load")
  /\ UNCHANGED <<service, cipher, alive, procs, env, upset>>

\* unordered_map::insert changes nothing when the user has an entry already.
Insert(c) ==
  /\ pc[c] = "insert" /\ Lockable(c)
  /\ table' = IF Entry(c, arg[c]) = NoConn
                THEN [table EXCEPT ![Home[c]][arg[c]] = c] ELSE table
  /\ upset' = upset
       \cup (IF Entry(c, arg[c]) \in {NoConn, c} THEN {} ELSE {arg[c]})
       \cup (IF Under(c) \subseteq {arg[c]} THEN {} ELSE Under(c) \cup {arg[c]})
  /\ Goto(c, "load")
  /\ UNCHANGED <<service, cipher, alive, procs, env>>

\* The look-ups that follow may fail; the client then sees a failed login,
\* but the user stays logged in.
Load(c) ==
  /\ pc[c] = "load"
  /\ \/ Answer(c, arg[c]) /\ UNCHANGED <<faults, upset>>
     \/ Fault /\ Answer(c, NoUser) /\ upset' = upset \cup {arg[c]}
  /\ UNCHANGED <<service, table, cipher, alive, procs, late>>

-----------------------------------------------------------------------------
(* ChatServiceDispatcher::logout and clientCloseException.                 *)

\* A logout that fails leaves the client where it is, and if nothing was
\* executed all is as it was.
LogoutRpc(c) ==
  /\ pc[c] = "logout_rpc"
  /\ \/ /\ CallLogout(arg[c], Home[c])
        /\ IF row[arg[c]] = Online THEN Goto(c, "erase") ELSE Answer(c, who[c])
     \/ TimeOut("logout", arg[c], Home[c]) /\ Goto(c, "erase")
     \/ Fault /\ Answer(c, who[c]) /\ UNCHANGED <<service, late, upset>>
     \/ GoWrong(arg[c], NoHost) /\ (Goto(c, "erase") \/ Answer(c, who[c]))
  /\ UNCHANGED <<table, cipher, alive, procs>>

\* Mutant: the entry is left to the end of the connection.
EraseSkipped(c) ==
  /\ pc[c] = "erase" /\ Lockable(c)
  /\ Answer(c, NoUser)
  /\ UNCHANGED <<service, table, cipher, alive, procs, env, upset>>

\* Whatever connection the user's entry holds by now.
Erase(c) ==
  /\ pc[c] = "erase" /\ Lockable(c)
  /\ table' = [table EXCEPT ![Home[c]][arg[c]] = NoConn]
  /\ Answer(c, NoUser)
  /\ UNCHANGED <<service, cipher, alive, procs, env, upset>>

\* Mutant: the end of a connection frees its key only.
CloseKeepsEntry(c) ==
  /\ pc[c] \in {"greeted", "ready"} /\ ~alive[c] /\ Lockable(c)
  /\ cipher' = [cipher EXCEPT ![c] = "none"]
  /\ Gone(c)
  /\ UNCHANGED <<service, table, alive, procs, env, upset>>

\* One entry of the connection is erased, and its key with it; the key of a
\* connection nobody is logged in on stays.
CloseErase(c) ==
  /\ pc[c] \in {"greeted", "ready"} /\ ~alive[c] /\ Lockable(c)
  /\ \/ /\ Under(c) = {}
        /\ Gone(c)
        /\ UNCHANGED <<table, cipher>>
     \/ /\ \E u \in Under(c) :
             /\ table' = [table EXCEPT ![Home[c]][u] = NoConn]
             /\ arg' = [arg EXCEPT ![c] = u]
        /\ cipher' = [cipher EXCEPT ![c] = "none"]
        /\ pc' = [pc EXCEPT ![c] = "close_rpc"]
        /\ UNCHANGED who
  /\ UNCHANGED <<service, alive, procs, env, upset>>

\* Mutant: a closed connection is forgotten without telling UserService.
CloseSilently(c) ==
  /\ pc[c] = "close_rpc" /\ Gone(c)
  /\ UNCHANGED <<service, table, cipher, alive, procs, env, upset>>

CloseRpc(c) ==
  /\ pc[c] = "close_rpc"
  /\ \/ CallLogout(arg[c], Home[c])
     \/ TimeOut("logout", arg[c], Home[c])
     \/ GoWrong(arg[c], NoHost)
  /\ Gone(c)
  /\ UNCHANGED <<table, cipher, alive, procs>>

-----------------------------------------------------------------------------
(* The end of a proxy: reset() on SIGINT, or a crash.                      *)

Interrupt(p) ==
  /\ mode[p] = "up"
  /\ mode' = [mode EXCEPT ![p] = "reset"]
  /\ todo' = [todo EXCEPT ![p] = { u \in Users : table[p][u] # NoConn }]
  /\ UNCHANGED <<service, table, cipher, coros, alive, env, upset>>

ResetRpc(p) ==
  /\ mode[p] = "reset"
  /\ \E u \in todo[p] :
       /\ CallLogout(u, p) \/ TimeOut("logout", u, p) \/ GoWrong(u, NoHost)
       /\ todo' = [todo EXCEPT ![p] = @ \ {u}]
  /\ UNCHANGED <<table, cipher, coros, alive, mode>>

Local(p)     == { c \in Conns : Home[c] = p }
MidCall(p)   == { c \in Local(p) : pc[c] \in {"login_rpc", "logout_rpc", "close_rpc"} }
CallOf(c)    == [kind |-> IF pc[c] = "login_rpc" THEN "login" ELSE "logout",
                 user |-> arg[c], proxy |-> Home[c]]
MidSession(p) == { arg[c] : c \in MidCall(p) \cup { d \in Local(p) : pc[d] = "insert" } }

\* The process is gone, and with it its maps, coroutines and connections.
Stop(p) ==
  /\ mode' = [mode EXCEPT ![p] = "down"]
  /\ todo' = [todo EXCEPT ![p] = {}]
  /\ table' = [table EXCEPT ![p] = [u \in Users |-> NoConn]]
  /\ cipher' = [c \in Conns |-> IF Home[c] = p THEN "none" ELSE cipher[c]]
  /\ pc' = [c \in Conns |-> IF Home[c] = p THEN "none" ELSE pc[c]]
  /\ arg' = [c \in Conns |-> IF Home[c] = p THEN NoUser ELSE arg[c]]
  /\ who' = [c \in Conns |-> IF Home[c] = p THEN NoUser ELSE who[c]]
  /\ alive' = [c \in Conns |-> Home[c] # p /\ alive[c]]
  /\ late' = late \cup { CallOf(c) : c \in MidCall(p) }
  /\ UNCHANGED service

Exit(p) ==
  /\ mode[p] = "reset" /\ todo[p] = {}
  /\ Stop(p)
  /\ upset' = upset \cup MidSession(p)
  /\ UNCHANGED faults

Crash(p) ==
  /\ mode[p] # "down"
  /\ Fault
  /\ Stop(p)
  /\ upset' = upset \cup MidSession(p) \cup { u \in Users : table[p][u] # NoConn }

Restart(p) ==
  /\ mode[p] = "down"
  /\ mode' = [mode EXCEPT ![p] = "up"]
  /\ UNCHANGED <<service, table, cipher, coros, alive, todo, env, upset>>

-----------------------------------------------------------------------------
Handle(c) ==
  \/ LoginRpc(c) \/ Insert(c) \/ Load(c)
  \/ LogoutRpc(c) \/ Erase(c)
  \/ CloseErase(c) \/ CloseRpc(c)

Client(c) == Connect(c) \/ Exchange(c) \/ Request(c) \/ HangUp(c)

Shutdown(p) == ResetRpc(p) \/ Exit(p)

Next ==
  \/ \E c \in Conns : Client(c) \/ Handle(c)
  \/ \E p \in Proxies : Interrupt(p) \/ Shutdown(p) \/ Crash(p) \/ Restart(p)
  \/ \E call \in late : ExecuteLate(call)

Spec == Init /\ [][Next]_vars

\* Coroutines run on and reset() runs to its end.  Clients need not do
\* anything, nobody need restart a proxy, a late call need not be executed.
Fairness ==
  /\ \A c \in Conns : WF_vars(Handle(c))
  /\ \A p \in Proxies : WF_vars(Shutdown(p))

FairSpec == Spec /\ Fairness

-----------------------------------------------------------------------------
(* Properties.                                                             *)

\* Type invariant.
TypeOK ==
  /\ row \in [Users -> {Online, Offline}]
  /\ host \in [Users -> Proxies \cup {NoHost}]
  /\ table \in [Proxies -> [Users -> Conns \cup {NoConn}]]
  /\ cipher \in [Conns -> {"none", "plain", "key"}]
  /\ pc \in [Conns -> Steps]
  /\ arg \in [Conns -> Users \cup {NoUser}]
  /\ who \in [Conns -> Users \cup {NoUser}]
  /\ alive \in [Conns -> BOOLEAN]
  /\ mode \in [Proxies -> {"up", "reset", "down"}]
  /\ todo \in [Proxies -> SUBSET Users]
  /\ late \subseteq Calls
  /\ faults \in 0..MaxFaults
  /\ upset \subseteq Users

Changing(p, u, steps) == \E c \in Local(p) : arg[c] = u /\ pc[c] \in steps

\* Nobody is locked out: a user UserService holds for online -- and would
\* refuse a login of -- has a session on the proxy recorded for him, or that
\* proxy is about to record it or to log him out.
OnlineHasSession ==
  \A u \in Users \ upset : row[u] = Online =>
    /\ host[u] \in Proxies
    /\ \/ table[host[u]][u] # NoConn
       \/ Changing(host[u], u, {"insert", "close_rpc"})

\* A message for a user, which the proxy encrypts with the key of the
\* connection in the user's entry, goes to an open connection that has a key
\* and whose client is that user or is just being told so.
EntryHasOwner ==
  \A p \in Proxies : \A u \in Users \ upset : table[p][u] # NoConn =>
    LET c == table[p][u] IN
    /\ Home[c] = p /\ pc[c] \notin {"none", "greeted"} /\ cipher[c] = "key"
    /\ who[c] = u \/ (arg[c] = u /\ pc[c] = "load")

\* A user with an entry is online at that proxy: messages that arrive here
\* and messages that are forwarded take the same way, except while the entry
\* is about to go.
EntryIsOnline ==
  \A p \in Proxies : \A u \in Users \ upset : table[p][u] # NoConn =>
    \/ row[u] = Online /\ host[u] = p
    \/ Changing(p, u, {"erase"})
    \/ mode[p] = "reset" /\ u \notin todo[p]

\* A session ends only by its own logout, by the end of its connection or by
\* that of its proxy, never through another connection of the same user.
SessionsEndThemselves ==
  [][\A p \in Proxies : \A u \in Users \ upset' :
       table[p][u] # NoConn /\ table'[p][u] # table[p][u] =>
         LET c == table[p][u] IN
           mode'[p] = "down" \/ ~alive[c] \/ (pc[c] = "erase" /\ arg[c] = u)]_vars

LeftAlone(c, u) ==
  /\ row[u] = Online /\ host[u] = Home[c]
  /\ pc[c] = "ready" /\ ~alive[c] /\ who[c] = u

\* What the comment at chat_service_dispatcher.cpp:436 says: the end of the
\* connection logs the user out.  A user whose client is gone goes offline,
\* as long as the proxy is running...
ClosedGoesOffline ==
  \A c \in Conns, u \in Users :
    LeftAlone(c, u) ~> (row[u] = Offline \/ mode[Home[c]] # "up")

\* ...or is shut down in its turn, unless the session was upset.
ClosedGoesOfflineUnlessUpset ==
  \A c \in Conns, u \in Users :
    LeftAlone(c, u) ~> (row[u] = Offline \/ u \in upset)

\* A connection holds a user's session when its client is that user, or is
\* just being told so; a session is pending when it is about to be recorded or
\* to be ended.  The keeper of the session is the connection through which
\* UserService will hear of its end: one that reset() has not done with.
Holds(c, u) ==
  \/ who[c] = u /\ pc[c] \in {"ready", "logout_rpc", "erase"}
  \/ arg[c] = u /\ pc[c] = "load"
Pending(c, u) == arg[c] = u /\ pc[c] \in {"insert", "close_rpc"}
Live(c, u) == (Holds(c, u) /\ pc[c] # "erase") \/ Pending(c, u)
Keeper(c, u) ==
  /\ Live(c, u) /\ host[u] = Home[c]
  /\ Pending(c, u) \/ mode[Home[c]] # "reset" \/ u \in todo[Home[c]]

\* A login at a proxy that is being shut down waits for a lock reset() never
\* gives back.
Stranded(c, u) == arg[c] = u /\ pc[c] = "insert" /\ mode[Home[c]] = "reset"
Lost == upset \cup { u \in Users : \E c \in Conns : Stranded(c, u) }
At == [u \in Users |-> IF u \in Lost \/ row[u] # Online THEN {}
                       ELSE { c \in Conns : Keeper(c, u) }]

\* Whatever the proxies' tables, their ends and UserService's view of them go
\* through, a user is in through one connection at most, and through the same
\* one until he is out.
Ledger == INSTANCE Accounts
            WITH Places <- Conns, accounts <- Users, at <- At, lost <- Lost
KeepsAccountsPromise == Ledger!Spec
====================
