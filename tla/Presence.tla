------------------------------ MODULE Presence ------------------------------
(***************************************************************************)
(* Who is online: the state of the accounts as UserService writes it and   *)
(* as every service reads it.                                              *)
(*                                                                         *)
(* An account's status is stored three times, and no two of the copies are *)
(* ever written together:                                                  *)
(*   row    MySQL, column user.state                                       *)
(*   cache  Redis, key user_state:<id>, a look-aside copy of row           *)
(*   host   Redis, key user_host:<id>, the proxy the user is connected to  *)
(*                                                                         *)
(* A worker is one request being handled in one of the service processes.  *)
(* Handlers run concurrently, in several threads of several processes, and *)
(* share nothing but the two stores, so one action is one access to one    *)
(* store together with the local computation that follows it.              *)
(***************************************************************************)
EXTENDS Integers, FiniteSets

CONSTANTS
  Users,          \* account ids, those not registered yet included
  Workers,        \* requests that can be in progress at the same time
  Hosts,          \* addresses of the proxies, as LoginRequest.auth_info
  StoresMayFail   \* whether an access to MySQL or Redis may fail

NoHost == "no_host"

ASSUME UsersAssumption == Users # {}
ASSUME HostsAssumption == NoHost \notin Hosts
ASSUME FailAssumption == StoresMayFail \in BOOLEAN

VARIABLES
  row,      \* MySQL: the state column, Absent when there is no such row
  cache,    \* Redis: the user_state entry, Miss when there is no such key
  host,     \* Redis: the user_host entry, NoHost when there is no such key
  pc,       \* per worker: its next access, "idle" between two requests
  job,      \* per worker: the request
  seen,     \* per worker: the states in its local User objects
  todo,     \* per worker: rows of a member list not yet written to the cache
  tainted,  \* history: entries known to be wrong when they were written, or
            \* that a failed DEL, or a statement that changed the row but was
            \* reported as failed, left behind
  disturbed \* history: accounts with overlapping session requests or with a
            \* session request one of whose accesses failed

stores  == <<row, cache, host>>
history == <<tainted, disturbed>>
vars    == <<row, cache, host, pc, job, seen, todo, tainted, disturbed>>

Online   == "online"
Offline  == "offline"
NotExist == "not_exist"
Absent   == "absent"
Miss     == "miss"

RowStates   == {Absent, Online, Offline}
CacheStates == {Miss, Online, Offline, NotExist}

Kinds == {"login", "logout", "register", "state", "info", "list"}
Steps == {"idle", "insert", "info_get", "info_select", "state_get",
          "state_select", "state_fill", "fill_absent", "join", "list_fill",
          "update", "evict", "save_host", "remove_host"}

(***************************************************************************)
(* "state" is any handler that only calls queryUserState (sending a        *)
(* message, reading or saving offline messages), "info" one that only      *)
(* calls queryUserInfo, "list" one that goes on to load the members of a   *)
(* friend list or of a group.  right says whether the password matches,    *)
(* via is the proxy of a login.                                            *)
(***************************************************************************)
Jobs == [kind : Kinds, user : Users, right : BOOLEAN, via : Hosts \cup {NoHost}]
Idle == [kind |-> "state", user |-> CHOOSE u \in Users : TRUE,
         right |-> TRUE, via |-> NoHost]

Requests ==
  { j \in Jobs : IF j.kind = "login" THEN j.via \in Hosts
                                     ELSE j.right /\ j.via = NoHost }

FirstStep(kind) ==
  CASE kind = "register"           -> "insert"
    [] kind \in {"logout", "state"} -> "state_get"
    [] OTHER                        -> "info_get"

Unread   == [u \in Users |-> NotExist]
Outcomes == IF StoresMayFail THEN BOOLEAN ELSE {TRUE}

SessionKinds == {"login", "logout"}
InSession(w, u) == pc[w] # "idle" /\ job[w].kind \in SessionKinds /\ job[w].user = u

Init ==
  /\ row = [u \in Users |-> Absent]
  /\ cache = [u \in Users |-> Miss]
  /\ host = [u \in Users |-> NoHost]
  /\ pc = [w \in Workers |-> "idle"]
  /\ job = [w \in Workers |-> Idle]
  /\ seen = [w \in Workers |-> Unread]
  /\ todo = [w \in Workers |-> {}]
  /\ tainted = {}
  /\ disturbed = {}

-----------------------------------------------------------------------------
(* Helpers of the handlers.                                                *)

Goto(w, step) == pc' = [pc EXCEPT ![w] = step] /\ UNCHANGED <<job, seen, todo>>

\* The handler returns or throws: its User objects are gone.
Finish(w) ==
  /\ pc' = [pc EXCEPT ![w] = "idle"]
  /\ job' = [job EXCEPT ![w] = Idle]
  /\ seen' = [seen EXCEPT ![w] = Unread]
  /\ todo' = [todo EXCEPT ![w] = {}]

\* The handler keeps state s of its account and goes on.
Keep(w, s, step) ==
  /\ seen' = [seen EXCEPT ![w][job[w].user] = s]
  /\ pc' = [pc EXCEPT ![w] = step]
  /\ UNCHANGED <<job, todo>>

\* Mutant: a user who is online already is let in again.
AdmittedAgain(w) == job[w].kind = "login" /\ job[w].right

\* The login the code accepts: the password matches an account read offline.
Admitted(w) ==
  /\ job[w].kind = "login"
  /\ job[w].right
  /\ seen[w][job[w].user] = Offline

\* Mutant: a rejected login writes the state of a default-constructed User.
TargetDefaulted(w) == IF Admitted(w) THEN Online ELSE Offline

\* The state a session handler writes: a rejected login writes what it read.
Target(w) ==
  CASE job[w].kind = "logout" -> Offline
    [] Admitted(w)            -> Online
    [] OTHER                  -> seen[w][job[w].user]

\* An access of a session request on u that failed (ok = FALSE) is recorded.
NoteFailure(w, ok) ==
  disturbed' = IF ~ok /\ job[w].kind \in SessionKinds
                 THEN disturbed \cup {job[w].user}
                 ELSE disturbed

\* Writing s into the cache entry of u, or failing to.
Agree(c, r) == c = Miss \/ c = r \/ (c = NotExist /\ r = Absent)

CacheSet(u, s, ok) ==
  IF ok
    THEN /\ cache' = [cache EXCEPT ![u] = s]
         /\ tainted' = IF Agree(s, row[u]) THEN tainted \ {u} ELSE tainted \cup {u}
    ELSE UNCHANGED <<cache, tainted>>

CacheDel(u, ok) ==
  IF ok
    THEN cache' = [cache EXCEPT ![u] = Miss] /\ tainted' = tainted \ {u}
    ELSE /\ tainted' = IF Agree(cache[u], row[u]) THEN tainted ELSE tainted \cup {u}
         /\ UNCHANGED cache

\* No DEL follows a statement that is reported as failed, so that the entry of
\* u stays, although the statement may have changed the row.
LeftBehind(u) ==
  tainted' = IF Agree(cache[u], row[u]) /\ ~Agree(cache[u], row'[u])
               THEN tainted \cup {u} ELSE tainted

-----------------------------------------------------------------------------
(* One action per access.                                                  *)

Begin(w) ==
  /\ pc[w] = "idle"
  /\ \E j \in Requests :
       /\ job' = [job EXCEPT ![w] = j]
       /\ pc' = [pc EXCEPT ![w] = FirstStep(j.kind)]
       /\ disturbed' = IF /\ j.kind \in SessionKinds
                          /\ \E x \in Workers : InSession(x, j.user)
                         THEN disturbed \cup {j.user} ELSE disturbed
  /\ UNCHANGED <<stores, seen, todo, tainted>>

\* queryUserInfo asks the cache only whether the account is known not to exist.
InfoGet(w) ==
  /\ pc[w] = "info_get"
  /\ \E ok \in Outcomes :
       /\ IF ok /\ cache[job[w].user] = NotExist THEN Finish(w)
                                                 ELSE Goto(w, "info_select")
       /\ NoteFailure(w, ok)
  /\ UNCHANGED <<stores, tainted>>

\* Mutant: queryUserInfo hands on a row that is not there.
InfoSelectUnchecked(w) ==
  /\ pc[w] = "info_select"
  /\ Keep(w, row[job[w].user], "update")
  /\ UNCHANGED <<stores, history>>

\* Then it reads the row.  A statement that fails is taken for a missing row.
InfoSelect(w) ==
  /\ pc[w] = "info_select"
  /\ \E ok \in Outcomes :
       /\ \/ /\ ~ok \/ row[job[w].user] = Absent
             /\ Goto(w, "fill_absent")
          \/ /\ ok /\ row[job[w].user] # Absent
             /\ \/ job[w].kind = "login" /\ Keep(w, row[job[w].user], "update")
                \/ job[w].kind = "list" /\ Goto(w, "join")
                \/ job[w].kind = "info" /\ Finish(w)
       /\ NoteFailure(w, ok)
  /\ UNCHANGED <<stores, tainted>>

FillAbsent(w) ==
  /\ pc[w] = "fill_absent"
  /\ \E ok \in Outcomes :
       CacheSet(job[w].user, NotExist, ok) /\ NoteFailure(w, ok)
  /\ Finish(w)
  /\ UNCHANGED <<row, host>>

\* A handler that knows the account's state: only an online user logs out.
Decide(w, s) ==
  IF job[w].kind = "logout" /\ s = Online THEN Keep(w, s, "update") ELSE Finish(w)

\* queryUserState trusts any entry of the cache, and otherwise reads the row.
StateGet(w) ==
  /\ pc[w] = "state_get"
  /\ \E ok \in Outcomes :
       /\ IF ok /\ cache[job[w].user] # Miss THEN Decide(w, cache[job[w].user])
                                             ELSE Goto(w, "state_select")
       /\ NoteFailure(w, ok)
  /\ UNCHANGED <<stores, tainted>>

\* Mutant: the row is not checked for null, and a fresh User is offline.
StateSelectUnchecked(w) ==
  /\ pc[w] = "state_select"
  /\ Keep(w, IF row[job[w].user] = Absent THEN Offline ELSE row[job[w].user],
             "state_fill")
  /\ UNCHANGED <<stores, history>>

StateSelect(w) ==
  /\ pc[w] = "state_select"
  /\ \E ok \in Outcomes :
       /\ IF ok /\ row[job[w].user] # Absent
            THEN Keep(w, row[job[w].user], "state_fill")
            ELSE Goto(w, "fill_absent")
       /\ NoteFailure(w, ok)
  /\ UNCHANGED <<stores, tainted>>

StateFill(w) ==
  /\ pc[w] = "state_fill"
  /\ \E ok \in Outcomes :
       CacheSet(job[w].user, seen[w][job[w].user], ok) /\ NoteFailure(w, ok)
  /\ Decide(w, seen[w][job[w].user])
  /\ UNCHANGED <<row, host>>

\* The join of a member list with the user table is one consistent read...
Join(w) ==
  /\ pc[w] = "join"
  /\ \E members \in SUBSET { u \in Users : row[u] # Absent } :
       IF members = {}
         THEN Finish(w)
         ELSE /\ seen' = [seen EXCEPT ![w] =
                            [u \in Users |-> IF u \in members THEN row[u] ELSE NotExist]]
              /\ todo' = [todo EXCEPT ![w] = members]
              /\ pc' = [pc EXCEPT ![w] = "list_fill"]
              /\ UNCHANGED job
  /\ UNCHANGED <<stores, history>>

\* ...and its rows are written to the cache one after the other.
ListFill(w) ==
  /\ pc[w] = "list_fill"
  /\ \E u \in todo[w], ok \in Outcomes :
       /\ CacheSet(u, seen[w][u], ok)
       /\ IF todo[w] = {u}
            THEN Finish(w)
            ELSE /\ todo' = [todo EXCEPT ![w] = @ \ {u}]
                 /\ UNCHANGED <<pc, job, seen>>
  /\ UNCHANGED <<row, host, disturbed>>

\* Mutant: updateUserState forgets the cache.
UpdateForgetsCache(w) ==
  /\ pc[w] = "update"
  /\ row' = [row EXCEPT ![job[w].user] = Target(w)]
  /\ IF Admitted(w) THEN Goto(w, "save_host") ELSE Finish(w)
  /\ UNCHANGED <<cache, host, history>>

\* updateUserState: the row first, then the cache.  When the statement fails
\* a logout gives up, a login goes on as if it had not; a statement that was
\* executed before its connection was lost has failed like any other.
Update(w) ==
  /\ pc[w] = "update"
  /\ \E done, ok \in Outcomes :
       /\ ok => done
       /\ row' = IF done THEN [row EXCEPT ![job[w].user] = Target(w)] ELSE row
       /\ \/ ok /\ Goto(w, "evict") /\ UNCHANGED tainted
          \/ /\ ~ok /\ LeftBehind(job[w].user)
             /\ IF Admitted(w) THEN Goto(w, "save_host") ELSE Finish(w)
       /\ NoteFailure(w, ok)
  /\ UNCHANGED <<cache, host>>

Evict(w) ==
  /\ pc[w] = "evict"
  /\ \E ok \in Outcomes : CacheDel(job[w].user, ok) /\ NoteFailure(w, ok)
  /\ \/ Admitted(w) /\ Goto(w, "save_host")
     \/ job[w].kind = "logout" /\ Goto(w, "remove_host")
     \/ ~Admitted(w) /\ job[w].kind # "logout" /\ Finish(w)
  /\ UNCHANGED <<row, host>>

SaveHost(w) ==
  /\ pc[w] = "save_host"
  /\ \E ok \in Outcomes :
       /\ host' = IF ok THEN [host EXCEPT ![job[w].user] = job[w].via] ELSE host
       /\ NoteFailure(w, ok)
  /\ Finish(w)
  /\ UNCHANGED <<row, cache, tainted>>

\* Mutant: logging out leaves the user's proxy on record.
RemoveHostSkipped(w) == pc[w] = "remove_host" /\ Finish(w) /\ UNCHANGED <<stores, history>>

RemoveHost(w) ==
  /\ pc[w] = "remove_host"
  /\ \E ok \in Outcomes :
       /\ host' = IF ok THEN [host EXCEPT ![job[w].user] = NoHost] ELSE host
       /\ NoteFailure(w, ok)
  /\ Finish(w)
  /\ UNCHANGED <<row, cache, tainted>>

\* insertUser: MySQL gives the new row, which is offline, an id no row has.
InsertUser(u) == row[u] = Absent /\ row' = [row EXCEPT ![u] = Offline]

\* Registering, or being refused because the name is taken -- which is what
\* the user is also told when the INSERT was executed but reported as failed.
Insert(w) ==
  /\ pc[w] = "insert"
  /\ \/ InsertUser(job[w].user) /\ Goto(w, "evict") /\ UNCHANGED tainted
     \/ StoresMayFail /\ InsertUser(job[w].user) /\ Finish(w) /\ LeftBehind(job[w].user)
     \/ Finish(w) /\ UNCHANGED <<row, tainted>>
  /\ UNCHANGED <<cache, host, disturbed>>

\* Redis drops a "not_exist" entry 300 seconds after it was written.
Expire(u) ==
  /\ cache[u] = NotExist
  /\ cache' = [cache EXCEPT ![u] = Miss]
  /\ tainted' = tainted \ {u}
  /\ UNCHANGED <<row, host, pc, job, seen, todo, disturbed>>

Handle(w) ==
  \/ InfoGet(w) \/ InfoSelect(w) \/ FillAbsent(w)
  \/ StateGet(w) \/ StateSelect(w) \/ StateFill(w)
  \/ Join(w) \/ ListFill(w)
  \/ Update(w) \/ Evict(w) \/ SaveHost(w) \/ RemoveHost(w)
  \/ Insert(w)

Next ==
  \/ \E w \in Workers : Begin(w) \/ Handle(w)
  \/ \E u \in Users : Expire(u)

Spec == Init /\ [][Next]_vars

-----------------------------------------------------------------------------
(* Properties.                                                             *)

\* Type invariant of the stores and of the handlers' local state.
TypeOK ==
  /\ row \in [Users -> RowStates]
  /\ cache \in [Users -> CacheStates]
  /\ host \in [Users -> Hosts \cup {NoHost}]
  /\ pc \in [Workers -> Steps]
  /\ job \in [Workers -> Jobs]
  /\ seen \in [Workers -> [Users -> CacheStates \ {Miss}]]
  /\ todo \in [Workers -> SUBSET Users]
  /\ tainted \subseteq Users
  /\ disturbed \subseteq Users

EvictionPending(u) == \E w \in Workers : pc[w] = "evict" /\ job[w].user = u

\* The order "UPDATE, then DEL" leaves no wrong entry behind, except through a
\* failure: an entry that disagrees with the row is about to be deleted by the
\* request that changed the row, or was wrong already when it was written (a
\* reader's SELECT overtaken before its SET, a failed SELECT taken for a missing
\* row), or survived a DEL that failed, or the change of the row was reported
\* as failed (user_dao.cpp:104, :27), so that no DEL was sent.
StaleEntryExplained ==
  \A u \in Users : Agree(cache[u], row[u]) \/ u \in tainted \/ EvictionPending(u)

\* However reads, fills and registrations interleave, the cache never says
\* online or offline of an account that has no row: such an entry has no TTL
\* and would make a user exist for ever.
CacheNamesRealUsers ==
  \A u \in Users : cache[u] \in {Online, Offline} => row[u] # Absent

SessionsAtRest(u) == \A w \in Workers : ~InSession(w, u)

\* Between session requests the two stores tell the same story: a user is
\* online in MySQL exactly when Redis knows the proxy to forward to, unless
\* session requests of the account have overlapped or an access has failed.
HostFollowsRow ==
  \A u \in Users \ disturbed :
    SessionsAtRest(u) => (row[u] = Online <=> host[u] # NoHost)

LoginSets(w, u) == pc[w] = "update" /\ pc'[w] = "evict" /\ Admitted(w) /\ job[w].user = u
LogoutSets(w, u) == pc[w] = "update" /\ pc'[w] = "evict" /\ job[w].kind = "logout" /\ job[w].user = u

\* As long as the session requests of an account come one at a time, only a
\* request entitled to it changes the account's status: an admitted login
\* takes it from offline to online, a logout back, a registration creates it.
\* In particular a rejected login, which writes back the state it has read
\* (login.cpp:64 and :77), changes nothing.
StatusChangesAreEarned ==
  [][\A u \in Users \ disturbed' : row'[u] # row[u] =>
       \/ row[u] = Absent /\ row'[u] = Offline
       \/ row[u] = Offline /\ row'[u] = Online /\ \E w \in Workers : LoginSets(w, u)
       \/ row[u] = Online /\ row'[u] = Offline /\ \E w \in Workers : LogoutSets(w, u)]_vars

\* What login.cpp:63 says: a user who is logged in cannot log in again.
LoginRefusedWhenOnline ==
  [][\A u \in Users : (\E w \in Workers : LoginSets(w, u)) => row[u] # Online]_vars

\* Where UserService has a user logged in: from the UPDATE of his login on at
\* the proxy that request names, although the entry is still to be written.
Arriving(u) ==
  { w \in Workers : pc[w] \in {"evict", "save_host"} /\ job[w].user = u /\ Admitted(w) }
Whereabouts(u) ==
  IF u \in disturbed \/ row[u] # Online THEN {}
  ELSE IF Arriving(u) # {} THEN { job[w].via : w \in Arriving(u) }
  ELSE {host[u]}

Registered == { u \in Users : row[u] # Absent }
At == [u \in Users |-> Whereabouts(u)]

\* The atomic logins and logouts that Session takes UserService to perform:
\* although a request writes three entries in two stores, and any number of
\* readers fill the cache meanwhile, it takes effect at once.
Promise == INSTANCE Accounts
             WITH Places <- Hosts, accounts <- Registered, at <- At, lost <- disturbed
KeepsAccountsPromise == Promise!Spec
=============================================================================
