--------------------------- MODULE PresenceProofs ---------------------------
(* The safety properties of Presence, for any number of accounts, requests *)
(* and proxies, whether or not the stores may fail.                        *)
EXTENDS Presence, TLAPS

States == CacheStates \ {Miss}

LEMMA IdleIsAJob == Idle \in Jobs
BY UsersAssumption DEF Idle, Jobs, Kinds

LEMMA FirstStepIsAStep ==
  ASSUME NEW kind \in Kinds PROVE FirstStep(kind) \in Steps
BY DEF FirstStep, Kinds, Steps

StoreTypeOK ==
  /\ row \in [Users -> RowStates]
  /\ cache \in [Users -> CacheStates]
  /\ host \in [Users -> Hosts \cup {NoHost}]
  /\ tainted \subseteq Users
  /\ disturbed \subseteq Users

LocalTypeOK ==
  /\ pc \in [Workers -> Steps]
  /\ job \in [Workers -> Jobs]
  /\ seen \in [Workers -> [Users -> CacheStates \ {Miss}]]
  /\ todo \in [Workers -> SUBSET Users]

\* What a handler's own step does to its local state.
LEMMA LocalType ==
  ASSUME LocalTypeOK, NEW w \in Workers
  PROVE  /\ \A step \in Steps : Goto(w, step) => LocalTypeOK'
         /\ Finish(w) => LocalTypeOK'
         /\ \A s \in States, step \in Steps : Keep(w, s, step) => LocalTypeOK'
         /\ \A s \in States : Decide(w, s) => LocalTypeOK'
<1>. USE DEF LocalTypeOK
<1>1. ASSUME NEW step \in Steps, Goto(w, step) PROVE LocalTypeOK'
  BY <1>1 DEF Goto
<1>2. ASSUME Finish(w) PROVE LocalTypeOK'
  BY <1>2, IdleIsAJob DEF Finish, Unread, CacheStates, Steps, NotExist, Miss
<1>3. ASSUME NEW s \in States, NEW step \in Steps, Keep(w, s, step) PROVE LocalTypeOK'
  BY <1>3 DEF Keep, States
<1>4. ASSUME NEW s \in States, Decide(w, s) PROVE LocalTypeOK'
  BY <1>2, <1>3, <1>4, "update" \in Steps DEF Decide, Steps
<1>. QED BY <1>1, <1>2, <1>3, <1>4

LEMMA CacheType ==
  ASSUME TypeOK, NEW u \in Users, NEW s \in CacheStates, NEW ok
  PROVE  CacheSet(u, s, ok) \/ CacheDel(u, ok) =>
           cache' \in [Users -> CacheStates] /\ tainted' \subseteq Users
BY DEF TypeOK, CacheSet, CacheDel, CacheStates

LEMMA NoteType ==
  ASSUME TypeOK, NEW w \in Workers, NEW ok, NoteFailure(w, ok)
  PROVE  disturbed' \subseteq Users
BY DEF TypeOK, NoteFailure, Jobs

(***************************************************************************)
(* The inductive invariant.                                                *)
(***************************************************************************)

\* The step a request is at fits its kind.
KindFit(w) ==
  /\ pc[w] = "insert" => job[w].kind = "register"
  /\ pc[w] \in {"info_get", "info_select"} => job[w].kind \in {"login", "info", "list"}
  /\ pc[w] \in {"state_get", "state_select", "state_fill"} => job[w].kind \in {"logout", "state"}
  /\ pc[w] \in {"join", "list_fill"} => job[w].kind = "list"
  /\ pc[w] = "fill_absent" => job[w].kind # "register"
  /\ pc[w] = "update" => job[w].kind \in SessionKinds
  /\ pc[w] = "evict" => job[w].kind \in SessionKinds \cup {"register"}
  /\ pc[w] = "save_host" => Admitted(w)
  /\ pc[w] = "remove_host" => job[w].kind = "logout"
  /\ pc[w] # "idle" /\ job[w].kind = "login" => job[w].via \in Hosts

\* A state about to be written to a store is one a row can hold.
ReadFit(w) ==
  /\ pc[w] \in {"update", "state_fill"} => seen[w][job[w].user] \in {Online, Offline}
  /\ pc[w] = "list_fill" => \A u \in todo[w] : seen[w][u] \in {Online, Offline}

LocalFit == \A w \in Workers : KindFit(w) /\ ReadFit(w)

\* No handler holds a state of an account that has no row.
ReadsReal ==
  \A w \in Workers, u \in Users : seen[w][u] \in {Online, Offline} => row[u] # Absent

\* An undisturbed account has at most one session request in progress...
OneAtATime ==
  \A u \in Users \ disturbed, w, x \in Workers :
    InSession(w, u) /\ InSession(x, u) => w = x

BeforeWrite == {"info_get", "info_select", "fill_absent", "state_get",
                "state_select", "state_fill", "update"}

\* ...and the stores are as far as the step that request is at.
HostFits(u) == row[u] = Online <=> host[u] # NoHost

SessionFit(w, u) ==
  InSession(w, u) =>
    /\ pc[w] \in BeforeWrite => HostFits(u)
    /\ pc[w] = "update" /\ job[w].kind = "login" => seen[w][u] = row[u]
    /\ pc[w] = "evict" /\ job[w].kind = "login" /\ ~Admitted(w) => HostFits(u)
    /\ pc[w] \in {"evict", "save_host"} /\ Admitted(w) => row[u] = Online
    /\ pc[w] \in {"evict", "remove_host"} /\ job[w].kind = "logout" => row[u] = Offline

SessionFits == \A u \in Users \ disturbed, w \in Workers : SessionFit(w, u)

LocalInv == TypeOK /\ LocalFit
CacheInv == LocalInv /\ ReadsReal /\ StaleEntryExplained /\ CacheNamesRealUsers
IInv     == CacheInv /\ OneAtATime /\ SessionFits /\ HostFollowsRow

-----------------------------------------------------------------------------
(* Types and the handlers' local state.                                    *)

LEMMA JobType ==
  ASSUME TypeOK, NEW w \in Workers
  PROVE  /\ job[w].user \in Users
         /\ job[w].kind \in Kinds
         /\ \A u \in Users : seen[w][u] \in States
BY DEF TypeOK, Jobs, States

\* One step of a handler leaves the other requests alone.
OthersKept(w) ==
  \A x \in Workers \ {w} :
    pc'[x] = pc[x] /\ job'[x] = job[x] /\ seen'[x] = seen[x] /\ todo'[x] = todo[x]

\* What the three ways to end an access do to the local state.
LEMMA LocalStep ==
  ASSUME TypeOK, NEW w \in Workers
  PROVE  /\ \A step \in Steps : Goto(w, step) =>
              LocalTypeOK' /\ OthersKept(w) /\ pc'[w] = step /\ UNCHANGED <<job, seen, todo>>
         /\ Finish(w) => LocalTypeOK' /\ OthersKept(w) /\ pc'[w] = "idle" /\ seen'[w] = Unread
         /\ \A s \in States, step \in Steps : Keep(w, s, step) =>
              /\ LocalTypeOK' /\ OthersKept(w) /\ pc'[w] = step /\ UNCHANGED <<job, todo>>
              /\ \A u \in Users : seen'[w][u] = IF u = job[w].user THEN s ELSE seen[w][u]
<1>1. LocalTypeOK
  BY DEF TypeOK, LocalTypeOK
<1>2. ASSUME NEW step \in Steps, Goto(w, step)
      PROVE  LocalTypeOK' /\ OthersKept(w) /\ pc'[w] = step /\ UNCHANGED <<job, seen, todo>>
  <2>1. LocalTypeOK'
    BY <1>1, <1>2, LocalType
  <2>. QED BY <1>1, <1>2, <2>1 DEF LocalTypeOK, OthersKept, Goto
<1>3. ASSUME Finish(w)
      PROVE  LocalTypeOK' /\ OthersKept(w) /\ pc'[w] = "idle" /\ seen'[w] = Unread
  <2>1. LocalTypeOK'
    BY <1>1, <1>3, LocalType
  <2>. QED BY <1>1, <1>3, <2>1 DEF LocalTypeOK, OthersKept, Finish
<1>4. ASSUME NEW s \in States, NEW step \in Steps, Keep(w, s, step)
      PROVE  /\ LocalTypeOK' /\ OthersKept(w) /\ pc'[w] = step /\ UNCHANGED <<job, todo>>
             /\ \A u \in Users : seen'[w][u] = IF u = job[w].user THEN s ELSE seen[w][u]
  <2>1. LocalTypeOK'
    BY <1>1, <1>4, LocalType
  <2>. QED BY <1>1, <1>4, <2>1 DEF LocalTypeOK, OthersKept, Keep
<1>. QED BY <1>2, <1>3, <1>4

LEMMA LocalFitFromOne ==
  ASSUME LocalFit, NEW w \in Workers, OthersKept(w), KindFit(w)', ReadFit(w)'
  PROVE  LocalFit'
BY DEF LocalFit, OthersKept, KindFit, ReadFit, Admitted

LEMMA LocalFitKept ==
  ASSUME LocalFit, UNCHANGED <<pc, job, seen, todo>>
  PROVE  LocalFit'
BY DEF LocalFit, KindFit, ReadFit, Admitted

LEMMA LocalInvStep == LocalInv /\ [Next]_vars => LocalInv'
<1>. SUFFICES ASSUME LocalInv, [Next]_vars PROVE StoreTypeOK' /\ LocalTypeOK' /\ LocalFit'
  BY DEF LocalInv, TypeOK, StoreTypeOK, LocalTypeOK
<1>0. TypeOK /\ StoreTypeOK /\ LocalTypeOK /\ LocalFit
  BY DEF LocalInv, TypeOK, StoreTypeOK, LocalTypeOK
<1>1. CASE UNCHANGED vars
  BY <1>0, <1>1, LocalFitKept DEF vars, StoreTypeOK, LocalTypeOK
<1>2. ASSUME NEW u \in Users, Expire(u) PROVE StoreTypeOK' /\ LocalTypeOK' /\ LocalFit'
  BY <1>0, <1>2, LocalFitKept DEF Expire, CacheStates, StoreTypeOK, LocalTypeOK
<1>3. ASSUME NEW w \in Workers, Begin(w) PROVE StoreTypeOK' /\ LocalTypeOK' /\ LocalFit'
  <2>1. PICK j \in Requests :
          /\ job' = [job EXCEPT ![w] = j]
          /\ pc' = [pc EXCEPT ![w] = FirstStep(j.kind)]
          /\ disturbed' = IF /\ j.kind \in SessionKinds
                             /\ \E x \in Workers : InSession(x, j.user)
                            THEN disturbed \cup {j.user} ELSE disturbed
    BY <1>3 DEF Begin
  <2>2. j \in Jobs /\ FirstStep(j.kind) \in Steps /\ j.user \in Users
    BY FirstStepIsAStep DEF Requests, Jobs
  <2>3. StoreTypeOK' /\ LocalTypeOK'
    BY <1>0, <1>3, <2>1, <2>2 DEF Begin, stores, StoreTypeOK, LocalTypeOK
  <2>4. OthersKept(w) /\ pc'[w] = FirstStep(j.kind) /\ job'[w] = j
    BY <1>0, <1>3, <2>1, <2>2 DEF Begin, LocalTypeOK, OthersKept
  <2>5. j.kind = "login" => j.via \in Hosts
    BY DEF Requests
  <2>6. \/ FirstStep(j.kind) = "insert" /\ j.kind = "register"
        \/ FirstStep(j.kind) = "state_get" /\ j.kind \in {"logout", "state"}
        \/ FirstStep(j.kind) = "info_get" /\ j.kind \in {"login", "info", "list"}
    BY <2>2 DEF FirstStep, Jobs, Kinds
  <2>7. KindFit(w)' /\ ReadFit(w)'
    BY <2>4, <2>5, <2>6 DEF KindFit, ReadFit
  <2>. QED BY <1>0, <2>3, <2>4, <2>7, LocalFitFromOne
<1>4. ASSUME NEW w \in Workers, Handle(w) PROVE StoreTypeOK' /\ LocalTypeOK' /\ LocalFit'
  <2>. SUFFICES StoreTypeOK' /\ LocalTypeOK' /\ OthersKept(w) /\ KindFit(w)' /\ ReadFit(w)'
    BY <1>0, LocalFitFromOne
  <2>s. /\ {NotExist, Online, Offline} \subseteq States /\ NotExist \in CacheStates
        /\ {"info_select", "state_select", "fill_absent", "update", "join",
            "state_fill", "list_fill", "evict", "save_host", "remove_host"} \subseteq Steps
    BY DEF States, CacheStates, Steps, NotExist, Online, Offline, Miss
  <2>r. \A u \in Users : /\ row[u] # Absent => row[u] \in {Online, Offline}
                         /\ cache[u] # Miss => cache[u] \in States
    BY <1>0 DEF StoreTypeOK, RowStates, States
  <2>k. KindFit(w) /\ ReadFit(w)
    BY <1>0 DEF LocalFit
  <2>d. \A s \in States : Decide(w, s) =>
          \/ job[w].kind = "logout" /\ s = Online /\ Keep(w, s, "update")
          \/ Finish(w)
    BY DEF Decide
  <2>f. ASSUME Finish(w)
        PROVE  LocalTypeOK' /\ OthersKept(w) /\ KindFit(w)' /\ ReadFit(w)'
    BY <1>0, <2>f, LocalStep DEF KindFit, ReadFit
  <2>. USE <1>0, <2>s DEF stores, history
  <2>1. CASE InfoGet(w)
    <3>1. Finish(w) \/ Goto(w, "info_select")
      BY <2>1 DEF InfoGet
    <3>2. LocalTypeOK' /\ OthersKept(w) /\ KindFit(w)' /\ ReadFit(w)'
      BY <2>1, <2>f, <2>k, <3>1, LocalStep DEF InfoGet, KindFit, ReadFit
    <3>. QED BY <2>1, <3>2, NoteType DEF InfoGet, StoreTypeOK
  <2>2. CASE InfoSelect(w)
    <3>1. \/ Finish(w)
          \/ Goto(w, "fill_absent")
          \/ Goto(w, "join") /\ job[w].kind = "list"
          \/ /\ job[w].kind = "login" /\ row[job[w].user] # Absent
             /\ Keep(w, row[job[w].user], "update")
      BY <2>2 DEF InfoSelect
    <3>2. LocalTypeOK' /\ OthersKept(w) /\ KindFit(w)' /\ ReadFit(w)'
      BY <2>2, <2>f, <2>k, <2>r, <3>1, JobType, LocalStep
         DEF InfoSelect, KindFit, ReadFit, SessionKinds
    <3>. QED BY <2>2, <3>2, NoteType DEF InfoSelect, StoreTypeOK
  <2>3. CASE FillAbsent(w)
    BY <2>3, <2>f, JobType, CacheType, NoteType DEF FillAbsent, StoreTypeOK
  <2>4. CASE StateGet(w)
    <3>1. \/ Goto(w, "state_select")
          \/ cache[job[w].user] # Miss /\ Decide(w, cache[job[w].user])
      BY <2>4 DEF StateGet
    <3>2. LocalTypeOK' /\ OthersKept(w) /\ KindFit(w)' /\ ReadFit(w)'
      BY <2>4, <2>f, <2>k, <2>r, <2>d, <3>1, JobType, LocalStep
         DEF StateGet, KindFit, ReadFit, SessionKinds
    <3>. QED BY <2>4, <3>2, NoteType DEF StateGet, StoreTypeOK
  <2>5. CASE StateSelect(w)
    <3>1. \/ Goto(w, "fill_absent")
          \/ row[job[w].user] # Absent /\ Keep(w, row[job[w].user], "state_fill")
      BY <2>5 DEF StateSelect
    <3>2. LocalTypeOK' /\ OthersKept(w) /\ KindFit(w)' /\ ReadFit(w)'
      BY <2>5, <2>k, <2>r, <3>1, JobType, LocalStep DEF StateSelect, KindFit, ReadFit
    <3>. QED BY <2>5, <3>2, NoteType DEF StateSelect, StoreTypeOK
  <2>6. CASE StateFill(w)
    <3>1. Decide(w, seen[w][job[w].user])
      BY <2>6 DEF StateFill
    <3>2. LocalTypeOK' /\ OthersKept(w) /\ KindFit(w)' /\ ReadFit(w)'
      BY <2>6, <2>f, <2>k, <2>d, <3>1, JobType, LocalStep
         DEF StateFill, KindFit, ReadFit, SessionKinds
    <3>. QED BY <2>6, <3>2, JobType, CacheType, NoteType DEF StateFill, StoreTypeOK, States
  <2>7. CASE Join(w)
    <3>1. CASE Finish(w)
      BY <2>7, <2>f, <3>1 DEF Join, StoreTypeOK
    <3>2. CASE ~Finish(w)
      <4>1. PICK members \in SUBSET { u \in Users : row[u] # Absent } :
               /\ seen' = [seen EXCEPT ![w] =
                     [u \in Users |-> IF u \in members THEN row[u] ELSE NotExist]]
               /\ todo' = [todo EXCEPT ![w] = members]
               /\ pc' = [pc EXCEPT ![w] = "list_fill"]
               /\ UNCHANGED job
        BY <2>7, <3>2 DEF Join
      <4>. DEFINE read == [u \in Users |-> IF u \in members THEN row[u] ELSE NotExist]
      <4>2. read \in [Users -> States] /\ \A u \in members : read[u] \in {Online, Offline}
        BY <2>r
      <4>. HIDE DEF read
      <4>3. LocalTypeOK' /\ OthersKept(w)
        BY <4>1, <4>2 DEF LocalTypeOK, OthersKept, States, read
      <4>4. pc'[w] = "list_fill" /\ todo'[w] = members /\ seen'[w] = read /\ job'[w].kind = "list"
        BY <2>7, <2>k, <4>1 DEF LocalTypeOK, Join, KindFit, read
      <4>. QED BY <2>7, <4>2, <4>3, <4>4 DEF Join, StoreTypeOK, KindFit, ReadFit
    <3>. QED BY <3>1, <3>2
  <2>8. CASE ListFill(w)
    <3>1. PICK u \in todo[w], ok \in Outcomes :
            /\ CacheSet(u, seen[w][u], ok)
            /\ IF todo[w] = {u}
                 THEN Finish(w)
                 ELSE /\ todo' = [todo EXCEPT ![w] = @ \ {u}]
                      /\ UNCHANGED <<pc, job, seen>>
      BY <2>8 DEF ListFill
    <3>2. u \in Users /\ StoreTypeOK'
      BY <2>8, <3>1, JobType, CacheType DEF LocalTypeOK, ListFill, StoreTypeOK, States
    <3>3. CASE Finish(w)
      BY <2>f, <3>2, <3>3
    <3>4. CASE todo' = [todo EXCEPT ![w] = @ \ {u}] /\ UNCHANGED <<pc, job, seen>>
      BY <2>8, <2>k, <3>2, <3>4 DEF LocalTypeOK, OthersKept, ListFill, KindFit, ReadFit
    <3>. QED BY <3>1, <3>3, <3>4
  <2>9. CASE Update(w)
    <3>1. \/ Goto(w, "evict")
          \/ Admitted(w) /\ Goto(w, "save_host")
          \/ Finish(w)
      BY <2>9 DEF Update
    <3>2. LocalTypeOK' /\ OthersKept(w) /\ KindFit(w)' /\ ReadFit(w)'
      BY <2>9, <2>f, <2>k, <3>1, LocalStep DEF Update, KindFit, ReadFit, Admitted
    <3>3. Target(w) \in RowStates
      BY <2>9, <2>k DEF Update, ReadFit, Target, RowStates
    <3>4. row' \in [Users -> RowStates] /\ tainted' \subseteq Users
      BY <2>9, <3>3, JobType DEF Update, LeftBehind, StoreTypeOK, TypeOK
    <3>. QED BY <2>9, <3>2, <3>4, NoteType DEF Update, StoreTypeOK
  <2>10. CASE Evict(w)
    <3>1. \/ Admitted(w) /\ Goto(w, "save_host")
          \/ job[w].kind = "logout" /\ Goto(w, "remove_host")
          \/ Finish(w)
      BY <2>10 DEF Evict
    <3>2. LocalTypeOK' /\ OthersKept(w) /\ KindFit(w)' /\ ReadFit(w)'
      BY <2>10, <2>f, <2>k, <3>1, LocalStep DEF Evict, KindFit, ReadFit, Admitted
    <3>. QED BY <2>10, <3>2, JobType, CacheType, NoteType DEF Evict, StoreTypeOK
  <2>11. CASE SaveHost(w)
    BY <2>11, <2>f, JobType, NoteType DEF SaveHost, StoreTypeOK, TypeOK, Jobs
  <2>12. CASE RemoveHost(w)
    BY <2>12, <2>f, JobType, NoteType DEF RemoveHost, StoreTypeOK
  <2>13. CASE Insert(w)
    <3>1. Goto(w, "evict") \/ Finish(w)
      BY <2>13 DEF Insert
    <3>2. LocalTypeOK' /\ OthersKept(w) /\ KindFit(w)' /\ ReadFit(w)'
      BY <2>13, <2>f, <2>k, <3>1, LocalStep DEF Insert, InsertUser, KindFit, ReadFit, Admitted
    <3>3. row' \in [Users -> RowStates] /\ tainted' \subseteq Users
      BY <2>13, JobType DEF Insert, InsertUser, LeftBehind, StoreTypeOK, TypeOK, RowStates
    <3>. QED BY <2>13, <3>2, <3>3 DEF Insert, StoreTypeOK
  <2>. QED BY <1>4, <2>1, <2>2, <2>3, <2>4, <2>5, <2>6, <2>7, <2>8, <2>9,
              <2>10, <2>11, <2>12, <2>13 DEF Handle
<1>. QED BY <1>1, <1>2, <1>3, <1>4 DEF Next

LEMMA InitLocalInv == Init => LocalInv
<1>. SUFFICES ASSUME Init PROVE LocalInv
  OBVIOUS
<1>1. TypeOK
  BY IdleIsAJob DEF Init, TypeOK, RowStates, CacheStates, Steps, Unread, NotExist, Miss
<1>2. LocalFit
  BY DEF Init, LocalFit, KindFit, ReadFit
<1>. QED BY <1>1, <1>2 DEF LocalInv

\* The stores and the handlers' local state always have their types.
THEOREM TypeCorrect == Spec => []TypeOK
<1>1. LocalInv => TypeOK
  BY DEF LocalInv
<1>. QED BY <1>1, InitLocalInv, LocalInvStep, PTL DEF Spec

-----------------------------------------------------------------------------
(* The cache.                                                              *)

\* Rows are never deleted, and a registration is the only one to add a row.
LEMMA RowGrows ==
  ASSUME LocalInv, [Next]_vars
  PROVE  \A u \in Users : row[u] # Absent => row'[u] # Absent
<1>1. ASSUME NEW w \in Workers, Update(w)
      PROVE  \A u \in Users : row[u] # Absent => row'[u] # Absent
  <2>1. Target(w) # Absent
    BY <1>1 DEF Update, LocalInv, LocalFit, ReadFit, Target, Online, Offline, Absent
  <2>. QED BY <1>1, <2>1 DEF Update, LocalInv, TypeOK
<1>2. ASSUME NEW w \in Workers, Insert(w)
      PROVE  \A u \in Users : row[u] # Absent => row'[u] # Absent
  BY <1>2 DEF Insert, InsertUser, LocalInv, TypeOK
<1>3. ASSUME row' = row
      PROVE  \A u \in Users : row[u] # Absent => row'[u] # Absent
  BY <1>3
<1>. QED BY <1>1, <1>2, <1>3 DEF Next, vars, stores, Handle, Begin, Expire, InfoGet, InfoSelect,
       FillAbsent, StateGet, StateSelect, StateFill, Join, ListFill, Evict, SaveHost, RemoveHost

\* A handler's step leaves it with states it had already, or with states of
\* accounts that have a row.
LEMMA ReadsAreReal ==
  ASSUME CacheInv, NEW w \in Workers, Handle(w)
  PROVE  /\ OthersKept(w)
         /\ \A u \in Users : seen'[w][u] \in {Online, Offline} =>
              seen'[w][u] = seen[w][u] \/ row[u] # Absent
<1>. DEFINE Real == \A u \in Users : seen'[w][u] \in {Online, Offline} =>
                      seen'[w][u] = seen[w][u] \/ row[u] # Absent
<1>0. TypeOK /\ job[w].user \in Users
  BY JobType DEF CacheInv, LocalInv
<1>1. ASSUME Finish(w) PROVE OthersKept(w) /\ Real
  BY <1>0, <1>1, LocalStep DEF Unread, NotExist, Online, Offline
<1>2. ASSUME NEW step \in Steps, Goto(w, step) PROVE OthersKept(w) /\ Real
  BY <1>0, <1>2, LocalStep
<1>3. ASSUME NEW s \in States, NEW step \in Steps, Keep(w, s, step),
             s = seen[w][job[w].user] \/ row[job[w].user] # Absent
      PROVE  OthersKept(w) /\ Real
  BY <1>0, <1>3, LocalStep
<1>4. {"info_select", "state_select", "fill_absent", "update", "join",
       "state_fill", "evict", "save_host", "remove_host"} \subseteq Steps
  BY DEF Steps
<1>5. row[job[w].user] # Absent => row[job[w].user] \in States
  BY <1>0 DEF TypeOK, RowStates, States, CacheStates, Online, Offline, Absent, Miss
<1>6. ASSUME NEW s \in States, Decide(w, s),
             s = Online => s = seen[w][job[w].user] \/ row[job[w].user] # Absent
      PROVE  OthersKept(w) /\ Real
  BY <1>1, <1>3, <1>4, <1>6 DEF Decide
<1>7. CASE InfoGet(w)
  BY <1>1, <1>2, <1>4, <1>7 DEF InfoGet
<1>8. CASE InfoSelect(w)
  BY <1>1, <1>2, <1>3, <1>4, <1>5, <1>8 DEF InfoSelect
<1>9. CASE StateGet(w)
  <2>1. cache[job[w].user] # Miss => cache[job[w].user] \in States
    BY <1>0 DEF TypeOK, States
  <2>2. cache[job[w].user] = Online => row[job[w].user] # Absent
    BY <1>0 DEF CacheInv, CacheNamesRealUsers
  <2>. QED BY <1>2, <1>4, <1>6, <1>9, <2>1, <2>2 DEF StateGet
<1>10. CASE StateSelect(w)
  BY <1>2, <1>3, <1>4, <1>5, <1>10 DEF StateSelect
<1>11. CASE StateFill(w)
  BY <1>0, <1>6, <1>11, JobType DEF StateFill
<1>12. CASE Join(w)
  BY <1>0, <1>1, <1>12 DEF Join, OthersKept, TypeOK, NotExist, Online, Offline
<1>13. CASE ListFill(w)
  BY <1>0, <1>1, <1>13 DEF ListFill, OthersKept, TypeOK
<1>14. CASE Update(w) \/ Evict(w) \/ Insert(w)
  BY <1>1, <1>2, <1>4, <1>14 DEF Update, Evict, Insert, InsertUser
<1>15. CASE FillAbsent(w) \/ SaveHost(w) \/ RemoveHost(w)
  BY <1>1, <1>15 DEF FillAbsent, SaveHost, RemoveHost
<1>. QED BY <1>7, <1>8, <1>9, <1>10, <1>11, <1>12, <1>13, <1>14, <1>15 DEF Handle

LEMMA EvictionStaysPending ==
  ASSUME NEW w \in Workers, OthersKept(w), NEW u \in Users, EvictionPending(u),
         pc[w] # "evict" \/ job[w].user # u
  PROVE  EvictionPending(u)'
BY DEF EvictionPending, OthersKept

\* Writing a state that the row can vouch for keeps the cache's promises.
LEMMA CacheSetStep ==
  ASSUME CacheInv, NEW u \in Users, NEW s \in CacheStates, NEW ok, UNCHANGED row,
         CacheSet(u, s, ok), s \in {Online, Offline} => row[u] # Absent
  PROVE  /\ CacheNamesRealUsers'
         /\ \A v \in Users : Agree(cache'[v], row'[v]) \/ v \in tainted' \/ EvictionPending(v)
BY DEF CacheInv, LocalInv, TypeOK, CacheNamesRealUsers, StaleEntryExplained, CacheSet,
       Agree, Miss, Online, Offline

\* Deleting the entry of u, or noting that it could not be, settles u.
LEMMA CacheDelStep ==
  ASSUME CacheInv, NEW u \in Users, NEW ok, UNCHANGED row, CacheDel(u, ok)
  PROVE  /\ CacheNamesRealUsers'
         /\ \A v \in Users : \/ Agree(cache'[v], row'[v]) \/ v \in tainted'
                             \/ v # u /\ EvictionPending(v)
BY DEF CacheInv, LocalInv, TypeOK, CacheNamesRealUsers, StaleEntryExplained, CacheDel,
       Agree, Miss, Online, Offline

LEMMA CacheInvStep == CacheInv /\ [Next]_vars => CacheInv'
<1>. SUFFICES ASSUME CacheInv, [Next]_vars
              PROVE  ReadsReal' /\ StaleEntryExplained' /\ CacheNamesRealUsers'
  BY LocalInvStep DEF CacheInv
<1>0. LocalInv /\ TypeOK /\ LocalFit
  BY DEF CacheInv, LocalInv
<1>1. ReadsReal'
  <2>1. CASE UNCHANGED <<seen, row>>
    BY <2>1 DEF CacheInv, ReadsReal
  <2>2. ASSUME NEW w \in Workers, Handle(w) PROVE ReadsReal'
    BY <1>0, <2>2, ReadsAreReal, RowGrows DEF CacheInv, ReadsReal, OthersKept
  <2>. QED BY <2>1, <2>2 DEF Next, vars, stores, Begin, Expire
<1>2. CASE UNCHANGED vars
  BY <1>1, <1>2 DEF vars, CacheInv, StaleEntryExplained, CacheNamesRealUsers, EvictionPending
<1>3. ASSUME NEW u \in Users, Expire(u) PROVE StaleEntryExplained' /\ CacheNamesRealUsers'
  BY <1>0, <1>3 DEF Expire, CacheInv, TypeOK, StaleEntryExplained, CacheNamesRealUsers,
     EvictionPending, Agree, Miss, Online, Offline
<1>4. ASSUME NEW w \in Workers, Begin(w) PROVE StaleEntryExplained' /\ CacheNamesRealUsers'
  BY <1>0, <1>4 DEF Begin, stores, CacheInv, TypeOK, StaleEntryExplained, CacheNamesRealUsers,
     EvictionPending
<1>5. ASSUME NEW w \in Workers, Handle(w) PROVE StaleEntryExplained' /\ CacheNamesRealUsers'
  <2>u. PICK u \in Users : u = job[w].user
    BY <1>0, JobType
  <2>0. OthersKept(w) /\ u \in Users /\ KindFit(w) /\ ReadFit(w) /\ seen[w][u] \in CacheStates
    BY <1>0, <1>5, <2>u, ReadsAreReal, JobType DEF LocalFit, States
  <2>1. ASSUME UNCHANGED <<row, cache, tainted>>, pc[w] # "evict"
        PROVE  StaleEntryExplained' /\ CacheNamesRealUsers'
    BY <2>0, <2>1, EvictionStaysPending DEF CacheInv, StaleEntryExplained, CacheNamesRealUsers
  <2>2. ASSUME NEW v \in Users, NEW s \in CacheStates, NEW ok, UNCHANGED row,
               CacheSet(v, s, ok), s \in {Online, Offline} => row[v] # Absent, pc[w] # "evict"
        PROVE  StaleEntryExplained' /\ CacheNamesRealUsers'
    BY <2>0, <2>2, CacheSetStep, EvictionStaysPending DEF StaleEntryExplained
  <2>3. ASSUME NEW s \in RowStates, s # Absent, row' = [row EXCEPT ![u] = s], pc[w] # "evict",
               UNCHANGED <<cache, tainted>>, Goto(w, "evict")
        PROVE  StaleEntryExplained' /\ CacheNamesRealUsers'
    <3>1. EvictionPending(u)'
      BY <1>0, <2>u, <2>3 DEF Goto, EvictionPending, TypeOK
    <3>2. \A v \in Users \ {u} : row'[v] = row[v]
      BY <1>0, <2>0, <2>3 DEF TypeOK
    <3>3. row'[u] = s
      BY <1>0, <2>0, <2>3 DEF TypeOK
    <3>4. CacheNamesRealUsers'
      BY <2>0, <2>3, <3>2, <3>3 DEF CacheInv, CacheNamesRealUsers
    <3>5. ASSUME NEW v \in Users \ {u}
          PROVE  (Agree(cache[v], row[v]) \/ v \in tainted \/ EvictionPending(v))'
      BY <2>0, <2>3, <3>2, EvictionStaysPending DEF CacheInv, StaleEntryExplained
    <3>6. \A v \in Users :
            Agree(cache'[v], row'[v]) \/ v \in tainted' \/ EvictionPending(v)'
      BY <3>1, <3>5
    <3>. QED BY <3>4, <3>6 DEF StaleEntryExplained
  <2>r. ASSUME NEW s \in RowStates, s # Absent, row' = [row EXCEPT ![u] = s], pc[w] # "evict",
               UNCHANGED cache, LeftBehind(u)
        PROVE  StaleEntryExplained' /\ CacheNamesRealUsers'
    <3>1. \A v \in Users : row'[v] = IF v = u THEN s ELSE row[v]
      BY <1>0, <2>0, <2>r DEF TypeOK
    <3>2. CacheNamesRealUsers'
      BY <2>r, <3>1 DEF CacheInv, CacheNamesRealUsers
    <3>3. \A v \in Users :
            Agree(cache'[v], row'[v]) \/ v \in tainted' \/ EvictionPending(v)'
      BY <2>0, <2>r, <3>1, EvictionStaysPending DEF CacheInv, StaleEntryExplained, LeftBehind
    <3>. QED BY <3>2, <3>3 DEF StaleEntryExplained
  <2>4. CASE InfoGet(w) \/ InfoSelect(w) \/ StateGet(w) \/ StateSelect(w) \/ Join(w)
             \/ SaveHost(w) \/ RemoveHost(w)
    BY <2>1, <2>4 DEF InfoGet, InfoSelect, StateGet, StateSelect, Join, SaveHost, RemoveHost,
       stores, history
  <2>5. CASE FillAbsent(w)
    BY <2>0, <2>2, <2>u, <2>5 DEF FillAbsent, CacheStates, NotExist, Online, Offline
  <2>6. CASE StateFill(w)
    BY <2>0, <2>2, <2>u, <2>6 DEF StateFill, CacheInv, ReadsReal
  <2>7. CASE ListFill(w)
    <3>1. \A v \in todo[w] : v \in Users /\ seen[w][v] \in CacheStates
      BY <1>0, JobType DEF TypeOK, States
    <3>. QED BY <2>2, <2>7, <3>1 DEF ListFill, CacheInv, ReadsReal
  <2>8. CASE Update(w)
    <3>1. Target(w) \in RowStates /\ Target(w) # Absent
      BY <2>0, <2>u, <2>8 DEF Update, ReadFit, Target, RowStates, Online, Offline, Absent
    <3>2. \/ row' = row /\ LeftBehind(u)
          \/ row' = [row EXCEPT ![u] = Target(w)] /\ LeftBehind(u)
          \/ row' = [row EXCEPT ![u] = Target(w)] /\ Goto(w, "evict") /\ UNCHANGED tainted
      BY <2>u, <2>8 DEF Update
    <3>3. pc[w] # "evict" /\ UNCHANGED cache
      BY <2>8 DEF Update
    <3>. QED BY <2>1, <2>3, <2>r, <3>1, <3>2, <3>3 DEF LeftBehind
  <2>9. CASE Insert(w)
    <3>1. Offline \in RowStates /\ Offline # Absent
      BY DEF RowStates, Offline, Absent
    <3>2. \/ row' = row /\ UNCHANGED tainted
          \/ row' = [row EXCEPT ![u] = Offline] /\ LeftBehind(u)
          \/ row' = [row EXCEPT ![u] = Offline] /\ Goto(w, "evict") /\ UNCHANGED tainted
      BY <2>u, <2>9 DEF Insert, InsertUser
    <3>3. pc[w] # "evict" /\ UNCHANGED cache
      BY <2>9 DEF Insert
    <3>. QED BY <2>1, <2>3, <2>r, <3>1, <3>2, <3>3
  <2>10. CASE Evict(w)
    <3>1. PICK ok \in Outcomes : CacheDel(u, ok)
      BY <2>u, <2>10 DEF Evict
    <3>2. UNCHANGED row
      BY <2>u, <2>10 DEF Evict
    <3>3. \A v \in Users : v # u /\ EvictionPending(v) => EvictionPending(v)'
      BY <2>0, <2>u, EvictionStaysPending
    <3>. QED BY <2>0, <3>1, <3>2, <3>3, CacheDelStep DEF StaleEntryExplained
  <2>. QED BY <1>5, <2>4, <2>5, <2>6, <2>7, <2>8, <2>9, <2>10 DEF Handle
<1>. QED BY <1>1, <1>2, <1>3, <1>4, <1>5 DEF Next

LEMMA InitCacheInv == Init => CacheInv
BY InitLocalInv DEF Init, CacheInv, ReadsReal, StaleEntryExplained, CacheNamesRealUsers, Agree,
   Unread, NotExist, Miss, Online, Offline

\* Whatever the interleaving and whatever fails, "UPDATE, then DEL" leaves no
\* wrong entry of its own behind.
THEOREM StaleEntriesExplained == Spec => []StaleEntryExplained
<1>1. CacheInv => StaleEntryExplained
  BY DEF CacheInv
<1>. QED BY <1>1, InitCacheInv, CacheInvStep, PTL DEF Spec

\* The cache never gives a state to an account that is not registered.
THEOREM CacheOnlyNamesRealUsers == Spec => []CacheNamesRealUsers
<1>1. CacheInv => CacheNamesRealUsers
  BY DEF CacheInv
<1>. QED BY <1>1, InitCacheInv, CacheInvStep, PTL DEF Spec

-----------------------------------------------------------------------------
(* Sessions.                                                               *)

LEMMA HandleKeepsUser ==
  ASSUME TypeOK, NEW w \in Workers, Handle(w)
  PROVE  pc'[w] = "idle" \/ job'[w] = job[w]
<1>1. CASE Finish(w) \/ UNCHANGED job
  BY <1>1, LocalStep
<1>2. CASE ~Finish(w) /\ ~UNCHANGED job
  BY <1>2 DEF Handle, InfoGet, InfoSelect, FillAbsent, StateGet, StateSelect, StateFill,
     Decide, Join, ListFill, Update, Evict, SaveHost, RemoveHost, Insert, Goto, Keep
<1>. QED BY <1>1, <1>2

\* A request on another account, or one that is no session request, leaves an
\* account's status alone, except that a registration may create it.
LEMMA Bystander ==
  ASSUME IInv, NEW w \in Workers, Handle(w), NEW u \in Users, ~InSession(w, u)
  PROVE  /\ host'[u] = host[u]
         /\ row'[u] = row[u] \/ (row[u] = Absent /\ row'[u] = Offline)
<1>0. TypeOK /\ KindFit(w) /\ job[w].user \in Users
  BY JobType DEF IInv, CacheInv, LocalInv, LocalFit
<1>1. CASE UNCHANGED <<row, host>>
  BY <1>1
<1>2. CASE Update(w) \/ SaveHost(w) \/ RemoveHost(w)
  BY <1>0, <1>2 DEF Update, SaveHost, RemoveHost, TypeOK, KindFit, InSession, SessionKinds, Admitted
<1>3. CASE Insert(w)
  BY <1>0, <1>3 DEF Insert, InsertUser, TypeOK
<1>. QED BY <1>1, <1>2, <1>3 DEF Handle, InfoGet, InfoSelect, FillAbsent, StateGet, StateSelect,
       StateFill, Join, ListFill, Evict, stores

\* A session request on an undisturbed account takes the stores from where
\* one of its steps needs them to where the next one does.
LEMMA OwnStep ==
  ASSUME IInv, NEW w \in Workers, Handle(w), NEW u \in Users, u \notin disturbed',
         InSession(w, u)
  PROVE  SessionFit(w, u)' /\ (pc'[w] = "idle" => HostFits(u)')
<1>0. /\ TypeOK /\ KindFit(w) /\ ReadFit(w) /\ SessionFit(w, u)
      /\ job[w].user = u /\ pc[w] # "idle" /\ job[w].kind \in SessionKinds
  <2>1. u \notin disturbed
    BY DEF Handle, InfoGet, InfoSelect, FillAbsent, StateGet, StateSelect, StateFill, Join,
       ListFill, Update, Evict, SaveHost, RemoveHost, Insert, NoteFailure, history
  <2>. QED BY <2>1 DEF IInv, CacheInv, LocalInv, LocalFit, SessionFits, InSession
<1>n. ASSUME NEW ok, NoteFailure(w, ok) PROVE ok
  BY <1>0, <1>n DEF NoteFailure
<1>s. {"info_select", "state_select", "fill_absent", "update", "join", "state_fill",
       "evict", "save_host", "remove_host"} \subseteq Steps
  BY DEF Steps
<1>1. ASSUME Finish(w), HostFits(u)'
      PROVE  SessionFit(w, u)' /\ (pc'[w] = "idle" => HostFits(u)')
  BY <1>0, <1>1, LocalStep DEF SessionFit, InSession
<1>2. ASSUME NEW step \in BeforeWrite \cap Steps, step # "update", Goto(w, step), HostFits(u)'
      PROVE  SessionFit(w, u)' /\ (pc'[w] = "idle" => HostFits(u)')
  BY <1>0, <1>2, LocalStep DEF SessionFit, BeforeWrite
<1>3. ASSUME NEW s \in States, NEW step \in BeforeWrite \cap Steps, Keep(w, s, step), HostFits(u)',
             step = "update" /\ job[w].kind = "login" => s = row'[u]
      PROVE  SessionFit(w, u)' /\ (pc'[w] = "idle" => HostFits(u)')
  BY <1>0, <1>3, LocalStep DEF SessionFit, BeforeWrite
<1>4. ASSUME NEW s \in States, Decide(w, s), HostFits(u)'
      PROVE  SessionFit(w, u)' /\ (pc'[w] = "idle" => HostFits(u)')
  BY <1>1, <1>3, <1>4, <1>s DEF Decide, BeforeWrite
<1>5. pc[w] \in BeforeWrite /\ UNCHANGED <<row, host>> => HostFits(u)'
  BY <1>0 DEF SessionFit, InSession, HostFits
<1>6. (row[u] # Absent => row[u] \in States) /\ (cache[u] # Miss => cache[u] \in States)
      /\ seen[w][u] \in States
  BY <1>0, JobType DEF TypeOK, RowStates, CacheStates, States, Online, Offline, Absent, Miss
<1>7. CASE InfoGet(w)
  BY <1>1, <1>2, <1>5, <1>s, <1>7 DEF InfoGet, stores, BeforeWrite
<1>8. CASE InfoSelect(w)
  BY <1>0, <1>1, <1>2, <1>3, <1>5, <1>6, <1>s, <1>8
     DEF InfoSelect, stores, BeforeWrite, SessionKinds
<1>9. CASE FillAbsent(w)
  BY <1>1, <1>5, <1>9 DEF FillAbsent, BeforeWrite
<1>10. CASE StateGet(w)
  BY <1>0, <1>2, <1>4, <1>5, <1>6, <1>s, <1>10 DEF StateGet, stores, BeforeWrite
<1>11. CASE StateSelect(w)
  BY <1>0, <1>2, <1>3, <1>5, <1>6, <1>s, <1>11 DEF StateSelect, stores, BeforeWrite
<1>12. CASE StateFill(w)
  BY <1>0, <1>4, <1>5, <1>6, <1>12 DEF StateFill, BeforeWrite
<1>13. CASE Join(w) \/ ListFill(w) \/ Insert(w)
  BY <1>0, <1>13 DEF Join, ListFill, Insert, KindFit, SessionKinds
<1>14. CASE Update(w)
  <2>1. row' = [row EXCEPT ![u] = Target(w)] /\ Goto(w, "evict") /\ UNCHANGED host
    BY <1>0, <1>n, <1>14 DEF Update
  <2>2. /\ row'[u] = Target(w) /\ host'[u] = host[u] /\ pc'[w] = "evict" /\ job' = job
        /\ seen' = seen
    BY <1>0, <1>s, <2>1, LocalStep DEF TypeOK
  <2>3. Admitted(w)' <=> Admitted(w)
    BY <2>2 DEF Admitted
  <2>4. HostFits(u) /\ (job[w].kind = "login" => seen[w][u] = row[u])
    BY <1>0, <1>14 DEF SessionFit, InSession, BeforeWrite, Update
  <2>. QED BY <1>0, <2>2, <2>3, <2>4
           DEF SessionFit, InSession, BeforeWrite, HostFits, Target, SessionKinds, Admitted
<1>15. CASE Evict(w)
  <2>1. row' = row /\ host' = host
    BY <1>15 DEF Evict
  <2>2. CASE Admitted(w) /\ Goto(w, "save_host")
    <3>1. pc'[w] = "save_host" /\ job' = job /\ row[u] = Online
      BY <1>0, <1>s, <1>15, <2>2, LocalStep DEF SessionFit, InSession, Evict
    <3>. QED BY <2>1, <2>2, <3>1 DEF SessionFit, BeforeWrite
  <2>3. CASE job[w].kind = "logout" /\ Goto(w, "remove_host")
    <3>1. pc'[w] = "remove_host" /\ job' = job /\ row[u] = Offline
      BY <1>0, <1>s, <1>15, <2>3, LocalStep DEF SessionFit, InSession, Evict
    <3>. QED BY <2>1, <2>3, <3>1 DEF SessionFit, BeforeWrite
  <2>4. CASE ~Admitted(w) /\ job[w].kind # "logout" /\ Finish(w)
    <3>1. HostFits(u)
      BY <1>0, <1>15, <2>4 DEF SessionFit, InSession, SessionKinds, Evict
    <3>. QED BY <1>1, <2>1, <2>4, <3>1 DEF HostFits
  <2>. QED BY <1>15, <2>2, <2>3, <2>4 DEF Evict
<1>16. CASE SaveHost(w)
  <2>1. host' = [host EXCEPT ![u] = job[w].via] /\ row' = row /\ Finish(w)
    BY <1>0, <1>n, <1>16 DEF SaveHost
  <2>2. job[w].via # NoHost /\ row[u] = Online
    BY <1>0, <1>16, HostsAssumption DEF SaveHost, KindFit, Admitted, SessionFit, InSession
  <2>. QED BY <1>0, <1>1, <2>1, <2>2 DEF TypeOK, HostFits
<1>17. CASE RemoveHost(w)
  <2>1. host' = [host EXCEPT ![u] = NoHost] /\ row' = row /\ Finish(w)
    BY <1>0, <1>n, <1>17 DEF RemoveHost
  <2>2. row[u] = Offline
    BY <1>0, <1>17 DEF RemoveHost, KindFit, SessionFit, InSession
  <2>. QED BY <1>0, <1>1, <2>1, <2>2 DEF TypeOK, HostFits, Online, Offline
<1>. QED BY <1>7, <1>8, <1>9, <1>10, <1>11, <1>12, <1>13, <1>14, <1>15, <1>16, <1>17 DEF Handle

LEMMA DisturbedGrows == [Next]_vars => disturbed \subseteq disturbed'
BY DEF Next, vars, Begin, Expire, Handle, InfoGet, InfoSelect, FillAbsent, StateGet, StateSelect,
   StateFill, Join, ListFill, Update, Evict, SaveHost, RemoveHost, Insert, NoteFailure, history

LEMMA BeginSessions ==
  ASSUME IInv, NEW w \in Workers, Begin(w)
  PROVE  OneAtATime' /\ SessionFits' /\ HostFollowsRow'
<1>0. TypeOK /\ disturbed \subseteq disturbed' /\ pc[w] = "idle"
  BY DisturbedGrows DEF IInv, CacheInv, LocalInv, Next, Begin
<1>1. PICK j \in Requests :
        /\ job' = [job EXCEPT ![w] = j]
        /\ pc' = [pc EXCEPT ![w] = FirstStep(j.kind)]
        /\ disturbed' = IF /\ j.kind \in SessionKinds
                           /\ \E x \in Workers : InSession(x, j.user)
                          THEN disturbed \cup {j.user} ELSE disturbed
  BY DEF Begin
<1>2. /\ pc'[w] = FirstStep(j.kind) /\ job'[w] = j
      /\ UNCHANGED <<row, host, seen>>
      /\ \A x \in Workers \ {w} : pc'[x] = pc[x] /\ job'[x] = job[x]
  BY <1>0, <1>1 DEF Begin, stores, TypeOK
<1>3. /\ FirstStep(j.kind) \in BeforeWrite \cup {"insert"}
      /\ FirstStep(j.kind) \notin {"update", "idle"}
      /\ j.kind \in Kinds
  BY DEF FirstStep, BeforeWrite, Requests, Jobs, Kinds
<1>4. \A u \in Users, x \in Workers \ {w} : InSession(x, u)' <=> InSession(x, u)
  BY <1>2 DEF InSession
<1>5. \A u \in Users : ~InSession(w, u)
  BY <1>0 DEF InSession
<1>6. \A u \in Users : InSession(w, u)' <=> u = j.user /\ j.kind \in SessionKinds
  BY <1>2, <1>3 DEF InSession
<1>7. \A u \in Users \ disturbed' : InSession(w, u)' => SessionsAtRest(u)
  BY <1>1, <1>6 DEF SessionsAtRest
<1>8. OneAtATime'
  BY <1>0, <1>4, <1>7 DEF IInv, OneAtATime, SessionsAtRest
<1>9. HostFollowsRow'
  BY <1>0, <1>2, <1>4, <1>5 DEF IInv, HostFollowsRow, SessionsAtRest
<1>10. ASSUME NEW u \in Users \ disturbed', NEW x \in Workers PROVE SessionFit(x, u)'
  <2>1. CASE x = w
    <3>1. InSession(w, u)' => HostFits(u)'
      BY <1>0, <1>2, <1>7 DEF IInv, HostFollowsRow, HostFits
    <3>. QED BY <1>2, <1>3, <2>1, <3>1 DEF SessionFit, BeforeWrite
  <2>2. CASE x # w
    <3>1. SessionFit(x, u) /\ pc'[x] = pc[x] /\ job'[x] = job[x] /\ seen' = seen
      BY <1>0, <1>2, <2>2 DEF IInv, SessionFits
    <3>. QED BY <1>2, <3>1 DEF SessionFit, InSession, HostFits, Admitted
  <2>. QED BY <2>1, <2>2
<1>. QED BY <1>8, <1>9, <1>10 DEF SessionFits

LEMMA HandleSessions ==
  ASSUME IInv, NEW w \in Workers, Handle(w)
  PROVE  OneAtATime' /\ SessionFits' /\ HostFollowsRow'
<1>0. TypeOK /\ LocalFit /\ disturbed \subseteq disturbed' /\ OthersKept(w)
  BY DisturbedGrows, ReadsAreReal DEF IInv, CacheInv, LocalInv, Next
<1>1. \A u \in Users, x \in Workers : InSession(x, u)' => InSession(x, u)
  BY <1>0, HandleKeepsUser DEF OthersKept, InSession, Handle, InfoGet, InfoSelect, FillAbsent,
     StateGet, StateSelect, StateFill, Join, ListFill, Update, Evict, SaveHost, RemoveHost, Insert
<1>2. OneAtATime'
  BY <1>0, <1>1 DEF IInv, OneAtATime
<1>3. ASSUME NEW u \in Users \ disturbed', ~InSession(w, u)
      PROVE  \A x \in Workers : SessionFit(x, u)'
  <2>1. /\ host'[u] = host[u]
        /\ row'[u] = row[u] \/ (row[u] = Absent /\ row'[u] = Offline)
    BY <1>3, Bystander
  <2>2. HostFits(u) => HostFits(u)'
    BY <2>1 DEF HostFits, Online, Offline, Absent
  <2>3. ASSUME NEW x \in Workers \ {w} PROVE SessionFit(x, u)'
    <3>1. /\ SessionFit(x, u) /\ ReadFit(x)
          /\ pc'[x] = pc[x] /\ job'[x] = job[x] /\ seen'[x] = seen[x]
      BY <1>0 DEF IInv, SessionFits, OthersKept, LocalFit
    <3>2. Admitted(x)' <=> Admitted(x)
      BY <3>1 DEF Admitted
    <3>. QED BY <2>1, <2>2, <3>1, <3>2
             DEF SessionFit, InSession, ReadFit, Online, Offline, Absent
  <2>4. SessionFit(w, u)'
    BY <1>1, <1>3 DEF SessionFit
  <2>. QED BY <2>3, <2>4
<1>4. ASSUME NEW u \in Users \ disturbed', InSession(w, u)
      PROVE  \A x \in Workers : SessionFit(x, u)'
  <2>1. \A x \in Workers \ {w} : ~InSession(x, u)
    BY <1>0, <1>4 DEF IInv, OneAtATime
  <2>. QED BY <1>1, <1>4, <2>1, OwnStep DEF SessionFit
<1>5. ASSUME NEW u \in Users \ disturbed', SessionsAtRest(u)'
      PROVE  HostFits(u)'
  <2>1. CASE InSession(w, u)
    <3>1. pc'[w] = "idle"
      BY <1>0, <1>5, <2>1, HandleKeepsUser DEF SessionsAtRest, InSession
    <3>. QED BY <2>1, <3>1, OwnStep
  <2>2. CASE ~InSession(w, u)
    <3>1. SessionsAtRest(u)
      BY <1>0, <1>5, <2>2 DEF SessionsAtRest, InSession, OthersKept
    <3>2. HostFits(u)
      BY <1>0, <3>1 DEF IInv, HostFollowsRow, HostFits
    <3>. QED BY <2>2, <3>2, Bystander DEF HostFits, Online, Offline, Absent
  <2>. QED BY <2>1, <2>2
<1>. QED BY <1>2, <1>3, <1>4, <1>5 DEF SessionFits, HostFollowsRow, HostFits

LEMMA IInvStep == IInv /\ [Next]_vars => IInv'
<1>. SUFFICES ASSUME IInv, [Next]_vars PROVE OneAtATime' /\ SessionFits' /\ HostFollowsRow'
  BY CacheInvStep DEF IInv
<1>1. CASE UNCHANGED <<row, host, pc, job, seen, disturbed>>
  BY <1>1 DEF IInv, OneAtATime, SessionFits, SessionFit, InSession, HostFits, Admitted,
     HostFollowsRow, SessionsAtRest
<1>. QED BY <1>1, BeginSessions, HandleSessions DEF Next, vars, Expire

LEMMA InitIInv == Init => IInv
BY InitCacheInv DEF Init, IInv, OneAtATime, SessionFits, SessionFit, InSession,
   HostFollowsRow, Online, Absent

\* On an account whose session requests come one at a time, and between two
\* of them, MySQL and Redis agree on whether the user can be reached.
THEOREM HostAlwaysFollowsRow == Spec => []HostFollowsRow
<1>1. IInv => HostFollowsRow
  BY DEF IInv
<1>. QED BY <1>1, InitIInv, IInvStep, PTL DEF Spec

\* On such an account only the request entitled to it changes the status.
THEOREM StatusChangesEarned == Spec => StatusChangesAreEarned
<1>. DEFINE Earned ==
       \A u \in Users \ disturbed' : row'[u] # row[u] =>
         \/ row[u] = Absent /\ row'[u] = Offline
         \/ row[u] = Offline /\ row'[u] = Online /\ \E w \in Workers : LoginSets(w, u)
         \/ row[u] = Online /\ row'[u] = Offline /\ \E w \in Workers : LogoutSets(w, u)
<1>1. IInv /\ [Next]_vars => [Earned]_vars
  <2>. SUFFICES ASSUME IInv, Next PROVE Earned
    OBVIOUS
  <2>0. TypeOK /\ LocalFit /\ ReadsReal
    BY DEF IInv, CacheInv, LocalInv
  <2>1. ASSUME NEW w \in Workers, Update(w) PROVE Earned
    <3>1. PICK u \in Users : job[w].user = u
      BY <2>0, JobType
    <3>2. KindFit(w) /\ ReadFit(w) /\ pc[w] = "update" /\ job[w].kind \in SessionKinds
      BY <2>0, <2>1 DEF LocalFit, KindFit, Update
    <3>3. \A v \in Users \ {u} : row'[v] = row[v]
      BY <2>0, <2>1, <3>1 DEF Update, TypeOK
    <3>4. CASE u \in disturbed' \/ row'[u] = row[u]
      BY <3>3, <3>4
    <3>5. CASE u \notin disturbed' /\ row'[u] # row[u]
      <4>1. row'[u] = Target(w) /\ pc'[w] = "evict"
        BY <2>0, <2>1, <3>1, <3>2, <3>5 DEF Update, Goto, NoteFailure, TypeOK
      <4>2. seen[w][u] \in {Online, Offline} /\ row[u] # Absent /\ row[u] \in RowStates
        BY <2>0, <3>1, <3>2 DEF ReadFit, ReadsReal, TypeOK
      <4>3. CASE job[w].kind = "logout"
        <5>1. Target(w) = Offline
          BY <4>3 DEF Target, Admitted
        <5>2. row[u] = Online /\ row'[u] = Offline /\ LogoutSets(w, u)
          BY <3>1, <3>2, <3>5, <4>1, <4>2, <4>3, <5>1 DEF LogoutSets, RowStates
        <5>. QED BY <3>3, <5>2
      <4>4. CASE job[w].kind = "login"
        <5>1. seen[w][u] = row[u]
          BY <2>1, <3>1, <3>2, <3>5, <4>4, DisturbedGrows
             DEF IInv, SessionFits, SessionFit, InSession, Next, Handle
        <5>2. Admitted(w) /\ row[u] = Offline /\ row'[u] = Online
          BY <3>1, <3>5, <4>1, <4>4, <5>1 DEF Target, Admitted
        <5>. QED BY <3>1, <3>2, <3>3, <4>1, <5>2 DEF LoginSets
      <4>. QED BY <3>2, <4>3, <4>4 DEF SessionKinds
    <3>. QED BY <3>4, <3>5
  <2>2. ASSUME NEW w \in Workers, Insert(w) PROVE Earned
    BY <2>0, <2>2 DEF Insert, InsertUser, TypeOK
  <2>3. CASE row' = row
    BY <2>3
  <2>. QED BY <2>1, <2>2, <2>3 DEF Next, stores, Handle, Begin, Expire, InfoGet, InfoSelect,
       FillAbsent, StateGet, StateSelect, StateFill, Join, ListFill, Evict, SaveHost, RemoveHost
<1>. QED BY <1>1, InitIInv, IInvStep, PTL DEF Spec, StatusChangesAreEarned

-----------------------------------------------------------------------------
(* Presence implements Accounts.                                           *)

LEMMA WhereaboutsSame ==
  ASSUME NEW u \in Users, row'[u] = row[u], host'[u] = host[u],
         u \in disturbed' <=> u \in disturbed,
         Arriving(u)' = Arriving(u), \A w \in Arriving(u) : job'[w] = job[w]
  PROVE  Whereabouts(u)' = Whereabouts(u)
<1>1. { job[w].via : w \in Arriving(u) }' = { job[w].via : w \in Arriving(u) }
  BY DEF Arriving
<1>. QED BY <1>1 DEF Whereabouts

\* What one step of a handler does to an account that stays undisturbed.
Still(u)    == row'[u] = row[u] /\ Whereabouts(u)' = Whereabouts(u)
Created(u)  == row[u] = Absent /\ row'[u] = Offline
Entered(u)  == /\ row[u] = Offline /\ row'[u] = Online
               /\ \E h \in Hosts : Whereabouts(u)' = {h}
Left(u)     == row[u] = Online /\ row'[u] = Offline

\* The login of an undisturbed account that is on its way to the host entry.
LEMMA ArrivingAlone ==
  ASSUME IInv, NEW u \in Users \ disturbed, NEW w \in Workers, InSession(w, u)
  PROVE  Arriving(u) = IF pc[w] \in {"evict", "save_host"} /\ Admitted(w) THEN {w} ELSE {}
<1>1. \A x \in Arriving(u) : x \in Workers /\ InSession(x, u)
  BY DEF Arriving, InSession, Admitted, SessionKinds
<1>2. Arriving(u) \subseteq {w}
  BY <1>1 DEF IInv, OneAtATime
<1>3. w \in Arriving(u) <=> pc[w] \in {"evict", "save_host"} /\ Admitted(w)
  BY DEF Arriving, InSession
<1>. QED BY <1>2, <1>3

LEMMA BystanderWhereabouts ==
  ASSUME IInv, NEW w \in Workers, Handle(w), NEW u \in Users \ disturbed',
         ~InSession(w, u)
  PROVE  Still(u) \/ Created(u)
<1>1. /\ host'[u] = host[u]
      /\ row'[u] = row[u] \/ (row[u] = Absent /\ row'[u] = Offline)
  BY Bystander
<1>2. TypeOK /\ OthersKept(w) /\ u \notin disturbed
  BY DisturbedGrows, ReadsAreReal DEF IInv, CacheInv, LocalInv, Next
<1>3. pc'[w] = "idle" \/ job'[w] = job[w]
  BY <1>2, HandleKeepsUser
<1>4. pc[w] # "idle"
  BY DEF Handle, InfoGet, InfoSelect, FillAbsent, StateGet, StateSelect, StateFill,
     Join, ListFill, Update, Evict, SaveHost, RemoveHost, Insert
<1>5. w \notin Arriving(u) /\ w \notin Arriving(u)'
  BY <1>3, <1>4 DEF Arriving, InSession, Admitted, SessionKinds
<1>6. Arriving(u)' = Arriving(u) /\ \A x \in Arriving(u) : job'[x] = job[x]
  BY <1>2, <1>5 DEF Arriving, OthersKept, Admitted
<1>7. CASE row'[u] = row[u]
  BY <1>1, <1>2, <1>6, <1>7, WhereaboutsSame DEF Still
<1>. QED BY <1>1, <1>7 DEF Created

LEMMA SessionWhereabouts ==
  ASSUME IInv, IInv', NEW w \in Workers, Handle(w), NEW u \in Users \ disturbed',
         InSession(w, u)
  PROVE  Still(u) \/ Entered(u) \/ Left(u)
<1>0. /\ TypeOK /\ KindFit(w) /\ ReadFit(w) /\ SessionFit(w, u) /\ u \notin disturbed
      /\ job[w].user = u /\ pc[w] # "idle" /\ job[w].kind \in SessionKinds
      /\ row[u] # Absent \/ pc[w] # "update"
  <2>1. u \notin disturbed
    BY DisturbedGrows DEF Next
  <2>2. TypeOK /\ KindFit(w) /\ ReadFit(w) /\ SessionFit(w, u) /\ job[w].user = u
        /\ pc[w] # "idle" /\ job[w].kind \in SessionKinds
    BY <2>1 DEF IInv, CacheInv, LocalInv, LocalFit, SessionFits, InSession
  <2>. QED BY <2>1, <2>2 DEF IInv, CacheInv, ReadsReal, ReadFit
<1>n. ASSUME NEW ok, NoteFailure(w, ok) PROVE ok
  BY <1>0, <1>n DEF NoteFailure
<1>a. Arriving(u) = IF pc[w] \in {"evict", "save_host"} /\ Admitted(w) THEN {w} ELSE {}
  BY <1>0, ArrivingAlone
<1>b. Arriving(u)' = IF pc'[w] \in {"evict", "save_host"} /\ Admitted(w)' THEN {w} ELSE {}
  <2>1. CASE InSession(w, u)'
    <3>1. \A x \in Arriving(u)' : x \in Workers /\ InSession(x, u)'
      BY DEF Arriving, InSession, Admitted, SessionKinds
    <3>2. Arriving(u)' \subseteq {w}
      BY <2>1, <3>1 DEF IInv, OneAtATime
    <3>3. w \in Arriving(u)' <=> pc'[w] \in {"evict", "save_host"} /\ Admitted(w)'
      BY <2>1 DEF Arriving, InSession
    <3>. QED BY <3>2, <3>3
  <2>2. CASE ~InSession(w, u)'
    <3>1. pc'[w] = "idle" /\ OthersKept(w)
      BY <1>0, <2>2, HandleKeepsUser, ReadsAreReal DEF InSession, IInv, CacheInv, LocalInv
    <3>2. \A x \in Workers \ {w} : x \notin Arriving(u)
      BY <1>0 DEF IInv, OneAtATime, Arriving, InSession, Admitted, SessionKinds
    <3>. QED BY <3>1, <3>2 DEF Arriving, OthersKept, Admitted
  <2>. QED BY <2>1, <2>2
<1>s. {"evict", "save_host", "remove_host"} \subseteq Steps
  BY DEF Steps
<1>1. ASSUME UNCHANGED <<row, host>>, Arriving(u) = {}, Arriving(u)' = {} PROVE Still(u)
  BY <1>0, <1>1, WhereaboutsSame DEF Still
<1>2. CASE pc'[w] \notin {"evict", "save_host"} /\ pc[w] \notin {"evict", "save_host"}
             /\ UNCHANGED <<row, host>>
  BY <1>1, <1>2, <1>a, <1>b
<1>3. CASE Update(w)
  <2>1. row' = [row EXCEPT ![u] = Target(w)] /\ Goto(w, "evict") /\ UNCHANGED host
    BY <1>0, <1>n, <1>3 DEF Update
  <2>2. /\ row'[u] = Target(w) /\ pc'[w] = "evict" /\ UNCHANGED <<job, seen, host>>
        /\ pc[w] = "update"
    BY <1>0, <1>3, <1>s, <2>1, LocalStep DEF TypeOK, Update
  <2>3. (Admitted(w)' <=> Admitted(w)) /\ Arriving(u) = {}
    BY <1>a, <2>2 DEF Admitted
  <2>4. seen[w][u] \in {Online, Offline} /\ row[u] \in {Online, Offline}
        /\ (job[w].kind = "login" => seen[w][u] = row[u])
    BY <1>0, <2>2 DEF ReadFit, SessionFit, InSession, TypeOK, RowStates
  <2>5. CASE Admitted(w)
    <3>1. row[u] = Offline /\ row'[u] = Online
      BY <1>0, <2>2, <2>4, <2>5 DEF Admitted, Target
    <3>2. Arriving(u)' = {w} /\ job[w].via \in Hosts
      BY <1>0, <1>b, <2>2, <2>3, <2>5 DEF KindFit, Admitted
    <3>3. { job[x].via : x \in Arriving(u) }' = {job[w].via}
      BY <2>2, <3>2
    <3>4. Whereabouts(u)' = {job[w].via}
      BY <3>1, <3>2, <3>3 DEF Whereabouts, Online, Offline
    <3>. QED BY <3>1, <3>2, <3>4 DEF Entered
  <2>6. CASE ~Admitted(w) /\ row'[u] = row[u]
    <3>1. Arriving(u)' = {}
      BY <1>b, <2>3, <2>6
    <3>. QED BY <1>0, <2>2, <2>3, <2>6, <3>1, WhereaboutsSame DEF Still
  <2>7. CASE ~Admitted(w) /\ row'[u] # row[u]
    <3>1. job[w].kind = "logout" /\ row'[u] = Offline
      BY <1>0, <2>2, <2>4, <2>7 DEF Target, SessionKinds
    <3>. QED BY <2>4, <2>7, <3>1 DEF Left
  <2>. QED BY <2>5, <2>6, <2>7
<1>4. CASE Evict(w)
  <2>1. UNCHANGED <<row, host>> /\ pc[w] = "evict"
    BY <1>4 DEF Evict
  <2>2. CASE Admitted(w)
    <3>1. Goto(w, "save_host")
      BY <1>4, <2>2 DEF Evict, Admitted
    <3>2. pc'[w] = "save_host" /\ job' = job /\ seen' = seen
      BY <1>0, <1>s, <3>1, LocalStep
    <3>3. Arriving(u)' = {w} /\ Arriving(u) = {w}
      BY <1>a, <1>b, <2>1, <2>2, <3>2 DEF Admitted
    <3>. QED BY <1>0, <2>1, <3>2, <3>3, WhereaboutsSame DEF Still
  <2>3. CASE ~Admitted(w)
    <3>1. pc'[w] \in {"remove_host", "idle"}
      BY <1>0, <1>4, <1>s, <2>3, LocalStep DEF Evict
    <3>. QED BY <1>1, <1>a, <1>b, <2>1, <2>3, <3>1
  <2>. QED BY <2>2, <2>3
<1>5. CASE SaveHost(w)
  <2>1. host' = [host EXCEPT ![u] = job[w].via] /\ row' = row /\ Finish(w) /\ pc[w] = "save_host"
    BY <1>0, <1>n, <1>5 DEF SaveHost
  <2>2. host'[u] = job[w].via /\ pc'[w] = "idle" /\ Admitted(w) /\ row[u] = Online
    BY <1>0, <2>1, LocalStep DEF TypeOK, KindFit, SessionFit, InSession
  <2>3. Arriving(u) = {w} /\ Arriving(u)' = {}
    BY <1>a, <1>b, <2>1, <2>2
  <2>4. { job[x].via : x \in Arriving(u) } = {job[w].via}
    BY <2>3
  <2>5. Whereabouts(u) = {job[w].via}
    BY <1>0, <2>2, <2>3, <2>4 DEF Whereabouts
  <2>6. Whereabouts(u)' = {job[w].via}
    BY <1>0, <2>1, <2>2, <2>3 DEF Whereabouts
  <2>. QED BY <2>1, <2>5, <2>6 DEF Still
<1>6. CASE RemoveHost(w)
  <2>1. row' = row /\ row[u] = Offline
    BY <1>0, <1>6 DEF RemoveHost, KindFit, SessionFit, InSession
  <2>. QED BY <2>1 DEF Whereabouts, Still, Online, Offline
<1>7. CASE \/ InfoGet(w) \/ InfoSelect(w) \/ FillAbsent(w)
           \/ StateGet(w) \/ StateSelect(w) \/ StateFill(w)
  <2>1. /\ UNCHANGED <<row, host>>
        /\ pc[w] \notin {"evict", "save_host"}
    BY <1>7 DEF InfoGet, InfoSelect, FillAbsent, StateGet, StateSelect, StateFill, stores
  <2>2. ASSUME NEW s, Decide(w, s) PROVE Finish(w) \/ pc' = [pc EXCEPT ![w] = "update"]
    BY <2>2 DEF Decide, Keep
  <2>3. \/ pc' = [pc EXCEPT ![w] = "idle"]
        \/ \E step \in {"info_select", "fill_absent", "join", "state_select", "update",
                        "state_fill"} : pc' = [pc EXCEPT ![w] = step]
    <3>1. CASE InfoGet(w)
      BY <3>1 DEF InfoGet, Finish, Goto
    <3>2. CASE InfoSelect(w)
      BY <3>2 DEF InfoSelect, Finish, Goto, Keep
    <3>3. CASE FillAbsent(w)
      BY <3>3 DEF FillAbsent, Finish
    <3>4. CASE StateGet(w)
      BY <3>4, <2>2 DEF StateGet, Finish, Goto
    <3>5. CASE StateSelect(w)
      BY <3>5 DEF StateSelect, Goto, Keep
    <3>6. CASE StateFill(w)
      BY <3>6, <2>2 DEF StateFill, Finish
    <3>. QED BY <1>7, <3>1, <3>2, <3>3, <3>4, <3>5, <3>6
  <2>4. pc'[w] \notin {"evict", "save_host"}
    BY <1>0, <2>3 DEF TypeOK
  <2>. QED BY <1>2, <2>1, <2>4
<1>8. ~Join(w) /\ ~ListFill(w) /\ ~Insert(w)
  BY <1>0 DEF Join, ListFill, Insert, KindFit, SessionKinds
<1>. QED BY <1>3, <1>4, <1>5, <1>6, <1>7, <1>8 DEF Handle

\* Every step of one handler is a step of Accounts, or changes nothing there.
LEMMA HandleImplements ==
  ASSUME IInv, IInv', NEW w \in Workers, Handle(w)
  PROVE  [Promise!Next]_(Promise!vars)
<1>u. PICK u \in Users : job[w].user = u
  BY JobType DEF IInv, CacheInv, LocalInv
<1>0. /\ TypeOK /\ u \in Users /\ disturbed \subseteq disturbed'
      /\ \A v \in Users \ {u} : ~InSession(w, v)
  BY <1>u, DisturbedGrows DEF IInv, CacheInv, LocalInv, InSession, Next
<1>1. /\ disturbed' \subseteq disturbed \cup {u}
      /\ u \in disturbed' \ disturbed => row' = row \/ Update(w)
  BY <1>u DEF Handle, InfoGet, InfoSelect, FillAbsent, StateGet, StateSelect, StateFill,
     Join, ListFill, Update, Evict, SaveHost, RemoveHost, Insert, NoteFailure, stores, history
<1>2. \A v \in Users \ {u} : row'[v] = row[v]
  BY <1>0, <1>u DEF TypeOK, Handle, InfoGet, InfoSelect, FillAbsent, StateGet, StateSelect,
     StateFill, Join, ListFill, Update, Evict, SaveHost, RemoveHost, Insert, InsertUser, stores
<1>r. Update(w) => row[u] # Absent /\ row'[u] # Absent
  <2>. SUFFICES ASSUME Update(w) PROVE row[u] # Absent /\ row'[u] # Absent
    OBVIOUS
  <2>1. seen[w][u] \in {Online, Offline}
    BY <1>u DEF Update, IInv, CacheInv, LocalInv, LocalFit, ReadFit
  <2>2. Target(w) \in {Online, Offline}
    BY <1>u, <2>1 DEF Target
  <2>3. row'[u] = Target(w) \/ row'[u] = row[u]
    BY <1>0, <1>u DEF Update, TypeOK
  <2>. QED BY <1>0, <2>1, <2>2, <2>3
       DEF IInv, CacheInv, ReadsReal, Online, Offline, Absent
<1>3. \A v \in Users \ disturbed' : v # u => Still(v)
  BY <1>0, <1>2, BystanderWhereabouts DEF Created, Offline, Absent
<1>4. \A v \in disturbed' : Whereabouts(v)' = {}
  BY DEF Whereabouts
<1>5. \A v \in disturbed : Whereabouts(v) = {}
  BY DEF Whereabouts
<1>6. CASE u \in disturbed' \ disturbed
  <2>1. disturbed' = disturbed \cup {u}
    BY <1>0, <1>1, <1>6
  <2>2. At' = [v \in Users |-> IF v \in {u} THEN {} ELSE At[v]]
    <3>1. \A v \in Users : Whereabouts(v)' = IF v \in {u} THEN {} ELSE Whereabouts(v)
      BY <1>3, <1>4, <1>5, <1>6, <2>1 DEF Still
    <3>. QED BY <3>1 DEF At
  <2>3. Registered' = Registered
    BY <1>1, <1>2, <1>6, <1>r DEF Registered
  <2>4. Promise!Lose({u})
    BY <2>1, <2>2, <2>3 DEF Promise!Lose
  <2>. QED BY <1>0, <2>4 DEF Promise!Next
<1>7. CASE u \notin disturbed' \ disturbed
  <2>0. disturbed' = disturbed
    BY <1>0, <1>1, <1>7
  <2>1. \A v \in Users \ {u} : Whereabouts(v)' = Whereabouts(v)
    BY <1>3, <1>4, <1>5, <2>0 DEF Still
  <2>2. CASE Still(u) \/ (u \in disturbed /\ row'[u] = row[u])
    <3>1. At' = At
      BY <1>4, <1>5, <2>0, <2>1, <2>2 DEF At, Still
    <3>2. Registered' = Registered
      BY <1>2, <2>2 DEF Registered, Still
    <3>. QED BY <2>0, <3>1, <3>2 DEF Promise!vars
  <2>3. CASE Created(u)
    <3>1. Whereabouts(u) = {} /\ Whereabouts(u)' = {}
      BY <2>3 DEF Created, Whereabouts, Online, Offline, Absent
    <3>2. At' = At
      BY <2>1, <3>1 DEF At
    <3>3. u \notin Registered /\ Registered' = Registered \cup {u}
      BY <1>0, <1>2, <2>3 DEF Registered, Created, Offline, Absent
    <3>4. Promise!Register(u)
      BY <2>0, <3>2, <3>3 DEF Promise!Register
    <3>. QED BY <1>0, <3>4 DEF Promise!Next
  <2>4. CASE u \notin disturbed /\ (Entered(u) \/ Left(u))
    <3>0. Registered' = Registered /\ u \in Registered
      BY <1>0, <1>2, <2>4 DEF Registered, Entered, Left, Online, Offline, Absent
    <3>1. CASE Entered(u)
      <4>1. PICK h \in Hosts : Whereabouts(u)' = {h}
        BY <3>1 DEF Entered
      <4>2. Whereabouts(u) = {}
        BY <3>1 DEF Entered, Whereabouts, Online, Offline
      <4>3. At[u] = {} /\ At' = [At EXCEPT ![u] = {h}]
        BY <1>0, <2>1, <4>1, <4>2 DEF At
      <4>4. Promise!Login(u, h)
        BY <1>0, <2>0, <2>4, <3>0, <4>3 DEF Promise!Login
      <4>. QED BY <1>0, <4>4 DEF Promise!Next
    <3>2. CASE Left(u)
      <4>1. Whereabouts(u)' = {}
        BY <3>2 DEF Left, Whereabouts, Online, Offline
      <4>2. Whereabouts(u) # {}
        BY <2>4, <3>2 DEF Left, Whereabouts
      <4>3. At[u] # {} /\ At' = [At EXCEPT ![u] = {}]
        BY <1>0, <2>1, <4>1, <4>2 DEF At
      <4>4. Promise!Logout(u)
        BY <2>0, <3>0, <4>3 DEF Promise!Logout
      <4>. QED BY <1>0, <4>4 DEF Promise!Next
    <3>. QED BY <2>4, <3>1, <3>2
  <2>5. CASE u \in disturbed /\ row'[u] # row[u]
    <3>1. CASE Created(u)
      BY <2>3, <3>1
    <3>2. CASE ~Created(u)
      <4>1. row[u] # Absent /\ row'[u] # Absent
        <5>1. Update(w)
          BY <1>0, <1>u, <2>5, <3>2 DEF Created, TypeOK, Handle, InfoGet, InfoSelect,
             FillAbsent, StateGet, StateSelect, StateFill, Join, ListFill, Evict, SaveHost,
             RemoveHost, Insert, InsertUser, stores
        <5>. QED BY <1>r, <5>1
      <4>2. Registered' = Registered
        BY <1>2, <4>1 DEF Registered
      <4>3. At' = At
        BY <1>4, <1>5, <2>0, <2>1, <2>5 DEF At
      <4>. QED BY <2>0, <4>2, <4>3 DEF Promise!vars
    <3>. QED BY <3>1, <3>2
  <2>. QED BY <1>0, <2>0, <2>2, <2>3, <2>4, <2>5, BystanderWhereabouts, SessionWhereabouts
<1>. QED BY <1>6, <1>7

LEMMA BeginImplements ==
  ASSUME IInv, NEW w \in Workers, Begin(w)
  PROVE  [Promise!Next]_(Promise!vars)
<1>1. PICK j \in Requests :
        /\ job' = [job EXCEPT ![w] = j]
        /\ pc' = [pc EXCEPT ![w] = FirstStep(j.kind)]
        /\ disturbed' = IF /\ j.kind \in SessionKinds
                           /\ \E x \in Workers : InSession(x, j.user)
                          THEN disturbed \cup {j.user} ELSE disturbed
  BY DEF Begin
<1>2. /\ TypeOK /\ pc[w] = "idle" /\ UNCHANGED <<row, host, seen>> /\ j.user \in Users
      /\ \A x \in Workers \ {w} : pc'[x] = pc[x] /\ job'[x] = job[x]
      /\ pc'[w] \in {"insert", "state_get", "info_get"}
  BY <1>1 DEF IInv, CacheInv, LocalInv, Begin, stores, TypeOK, Requests, Jobs, FirstStep
<1>3. \A v \in Users : Arriving(v)' = Arriving(v) /\ \A x \in Arriving(v) : job'[x] = job[x]
  BY <1>2 DEF Arriving, Admitted
<1>4. \A v \in Users : (v \in disturbed' <=> v \in disturbed) =>
                          Whereabouts(v)' = Whereabouts(v)
  BY <1>2, <1>3, WhereaboutsSame
<1>5. Registered' = Registered
  BY <1>2 DEF Registered
<1>6. CASE disturbed' = disturbed
  <2>1. At' = At
    BY <1>4, <1>6 DEF At
  <2>. QED BY <1>5, <1>6, <2>1 DEF Promise!vars
<1>7. CASE disturbed' = disturbed \cup {j.user}
  <2>1. \A v \in Users : Whereabouts(v)' = IF v \in {j.user} THEN {} ELSE Whereabouts(v)
    <3>1. Whereabouts(j.user)' = {}
      BY <1>7 DEF Whereabouts
    <3>. QED BY <1>4, <1>7, <3>1
  <2>2. At' = [v \in Users |-> IF v \in {j.user} THEN {} ELSE At[v]]
    BY <2>1 DEF At
  <2>3. Promise!Lose({j.user})
    BY <1>5, <1>7, <2>2 DEF Promise!Lose
  <2>. QED BY <1>2, <2>3 DEF Promise!Next
<1>. QED BY <1>1, <1>6, <1>7

\* A login or a logout that takes up to five accesses to two stores, with any
\* number of other requests in between, is one step to whoever asks UserService,
\* as long as no access fails and no other session request overlaps it.
THEOREM ServiceIsAtomic == Spec => KeepsAccountsPromise
<1>1. Init => Promise!Init
  <2>. SUFFICES ASSUME Init PROVE Promise!Init
    OBVIOUS
  <2>1. \A u \in Users : Whereabouts(u) = {}
    BY DEF Init, Whereabouts, Online, Absent
  <2>. QED BY <2>1 DEF Init, Promise!Init, Registered, At
<1>2. IInv /\ IInv' /\ [Next]_vars => [Promise!Next]_(Promise!vars)
  <2>. SUFFICES ASSUME IInv, IInv', [Next]_vars PROVE [Promise!Next]_(Promise!vars)
    OBVIOUS
  <2>1. CASE UNCHANGED <<row, host, pc, job, seen, disturbed>>
    <3>1. \A u \in Users : Arriving(u)' = Arriving(u)
      BY <2>1 DEF Arriving, Admitted
    <3>2. \A u \in Users : Whereabouts(u)' = Whereabouts(u)
      BY <2>1, <3>1, WhereaboutsSame
    <3>. QED BY <2>1, <3>2 DEF Promise!vars, Registered, At
  <2>. QED BY <2>1, HandleImplements, BeginImplements DEF Next, Expire, vars
<1>3. Spec => []IInv
  BY InitIInv, IInvStep, PTL DEF Spec
<1>. QED BY <1>1, <1>2, <1>3, PTL DEF Spec, KeepsAccountsPromise, Promise!Spec
=============================================================================
