--------------------------- MODULE RelationsProofs ---------------------------
(***************************************************************************)
(* Proofs about Relations, for any number of users, groups and requests.   *)
(*                                                                         *)
(* That a group keeps its creator is not inductive: a quit deletes by user *)
(* and group whatever the role has become.  CreatorFits adds that no quit  *)
(* is about to delete the row of a creator, nor one that is about to be a  *)
(* creator's.                                                              *)
(***************************************************************************)
EXTENDS Relations, TLAPS

\* A request at a statement is of a kind that has this statement.
JobsFit ==
  \A w \in Workers :
    /\ pc[w] # "idle" => job[w] \in Jobs
    /\ pc[w] = "insert_group" => Kind(w) = "create"
    /\ pc[w] = "find_group" => Kind(w) \in {"join", "quit", "chat"}
    /\ pc[w] = "find_role" => Kind(w) \in {"quit", "chat"}
    /\ pc[w] = "insert_member" => Kind(w) \in {"create", "join"}
    /\ pc[w] = "delete_member" => Kind(w) = "quit"
    /\ pc[w] \in {"find_peer", "befriend", "unfriend"} => Kind(w) \in {"befriend", "unfriend"}
    /\ pc[w] \in {"befriend", "unfriend"} => Peer(w) \in Users

\* Members are members of a group there is, and one request creates it.
GroupsFit ==
  /\ \A g \in Groups \ groups : \A u \in Users : role[g][u] = Nobody
  /\ \A w \in Workers :
       pc[w] \in {"find_role", "insert_member", "delete_member"} => Peer(w) \in groups
  /\ \A w, x \in Workers : \A g \in Groups : Creating(w, g) /\ Creating(x, g) => w = x

Leaving(w, g) == pc[w] = "delete_member" /\ Peer(w) = g

CreatorFits ==
  \A g \in groups \ troubled :
    /\ (\E u \in Users : Owners(g) = {u}) \/ (\E w \in Workers : Creating(w, g))
    /\ \A w \in Workers : Creating(w, g) =>
         /\ Owners(g) = {} /\ role[g][User(w)] = Nobody
         /\ \A x \in Workers : Leaving(x, g) => User(x) # User(w)
    /\ \A x \in Workers : Leaving(x, g) => role[g][User(x)] # Creator

IInv == TypeOK /\ JobsFit /\ GroupsFit /\ CreatorFits

LEMMA JobShape ==
  ASSUME NEW j \in Jobs
  PROVE  /\ j.kind \in {"create", "join", "quit", "chat", "befriend", "unfriend"}
         /\ j.user \in Users
         /\ j.kind \in {"create", "join", "quit", "chat"} => j.peer \in Groups
         /\ j.kind \in {"befriend", "unfriend"} => j.peer \in Users \cup {Stranger}
  BY JobsAssumption DEF GroupJobs, FriendJobs

LEMMA Initially == Init => IInv
  <1> SUFFICES ASSUME Init PROVE IInv
    OBVIOUS
  <1>1. TypeOK
    BY DEF Init, TypeOK, Roles
  <1>2. JobsFit
    BY DEF Init, JobsFit
  <1>3. GroupsFit
    BY DEF Init, GroupsFit, Creating
  <1>4. CreatorFits
    BY DEF Init, CreatorFits
  <1> QED
    BY <1>1, <1>2, <1>3, <1>4 DEF IInv

\* A request goes on to a statement of its kind, or to its end; friend is the
\* only table that may change.
Move(w, step) ==
  /\ UNCHANGED <<groups, role, job, troubled>>
  /\ friends' \subseteq Users \X Users /\ hidden' \subseteq Users /\ hurt' \subseteq Workers
  /\ DOMAIN answer' = Workers
  /\ pc[w] \notin {"idle", "insert_member"} /\ pc' = [pc EXCEPT ![w] = step]
  /\ \/ step = "done"
     \/ step = "insert_group" /\ Kind(w) = "create"
     \/ step = "find_group" /\ Kind(w) \in {"join", "quit", "chat"}
     \/ step = "find_role" /\ Kind(w) \in {"quit", "chat"} /\ Peer(w) \in groups
     \/ step = "insert_member" /\ Kind(w) = "join" /\ Peer(w) \in groups
     \/ step = "delete_member" /\ Kind(w) = "quit" /\ Peer(w) \in groups /\ Role(w) = Normal
     \/ step = "find_peer" /\ Kind(w) \in {"befriend", "unfriend"}
     \/ step \in {"befriend", "unfriend"} /\ Kind(w) \in {"befriend", "unfriend"}
          /\ Peer(w) \in Users

LEMMA Moving ==
  ASSUME IInv, NEW w \in Workers, NEW step, Move(w, step)
  PROVE  IInv'
  <1> USE DEF Move
  <1>1. TypeOK'
    BY DEF IInv, TypeOK
  <1>2. JobsFit'
    BY DEF IInv, TypeOK, JobsFit, Kind, Peer
  <1>3. \A x \in Workers, g \in Groups : Creating(x, g)' <=> Creating(x, g)
    BY DEF IInv, TypeOK, Creating, Kind, Peer
  <1>4. GroupsFit'
    BY <1>3 DEF IInv, TypeOK, GroupsFit, Peer, Kind
  <1>5. \A x \in Workers, g \in Groups : Leaving(x, g)' => Leaving(x, g) \/ (x = w /\ step = "delete_member" /\ g = Peer(w))
    BY DEF IInv, TypeOK, Leaving, Peer
  <1>6. CreatorFits'
    <2> SUFFICES ASSUME NEW g \in groups \ troubled
                 PROVE  /\ (\E u \in Users : Owners(g)' = {u}) \/ (\E x \in Workers : Creating(x, g)')
                        /\ \A y \in Workers : Creating(y, g)' =>
                             /\ Owners(g)' = {} /\ role[g][User(y)] = Nobody
                             /\ \A x \in Workers : Leaving(x, g)' => User(x) # User(y)
                        /\ \A x \in Workers : Leaving(x, g)' => role[g][User(x)] # Creator
      BY DEF CreatorFits, User
    <2>1. g \in Groups /\ Owners(g)' = Owners(g)
      BY DEF IInv, TypeOK, Owners
    <2>2. step = "delete_member" /\ g = Peer(w) => role[g][User(w)] = Normal
      BY DEF Role
    <2> QED
      BY <1>3, <1>5, <2>1, <2>2 DEF IInv, CreatorFits, Normal, Creator, Nobody
  <1> QED
    BY <1>1, <1>2, <1>4, <1>6 DEF IInv

LEMMA BeginKeeps == ASSUME IInv, NEW w \in Workers, Begin(w) PROVE IInv'
  <1>1. TypeOK'
    BY DEF Begin, Goto, Say, IInv, TypeOK, stores, tables
  <1>2. \A x \in Workers : pc'[x] = pc[x] \/ (x = w /\ pc'[x] \in {"find_user", "done"})
    BY DEF Begin, Goto, Say, IInv, TypeOK
  <1>3. \A x \in Workers : pc[x] # "idle" => job'[x] = job[x]
    BY DEF Begin, IInv, TypeOK
  <1>4. job'[w] \in Jobs /\ UNCHANGED <<groups, role, troubled>>
    BY DEF Begin, stores, tables, IInv, TypeOK
  <1>5. JobsFit'
    BY <1>2, <1>3, <1>4 DEF IInv, JobsFit, Kind, Peer
  <1>6. GroupsFit'
    BY <1>2, <1>3, <1>4 DEF IInv, GroupsFit, Creating, Kind, Peer
  <1>7. CreatorFits'
    BY <1>2, <1>3, <1>4 DEF IInv, CreatorFits, Owners, Leaving, Creating, Kind, Peer, User, Begin
  <1> QED
    BY <1>1, <1>5, <1>6, <1>7 DEF IInv

\* A request that ends, with an answer or because its process dies.
LEMMA Ending == ASSUME IInv, NEW w \in Workers, Return(w) \/ Die(w) PROVE IInv'
  <1>1. TypeOK'
    BY DEF Return, Die, IInv, TypeOK, stores, tables
  <1>2. \A x \in Workers : x # w => pc'[x] = pc[x] /\ job'[x] = job[x]
    BY DEF Return, Die, IInv, TypeOK
  <1>3. pc'[w] = "idle" /\ UNCHANGED <<groups, role>>
    BY DEF Return, Die, IInv, TypeOK, stores, tables
  <1>4. JobsFit'
    BY <1>2, <1>3 DEF IInv, JobsFit, Kind, Peer
  <1>5. GroupsFit'
    BY <1>2, <1>3 DEF IInv, GroupsFit, Creating, Kind, Peer
  <1>6. troubled \subseteq troubled' /\ \A g \in Groups \ troubled' : ~Creating(w, g)
    BY DEF Return, Die, Creating
  <1>7. CreatorFits'
    BY <1>2, <1>3, <1>6 DEF IInv, TypeOK, CreatorFits, Owners, Leaving, Creating, Kind, Peer, User
  <1> QED
    BY <1>1, <1>4, <1>5, <1>7 DEF IInv

LEMMA LookUpsKeep ==
  ASSUME IInv, NEW w \in Workers, FindUser(w) \/ FindPeer(w) \/ FindGroup(w) PROVE IInv'
  <1> USE DEF LookUp, QueryUserInfo, Goto, Say, Note
  <1>1. /\ UNCHANGED <<groups, role, friends, job, troubled>> /\ hurt' \subseteq Workers
        /\ DOMAIN answer' = Workers
    BY DEF FindUser, FindPeer, FindGroup, stores, tables, IInv, TypeOK
  <1>2. friends' \subseteq Users \X Users /\ hidden' \subseteq Users
    BY <1>1 DEF FindUser, FindPeer, FindGroup, stores, IInv, TypeOK
  <1>3. CASE FindUser(w)
    <2>1. job[w] \in Jobs /\ pc[w] = "find_user"
      BY <1>3 DEF FindUser, IInv, JobsFit
    <2>2. Kind(w) \in {"create", "join", "quit", "chat", "befriend", "unfriend"}
      BY <2>1, JobShape DEF Kind
    <2>3. PICK step \in {"insert_group", "find_peer", "find_group", "done"} :
            /\ pc' = [pc EXCEPT ![w] = step]
            /\ step = "insert_group" => Kind(w) = "create"
            /\ step = "find_peer" => Kind(w) \in {"befriend", "unfriend"}
            /\ step = "find_group" => Kind(w) \in {"join", "quit", "chat"}
      BY <1>3, <2>2 DEF FindUser
    <2>4. Move(w, step)
      BY <1>1, <1>2, <2>1, <2>3 DEF Move
    <2> QED
      BY <2>4, Moving
  <1>4. CASE FindPeer(w)
    <2>1. Kind(w) \in {"befriend", "unfriend"} /\ pc[w] = "find_peer"
      BY <1>4 DEF FindPeer, IInv, JobsFit
    <2>2. PICK step \in {"befriend", "unfriend", "done"} :
            pc' = [pc EXCEPT ![w] = step] /\ (step # "done" => Peer(w) \in Users)
      BY <1>4, <2>1 DEF FindPeer
    <2>3. Move(w, step)
      BY <1>1, <1>2, <2>1, <2>2 DEF Move
    <2> QED
      BY <2>3, Moving
  <1>5. CASE FindGroup(w)
    <2>1. Kind(w) \in {"join", "quit", "chat"} /\ pc[w] = "find_group"
      BY <1>5 DEF FindGroup, IInv, JobsFit
    <2>2. PICK step \in {"insert_member", "find_role", "done"} :
            /\ pc' = [pc EXCEPT ![w] = step] /\ (step # "done" => Peer(w) \in groups)
            /\ step = "insert_member" => Kind(w) = "join"
            /\ step = "find_role" => Kind(w) \in {"quit", "chat"}
      BY <1>5, <2>1 DEF FindGroup
    <2>3. Move(w, step)
      BY <1>1, <1>2, <2>1, <2>2 DEF Move
    <2> QED
      BY <2>3, Moving
  <1> QED
    BY <1>3, <1>4, <1>5

LEMMA FriendsKeep ==
  ASSUME IInv, NEW w \in Workers, InsertFriend(w) \/ DeleteFriend(w) PROVE IInv'
  <1> USE DEF InsertFriend, DeleteFriend, Say, Note
  <1>1. /\ UNCHANGED <<groups, role, job, troubled>> /\ hurt' \subseteq Workers
        /\ DOMAIN answer' = Workers
    BY DEF IInv, TypeOK
  <1>2. pc[w] \in {"befriend", "unfriend"} /\ pc' = [pc EXCEPT ![w] = "done"]
    OBVIOUS
  <1>3. User(w) \in Users /\ Peer(w) \in Users
    BY <1>2, JobShape DEF IInv, JobsFit, User
  <1>4. friends' \subseteq Users \X Users /\ hidden' \subseteq Users
    BY <1>3 DEF IInv, TypeOK
  <1>5. Move(w, "done")
    BY <1>1, <1>2, <1>4 DEF Move
  <1> QED
    BY <1>5, Moving

LEMMA FindRoleKeeps == ASSUME IInv, NEW w \in Workers, FindRole(w) PROVE IInv'
  <1> USE DEF FindRole, Say, Goto, Note
  <1>1. /\ UNCHANGED <<groups, role, friends, job, troubled>> /\ hurt' \subseteq Workers
        /\ DOMAIN answer' = Workers
    BY DEF IInv, TypeOK, stores, tables
  <1>2. friends' \subseteq Users \X Users /\ hidden' \subseteq Users
    BY <1>1 DEF IInv, TypeOK, stores
  <1>3. /\ pc[w] = "find_role" /\ Kind(w) \in {"quit", "chat"} /\ Peer(w) \in groups
        /\ User(w) \in Users
    BY JobShape DEF IInv, JobsFit, GroupsFit, User
  <1>4. Role(w) \in Roles
    BY <1>3 DEF IInv, TypeOK, Role
  <1>5. PICK step \in {"delete_member", "done"} :
          /\ pc' = [pc EXCEPT ![w] = step]
          /\ step = "delete_member" => Kind(w) = "quit" /\ Role(w) = Normal
    BY <1>3, <1>4 DEF Roles
  <1>6. Move(w, step)
    BY <1>1, <1>2, <1>3, <1>5 DEF Move
  <1> QED
    BY <1>6, Moving

LEMMA InsertGroupKeeps == ASSUME IInv, NEW w \in Workers, InsertGroup(w) PROVE IInv'
  <1>1. pc[w] = "insert_group" /\ Kind(w) = "create" /\ Peer(w) \in Groups
    BY JobShape DEF InsertGroup, IInv, JobsFit, Kind, Peer
  <1>2. UNCHANGED <<role, friends, hidden, job>> /\ hurt' \subseteq Workers /\ DOMAIN answer' = Workers
    BY DEF InsertGroup, Note, Say, Goto, IInv, TypeOK
  <1>3. CASE groups' = groups /\ troubled' = troubled /\ pc' = [pc EXCEPT ![w] = "done"]
    <2>1. Move(w, "done")
      BY <1>1, <1>2, <1>3 DEF Move, IInv, TypeOK, InsertGroup
    <2> QED
      BY <2>1, Moving
  <1>4. ASSUME NEW step \in {"insert_member", "done"}, Peer(w) \notin groups,
               groups' = groups \cup {Peer(w)}, pc' = [pc EXCEPT ![w] = step],
               troubled' = IF step = "done" THEN troubled \cup {Peer(w)} ELSE troubled
        PROVE  IInv'
    <2>1. TypeOK'
      BY <1>1, <1>2, <1>4 DEF IInv, TypeOK
    <2>2. JobsFit'
      BY <1>1, <1>2, <1>4 DEF IInv, TypeOK, JobsFit, Kind, Peer
    <2>3. \A x \in Workers, g \in groups :
             (Creating(x, g)' <=> Creating(x, g)) /\ (Leaving(x, g)' <=> Leaving(x, g))
      BY <1>1, <1>2, <1>4 DEF IInv, TypeOK, Creating, Leaving, Kind, Peer
    <2>4. /\ \A x \in Workers : ~Leaving(x, Peer(w))'
          /\ \A x \in Workers : Creating(x, Peer(w))' => x = w
          /\ step = "insert_member" => Creating(w, Peer(w))'
      BY <1>1, <1>2, <1>4 DEF IInv, TypeOK, GroupsFit, Creating, Leaving, Kind, Peer
    <2>5. \A x \in Workers, g \in Groups : Creating(x, g)' => g \in groups \/ g = Peer(w)
      BY <1>1, <1>2, <1>4 DEF IInv, TypeOK, GroupsFit, Creating, Kind, Peer
    <2>6. GroupsFit'
      BY <1>1, <1>2, <1>4, <2>3, <2>4, <2>5 DEF IInv, TypeOK, GroupsFit, Kind, Peer
    <2>7. \A u \in Users : role[Peer(w)][u] = Nobody
      BY <1>1, <1>4 DEF IInv, GroupsFit
    <2>8. User(w) \in Users
      BY <1>1, JobShape DEF IInv, JobsFit, User
    <2>9. CreatorFits'
      BY <1>1, <1>2, <1>4, <2>3, <2>4, <2>7, <2>8
      DEF IInv, TypeOK, CreatorFits, Owners, User, Peer, Nobody, Creator
    <2> QED
      BY <2>1, <2>2, <2>6, <2>9 DEF IInv
  <1>5. \/ groups' = groups /\ troubled' = troubled /\ pc' = [pc EXCEPT ![w] = "done"]
        \/ \E step \in {"insert_member", "done"} :
             /\ Peer(w) \notin groups /\ groups' = groups \cup {Peer(w)}
             /\ pc' = [pc EXCEPT ![w] = step]
             /\ troubled' = IF step = "done" THEN troubled \cup {Peer(w)} ELSE troubled
    BY DEF InsertGroup, Goto, Say
  <1> QED
    BY <1>3, <1>4, <1>5

\* A step that ends a request and changes, if anything, the row of its user
\* in its group, a creator's only in a group that is troubled.
LEMMA InsertMemberKeeps == ASSUME IInv, NEW w \in Workers, InsertMember(w) PROVE IInv'
  <1> DEFINE g == Peer(w)
             u == User(w)
  <1>1. /\ pc[w] = "insert_member" /\ Kind(w) \in {"create", "join"}
        /\ g \in Groups /\ g \in groups /\ u \in Users
    BY JobShape DEF InsertMember, IInv, JobsFit, GroupsFit, Kind, Peer, User
  <1>2. PICK as \in {Normal, Creator}, new \in BOOLEAN :
          /\ as = Creator <=> Kind(w) = "create"
          /\ new => role[g][u] = Nobody
          /\ role' = IF new THEN [role EXCEPT ![g][u] = as] ELSE role
          /\ troubled' = troubled \cup
               { h \in Groups : \/ Creating(w, h) /\ ~new
                                \/ /\ new /\ h = g
                                   /\ \E x \in Workers \ {w} : Creating(x, h) /\ User(x) = u }
    <2>1. CASE Kind(w) = "create"
      <3>1. Enrol(w, Creator, "created")
        BY <2>1 DEF InsertMember
      <3>2. PICK done \in Outcomes, ok \in Outcomes :
              LET new == done /\ Role(w) = Nobody
              IN  /\ role' = IF new THEN [role EXCEPT ![Peer(w)][User(w)] = Creator] ELSE role
                  /\ troubled' = troubled \cup
                       { h \in Groups : \/ Creating(w, h) /\ ~new
                                        \/ /\ new /\ h = Peer(w)
                                           /\ \E x \in Workers \ {w} :
                                                Creating(x, h) /\ User(x) = User(w) }
        BY <3>1 DEF Enrol
      <3> QED
        BY <2>1, <3>2 DEF Role, Normal, Creator
    <2>2. CASE Kind(w) = "join"
      <3>1. Enrol(w, Normal, "joined")
        BY <2>2 DEF InsertMember
      <3>2. PICK done \in Outcomes, ok \in Outcomes :
              LET new == done /\ Role(w) = Nobody
              IN  /\ role' = IF new THEN [role EXCEPT ![Peer(w)][User(w)] = Normal] ELSE role
                  /\ troubled' = troubled \cup
                       { h \in Groups : \/ Creating(w, h) /\ ~new
                                        \/ /\ new /\ h = Peer(w)
                                           /\ \E x \in Workers \ {w} :
                                                Creating(x, h) /\ User(x) = User(w) }
        BY <3>1 DEF Enrol
      <3> QED
        BY <2>2, <3>2 DEF Role, Normal, Creator
    <2> QED
      BY <1>1, <2>1, <2>2
  <1>3. /\ UNCHANGED <<groups, friends, hidden, job>> /\ hurt' \subseteq Workers
        /\ DOMAIN answer' = Workers
        /\ pc' = [pc EXCEPT ![w] = "done"]
    BY DEF InsertMember, Enrol, Say, Note, IInv, TypeOK
  <1> HIDE DEF g, u
  <1>4. /\ role' \in [Groups -> [Users -> Roles]]
        /\ \A h \in Groups, v \in Users : h # g \/ v # u => role'[h][v] = role[h][v]
        /\ new => role'[g][u] = as
        /\ ~new => role' = role
    BY <1>1, <1>2 DEF IInv, TypeOK, Roles
  <1>5. TypeOK'
    BY <1>2, <1>3, <1>4 DEF IInv, TypeOK
  <1>6. JobsFit'
    BY <1>1, <1>3 DEF IInv, TypeOK, JobsFit, Kind, Peer
  <1>7. \A x \in Workers, h \in Groups :
           /\ Creating(x, h)' <=> Creating(x, h) /\ x # w
           /\ Leaving(x, h)' <=> Leaving(x, h)
    BY <1>1, <1>3 DEF IInv, TypeOK, Creating, Leaving, Kind, Peer
  <1>8. GroupsFit'
    BY <1>1, <1>3, <1>4, <1>7 DEF IInv, TypeOK, GroupsFit, Peer
  <1>9. CreatorFits'
    <2> SUFFICES ASSUME NEW h \in groups \ troubled'
                 PROVE  /\ (\E v \in Users : Owners(h)' = {v}) \/ (\E x \in Workers : Creating(x, h)')
                        /\ \A y \in Workers : Creating(y, h)' =>
                             /\ Owners(h)' = {} /\ role'[h][User(y)] = Nobody
                             /\ \A x \in Workers : Leaving(x, h)' => User(x) # User(y)
                        /\ \A x \in Workers : Leaving(x, h)' => role'[h][User(x)] # Creator
      BY <1>3 DEF CreatorFits, User
    <2>1. h \in Groups /\ h \in groups \ troubled
      BY <1>2 DEF IInv, TypeOK
    <2>2. CASE h # g
      <3>1. Owners(h)' = Owners(h) /\ ~Creating(w, h)
        BY <1>4, <2>1, <2>2 DEF Owners, Creating, g
      <3>2. \A v \in Users : role'[h][v] = role[h][v]
        BY <1>4, <2>1, <2>2
      <3>3. \A x \in Workers : pc[x] # "idle" => User(x) \in Users
        BY JobShape DEF IInv, JobsFit, User
      <3> QED
        BY <1>7, <2>1, <3>1, <3>2, <3>3 DEF IInv, CreatorFits, Creating, Leaving
    <2>3. CASE h = g
      <3>1. \A x \in Workers : pc[x] # "idle" => User(x) \in Users
        BY JobShape DEF IInv, JobsFit, User
      <3>2. Kind(w) = "create" => Creating(w, h)
        BY <1>1, <2>3 DEF Creating, g
      <3>3. CASE Kind(w) = "create"
        <4>1. new /\ as = Creator
          BY <1>2, <2>1, <3>2, <3>3
        <4>2. Owners(h) = {} /\ \A x \in Workers : Leaving(x, h) => User(x) # u
          BY <2>1, <3>2, <3>3 DEF IInv, CreatorFits, u
        <4>3. Owners(h)' = {u}
          BY <1>1, <1>4, <2>1, <2>3, <4>1, <4>2 DEF Owners
        <4>4. \A y \in Workers : ~Creating(y, h)'
          BY <1>7, <2>1, <3>2, <3>3 DEF IInv, GroupsFit
        <4>5. \A x \in Workers : Leaving(x, h)' => role'[h][User(x)] # Creator
          BY <1>4, <1>7, <2>1, <2>3, <3>1, <4>2 DEF IInv, CreatorFits, Leaving
        <4> QED
          BY <1>1, <4>3, <4>4, <4>5
      <3>4. CASE Kind(w) = "join"
        <4>1. as = Normal /\ ~Creating(w, h)
          BY <1>2, <3>4 DEF Creating, Normal, Creator
        <4>2. \A v \in Users : role'[h][v] = Creator <=> role[h][v] = Creator
          BY <1>2, <1>4, <2>1, <2>3, <4>1 DEF Normal, Creator, Nobody
        <4>3. Owners(h)' = Owners(h)
          BY <4>2 DEF Owners
        <4>4. new => \A y \in Workers : Creating(y, h) => User(y) # u
          BY <1>2, <2>1, <2>3, <4>1
        <4>5. \A y \in Workers : Creating(y, h) => role'[h][User(y)] = Nobody
          BY <1>4, <2>1, <2>3, <3>1, <4>4 DEF IInv, CreatorFits, Creating
        <4> QED
          BY <1>7, <2>1, <3>1, <4>1, <4>2, <4>3, <4>5 DEF IInv, CreatorFits, Leaving, Creating
      <3> QED
        BY <1>1, <3>3, <3>4
    <2> QED
      BY <2>2, <2>3
  <1> QED
    BY <1>5, <1>6, <1>8, <1>9 DEF IInv

LEMMA DeleteMemberKeeps == ASSUME IInv, NEW w \in Workers, DeleteMember(w) PROVE IInv'
  <1> DEFINE g == Peer(w)
             u == User(w)
  <1>1. /\ pc[w] = "delete_member" /\ g \in Groups /\ g \in groups /\ u \in Users
    BY JobShape DEF DeleteMember, IInv, JobsFit, GroupsFit, Kind, Peer, User
  <1>2. role' = role \/ role' = [role EXCEPT ![g][u] = Nobody]
    BY DEF DeleteMember
  <1>3. /\ UNCHANGED <<groups, friends, hidden, job, troubled>> /\ hurt' \subseteq Workers
        /\ DOMAIN answer' = Workers
        /\ pc' = [pc EXCEPT ![w] = "done"]
    BY DEF DeleteMember, Say, Note, IInv, TypeOK
  <1>4. g \notin troubled => role[g][u] # Creator
    BY <1>1 DEF IInv, CreatorFits, Leaving
  <1> HIDE DEF g, u
  <1>5. /\ role' \in [Groups -> [Users -> Roles]]
        /\ \A h \in Groups, v \in Users :
             role'[h][v] = role[h][v] \/ (h = g /\ v = u /\ role'[h][v] = Nobody)
    <2>1. CASE role' = role
      BY <2>1 DEF IInv, TypeOK
    <2>2. CASE role' = [role EXCEPT ![g][u] = Nobody]
      BY <1>1, <2>2 DEF IInv, TypeOK, Roles
    <2> QED
      BY <1>2, <2>1, <2>2
  <1>6. TypeOK'
    BY <1>3, <1>5 DEF IInv, TypeOK
  <1>7. JobsFit'
    BY <1>1, <1>3 DEF IInv, TypeOK, JobsFit, Kind, Peer
  <1>8. \A x \in Workers, h \in Groups :
           /\ Creating(x, h)' <=> Creating(x, h)
           /\ Leaving(x, h)' => Leaving(x, h)
    BY <1>1, <1>3 DEF IInv, TypeOK, Creating, Leaving, Kind, Peer
  <1>9. GroupsFit'
    BY <1>1, <1>3, <1>5, <1>8 DEF IInv, TypeOK, GroupsFit, Peer
  <1>10. \A h \in groups \ troubled : \A v \in Users : role'[h][v] = Creator <=> role[h][v] = Creator
    BY <1>4, <1>5 DEF IInv, TypeOK, Nobody, Creator
  <1>11. \A h \in groups \ troubled : Owners(h)' = Owners(h)
    BY <1>10 DEF Owners
  <1>12. \A x \in Workers : pc[x] # "idle" => User(x) \in Users
    BY JobShape DEF IInv, JobsFit, User
  <1>13. CreatorFits'
    <2> SUFFICES ASSUME NEW h \in groups \ troubled
                 PROVE  /\ (\E v \in Users : Owners(h)' = {v}) \/ (\E x \in Workers : Creating(x, h)')
                        /\ \A y \in Workers : Creating(y, h)' =>
                             /\ Owners(h)' = {} /\ role'[h][User(y)] = Nobody
                             /\ \A x \in Workers : Leaving(x, h)' => User(x) # User(y)
                        /\ \A x \in Workers : Leaving(x, h)' => role'[h][User(x)] # Creator
      BY <1>3 DEF CreatorFits, User
    <2>1. h \in Groups
      BY DEF IInv, TypeOK
    <2>2. \A y \in Workers : Creating(y, h) => role'[h][User(y)] = Nobody
      BY <1>5, <1>12, <2>1 DEF IInv, CreatorFits, Creating
    <2>3. \A x \in Workers : Leaving(x, h) => role'[h][User(x)] # Creator
      BY <1>10, <1>12 DEF IInv, CreatorFits, Leaving
    <2> QED
      BY <1>8, <1>11, <2>1, <2>2, <2>3 DEF IInv, CreatorFits
  <1> QED
    BY <1>6, <1>7, <1>9, <1>13 DEF IInv

\* Nothing but the cache changes, if that.
LEMMA CacheKeeps ==
  ASSUME IInv, hidden' \subseteq Users, UNCHANGED <<tables, pc, job, answer, hurt, troubled>>
  PROVE  IInv'
  BY DEF tables, IInv, TypeOK, JobsFit, GroupsFit, CreatorFits, Creating, Leaving, Owners,
     Kind, User, Peer

LEMMA Invariance == Spec => []IInv
  <1>1. ASSUME IInv, [Next]_vars PROVE IInv'
    <2>1. ASSUME NEW w \in Workers, Begin(w) \/ Handle(w) \/ Return(w) \/ Die(w) PROVE IInv'
      BY <1>1, <2>1, BeginKeeps, Ending, LookUpsKeep, FriendsKeep, FindRoleKeeps,
         InsertGroupKeeps, InsertMemberKeeps, DeleteMemberKeeps DEF Handle
    <2>2. ASSUME NEW u \in Users, Hide(u) \/ Unhide(u) PROVE IInv'
      BY <1>1, <2>2, CacheKeeps DEF Hide, Unhide, IInv, TypeOK
    <2>3. CASE UNCHANGED vars
      BY <1>1, <2>3, CacheKeeps DEF vars, tables, IInv, TypeOK
    <2> QED
      BY <1>1, <2>1, <2>2, <2>3 DEF Next
  <1> QED
    BY Initially, <1>1, PTL DEF Spec

\* The tables and the handlers keep to their types; in particular a row of
\* friend names two accounts (add_friend.cpp:47-54).
THEOREM TypeCorrect == Spec => []TypeOK
  <1>1. IInv => TypeOK
    BY DEF IInv
  <1> QED
    BY Invariance, <1>1, PTL

\* A group whose creation was not disturbed has one creator for ever, for any
\* number of quits, joins and creations at once.
THEOREM GroupsKeepTheirCreator == Spec => []GroupKeepsItsCreator
  <1>1. IInv => GroupKeepsItsCreator
    BY DEF IInv, CreatorFits, GroupKeepsItsCreator
  <1> QED
    BY Invariance, <1>1, PTL

-----------------------------------------------------------------------------
(* Answers.                                                                *)

Claims(w) == /\ pc[w] = "done" /\ answer[w] # "is_self"
             /\ w \in hurt => answer[w] \in Promises

\* The answer of a step is true when the step has been taken.
LEMMA StepTellsTruth ==
  ASSUME IInv, NEW w \in Workers, Begin(w) \/ Handle(w), Claims(w)'
  PROVE  Meaning[answer'[w]] \in Facts(w)'
  <1> USE DEF Claims, Meaning, Promises, Facts, Say, Goto, Note
  <1>1. /\ w \in DOMAIN pc /\ w \in DOMAIN answer /\ DOMAIN pc = Workers
        /\ job[w] \in Jobs \cup {NoJob}
    BY DEF IInv, TypeOK
  <1>2. pc[w] # "idle" => Peer(w) \in Groups \cup Users \cup {Stranger} /\ User(w) \in Users
    BY JobShape DEF IInv, JobsFit, Peer, User
  <1>3. CASE Begin(w)
    BY <1>1, <1>3 DEF Begin
  <1>4. CASE FindUser(w)
    <2>1. User(w) \in Users /\ job' = job
      BY <1>2, <1>4 DEF FindUser, QueryUserInfo
    <2>2. answer'[w] = "no_user" /\ User(w) \in hidden /\ hidden' = hidden
      BY <1>1, <1>4, <2>1 DEF FindUser, QueryUserInfo
    <2> QED
      BY <2>1, <2>2 DEF User
  <1>5. CASE FindPeer(w)
    <2>1. Kind(w) \in {"befriend", "unfriend"}
      BY <1>5 DEF FindPeer, QueryUserInfo, IInv, JobsFit
    <2>2. answer'[w] = "no_friend" /\ Peer(w) \notin Users \ hidden /\ UNCHANGED <<stores, job>>
      BY <1>1, <1>5, <2>1 DEF FindPeer, QueryUserInfo, stores
    <2> QED
      BY <2>1, <2>2 DEF Kind, Peer, Befriended, User, stores, tables
  <1>6. CASE InsertFriend(w)
    <2>1. Kind(w) \in {"befriend", "unfriend"} /\ job' = job
      BY <1>6 DEF InsertFriend, IInv, JobsFit
    <2>2. answer'[w] \in {"befriended", "is_friend"} /\ Befriended(w)'
      BY <1>1, <1>6 DEF InsertFriend, Befriended, User, Peer
    <2> QED
      BY <2>1, <2>2 DEF Kind, Peer, User
  <1>7. CASE DeleteFriend(w)
    <2>1. Kind(w) \in {"befriend", "unfriend"} /\ job' = job
      BY <1>7 DEF DeleteFriend, IInv, JobsFit
    <2>2. answer'[w] \in {"unfriended", "not_friend"} /\ ~Befriended(w)'
      BY <1>1, <1>7 DEF DeleteFriend, Befriended, User, Peer
    <2> QED
      BY <2>1, <2>2 DEF Kind, Peer, User
  <1>8. CASE FindGroup(w)
    <2>1. Kind(w) \in {"join", "quit", "chat"}
      BY <1>8 DEF FindGroup, LookUp, IInv, JobsFit
    <2>2. answer'[w] = "no_group" /\ Peer(w) \notin groups /\ UNCHANGED <<stores, job>>
      BY <1>1, <1>8, <2>1 DEF FindGroup, LookUp
    <2> QED
      BY <2>1, <2>2 DEF Kind, Peer, Role, User, stores, tables
  <1>9. CASE FindRole(w)
    <2>1. Kind(w) \in {"quit", "chat"}
      BY <1>9 DEF FindRole, IInv, JobsFit
    <2>2. UNCHANGED <<stores, job>>
      BY <1>9 DEF FindRole
    <2>3. \/ answer'[w] = "not_member" /\ Role(w) = Nobody
          \/ answer'[w] = "sent" /\ Role(w) # Nobody
          \/ answer'[w] = "is_creator" /\ Role(w) = Creator
      BY <1>1, <1>9, <2>1 DEF FindRole
    <2> QED
      BY <2>1, <2>2, <2>3 DEF Kind, Peer, Role, User, stores, tables
  <1>10. CASE InsertGroup(w)
    <2>1. Kind(w) = "create" /\ job' = job
      BY <1>10 DEF InsertGroup, IInv, JobsFit
    <2>2. answer'[w] = "group_exists" /\ Peer(w) \in groups'
      BY <1>1, <1>10 DEF InsertGroup
    <2> QED
      BY <2>1, <2>2 DEF Kind, Peer
  <1>11. CASE InsertMember(w)
    <2>1. /\ Kind(w) \in {"create", "join"} /\ job' = job /\ groups' = groups
          /\ Peer(w) \in Groups /\ User(w) \in Users
      BY <1>11, JobShape DEF InsertMember, IInv, JobsFit, Kind, Peer, User
    <2>2. ASSUME NEW as \in {Normal, Creator}, NEW thanks \in {"joined", "created"},
                 Meaning[thanks] = as, Enrol(w, as, thanks)
          PROVE  Meaning[answer'[w]] \in Facts(w)'
      <3>1. \/ answer'[w] = thanks /\ Role(w)' = as
            \/ answer'[w] = "is_member" /\ Role(w)' # Nobody
        <4>1. PICK new \in BOOLEAN :
                /\ role' = IF new THEN [role EXCEPT ![Peer(w)][User(w)] = as] ELSE role
                /\ answer'[w] = thanks => new
                /\ answer'[w] \in {thanks, "is_member"}
                /\ answer'[w] = "is_member" => new \/ Role(w) # Nobody \/ w \in hurt'
          BY <1>1, <2>2 DEF Enrol
        <4>2. answer'[w] = "is_member" => w \notin hurt'
          OBVIOUS
        <4>3. CASE new
          <5>1. Role(w)' = as
            BY <2>1, <4>1, <4>3 DEF Role, Peer, User, IInv, TypeOK
          <5> QED
            BY <4>1, <5>1 DEF Normal, Creator, Nobody
        <4>4. CASE ~new
          <5>1. Role(w)' = Role(w)
            BY <2>1, <4>1, <4>4 DEF Role, Peer, User
          <5> QED
            BY <4>1, <4>2, <4>4, <5>1
        <4> QED
          BY <4>3, <4>4
      <3>2. Kind(w)' = Kind(w)
        BY <2>1 DEF Kind
      <3>3. thanks # "is_member" /\ Meaning["is_member"] = "tied"
        OBVIOUS
      <3>4. CASE answer'[w] = thanks /\ Role(w)' = as
        BY <2>1, <2>2, <3>2, <3>4
      <3>5. CASE answer'[w] = "is_member" /\ Role(w)' # Nobody
        BY <2>1, <3>2, <3>3, <3>5
      <3> QED
        BY <3>1, <3>4, <3>5
    <2> QED
      BY <1>11, <2>1, <2>2 DEF InsertMember
  <1>12. CASE DeleteMember(w)
    <2>1. /\ Kind(w) = "quit" /\ job' = job
          /\ Peer(w) \in Groups /\ User(w) \in Users
      BY <1>12, JobShape DEF DeleteMember, IInv, JobsFit, Kind, Peer, User
    <2>2. answer'[w] \in {"left", "not_member"} /\ Role(w)' = Nobody
      BY <1>1, <1>12, <2>1 DEF DeleteMember, Role, Peer, User, IInv, TypeOK
    <2> QED
      BY <2>1, <2>2 DEF Kind, Peer
  <1> QED
    BY <1>3, <1>4, <1>5, <1>6, <1>7, <1>8, <1>9, <1>10, <1>11, <1>12 DEF Handle

\* Every answer was true at some moment of its request.
THEOREM AnswersTrue == Spec => []AnswersWereTrue
  <1>1. Init => AnswersWereTrue
    BY DEF Init, AnswersWereTrue
  <1>2. ASSUME IInv, AnswersWereTrue, [Next]_vars PROVE AnswersWereTrue'
    <2>1. CASE Next
      <3> SUFFICES ASSUME NEW x \in Workers, Claims(x)'
                   PROVE  Meaning[answer'[x]] \in was'[x]
        BY DEF AnswersWereTrue, Claims
      <3>1. was'[x] = was[x] \cup Facts(x)'
        BY <2>1 DEF Next, Remember, Claims
      <3>2. CASE \E u \in Users : Hide(u) \/ Unhide(u)
        BY <1>2, <3>1, <3>2 DEF Hide, Unhide, AnswersWereTrue, Claims
      <3>3. ASSUME NEW w \in Workers, Begin(w) \/ Handle(w) \/ Return(w) \/ Die(w)
            PROVE  Meaning[answer'[x]] \in was'[x]
        <4>1. CASE x = w
          <5>1. Begin(w) \/ Handle(w)
            BY <1>2, <3>3, <4>1 DEF Return, Die, Claims, IInv, TypeOK
          <5> QED
            BY <1>2, <3>1, <4>1, <5>1, StepTellsTruth
        <4>2. CASE x # w
          <5>1. pc'[x] = pc[x] /\ answer'[x] = answer[x] /\ (x \in hurt' <=> x \in hurt)
            BY <1>2, <3>3, <4>2 DEF Begin, Return, Die, Handle, FindUser, FindPeer, InsertFriend,
               DeleteFriend, FindGroup, FindRole, InsertGroup, InsertMember, Enrol, DeleteMember,
               LookUp, QueryUserInfo, Goto, Say, Note, IInv, TypeOK
          <5> QED
            BY <1>2, <3>1, <5>1 DEF AnswersWereTrue, Claims
        <4> QED
          BY <4>1, <4>2
      <3> QED
        BY <2>1, <3>2, <3>3 DEF Next
    <2>2. CASE UNCHANGED vars
      BY <1>2, <2>2 DEF vars, AnswersWereTrue
    <2> QED
      BY <1>2, <2>1, <2>2
  <1> QED
    BY <1>1, <1>2, Invariance, PTL DEF Spec
=============================================================================
