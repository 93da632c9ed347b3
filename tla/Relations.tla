------------------------------ MODULE Relations ------------------------------
(***************************************************************************)
(* Friends and groups: the tables friend, allgroup and groupuser under the *)
(* handlers of FriendService and GroupService and the reads of a group     *)
(* message in ChatService.                                                 *)
(*                                                                         *)
(* A handler is a series of single statements, none of them in a           *)
(* transaction, and any number of handlers run at once, several of one     *)
(* user included: a call that has timed out is still executed while its    *)
(* user asks for the next thing.  Accounts and groups are never removed.   *)
(* A group's name and the id that MySQL gives it are one.  That the keys   *)
(* of the three tables are unique is what the handlers take for granted    *)
(* when they read a failed INSERT as "it is there already".                *)
(***************************************************************************)
CONSTANTS
  Users,       \* the accounts
  Groups,      \* the groups that are or may be created
  Stranger,    \* an id without an account
  Jobs,        \* the requests that are made
  Workers,     \* handlers that may run at the same time, in all processes
  Unreliable   \* whether statements may fail and processes may die

GroupJobs  == [kind : {"create", "join", "quit", "chat"}, user : Users, peer : Groups]
FriendJobs == [kind : {"befriend", "unfriend"}, user : Users, peer : Users \cup {Stranger}]

ASSUME JobsAssumption == Jobs \subseteq GroupJobs \cup FriendJobs
ASSUME StrangerAssumption == Stranger \notin Users
ASSUME UnreliableAssumption == Unreliable \in BOOLEAN

NoJob == [kind |-> "none"]

Nobody  == "none"      \* no row in groupuser
Normal  == "normal"
Creator == "creator"
Roles   == {Nobody, Normal, Creator}

VARIABLES
  groups,    \* table allgroup
  role,      \* table groupuser: the role of a user in a group
  friends,   \* table friend: <<user, friend>>
  hidden,    \* Redis: accounts whose user_state entry says "not_exist"
  pc,        \* per handler: its next statement
  job,       \* per handler: its request
  answer,    \* per handler: what it tells the client
  hurt,      \* history: handlers a statement of which has failed
  troubled,  \* history: groups whose creation went wrong (see the property)
  was        \* history: what was true of a request since it began

tables  == <<groups, role, friends>>
stores  == <<tables, hidden>>
vars    == <<groups, role, friends, hidden, pc, job, answer, hurt, troubled, was>>

Outcomes == IF Unreliable THEN BOOLEAN ELSE {TRUE}

Kind(w) == job[w].kind
User(w) == job[w].user
Peer(w) == job[w].peer

Befriended(w) == <<User(w), Peer(w)>> \in friends
Role(w)       == role[Peer(w)][User(w)]

\* What the tables say about a request, and the cache about its accounts.
Facts(w) ==
  (IF Kind(w) \in {"befriend", "unfriend"}
   THEN {IF Peer(w) \in Users \ hidden THEN "there" ELSE "absent",
         IF Befriended(w) THEN "tied" ELSE "free"}
   ELSE {IF Peer(w) \in groups THEN "there" ELSE "absent",
         IF Role(w) # Nobody THEN "tied" ELSE "free", Role(w)})
  \cup (IF User(w) \in hidden THEN {"unknown"} ELSE {})

Init ==
  /\ groups = {} /\ friends = {} /\ hidden = {}
  /\ role = [g \in Groups |-> [u \in Users |-> Nobody]]
  /\ pc = [w \in Workers |-> "idle"]
  /\ job = [w \in Workers |-> NoJob]
  /\ answer = [w \in Workers |-> "none"]
  /\ hurt = {} /\ troubled = {}
  /\ was = [w \in Workers |-> {}]

Goto(w, step) == pc' = [pc EXCEPT ![w] = step] /\ UNCHANGED answer

\* The handler returns, or throws the exception that makes the answer.
Say(w, what) ==
  /\ pc' = [pc EXCEPT ![w] = "done"]
  /\ answer' = [answer EXCEPT ![w] = what]

Note(w, ok) == hurt' = IF ok THEN hurt ELSE hurt \cup {w}

\* A SELECT that fails looks like one that finds nothing.
LookUp(w, step, found, next, otherwise) ==
  /\ pc[w] = step
  /\ \E ok \in Outcomes :
       /\ IF ok /\ found THEN Goto(w, next) ELSE Say(w, otherwise)
       /\ Note(w, ok)
  /\ UNCHANGED <<stores, job, troubled>>

-----------------------------------------------------------------------------
(* Every handler.                                                          *)

Begin(w) ==
  /\ pc[w] = "idle"
  /\ \E j \in Jobs :
       /\ job' = [job EXCEPT ![w] = j]
       /\ IF j.user = j.peer THEN Say(w, "is_self")
          ELSE Goto(w, "find_user")
  /\ UNCHANGED <<stores, hurt, troubled>>

\* queryUserInfo takes the word of a "not_exist" entry, unless the GET fails; a
\* SELECT that fails looks like one that finds nothing and leaves such an entry.
QueryUserInfo(w, step, id, next, otherwise) ==
  /\ pc[w] = step
  /\ \/ /\ id \in Users /\ (id \in hidden => Unreliable)
        /\ Goto(w, next) /\ UNCHANGED <<hidden, hurt>>
     \/ /\ id \notin Users \ hidden
        /\ Say(w, otherwise) /\ UNCHANGED <<hidden, hurt>>
     \/ /\ Unreliable /\ Say(w, otherwise) /\ Note(w, FALSE)
        /\ \/ hidden' = hidden \cup ({id} \cap Users)
           \/ UNCHANGED hidden
  /\ UNCHANGED <<tables, job, troubled>>

FindUser(w) ==
  QueryUserInfo(w, "find_user", User(w),
                CASE Kind(w) = "create" -> "insert_group"
                  [] Kind(w) \in {"befriend", "unfriend"} -> "find_peer"
                  [] OTHER -> "find_group", "no_user")

\* The answer is sent.
Return(w) ==
  /\ pc[w] = "done"
  /\ pc' = [pc EXCEPT ![w] = "idle"]
  /\ job' = [job EXCEPT ![w] = NoJob]
  /\ answer' = [answer EXCEPT ![w] = "none"]
  /\ hurt' = hurt \ {w}
  /\ UNCHANGED <<stores, troubled>>

Creating(w, g) == pc[w] = "insert_member" /\ Kind(w) = "create" /\ Peer(w) = g

\* The process dies and its handlers with it.
Die(w) ==
  /\ Unreliable /\ pc[w] \notin {"idle", "done"}
  /\ pc' = [pc EXCEPT ![w] = "idle"]
  /\ job' = [job EXCEPT ![w] = NoJob]
  /\ hurt' = hurt \ {w}
  /\ troubled' = troubled \cup { g \in Groups : Creating(w, g) }
  /\ UNCHANGED <<stores, answer>>

-----------------------------------------------------------------------------
(* FriendService: AddFriend, DeleteFriend.                                 *)

\* Mutant: the other account is not looked up.
FindPeerUnchecked(w) ==
  pc[w] = "find_peer" /\ Goto(w, Kind(w)) /\ UNCHANGED <<stores, job, hurt, troubled>>

FindPeer(w) == QueryUserInfo(w, "find_peer", Peer(w), Kind(w), "no_friend")

InsertFriend(w) ==
  /\ pc[w] = "befriend"
  /\ \E done, ok \in Outcomes :
       LET new == done /\ ~Befriended(w)
       IN  /\ ok => done
           /\ friends' = IF new THEN friends \cup {<<User(w), Peer(w)>>} ELSE friends
           /\ Say(w, IF new /\ ok THEN "befriended" ELSE "is_friend")
           /\ Note(w, ok)
  /\ UNCHANGED <<groups, role, hidden, job, troubled>>

DeleteFriend(w) ==
  /\ pc[w] = "unfriend"
  /\ \E done, ok \in Outcomes :
       LET gone == done /\ Befriended(w)
       IN  /\ ok => done
           /\ friends' = IF gone THEN friends \ {<<User(w), Peer(w)>>} ELSE friends
           /\ Say(w, IF gone /\ ok THEN "unfriended" ELSE "not_friend")
           /\ Note(w, ok)
  /\ UNCHANGED <<groups, role, hidden, job, troubled>>

-----------------------------------------------------------------------------
(* GroupService: CreateGroup, AddGroup, QuitGroup; and what GroupChat of   *)
(* ChatService asks before it sends.                                       *)

\* queryGroup: the group's row.  Its members, the second SELECT, matter only
\* to the group message (module Delivery).
FindGroup(w) ==
  LookUp(w, "find_group", Peer(w) \in groups,
         IF Kind(w) = "join" THEN "insert_member" ELSE "find_role", "no_group")

\* Mutant: whoever is in the group may quit it.
FindRoleOnly(w) ==
  /\ pc[w] = "find_role"
  /\ \E ok \in Outcomes :
       /\ IF ~ok \/ Role(w) = Nobody THEN Say(w, "not_member")
          ELSE IF Kind(w) = "chat" THEN Say(w, "sent")
          ELSE Goto(w, "delete_member")
       /\ Note(w, ok)
  /\ UNCHANGED <<stores, job, troubled>>

\* queryGroupUserRole, whose empty answer means not a member.
FindRole(w) ==
  /\ pc[w] = "find_role"
  /\ \E ok \in Outcomes :
       /\ IF ~ok \/ Role(w) = Nobody THEN Say(w, "not_member")
          ELSE IF Kind(w) = "chat" THEN Say(w, "sent")
          ELSE IF Role(w) = Creator THEN Say(w, "is_creator")
          ELSE Goto(w, "delete_member")
       /\ Note(w, ok)
  /\ UNCHANGED <<stores, job, troubled>>

\* GroupDao::createGroup.  If the INSERT works and its answer is lost, the
\* group stays without a creator.
InsertGroup(w) ==
  /\ pc[w] = "insert_group"
  /\ \E done, ok \in Outcomes :
       LET new == done /\ Peer(w) \notin groups
       IN  /\ ok => done
           /\ groups' = IF new THEN groups \cup {Peer(w)} ELSE groups
           /\ troubled' = IF new /\ ~ok THEN troubled \cup {Peer(w)} ELSE troubled
           /\ IF new /\ ok THEN Goto(w, "insert_member") ELSE Say(w, "group_exists")
           /\ Note(w, ok)
  /\ UNCHANGED <<role, friends, hidden, job>>

Enrol(w, as, thanks) ==
  \E done, ok \in Outcomes :
    LET new == done /\ Role(w) = Nobody
    IN  /\ ok => done
        /\ role' = IF new THEN [role EXCEPT ![Peer(w)][User(w)] = as] ELSE role
        /\ troubled' = troubled \cup
             { g \in Groups : \/ Creating(w, g) /\ ~new
                              \/ /\ new /\ g = Peer(w)
                                 /\ \E x \in Workers \ {w} :
                                      Creating(x, g) /\ User(x) = User(w) }
        /\ Say(w, IF new /\ ok THEN thanks ELSE "is_member")
        /\ Note(w, ok)

\* GroupDao::addGroup.  For a creation that is the second INSERT: the group
\* is there already, and others, even the creator himself, may have joined.
InsertMember(w) ==
  /\ pc[w] = "insert_member"
  /\ IF Kind(w) = "create" THEN Enrol(w, Creator, "created") ELSE Enrol(w, Normal, "joined")
  /\ UNCHANGED <<groups, friends, hidden, job>>

\* Mutant: the answer does not look at the number of rows affected.
DeleteMemberBlindly(w) ==
  /\ pc[w] = "delete_member"
  /\ \E done \in Outcomes :
       /\ role' = IF done THEN [role EXCEPT ![Peer(w)][User(w)] = Nobody] ELSE role
       /\ Say(w, "left") /\ Note(w, done)
  /\ UNCHANGED <<groups, friends, hidden, job, troubled>>

\* GroupDao::quitGroup, which deletes the row whatever its role is now.
DeleteMember(w) ==
  /\ pc[w] = "delete_member"
  /\ \E done, ok \in Outcomes :
       LET gone == done /\ Role(w) # Nobody
       IN  /\ ok => done
           /\ role' = IF gone THEN [role EXCEPT ![Peer(w)][User(w)] = Nobody] ELSE role
           /\ Say(w, IF gone /\ ok THEN "left" ELSE "not_member")
           /\ Note(w, ok)
  /\ UNCHANGED <<groups, friends, hidden, job, troubled>>

-----------------------------------------------------------------------------
(* The cache, which the other services write too (module Presence).        *)

\* A failed SELECT of another handler, or a reader that found no row before the
\* account was registered and fills the cache only now.
Hide(u) ==
  /\ hidden' = hidden \cup {u}
  /\ UNCHANGED <<tables, pc, job, answer, hurt, troubled>>

\* The entry expires, or a login or logout deletes it.
Unhide(u) ==
  /\ u \in hidden /\ hidden' = hidden \ {u}
  /\ UNCHANGED <<tables, pc, job, answer, hurt, troubled>>

-----------------------------------------------------------------------------

\* The history of the requests in progress.
Remember ==
  was' = [w \in Workers |-> IF pc'[w] = "idle" THEN {} ELSE was[w] \cup Facts(w)']

Handle(w) ==
  \/ FindUser(w) \/ FindPeer(w) \/ InsertFriend(w) \/ DeleteFriend(w)
  \/ FindGroup(w) \/ FindRole(w)
  \/ InsertGroup(w) \/ InsertMember(w) \/ DeleteMember(w)

Next ==
  /\ \/ \E w \in Workers : Begin(w) \/ Handle(w) \/ Return(w) \/ Die(w)
     \/ \E u \in Users : Hide(u) \/ Unhide(u)
  /\ Remember

Spec == Init /\ [][Next]_vars

-----------------------------------------------------------------------------
(* Properties.                                                             *)

\* Type invariant.
TypeOK ==
  /\ groups \subseteq Groups
  /\ role \in [Groups -> [Users -> Roles]]
  /\ friends \subseteq Users \X Users
  /\ hidden \subseteq Users
  /\ pc \in [Workers -> {"idle", "find_user", "find_peer", "befriend", "unfriend",
                         "find_group", "find_role", "insert_group",
                         "insert_member", "delete_member", "done"}]
  /\ job \in [Workers -> Jobs \cup {NoJob}]
  /\ DOMAIN answer = Workers
  /\ hurt \subseteq Workers /\ troubled \subseteq Groups

Owners(g) == { u \in Users : role[g][u] = Creator }

\* A group has exactly one creator, who stays: once the second INSERT of its
\* creation is through, no quit removes that row, however old the role is
\* that the quit has read.  Excepted are groups whose creation was cut short
\* (create_group.cpp:58-61 undoes nothing) or whose creator joined as an
\* ordinary member between the two INSERTs.
GroupKeepsItsCreator ==
  \A g \in groups \ troubled :
    \/ \E u \in Users : Owners(g) = {u}
    \/ Owners(g) = {} /\ \E w \in Workers : Creating(w, g)

Meaning == [
  no_user |-> "unknown", no_friend |-> "absent", is_friend |-> "tied", not_friend |-> "free",
  befriended |-> "tied", unfriended |-> "free",
  no_group |-> "absent", group_exists |-> "there",
  is_member |-> "tied", not_member |-> "free", is_creator |-> Creator,
  joined |-> Normal, created |-> Creator, left |-> "free", sent |-> "tied"]

Promises == {"befriended", "unfriended", "joined", "created", "left", "sent"}

\* Whatever other requests do in between, of the same user too: an answer
\* tells what was the case at some moment of the request -- that an account
\* does not exist, what the cache said; an entry that hides an account there is
\* makes that answer wrong without any statement of the request failing.  A
\* refusal need not be true if one of its statements has failed; a success
\* always is.
AnswersWereTrue ==
  \A w \in Workers :
    /\ pc[w] = "done" /\ answer[w] # "is_self"
    /\ w \in hurt => answer[w] \in Promises
    => Meaning[answer[w]] \in was[w]
=============================================================================
