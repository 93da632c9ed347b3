----------------------------- MODULE ChatClient -----------------------------
(***************************************************************************)
(* The client on one connection to its proxy.                              *)
(*                                                                         *)
(* Three threads of the client share the connection:                       *)
(*   main    shows the menus, sends one request and waits at rwsem_        *)
(*   reader  acts on every answer, then posts rwsem_; what other users     *)
(*           have sent is shown and not posted                             *)
(*   heart   sends a heartbeat every two seconds                           *)
(* and at the proxy the coroutine of the connection, which serves one      *)
(* request after the other, shares it with the coroutines of other users   *)
(* that push messages (push).  No lock guards an output buffer: main and   *)
(* heart encode and send through one, coro and push through another.  When *)
(* two of them overlap, what either has written may be lost or sent twice. *)
(*                                                                         *)
(* The model begins when the keys are exchanged.                           *)
(***************************************************************************)
EXTENDS Integers, Sequences

CONSTANTS
  Users,      \* the accounts
  MaxFaults   \* bound: frames lost or doubled, and logins that end half-way

NoUser  == "no_user"
Nothing == [kind |-> "nothing"]

ASSUME UsersAssumption == NoUser \notin Users
ASSUME FaultAssumption == MaxFaults \in Nat

VARIABLES
  at,        \* main: in the loop of start() or that of mainMenu()
  asked,     \* main: the request it sends, or waits for the answer to
  success,   \* isLoginSuccess_
  running,   \* isMainMenuRunning_
  user,      \* currentUser_
  sem,       \* rwsem_
  reader,    \* reader: the answer it works on
  handled,   \* reader: it has acted on that and posts next
  alive,     \* the client runs
  open,      \* the connection stands
  request,   \* proxy: the request it serves
  session,   \* proxy: the users userConnMap_ has this connection for
  wire,      \* the bytes under way, in each direction, by frames
  writing,   \* the frame each writer encodes and sends
  clash,     \* writers that have met another in their buffer
  faults,    \* number of faults so far
  upset      \* history: a fault has hit a request or an answer

mainVars   == <<at, asked, success, running>>
readerVars == <<reader, handled>>
proxyVars  == <<request, session>>
wireVars   == <<wire, writing, clash, faults, upset>>
vars == <<at, asked, success, running, user, sem, reader, handled, alive, open,
          request, session, wire, writing, clash, faults, upset>>

Writers == {"main", "heart", "coro", "push"}
Way(w)  == IF w \in {"main", "heart"} THEN "up" ELSE "down"

Beat == [kind |-> "beat"]
Push == [kind |-> "push"]
Request(k, u)     == [kind |-> k, user |-> u]
Answer(r, status) == [kind |-> r.kind, user |-> r.user, ok |-> status]

Init ==
  /\ at = "start" /\ asked = "none"
  /\ success = FALSE /\ running = FALSE /\ user = NoUser
  /\ sem = 0
  /\ reader = Nothing /\ handled = FALSE
  /\ request = Nothing /\ session = {}
  /\ wire = [d \in {"up", "down"} |-> <<>>]
  /\ writing = [w \in Writers |-> Nothing]
  /\ clash = {}
  /\ faults = 0 /\ upset = FALSE
  /\ alive = TRUE /\ open = TRUE

-----------------------------------------------------------------------------
(* Writing through a buffer that two threads share.                        *)

Idle(w) == writing[w] = Nothing

Begin(w, f) ==
  LET met == { v \in Writers \ {w} : Way(v) = Way(w) /\ ~Idle(v) } IN
  /\ Idle(w)
  /\ writing' = [writing EXCEPT ![w] = f]
  /\ clash' = IF met = {} THEN clash ELSE clash \cup met \cup {w}
  /\ UNCHANGED <<wire, faults, upset>>

UnderWay(f) ==
  f \in {request} \cup { writing[w] : w \in Writers }
         \cup UNION { { wire[d][i] : i \in DOMAIN wire[d] } : d \in {"up", "down"} }

Fault == faults < MaxFaults /\ faults' = faults + 1

\* Encoded and sent: as it should, or with what an overlap or a failed write
\* makes of it.  What is written to a closed connection goes nowhere.
Finish(w) ==
  LET f == writing[w] IN
  /\ ~Idle(w)
  /\ \E copies \in {<<>>, <<f>>, <<f, f>>} :
       /\ wire' = IF open THEN [wire EXCEPT ![Way(w)] = @ \o copies] ELSE wire
       /\ \/ copies = <<f>> /\ UNCHANGED <<faults, upset>>
          \/ /\ copies = <<>> \/ (copies # <<f>> /\ w \in clash)
             /\ Fault
             /\ upset' = (upset \/ f \notin {Beat, Push})
  /\ writing' = [writing EXCEPT ![w] = Nothing]
  /\ clash' = clash \ {w}

-----------------------------------------------------------------------------
(* The main thread.                                                        *)

Chooses == alive /\ asked = "none"

Send(kind, u) ==
  /\ Begin("main", Request(kind, u))
  /\ asked' = kind

Login ==
  /\ Chooses /\ at = "start"
  /\ \E u \in Users : Send("login", u)
  /\ success' = FALSE
  /\ UNCHANGED <<at, running, user, sem, readerVars, alive, open, proxyVars>>

Register ==
  /\ Chooses /\ at = "start"
  /\ Send("register", NoUser)
  /\ UNCHANGED <<at, success, running, user, sem, readerVars, alive, open, proxyVars>>

\* Every command of the chat page sends the id of currentUser_.
Command ==
  /\ Chooses /\ at = "menu"
  /\ \E kind \in {"command", "logout"} : Send(kind, user)
  /\ UNCHANGED <<at, success, running, user, sem, readerVars, alive, open, proxyVars>>

Sent ==
  /\ alive /\ Finish("main")
  /\ UNCHANGED <<mainVars, user, sem, readerVars, alive, open, proxyVars>>

\* sem_wait returns: a login looks at isLoginSuccess_, the chat page at
\* isMainMenuRunning_.
Resume ==
  /\ alive /\ asked # "none" /\ Idle("main") /\ sem > 0
  /\ sem' = sem - 1
  /\ asked' = "none"
  /\ \/ /\ asked = "login" /\ success
        /\ at' = "menu" /\ running' = TRUE
     \/ /\ at = "menu" /\ ~running
        /\ at' = "start" /\ UNCHANGED running
     \/ /\ IF at = "menu" THEN running ELSE asked = "register" \/ ~success
        /\ UNCHANGED <<at, running>>
  /\ UNCHANGED <<success, user, readerVars, alive, open, proxyVars, wireVars>>

\* The client process ends, and the connection with it; the proxy drops what it
\* has of it.
End ==
  /\ at' = "start" /\ asked' = "none"
  /\ success' = FALSE /\ running' = FALSE /\ user' = NoUser
  /\ sem' = 0
  /\ reader' = Nothing /\ handled' = FALSE
  /\ request' = Nothing /\ session' = {}
  /\ wire' = [d \in {"up", "down"} |-> <<>>]
  /\ writing' = [w \in Writers |-> Nothing]
  /\ clash' = {}
  /\ faults' = 0 /\ upset' = FALSE
  /\ alive' = FALSE /\ open' = FALSE

Quit == Chooses /\ at = "start" /\ End

-----------------------------------------------------------------------------
(* The reader thread and the heartbeat.                                    *)

Shown == {Beat, Push}

\* Mutant: a message of another user posts the semaphore as an answer does.
ReceiveAsAnswer ==
  /\ alive /\ reader = Nothing /\ wire["down"] # <<>>
  /\ wire' = [wire EXCEPT !["down"] = Tail(@)]
  /\ reader' = IF Head(wire["down"]) = Beat THEN Nothing ELSE Head(wire["down"])
  /\ UNCHANGED <<mainVars, user, sem, handled, alive, open, proxyVars,
                 writing, clash, faults, upset>>

Receive ==
  /\ alive /\ reader = Nothing /\ wire["down"] # <<>>
  /\ wire' = [wire EXCEPT !["down"] = Tail(@)]
  /\ reader' = IF Head(wire["down"]) \in Shown THEN Nothing ELSE Head(wire["down"])
  /\ UNCHANGED <<mainVars, user, sem, handled, alive, open, proxyVars,
                 writing, clash, faults, upset>>

\* Mutant: doLogoutResponse does not look at errno.
HandleLogoutUnchecked ==
  /\ alive /\ reader # Nothing /\ ~handled
  /\ CASE reader.kind = "login" ->
            /\ success' = reader.ok
            /\ user' = IF reader.ok THEN reader.user ELSE user
            /\ UNCHANGED running
       [] reader.kind = "logout" ->
            running' = FALSE /\ user' = NoUser /\ UNCHANGED success
       [] OTHER -> UNCHANGED <<success, running, user>>
  /\ handled' = TRUE
  /\ UNCHANGED <<at, asked, sem, reader, alive, open, proxyVars, wireVars>>

\* doLoginResponse, doLogoutResponse and the others, which change nothing the
\* menus look at.
Handle ==
  /\ alive /\ reader # Nothing /\ ~handled
  /\ CASE reader.kind = "login" ->
            /\ success' = reader.ok
            /\ user' = IF reader.ok THEN reader.user ELSE user
            /\ UNCHANGED running
       [] reader.kind = "logout" /\ reader.ok ->
            running' = FALSE /\ user' = NoUser /\ UNCHANGED success
       [] OTHER -> UNCHANGED <<success, running, user>>
  /\ handled' = TRUE
  /\ UNCHANGED <<at, asked, sem, reader, alive, open, proxyVars, wireVars>>

\* Mutant: an answer that reports an error is shown and not posted.
PostIfOk ==
  /\ alive /\ handled
  /\ sem' = IF reader.ok THEN sem + 1 ELSE sem
  /\ reader' = Nothing /\ handled' = FALSE
  /\ UNCHANGED <<mainVars, user, alive, open, proxyVars, wireVars>>

Post ==
  /\ alive /\ handled
  /\ sem' = sem + 1
  /\ reader' = Nothing /\ handled' = FALSE
  /\ UNCHANGED <<mainVars, user, alive, open, proxyVars, wireVars>>

\* recvMsg fails: the process exits, whatever main is doing.
ReadError ==
  /\ alive /\ ~open /\ reader = Nothing /\ wire["down"] = <<>>
  /\ End

\* Bound: one heartbeat under way, there and back.
Heartbeat ==
  /\ alive
  /\ \/ ~UnderWay(Beat) /\ Begin("heart", Beat)
     \/ Finish("heart")
  /\ UNCHANGED <<mainVars, user, sem, readerVars, alive, open, proxyVars>>

-----------------------------------------------------------------------------
(* The proxy.                                                              *)

Take ==
  /\ open /\ request = Nothing /\ Idle("coro") /\ wire["up"] # <<>>
  /\ wire' = [wire EXCEPT !["up"] = Tail(@)]
  /\ request' = Head(wire["up"])
  /\ UNCHANGED <<mainVars, user, sem, readerVars, alive, open, session,
                 writing, clash, faults, upset>>

Reply(f) == request' = Nothing /\ Begin("coro", f)

\* The look-ups after a login has succeeded may fail; their error is the
\* answer.
HalfLogin ==
  LET r == request IN
  /\ Idle("coro") /\ Fault /\ upset' = TRUE
  /\ session' = session \cup {r.user}
  /\ request' = Nothing
  /\ writing' = [writing EXCEPT !["coro"] = Answer(r, FALSE)]
  /\ clash' = IF Idle("push") THEN clash ELSE clash \cup {"coro", "push"}
  /\ UNCHANGED wire

\* Any request may be refused; the users it is about are elsewhere too.
Serve ==
  LET r == request IN
  /\ open /\ r # Nothing
  /\ \/ r = Beat /\ Reply(Beat) /\ UNCHANGED session
     \/ /\ r # Beat
        /\ \/ /\ Reply(Answer(r, TRUE))
              /\ session' = CASE r.kind = "login" -> session \cup {r.user}
                              [] r.kind = "logout" -> session \ {r.user}
                              [] OTHER -> session
           \/ Reply(Answer(r, FALSE)) /\ UNCHANGED session
           \/ r.kind = "login" /\ HalfLogin
  /\ UNCHANGED <<mainVars, user, sem, readerVars, alive, open>>

Output ==
  /\ open /\ Finish("coro")
  /\ UNCHANGED <<mainVars, user, sem, readerVars, alive, open, proxyVars>>

\* Another user's message.  Bound: one under way.
PushMessage ==
  /\ open
  /\ \/ /\ session # {}
        /\ ~UnderWay(Push)
        /\ Begin("push", Push)
     \/ Finish("push")
  /\ UNCHANGED <<mainVars, user, sem, readerVars, alive, open, proxyVars>>

\* The proxy closes the connection (its time wheel, or its end) and drops what
\* it has of it.
Close ==
  /\ open
  /\ open' = FALSE
  /\ request' = Nothing /\ session' = {}
  /\ wire' = [wire EXCEPT !["up"] = <<>>]
  /\ writing' = [w \in Writers |-> IF Way(w) = "up" THEN writing[w] ELSE Nothing]
  /\ clash' = { w \in clash : Way(w) = "up" }
  /\ UNCHANGED <<mainVars, user, sem, readerVars, alive, faults, upset>>

\* The user starts the client again.
Start ==
  /\ ~alive
  /\ alive' = TRUE /\ open' = TRUE
  /\ UNCHANGED <<mainVars, user, sem, readerVars, proxyVars, wireVars>>

Next ==
  \/ Login \/ Register \/ Command \/ Sent \/ Resume \/ Quit
  \/ Receive \/ Handle \/ Post \/ ReadError \/ Heartbeat
  \/ Take \/ Serve \/ Output \/ PushMessage \/ Close
  \/ Start

\* Threads run, RPCs time out: nothing the code itself does is put off for
\* ever.  What the user types, other users' messages and the end of the
\* connection need not come.
Fairness ==
  /\ WF_vars(Sent) /\ WF_vars(Resume)
  /\ WF_vars(Receive) /\ WF_vars(Handle) /\ WF_vars(Post) /\ WF_vars(ReadError)
  /\ WF_vars(Take) /\ WF_vars(Serve) /\ WF_vars(Output)

Spec     == Init /\ [][Next]_vars
FairSpec == Spec /\ Fairness

-----------------------------------------------------------------------------
(* Properties.                                                             *)

AsSeq(f) == IF f = Nothing THEN <<>> ELSE <<f>>

\* Where a request and its answer pass between main and the semaphore.
Stations == {"main", "up", "request", "coro", "down", "reader"}

Pipe(p) ==
  CASE p = "main"    -> AsSeq(writing["main"])
    [] p = "up"      -> wire["up"]
    [] p = "request" -> AsSeq(request)
    [] p = "coro"    -> AsSeq(writing["coro"])
    [] p = "down"    -> wire["down"]
    [] p = "reader"  -> AsSeq(reader)

\* The places of all requests and answers that are under way.
Due ==
  UNION { { <<p, i>> : i \in { j \in DOMAIN Pipe(p) : Pipe(p)[j] \notin Shown } } :
          p \in Stations }

\* main and the proxy stay in step: while main waits exactly one request, or
\* its answer, or its post is under way, and it is the one main has asked; when
\* main does not wait there is none.  So the reader never writes currentUser_
\* or a flag while main reads it, though none but one is atomic, and no post is
\* left over for a later request to run ahead on.  A lost or doubled frame ends
\* this for good (sendMsg and readTaskHandler).
OneAnswerPerWait ==
  alive /\ ~upset =>
    IF asked = "none" THEN sem = 0 /\ Due = {}
    ELSE \/ sem = 1 /\ Due = {}
         \/ sem = 0 /\ Due = {} /\ ~open
         \/ sem = 0 /\ \E d \in Due : Due = {d} /\ Pipe(d[1])[d[2]].kind = asked

\* The proxy takes the user's id from the request and does not compare it with
\* the connection: it is the client's flags that see to it that a command comes
\* from the one user of the connection, and a login when it has none.
RequestsSpeakForSession ==
  open /\ ~upset =>
    CASE request.kind \in {"command", "logout"} -> session = {request.user}
      [] request.kind = "login"                 -> session = {}
      [] OTHER                                  -> TRUE

\* The wait for an answer ends, with the answer or with the process, unless a
\* frame was lost: sem_wait has no time-out, and main waits although sendMsg
\* has reported an error.
EveryWaitEnds == (asked # "none") ~> (asked = "none" \/ ~alive \/ upset)
=============================================================================
