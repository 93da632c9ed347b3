-------------------------- MODULE ChatClientProofs --------------------------
(***************************************************************************)
(* That main and the proxy stay in step, for any number of accounts and     *)
(* faults: while no fault has hit a request or an answer, one of them at    *)
(* most is under way, it is what main waits for, and every request speaks   *)
(* for the user whose session the connection has.                           *)
(***************************************************************************)
EXTENDS ChatClient, TLAPS

-----------------------------------------------------------------------------
(* The types.                                                              *)

Kinds    == {"login", "register", "command", "logout"}
Requests == { r \in [kind : Kinds, user : Users \cup {NoUser}] :
                r.kind = "login" => r.user \in Users }
Answers  == { a \in [kind : Kinds, user : Users \cup {NoUser}, ok : BOOLEAN] :
                a.kind = "login" => a.user \in Users }

Carries(d) == IF d = "up" THEN Requests \cup {Beat} ELSE Answers \cup Shown
Writes(w) ==
  CASE w = "main"  -> Requests
    [] w = "heart" -> {Beat}
    [] w = "coro"  -> Answers \cup {Beat}
    [] w = "push"  -> {Push}

TypeOK ==
  /\ at \in {"start", "menu"} /\ asked \in Kinds \cup {"none"}
  /\ success \in BOOLEAN /\ running \in BOOLEAN
  /\ user \in Users \cup {NoUser}
  /\ sem \in Nat
  /\ reader \in Answers \cup {Nothing} /\ handled \in BOOLEAN
  /\ handled => reader # Nothing
  /\ request \in Requests \cup {Beat, Nothing}
  /\ session \subseteq Users \cup {NoUser}
  /\ wire = [d \in {"up", "down"} |-> wire[d]]
  /\ \A d \in {"up", "down"} : wire[d] \in Seq(Carries(d))
  /\ writing = [w \in Writers |-> writing[w]]
  /\ \A w \in Writers : writing[w] \in Writes(w) \cup {Nothing}
  /\ alive \in BOOLEAN /\ open \in BOOLEAN /\ upset \in BOOLEAN
  /\ alive \/ ~open

-----------------------------------------------------------------------------
(* The inductive invariant.                                                *)

\* No request or answer in a queue; one, and nothing else but heartbeats and
\* other users' messages.
Clean(s)  == \A i \in DOMAIN s : s[i] \in Shown
One(s, f) == \E i \in DOMAIN s : s[i] = f /\ \A j \in DOMAIN s \ {i} : s[j] \in Shown

Frames == Requests \cup Answers

NothingDue  == \A q \in Stations : Clean(Pipe(q))
DueAt(p, f) == One(Pipe(p), f) /\ \A q \in Stations \ {p} : Clean(Pipe(q))

\* The page main is on is that of the session the connection has...
PageFits == session = (IF at = "menu" THEN {user} ELSE {}) /\ (at = "menu" => running)

\* ...or will be when main has seen the answer, of which its flags are told...
FlagsFit ==
  CASE asked = "login"  -> session = IF success THEN {user} ELSE {}
    [] asked = "logout" -> session = IF running THEN {user} ELSE {}
    [] OTHER            -> PageFits

\* ...when the reader has seen it.
AnswerFits(f) ==
  CASE asked = "login"  -> session = IF f.ok THEN {f.user} ELSE {}
    [] asked = "logout" -> running /\ session = IF f.ok THEN {} ELSE {user}
    [] OTHER            -> PageFits

RequestFits(f) == PageFits /\ (asked \in {"command", "logout"} => f.user = user)

Fits(p, f) ==
  CASE p \in {"main", "up", "request"} -> RequestFits(f)
    [] p = "reader" /\ handled         -> FlagsFit
    [] OTHER                           -> AnswerFits(f)

\* A session can only be spoken of while the connection stands, or before there
\* is one.
Connected == open \/ ~alive

\* What main waits for: nothing; the semaphore, which has been posted; an answer
\* that went with the connection; the frame f at station p.
Free     == asked = "none" /\ sem = 0 /\ NothingDue /\ (Connected => PageFits)
Answered == asked # "none" /\ sem = 1 /\ NothingDue /\ (Connected => FlagsFit)
CutOff   == asked # "none" /\ sem = 0 /\ NothingDue /\ ~Connected
Waiting(p, f) ==
  /\ asked # "none" /\ sem = 0 /\ DueAt(p, f) /\ f.kind = asked
  /\ Connected => Fits(p, f)

AskedFits ==
  /\ asked \in {"login", "register"} => at = "start"
  /\ asked \in {"command", "logout"} => at = "menu"

StepInv ==
  /\ AskedFits
  /\ Free \/ Answered \/ CutOff \/ \E p \in Stations, f \in Frames : Waiting(p, f)

IInv == TypeOK /\ (~alive => ~upset) /\ (~upset => StepInv)

-----------------------------------------------------------------------------
(* Frames and queues.                                                      *)

LEMMA FrameFacts ==
  /\ \A f \in Requests \cup Answers : f # Nothing /\ f \notin Shown /\ f.kind \in Kinds
  /\ Beat # Nothing /\ Push # Nothing /\ Beat # Push /\ Shown = {Beat, Push}
BY DEF Requests, Answers, Kinds, Nothing, Shown, Beat, Push

LEMMA WriterFacts ==
  /\ \A w \in Writers : Way(w) \in {"up", "down"} /\ Writes(w) \subseteq Carries(Way(w))
  /\ Way("main") = "up" /\ Way("heart") = "up" /\ Way("coro") = "down" /\ Way("push") = "down"
  /\ Writers = {"main", "heart", "coro", "push"}
BY DEF Writers, Way, Writes, Carries, Shown

LEMMA RequestType ==
  /\ \A k \in Kinds, u \in Users \cup {NoUser} :
       (k = "login" => u \in Users) => Request(k, u) \in Requests
  /\ \A r \in Requests, b \in BOOLEAN : Answer(r, b) \in Answers
BY DEF Request, Requests, Answer, Answers

\* What an encoded frame becomes on the wire.
LEMMA CopiesInSeq ==
  ASSUME NEW S, NEW f \in S, NEW c \in {<<>>, <<f>>, <<f, f>>}
  PROVE  c \in Seq(S)
<1>1. <<>> \in Seq(S) /\ <<f>> \in Seq(S) /\ <<f, f>> \in Seq(S) OBVIOUS
<1>. QED BY <1>1

LEMMA CopiesType ==
  ASSUME NEW S, NEW s \in Seq(S), NEW f \in S, NEW c \in {<<>>, <<f>>, <<f, f>>}
  PROVE  s \o c \in Seq(S)
<1>1. c \in Seq(S) BY CopiesInSeq
<1>. QED BY <1>1

LEMMA FinishType ==
  ASSUME TypeOK, NEW w \in Writers, Finish(w)
  PROVE  /\ wire' = [d \in {"up", "down"} |-> wire'[d]]
         /\ \A d \in {"up", "down"} : wire'[d] \in Seq(Carries(d))
         /\ writing' = [v \in Writers |-> writing'[v]]
         /\ \A v \in Writers : writing'[v] \in Writes(v) \cup {Nothing}
         /\ upset' \in BOOLEAN
<1>1. PICK c \in {<<>>, <<writing[w]>>, <<writing[w], writing[w]>>} :
        wire' = IF open THEN [wire EXCEPT ![Way(w)] = @ \o c] ELSE wire
  BY DEF Finish
<1>2. writing[w] \in Carries(Way(w)) BY WriterFacts DEF Finish, Idle, TypeOK
<1>3. wire[Way(w)] \o c \in Seq(Carries(Way(w)))
  BY <1>2, CopiesType, WriterFacts DEF TypeOK
<1>4. wire' = [d \in {"up", "down"} |-> wire'[d]] BY <1>1 DEF TypeOK
<1>5. \A d \in {"up", "down"} : wire'[d] \in Seq(Carries(d))
  BY <1>1, <1>3, WriterFacts DEF TypeOK
<1>6. writing' = [v \in Writers |-> writing'[v]] BY DEF Finish, TypeOK
<1>7. \A v \in Writers : writing'[v] \in Writes(v) \cup {Nothing} BY DEF Finish, TypeOK
<1>8. upset' \in BOOLEAN BY DEF Finish, TypeOK
<1>. QED BY <1>4, <1>5, <1>6, <1>7, <1>8

LEMMA BeginType ==
  ASSUME TypeOK, NEW w \in Writers, NEW f \in Writes(w), Begin(w, f)
  PROVE  /\ writing' = [v \in Writers |-> writing'[v]]
         /\ \A v \in Writers : writing'[v] \in Writes(v) \cup {Nothing}
         /\ wire' = wire /\ upset' = upset
BY DEF Begin, TypeOK

LEMMA TailType ==
  ASSUME NEW S, NEW s \in Seq(S), s # <<>>
  PROVE  Head(s) \in S /\ Tail(s) \in Seq(S)
OBVIOUS

LEMMA InitType == Init => TypeOK
<1>. SUFFICES ASSUME Init PROVE TypeOK OBVIOUS
<1>1. \A d \in {"up", "down"} : wire[d] = <<>> /\ <<>> \in Seq(Carries(d)) BY DEF Init
<1>. QED BY <1>1, FrameFacts DEF Init, TypeOK, Kinds

LEMMA EndType == TypeOK /\ End => TypeOK'
<1>. SUFFICES ASSUME End PROVE TypeOK' OBVIOUS
<1>1. \A d \in {"up", "down"} : wire'[d] = <<>> /\ <<>> \in Seq(Carries(d)) BY DEF End
<1>2. wire' = [d \in {"up", "down"} |-> wire'[d]] BY DEF End
<1>3. \A w \in Writers : writing'[w] = Nothing BY DEF End
<1>4. writing' = [w \in Writers |-> writing'[w]] BY DEF End
<1>. QED BY <1>1, <1>2, <1>3, <1>4, FrameFacts DEF End, TypeOK, Kinds

LEMMA NextType == TypeOK /\ [Next]_vars => TypeOK'
<1>. SUFFICES ASSUME TypeOK, [Next]_vars PROVE TypeOK' OBVIOUS
<1>. USE DEF readerVars, proxyVars, wireVars, mainVars
<1>1. CASE Login
  <2>1. PICK u \in Users : Send("login", u) BY <1>1 DEF Login
  <2>2. Request("login", u) \in Writes("main") BY RequestType DEF Kinds, Writes
  <2>. QED BY <1>1, <2>1, <2>2, BeginType, WriterFacts DEF Login, Send, TypeOK, Kinds
<1>2. CASE Register
  <2>1. Request("register", NoUser) \in Writes("main") BY RequestType DEF Kinds, Writes
  <2>. QED BY <1>2, <2>1, BeginType, WriterFacts DEF Register, Send, TypeOK, Kinds
<1>3. CASE Command
  <2>1. PICK kind \in {"command", "logout"} : Send(kind, user) BY <1>3 DEF Command
  <2>2. Request(kind, user) \in Writes("main") BY RequestType DEF Kinds, Writes, TypeOK
  <2>. QED BY <1>3, <2>1, <2>2, BeginType, WriterFacts DEF Command, Send, TypeOK, Kinds
<1>4. CASE Sent
  <2>1. Finish("main") BY <1>4 DEF Sent
  <2>. QED BY <1>4, <2>1, FinishType, WriterFacts DEF Sent, TypeOK
<1>5. CASE Resume
  <2>1. sem' \in Nat BY <1>5 DEF Resume, TypeOK
  <2>. QED BY <1>5, <2>1 DEF Resume, TypeOK
<1>6. CASE Quit BY <1>6, EndType DEF Quit
<1>7. CASE Receive
  <2>1. Head(wire["down"]) \in Answers \cup Shown /\ Tail(wire["down"]) \in Seq(Carries("down"))
    BY <1>7, TailType DEF Receive, TypeOK, Carries
  <2>2. reader' \in Answers \cup {Nothing} BY <1>7, <2>1 DEF Receive
  <2>3. wire' = [d \in {"up", "down"} |-> wire'[d]] BY <1>7 DEF Receive, TypeOK
  <2>4. \A d \in {"up", "down"} : wire'[d] \in Seq(Carries(d)) BY <1>7, <2>1 DEF Receive, TypeOK
  <2>5. ~handled BY <1>7 DEF Receive, TypeOK
  <2>. QED BY <1>7, <2>2, <2>3, <2>4, <2>5 DEF Receive, TypeOK
<1>8. CASE Handle
  <2>1. reader \in Answers /\ reader.ok \in BOOLEAN /\ (reader.kind = "login" => reader.user \in Users)
    BY <1>8 DEF Handle, TypeOK, Answers
  <2>2. success' \in BOOLEAN /\ running' \in BOOLEAN /\ user' \in Users \cup {NoUser}
    BY <1>8, <2>1 DEF Handle, TypeOK
  <2>. QED BY <1>8, <2>1, <2>2 DEF Handle, TypeOK
<1>9. CASE Post
  <2>1. sem' \in Nat BY <1>9 DEF Post, TypeOK
  <2>. QED BY <1>9, <2>1 DEF Post, TypeOK
<1>10. CASE ReadError BY <1>10, EndType DEF ReadError
<1>11. CASE Heartbeat
  <2>1. CASE Begin("heart", Beat)
    BY <1>11, <2>1, BeginType, WriterFacts DEF Heartbeat, TypeOK, Writes
  <2>2. CASE Finish("heart")
    BY <1>11, <2>2, FinishType, WriterFacts DEF Heartbeat, TypeOK
  <2>. QED BY <1>11, <2>1, <2>2 DEF Heartbeat
<1>12. CASE Take
  <2>1. Head(wire["up"]) \in Requests \cup {Beat} /\ Tail(wire["up"]) \in Seq(Carries("up"))
    BY <1>12, TailType DEF Take, TypeOK, Carries
  <2>2. wire' = [d \in {"up", "down"} |-> wire'[d]] BY <1>12 DEF Take, TypeOK
  <2>3. \A d \in {"up", "down"} : wire'[d] \in Seq(Carries(d)) BY <1>12, <2>1 DEF Take, TypeOK
  <2>. QED BY <1>12, <2>1, <2>2, <2>3 DEF Take, TypeOK
<1>13. CASE Serve
  <2>1. request \in Requests \cup {Beat} BY <1>13 DEF Serve, TypeOK
  <2>2. request # Beat => /\ \A b \in BOOLEAN : Answer(request, b) \in Writes("coro")
                          /\ request.user \in Users \cup {NoUser}
    BY <2>1, RequestType DEF Writes, Requests
  <2>3. /\ writing' = [v \in Writers |-> writing'[v]]
        /\ \A v \in Writers : writing'[v] \in Writes(v) \cup {Nothing}
        /\ wire' = wire /\ upset' \in BOOLEAN
    <3>1. CASE request = Beat /\ Reply(Beat)
      BY <3>1, BeginType, WriterFacts DEF Reply, Writes, TypeOK
    <3>2. CASE request # Beat /\ \E b \in BOOLEAN : Reply(Answer(request, b))
      BY <3>2, <2>2, BeginType, WriterFacts DEF Reply, TypeOK
    <3>3. CASE request # Beat /\ HalfLogin
      BY <3>3, <2>2, WriterFacts DEF HalfLogin, TypeOK
    <3>. QED BY <1>13, <3>1, <3>2, <3>3 DEF Serve
  <2>4. request' = Nothing /\ session' \subseteq Users \cup {NoUser}
    BY <1>13, <2>2 DEF Serve, Reply, HalfLogin, TypeOK
  <2>. QED BY <1>13, <2>3, <2>4 DEF Serve, TypeOK
<1>14. CASE Output
  <2>1. Finish("coro") BY <1>14 DEF Output
  <2>. QED BY <1>14, <2>1, FinishType, WriterFacts DEF Output, TypeOK
<1>15. CASE PushMessage
  <2>1. CASE Begin("push", Push)
    BY <1>15, <2>1, BeginType, WriterFacts DEF PushMessage, TypeOK, Writes
  <2>2. CASE Finish("push")
    BY <1>15, <2>2, FinishType, WriterFacts DEF PushMessage, TypeOK
  <2>. QED BY <1>15, <2>1, <2>2 DEF PushMessage
<1>16. CASE Close
  <2>1. <<>> \in Seq(Carries("up")) OBVIOUS
  <2>2. \A d \in {"up", "down"} : wire'[d] \in Seq(Carries(d)) BY <1>16, <2>1 DEF Close, TypeOK
  <2>3. wire' = [d \in {"up", "down"} |-> wire'[d]] BY <1>16 DEF Close, TypeOK
  <2>4. writing' = [v \in Writers |-> writing'[v]] BY <1>16 DEF Close
  <2>5. \A v \in Writers : writing'[v] \in Writes(v) \cup {Nothing} BY <1>16 DEF Close, TypeOK
  <2>. QED BY <1>16, <2>2, <2>3, <2>4, <2>5 DEF Close, TypeOK
<1>17. CASE Start BY <1>17 DEF Start, TypeOK
<1>18. CASE UNCHANGED vars BY <1>18 DEF vars, TypeOK
<1>. QED BY <1>1, <1>2, <1>3, <1>4, <1>5, <1>6, <1>7, <1>8, <1>9, <1>10, <1>11, <1>12,
            <1>13, <1>14, <1>15, <1>16, <1>17, <1>18 DEF Next

-----------------------------------------------------------------------------
(* What a step does to the stations.                                       *)

LEMMA CleanAppend ==
  ASSUME NEW S, NEW s \in Seq(S), NEW g \in S, NEW c \in {<<>>, <<g>>, <<g, g>>},
         g \in Shown
  PROVE  /\ Clean(s) => Clean(s \o c)
         /\ \A f : One(s, f) => One(s \o c, f)
<1>1. PICK n \in 0..2 : n = Len(c) /\ \A i \in 1..n : c[i] = g OBVIOUS
<1>2. c \in Seq(S) /\ Len(c) = n BY <1>1, CopiesInSeq
<1>3. /\ DOMAIN (s \o c) = 1..(Len(s) + n) /\ Len(s) \in Nat /\ DOMAIN s = 1..Len(s)
      /\ \A i \in 1..(Len(s) + n) : (s \o c)[i] = IF i <= Len(s) THEN s[i] ELSE c[i - Len(s)]
  BY <1>2
<1>4. \A i \in 1..(Len(s) + n) : i \notin DOMAIN s => (s \o c)[i] \in Shown
  BY <1>1, <1>3
<1>. QED BY <1>3, <1>4 DEF Clean, One

LEMMA CleanTail ==
  ASSUME NEW S, NEW s \in Seq(S), s # <<>>
  PROVE  /\ Clean(s) => Clean(Tail(s)) /\ Head(s) \in Shown
         /\ \A f : f \notin Shown /\ One(s, f) =>
              \/ Head(s) = f /\ Clean(Tail(s))
              \/ Head(s) \in Shown /\ One(Tail(s), f)
<1>1. /\ Len(s) \in Nat \ {0} /\ DOMAIN s = 1..Len(s) /\ Head(s) = s[1]
      /\ DOMAIN Tail(s) = 1..(Len(s) - 1)
      /\ \A i \in 1..(Len(s) - 1) : Tail(s)[i] = s[i + 1]
  OBVIOUS
<1>2. Clean(s) => Clean(Tail(s)) /\ Head(s) \in Shown BY <1>1 DEF Clean
<1>3. ASSUME NEW f, f \notin Shown, One(s, f)
      PROVE  \/ Head(s) = f /\ Clean(Tail(s))
             \/ Head(s) \in Shown /\ One(Tail(s), f)
  <2>1. PICK i \in DOMAIN s : s[i] = f /\ \A j \in DOMAIN s \ {i} : s[j] \in Shown
    BY <1>3 DEF One
  <2>2. CASE i = 1 BY <1>1, <2>1, <2>2 DEF Clean
  <2>3. CASE i # 1
    <3>1. i - 1 \in DOMAIN Tail(s) /\ Tail(s)[i - 1] = f BY <1>1, <2>1, <2>3
    <3>2. \A j \in DOMAIN Tail(s) \ {i - 1} : Tail(s)[j] \in Shown BY <1>1, <2>1
    <3>. QED BY <1>1, <2>1, <2>3, <3>1, <3>2 DEF One
  <2>. QED BY <2>2, <2>3
<1>. QED BY <1>2, <1>3

LEMMA OneAppend ==
  ASSUME NEW S, NEW s \in Seq(S), NEW f \in S, Clean(s)
  PROVE  One(s \o <<f>>, f)
<1>1. /\ DOMAIN (s \o <<f>>) = 1..(Len(s) + 1) /\ Len(s) \in Nat /\ DOMAIN s = 1..Len(s)
      /\ (s \o <<f>>)[Len(s) + 1] = f
      /\ \A i \in 1..Len(s) : (s \o <<f>>)[i] = s[i]
  OBVIOUS
<1>. QED BY <1>1 DEF Clean, One

LEMMA SlotFacts ==
  /\ \A x : Clean(AsSeq(x)) <=> x = Nothing \/ x \in Shown
  /\ \A x, f : f # Nothing => (One(AsSeq(x), f) <=> x = f)
<1>1. \A x : x # Nothing => /\ AsSeq(x) = <<x>> /\ DOMAIN AsSeq(x) = {1}
                            /\ AsSeq(x)[1] = x
  BY DEF AsSeq
<1>2. DOMAIN AsSeq(Nothing) = {} BY DEF AsSeq
<1>3. ASSUME NEW x PROVE Clean(AsSeq(x)) <=> x = Nothing \/ x \in Shown
  <2>1. CASE x = Nothing BY <1>2, <2>1 DEF Clean
  <2>2. CASE x # Nothing BY <1>1, <2>2 DEF Clean
  <2>. QED BY <2>1, <2>2
<1>4. ASSUME NEW x, NEW f, f # Nothing PROVE One(AsSeq(x), f) <=> x = f
  <2>1. CASE x = Nothing BY <1>2, <1>4, <2>1 DEF One
  <2>2. CASE x # Nothing BY <1>1, <2>2 DEF One
  <2>. QED BY <2>1, <2>2
<1>. QED BY <1>3, <1>4

\* A step that leaves a station as it is, but for heartbeats and messages...
Same(p) ==
  /\ Clean(Pipe(p)) => Clean(Pipe(p))'
  /\ \A f \in Frames : One(Pipe(p), f) => One(Pipe(p), f)'

\* ...one that takes a frame from a station on to the next...
Moves(p, q) ==
  /\ \A r \in Stations \ {p, q} : Same(r)
  /\ ~Clean(Pipe(p)) /\ Clean(Pipe(q)) => Clean(Pipe(p))'
  /\ \A f \in Frames : One(Pipe(p), f) /\ Clean(Pipe(q)) => One(Pipe(q), f)'

\* ...and all that main, the reader and the session are in.
Affairs == <<at, asked, success, running, user, sem, handled, alive, open, session>>

LEMMA CleanOrOne ==
  \A s, f : f \notin Shown /\ One(s, f) => ~Clean(s)
BY DEF Clean, One

LEMMA FitsSame ==
  ASSUME UNCHANGED Affairs
  PROVE  /\ PageFits' = PageFits /\ FlagsFit' = FlagsFit /\ Connected' = Connected
         /\ \A p, f : Fits(p, f)' = Fits(p, f)
BY DEF Affairs, PageFits, FlagsFit, Connected, Fits, RequestFits, AnswerFits

LEMMA RestKeeps ==
  ASSUME StepInv, UNCHANGED Affairs, \A p \in Stations : Same(p)
  PROVE  StepInv'
<1>1. NothingDue => NothingDue' BY DEF NothingDue, Same
<1>2. \A p \in Stations, f \in Frames : DueAt(p, f) => DueAt(p, f)' BY DEF DueAt, Same
<1>3. AskedFits' BY DEF StepInv, AskedFits, Affairs
<1>4. CASE Free BY <1>1, <1>3, <1>4, FitsSame DEF StepInv, Free, Affairs
<1>5. CASE Answered BY <1>1, <1>3, <1>5, FitsSame DEF StepInv, Answered, Affairs
<1>6. CASE CutOff BY <1>1, <1>3, <1>6, FitsSame DEF StepInv, CutOff, Affairs
<1>7. ASSUME NEW p \in Stations, NEW f \in Frames, Waiting(p, f) PROVE StepInv'
  <2>1. Waiting(p, f)' BY <1>2, <1>7, FitsSame DEF Waiting, Affairs
  <2>. QED BY <1>3, <2>1 DEF StepInv
<1>. QED BY <1>4, <1>5, <1>6, <1>7 DEF StepInv

\* A request stays one until the proxy has served it, an answer until the reader
\* has acted on it.
LEMMA MoveKeeps ==
  ASSUME StepInv, UNCHANGED Affairs, ~handled,
         NEW p \in Stations, NEW q \in Stations, p # q, ~Clean(Pipe(p)), Moves(p, q),
         p \in {"main", "up", "request"} <=> q \in {"main", "up", "request"}
  PROVE  StepInv'
<1>1. ~NothingDue BY DEF NothingDue
<1>2. PICK r \in Stations, f \in Frames : Waiting(r, f)
  BY <1>1 DEF StepInv, Free, Answered, CutOff
<1>3. r = p BY <1>2 DEF Waiting, DueAt
<1>4. One(Pipe(p), f) /\ \A s \in Stations \ {p} : Clean(Pipe(s)) BY <1>2, <1>3 DEF Waiting, DueAt
<1>5. DueAt(q, f)' BY <1>4 DEF DueAt, Moves, Same
<1>6. Fits(q, f) <=> Fits(p, f) BY DEF Fits
<1>7. Waiting(q, f)' BY <1>2, <1>3, <1>5, <1>6, FitsSame DEF Waiting, Affairs
<1>8. AskedFits' BY DEF StepInv, AskedFits, Affairs
<1>. QED BY <1>7, <1>8 DEF StepInv

-----------------------------------------------------------------------------
(* What writing and reading do to the stations.                            *)

LEMMA BeginQuiet ==
  ASSUME TypeOK, NEW w \in {"heart", "coro", "push"}, NEW f \in Shown, Begin(w, f),
         request' = request \/ (request \in Shown /\ request' = Nothing), UNCHANGED reader
  PROVE  \A p \in Stations : Same(p)
<1>1. writing[w] = Nothing /\ wire' = wire BY DEF Begin, Idle
<1>2. /\ writing'["main"] = writing["main"]
      /\ writing'["coro"] = writing["coro"]
         \/ (writing["coro"] = Nothing /\ writing'["coro"] \in Shown)
  BY <1>1 DEF Begin, TypeOK, Writers
<1>3. Same("main") /\ Same("up") /\ Same("down") /\ Same("reader")
  BY <1>1, <1>2 DEF Same, Pipe, Clean, One, AsSeq
<1>4. Same("request") BY SlotFacts, FrameFacts DEF Same, Pipe, Frames
<1>5. Same("coro") BY <1>2, SlotFacts, FrameFacts DEF Same, Pipe, Frames
<1>. QED BY <1>3, <1>4, <1>5 DEF Stations

LEMMA FinishQuiet ==
  ASSUME TypeOK, NEW w \in Writers, Finish(w), writing[w] \in Shown,
         UNCHANGED <<request, reader>>
  PROVE  \A p \in Stations : Same(p)
<1>1. PICK c \in {<<>>, <<writing[w]>>, <<writing[w], writing[w]>>} :
        wire' = IF open THEN [wire EXCEPT ![Way(w)] = @ \o c] ELSE wire
  BY DEF Finish
<1>2. writing[w] \in Carries(Way(w)) BY WriterFacts DEF Finish, Idle, TypeOK
<1>3. /\ Clean(wire[Way(w)]) => Clean(wire[Way(w)] \o c)
      /\ \A f : One(wire[Way(w)], f) => One(wire[Way(w)] \o c, f)
  <2>1. wire[Way(w)] \in Seq(Carries(Way(w))) BY WriterFacts DEF TypeOK
  <2>. HIDE DEF TypeOK
  <2>. QED BY <1>2, <2>1, CleanAppend
<1>4. \A d \in {"up", "down"} : wire'[d] = wire[d] \/ (d = Way(w) /\ wire'[d] = wire[d] \o c)
  BY <1>1 DEF TypeOK
<1>5. Same("up") /\ Same("down") BY <1>3, <1>4 DEF Same, Pipe
<1>6. w # "main" BY FrameFacts, WriterFacts DEF TypeOK, Writes
<1>7. writing'["main"] = writing["main"] BY <1>6, WriterFacts DEF Finish, TypeOK
<1>8. writing'["coro"] = writing["coro"] \/ (writing["coro"] \in Shown /\ writing'["coro"] = Nothing)
  BY WriterFacts DEF Finish, TypeOK
<1>9. Same("main") BY <1>7 DEF Same, Pipe
<1>10. Same("coro") BY <1>8, SlotFacts, FrameFacts DEF Same, Pipe, Frames
<1>11. Same("request") /\ Same("reader") BY DEF Same, Pipe
<1>. QED BY <1>5, <1>9, <1>10, <1>11 DEF Stations

LEMMA FinishMoves ==
  ASSUME TypeOK, NEW w \in {"main", "coro"}, Finish(w), writing[w] \in Frames, open,
         ~upset', UNCHANGED <<request, reader>>
  PROVE  Moves(w, Way(w)) /\ ~Clean(Pipe(w))
<1>. DEFINE f == writing[w]
<1>1. f \notin Shown /\ f # Nothing BY FrameFacts DEF Frames
<1>2. wire' = [wire EXCEPT ![Way(w)] = @ \o <<f>>] BY <1>1 DEF Finish, Shown
<1>3. f \in Carries(Way(w)) BY <1>1, WriterFacts DEF TypeOK
<1>4. Clean(wire[Way(w)]) => One(wire'[Way(w)], f)
  BY <1>2, <1>3, OneAppend, WriterFacts DEF TypeOK
<1>5. \A d \in {"up", "down"} \ {Way(w)} : wire'[d] = wire[d] BY <1>2 DEF TypeOK
<1>6. writing'[w] = Nothing /\ \A v \in Writers \ {w} : writing'[v] = writing[v]
  BY WriterFacts DEF Finish, TypeOK
<1>7. Pipe(w) = AsSeq(f) /\ Pipe(w)' = AsSeq(Nothing) BY <1>6 DEF Pipe
<1>8. Clean(Pipe(w))' /\ ~Clean(Pipe(w)) /\ \A g \in Frames : One(Pipe(w), g) => g = f
  BY <1>1, <1>7, SlotFacts, FrameFacts DEF Frames
<1>9. Pipe(Way(w)) = wire[Way(w)] /\ Pipe(Way(w))' = wire'[Way(w)] BY WriterFacts DEF Pipe
<1>10. \A r \in Stations \ {w, Way(w)} : Same(r)
  BY <1>5, <1>6, WriterFacts DEF Same, Pipe, Stations
<1>. QED BY <1>4, <1>8, <1>9, <1>10 DEF Moves

LEMMA EndStep ==
  ASSUME End
  PROVE  StepInv' /\ ~upset' /\ ~alive'
<1>1. \A p \in Stations : Pipe(p)' = <<>> BY DEF End, Pipe, Stations, Writers, AsSeq
<1>2. NothingDue' BY <1>1 DEF NothingDue, Clean
<1>. QED BY <1>2 DEF End, StepInv, AskedFits, Free, PageFits

\* main sends the request r for the page it is on.
LEMMA AskStep ==
  ASSUME StepInv, asked = "none", NEW r \in Requests, Begin("main", r), TypeOK,
         UNCHANGED <<at, running, user, sem, reader, handled, alive, open, request, session>>,
         asked' = r.kind,
         at = IF r.kind \in {"login", "register"} THEN "start" ELSE "menu",
         r.kind \in {"command", "logout"} => r.user = user
  PROVE  StepInv'
<1>1. Free BY DEF StepInv, Answered, CutOff, Waiting
<1>2. r \in Frames /\ r \notin Shown /\ r # Nothing /\ r.kind \in Kinds BY FrameFacts DEF Frames
<1>3. /\ wire' = wire /\ writing'["main"] = r /\ writing'["coro"] = writing["coro"]
  BY DEF Begin, TypeOK, Writers
<1>4. One(Pipe("main"), r)' BY <1>2, <1>3, SlotFacts DEF Pipe
<1>5. \A q \in Stations \ {"main"} : Pipe(q)' = Pipe(q) BY <1>3 DEF Pipe, Stations
<1>6. DueAt("main", r)' BY <1>1, <1>4, <1>5 DEF Free, NothingDue, DueAt
<1>7. Connected' => Fits("main", r)'
  BY <1>1 DEF Free, Connected, Fits, RequestFits, PageFits
<1>8. Waiting("main", r)' BY <1>1, <1>2, <1>6, <1>7 DEF Waiting, Free, Kinds
<1>9. AskedFits' BY DEF AskedFits
<1>10. "main" \in Stations BY DEF Stations
<1>. QED BY <1>2, <1>8, <1>9, <1>10 DEF StepInv

-----------------------------------------------------------------------------
(* Every step keeps main and the proxy in step.                            *)

LEMMA SentStep ==
  ASSUME TypeOK, StepInv, ~upset', Sent
  PROVE  StepInv'
<1>. USE DEF readerVars, proxyVars, mainVars
<1>1. writing["main"] \in Frames BY DEF Sent, Finish, Idle, TypeOK, Writers, Writes, Frames
<1>2. Finish("main") /\ UNCHANGED Affairs /\ UNCHANGED <<request, reader>> BY DEF Sent, Affairs
<1>3. CASE open
  <2>1. Moves("main", "up") /\ ~Clean(Pipe("main")) BY <1>1, <1>2, <1>3, FinishMoves, WriterFacts
  <2>2. CASE ~handled BY <1>2, <2>1, <2>2, MoveKeeps DEF Stations
  <2>3. CASE handled
    <3>1. ~Clean(Pipe("reader"))
      BY <2>3, SlotFacts, FrameFacts DEF Pipe, TypeOK, Frames
    <3>. QED BY <2>1, <3>1 DEF StepInv, Free, Answered, CutOff, Waiting, NothingDue, DueAt, Stations
  <2>. QED BY <2>2, <2>3
<1>4. CASE ~open
  <2>1. ~Clean(Pipe("main")) BY <1>1, SlotFacts, FrameFacts DEF Pipe, Frames
  <2>2. PICK p \in Stations, f \in Frames : Waiting(p, f)
    BY <2>1 DEF StepInv, Free, Answered, CutOff, NothingDue, Stations
  <2>3. p = "main" BY <2>1, <2>2 DEF Waiting, DueAt, Stations
  <2>4. wire' = wire /\ writing'["main"] = Nothing /\ writing'["coro"] = writing["coro"]
    BY <1>2, <1>4 DEF Finish, TypeOK, Writers
  <2>5. Clean(Pipe("main"))' BY <2>4, SlotFacts DEF Pipe
  <2>6. \A q \in Stations \ {"main"} : Pipe(q)' = Pipe(q) BY <1>2, <2>4 DEF Pipe, Stations
  <2>7. NothingDue' BY <2>2, <2>3, <2>5, <2>6 DEF Waiting, DueAt, NothingDue
  <2>8. CutOff' BY <1>2, <1>4, <2>2, <2>7 DEF Sent, Waiting, CutOff, Connected, Affairs
  <2>. QED BY <1>2, <2>8 DEF StepInv, AskedFits, Affairs
<1>. QED BY <1>3, <1>4 DEF TypeOK

LEMMA ResumeStep ==
  ASSUME TypeOK, StepInv, Resume
  PROVE  StepInv'
<1>. USE DEF readerVars, proxyVars, wireVars
<1>1. Answered /\ sem' = 0 /\ asked' = "none"
  BY DEF Resume, StepInv, Free, Answered, CutOff, Waiting
<1>2. \A p \in Stations : Pipe(p)' = Pipe(p) BY DEF Resume, Pipe, Stations
<1>3. NothingDue' BY <1>1, <1>2 DEF Answered, NothingDue
<1>4. Connected' = Connected BY DEF Resume, Connected
<1>5. Connected => PageFits'
  BY <1>1 DEF Resume, Answered, FlagsFit, PageFits, TypeOK, Kinds, StepInv, AskedFits
<1>6. Free' BY <1>1, <1>3, <1>4, <1>5 DEF Free
<1>. QED BY <1>1, <1>6 DEF StepInv, AskedFits

LEMMA ReceiveStep ==
  ASSUME TypeOK, StepInv, Receive
  PROVE  StepInv'
<1>. USE DEF readerVars, proxyVars, mainVars
<1>. DEFINE s == wire["down"]
<1>1. /\ Pipe("down") = s /\ Pipe("down")' = Tail(s)
      /\ wire'["up"] = wire["up"]
  BY DEF Receive, Pipe, TypeOK
<1>2. /\ Clean(s) => Clean(Tail(s)) /\ Head(s) \in Shown
      /\ \A f : f \notin Shown /\ One(s, f) =>
           \/ Head(s) = f /\ Clean(Tail(s))
           \/ Head(s) \in Shown /\ One(Tail(s), f)
  BY CleanTail DEF Receive, TypeOK
<1>3. UNCHANGED Affairs /\ ~handled BY DEF Receive, Affairs, TypeOK
<1>4. \A r \in Stations \ {"down", "reader"} : Same(r) BY <1>1 DEF Receive, Same, Pipe, Stations
<1>5. CASE Head(s) \in Shown
  <2>1. Same("reader") BY <1>5 DEF Receive, Same, Pipe
  <2>2. Same("down") BY <1>1, <1>2, <1>5, FrameFacts DEF Same, Frames
  <2>. QED BY <1>3, <1>4, <2>1, <2>2, RestKeeps
<1>6. CASE Head(s) \notin Shown
  <2>1. ~Clean(Pipe("down")) BY <1>1, <1>2, <1>6
  <2>2. \A f \in Frames : One(Pipe("down"), f) => One(Pipe("reader"), f)' /\ Clean(Pipe("down"))'
    BY <1>1, <1>2, <1>6, SlotFacts, FrameFacts DEF Receive, Pipe, Frames
  <2>3. \A f \in Frames : One(Pipe("down"), f) => Clean(Pipe("down"))' BY <2>2
  <2>4. PICK p \in Stations, f \in Frames : Waiting(p, f)
    BY <2>1 DEF StepInv, Free, Answered, CutOff, NothingDue, Stations
  <2>5. p = "down" BY <2>1, <2>4 DEF Waiting, DueAt, Stations
  <2>6. Moves("down", "reader") BY <1>4, <2>2, <2>4, <2>5 DEF Moves, Waiting, DueAt
  <2>. QED BY <1>3, <2>1, <2>6, MoveKeeps DEF Stations
<1>. QED BY <1>5, <1>6

LEMMA HandleStep ==
  ASSUME TypeOK, StepInv, Handle
  PROVE  StepInv'
<1>. USE DEF readerVars, proxyVars, wireVars
<1>1. \A p \in Stations : Pipe(p)' = Pipe(p) BY DEF Handle, Pipe, Stations
<1>2. reader \in Answers BY DEF Handle, TypeOK
<1>3. ~Clean(Pipe("reader")) BY <1>2, SlotFacts, FrameFacts DEF Pipe
<1>4. PICK p \in Stations, f \in Frames : Waiting(p, f)
  BY <1>3 DEF StepInv, Free, Answered, CutOff, NothingDue, Stations
<1>5. p = "reader" BY <1>3, <1>4 DEF Waiting, DueAt, Stations
<1>6. f = reader BY <1>4, <1>5, SlotFacts, FrameFacts DEF Waiting, DueAt, Pipe, Frames
<1>7. DueAt(p, f)' BY <1>1, <1>4 DEF Waiting, DueAt
<1>8. Connected => AnswerFits(reader) BY <1>4, <1>5, <1>6 DEF Waiting, Fits, Handle
<1>9. reader.kind = asked BY <1>4, <1>6 DEF Waiting
<1>10. Connected => FlagsFit'
  BY <1>2, <1>8, <1>9 DEF Handle, AnswerFits, FlagsFit, PageFits, StepInv, AskedFits, Answers
<1>11. Connected' = Connected BY DEF Handle, Connected
<1>12. Waiting(p, f)'
  BY <1>4, <1>5, <1>7, <1>10, <1>11 DEF Handle, Waiting, Fits
<1>. QED BY <1>12 DEF StepInv, AskedFits, Handle

LEMMA PostStep ==
  ASSUME TypeOK, StepInv, Post
  PROVE  StepInv'
<1>. USE DEF mainVars, proxyVars, wireVars
<1>1. reader \in Answers BY DEF Post, TypeOK
<1>2. ~Clean(Pipe("reader")) BY <1>1, SlotFacts, FrameFacts DEF Pipe
<1>3. PICK p \in Stations, f \in Frames : Waiting(p, f)
  BY <1>2 DEF StepInv, Free, Answered, CutOff, NothingDue, Stations
<1>4. p = "reader" BY <1>2, <1>3 DEF Waiting, DueAt, Stations
<1>5. Clean(Pipe("reader"))' BY SlotFacts DEF Post, Pipe
<1>6. \A q \in Stations \ {"reader"} : Pipe(q)' = Pipe(q) BY DEF Post, Pipe, Stations
<1>7. NothingDue' BY <1>3, <1>4, <1>5, <1>6 DEF Waiting, DueAt, NothingDue
<1>8. Connected => FlagsFit BY <1>3, <1>4 DEF Waiting, Fits, Post
<1>9. Answered'
  BY <1>3, <1>7, <1>8 DEF Post, Waiting, Answered, FlagsFit, PageFits, Connected
<1>. QED BY <1>9 DEF StepInv, AskedFits, Post

LEMMA TakeStep ==
  ASSUME TypeOK, StepInv, Take
  PROVE  StepInv'
<1>. USE DEF readerVars, mainVars
<1>. DEFINE s == wire["up"]
<1>1. /\ Pipe("up") = s /\ Pipe("up")' = Tail(s)
      /\ wire'["down"] = wire["down"]
  BY DEF Take, Pipe, TypeOK
<1>2. /\ Clean(s) => Clean(Tail(s)) /\ Head(s) \in Shown
      /\ \A f : f \notin Shown /\ One(s, f) =>
           \/ Head(s) = f /\ Clean(Tail(s))
           \/ Head(s) \in Shown /\ One(Tail(s), f)
  BY CleanTail DEF Take, TypeOK
<1>3. UNCHANGED Affairs BY DEF Take, Affairs
<1>4. \A r \in Stations \ {"up", "request"} : Same(r) BY <1>1 DEF Take, Same, Pipe, Stations
<1>5. CASE Head(s) \in Shown
  <2>1. Same("request") BY <1>5, SlotFacts, FrameFacts DEF Take, Same, Pipe, Frames
  <2>2. Same("up") BY <1>1, <1>2, <1>5, FrameFacts DEF Same, Frames
  <2>. QED BY <1>3, <1>4, <2>1, <2>2, RestKeeps
<1>6. CASE Head(s) \notin Shown
  <2>1. ~Clean(Pipe("up")) BY <1>1, <1>2, <1>6
  <2>2. \A f \in Frames : One(Pipe("up"), f) => One(Pipe("request"), f)' /\ Clean(Pipe("up"))'
    BY <1>1, <1>2, <1>6, SlotFacts, FrameFacts DEF Take, Pipe, Frames
  <2>3. PICK p \in Stations, f \in Frames : Waiting(p, f)
    BY <2>1 DEF StepInv, Free, Answered, CutOff, NothingDue, Stations
  <2>4. p = "up" BY <2>1, <2>3 DEF Waiting, DueAt, Stations
  <2>5. Moves("up", "request") BY <1>4, <2>2, <2>3, <2>4 DEF Moves, Waiting, DueAt
  <2>6. ~handled
    <3>1. Clean(Pipe("reader")) BY <2>3, <2>4 DEF Waiting, DueAt, Stations
    <3>2. Clean(AsSeq(reader)) BY <3>1 DEF Pipe
    <3>3. reader = Nothing \/ reader \in Shown BY <3>2, SlotFacts
    <3>. QED BY <3>3, FrameFacts DEF TypeOK
  <2>. QED BY <1>3, <2>1, <2>5, <2>6, MoveKeeps DEF Stations
<1>. QED BY <1>5, <1>6

LEMMA ServeStep ==
  ASSUME TypeOK, StepInv, ~upset', Serve
  PROVE  StepInv'
<1>. USE DEF readerVars, mainVars
<1>1. CASE request = Beat
  <2>1. Begin("coro", Beat) /\ request' = Nothing /\ UNCHANGED <<reader, session>>
    BY <1>1 DEF Serve, Reply
  <2>2. \A p \in Stations : Same(p) BY <1>1, <2>1, BeginQuiet, FrameFacts
  <2>3. UNCHANGED Affairs BY <2>1 DEF Serve, Affairs
  <2>. QED BY <2>2, <2>3, RestKeeps
<1>2. CASE request # Beat
  <2>1. request \in Requests BY <1>2 DEF Serve, TypeOK
  <2>2. PICK b \in BOOLEAN :
          /\ Reply(Answer(request, b))
          /\ session' = IF ~b THEN session
                        ELSE CASE request.kind = "login"  -> session \cup {request.user}
                               [] request.kind = "logout" -> session \ {request.user}
                               [] OTHER                   -> session
    BY <1>2 DEF Serve, HalfLogin
  <2>. PICK a : a = Answer(request, b) OBVIOUS
  <2>3. a \in Frames /\ a \notin Shown /\ a # Nothing
    BY <2>1, RequestType, FrameFacts DEF Frames
  <2>4. a.kind = request.kind /\ a.user = request.user /\ a.ok = b BY DEF Answer
  <2>5. /\ wire' = wire /\ writing'["coro"] = a /\ writing'["main"] = writing["main"]
        /\ writing["coro"] = Nothing
    BY <2>2 DEF Reply, Begin, Idle, TypeOK, Writers
  <2>6. ~Clean(Pipe("request")) BY <2>1, SlotFacts, FrameFacts DEF Pipe, Frames
  <2>7. PICK p \in Stations, f \in Frames : Waiting(p, f)
    BY <2>6 DEF StepInv, Free, Answered, CutOff, NothingDue, Stations
  <2>8. p = "request" BY <2>6, <2>7 DEF Waiting, DueAt, Stations
  <2>9. f = request BY <2>7, <2>8, SlotFacts, FrameFacts DEF Waiting, DueAt, Pipe, Frames
  <2>10. One(Pipe("coro"), a)' BY <2>3, <2>5, SlotFacts DEF Pipe
  <2>11. Clean(Pipe("request"))' BY <2>2, SlotFacts DEF Reply, Pipe
  <2>12. \A q \in Stations \ {"request", "coro"} : Pipe(q)' = Pipe(q)
    BY <2>5 DEF Serve, Pipe, Stations
  <2>13. DueAt("coro", a)' BY <2>7, <2>8, <2>10, <2>11, <2>12 DEF Waiting, DueAt
  <2>14. open /\ RequestFits(request) /\ request.kind = asked
    BY <2>7, <2>8, <2>9 DEF Serve, Waiting, Connected, Fits
  <2>15. UNCHANGED <<at, asked, success, running, user, sem, handled, alive, open>>
    BY DEF Serve
  <2>16. AnswerFits(a)'
    <3>1. CASE asked = "login"
      <4>1. session = {} BY <2>14, <3>1 DEF RequestFits, PageFits, StepInv, AskedFits
      <4>. QED BY <2>2, <2>4, <2>14, <2>15, <3>1, <4>1 DEF AnswerFits
    <3>2. CASE asked = "logout"
      <4>1. session = {user} /\ running /\ request.user = user
        BY <2>14, <3>2 DEF RequestFits, PageFits, StepInv, AskedFits
      <4>. QED BY <2>2, <2>4, <2>14, <2>15, <3>2, <4>1 DEF AnswerFits
    <3>3. CASE asked \notin {"login", "logout"}
      BY <2>2, <2>14, <2>15, <3>3 DEF AnswerFits, RequestFits, PageFits
    <3>. QED BY <3>1, <3>2, <3>3
  <2>17. Waiting("coro", a)'
    BY <2>4, <2>7, <2>13, <2>14, <2>15, <2>16 DEF Waiting, Fits
  <2>18. "coro" \in Stations BY DEF Stations
  <2>. QED BY <2>3, <2>15, <2>17, <2>18 DEF StepInv, AskedFits
<1>. QED BY <1>1, <1>2

LEMMA OutputStep ==
  ASSUME TypeOK, StepInv, ~upset', Output
  PROVE  StepInv'
<1>. USE DEF readerVars, proxyVars, mainVars
<1>1. Finish("coro") /\ UNCHANGED Affairs /\ UNCHANGED <<request, reader>> /\ open
  BY DEF Output, Affairs
<1>2. CASE writing["coro"] \in Shown
  BY <1>1, <1>2, FinishQuiet, RestKeeps, WriterFacts
<1>3. CASE writing["coro"] \notin Shown
  <2>1. writing["coro"] \in Frames
    BY <1>1, <1>3, WriterFacts DEF Finish, Idle, TypeOK, Writes, Frames, Shown
  <2>2. Moves("coro", "down") /\ ~Clean(Pipe("coro")) BY <1>1, <2>1, FinishMoves, WriterFacts
  <2>3. PICK p \in Stations, f \in Frames : Waiting(p, f)
    BY <2>2 DEF StepInv, Free, Answered, CutOff, NothingDue, Stations
  <2>4. Clean(Pipe("reader")) BY <2>2, <2>3 DEF Waiting, DueAt, Stations
  <2>5. Clean(AsSeq(reader)) BY <2>4 DEF Pipe
  <2>6. reader = Nothing \/ reader \in Shown BY <2>5, SlotFacts
  <2>7. ~handled BY <2>6, FrameFacts DEF TypeOK
  <2>. QED BY <1>1, <2>2, <2>7, MoveKeeps DEF Stations
<1>. QED BY <1>2, <1>3

LEMMA CloseStep ==
  ASSUME TypeOK, StepInv, Close
  PROVE  StepInv'
<1>. USE DEF readerVars, mainVars
<1>1. /\ wire'["up"] = <<>> /\ wire'["down"] = wire["down"] /\ request' = Nothing
      /\ writing'["coro"] = Nothing /\ writing'["main"] = writing["main"]
  BY DEF Close, TypeOK, Writers, Way
<1>2. \A q \in {"main", "down", "reader"} : Pipe(q)' = Pipe(q) BY <1>1 DEF Close, Pipe
<1>3. \A q \in {"up", "request", "coro"} : Clean(Pipe(q))'
  BY <1>1, SlotFacts DEF Pipe, Clean
<1>4. ~Connected' /\ UNCHANGED <<at, asked, sem>> /\ AskedFits'
  BY DEF Close, Connected, TypeOK, StepInv, AskedFits
<1>5. NothingDue => NothingDue' BY <1>2, <1>3 DEF NothingDue, Stations
<1>6. CASE Free BY <1>4, <1>5, <1>6 DEF Free, StepInv
<1>7. CASE Answered BY <1>4, <1>5, <1>7 DEF Answered, StepInv
<1>8. CASE CutOff BY <1>4, <1>5, <1>8 DEF CutOff, StepInv
<1>9. ASSUME NEW p \in Stations, NEW f \in Frames, Waiting(p, f) PROVE StepInv'
  <2>1. CASE p \in {"main", "down", "reader"}
    <3>1. DueAt(p, f)' BY <1>2, <1>3, <1>9, <2>1 DEF Waiting, DueAt, Stations
    <3>2. Waiting(p, f)' BY <1>4, <1>9, <3>1 DEF Waiting
    <3>. QED BY <1>4, <3>2 DEF StepInv
  <2>2. CASE p \in {"up", "request", "coro"}
    <3>1. NothingDue' BY <1>2, <1>3, <1>9, <2>2 DEF Waiting, DueAt, NothingDue, Stations
    <3>. QED BY <1>4, <1>9, <3>1 DEF Waiting, CutOff, StepInv
  <2>. QED BY <2>1, <2>2 DEF Stations
<1>. QED BY <1>6, <1>7, <1>8, <1>9 DEF StepInv

LEMMA InitInv == Init => IInv
<1>. SUFFICES ASSUME Init PROVE IInv OBVIOUS
<1>1. TypeOK BY InitType
<1>2. \A p \in Stations : Pipe(p) = <<>> BY DEF Init, Pipe, Stations, Writers, AsSeq
<1>3. NothingDue BY <1>2 DEF NothingDue, Clean
<1>4. Free BY <1>3 DEF Init, Free, PageFits
<1>. QED BY <1>1, <1>4 DEF Init, IInv, StepInv, AskedFits

\* What has been upset stays so until the process ends.
LEMMA UpsetStays == [Next]_vars => End \/ (upset => upset')
BY DEF Next, vars, wireVars, Login, Register, Command, Send, Begin, Sent, Finish, Resume, Quit,
       Receive, Handle, Post, ReadError, Heartbeat, Take, Serve, Reply, HalfLogin, Output,
       PushMessage, Close, Start

LEMMA AliveUntilEnd == [Next]_vars => End \/ alive' = alive \/ Start
BY DEF Next, vars, Login, Register, Command, Sent, Resume, Quit,
       Receive, Handle, Post, ReadError, Heartbeat, Take, Serve, Output,
       PushMessage, Close, Start

LEMMA NextInv == IInv /\ [Next]_vars => IInv'
<1>. SUFFICES ASSUME IInv, [Next]_vars PROVE IInv' OBVIOUS
<1>. USE DEF readerVars, proxyVars, wireVars, mainVars
<1>1. TypeOK /\ TypeOK' BY NextType DEF IInv
<1>2. CASE End BY <1>1, <1>2, EndStep DEF IInv
<1>3. CASE ~End
  <2>1. upset => upset' BY <1>3, UpsetStays
  <2>2. ~alive' => ~upset'
    <3>1. SUFFICES ASSUME ~alive' PROVE ~upset' OBVIOUS
    <3>2. ~alive /\ ~open /\ ~upset BY <1>1, <1>3, <3>1, AliveUntilEnd DEF Start, IInv, TypeOK
    <3>. QED BY <3>1, <3>2 DEF Next, vars, Login, Register, Command, Chooses, Sent, Resume, Quit,
             Receive, Handle, Post, ReadError, Heartbeat, Take, Serve, Output, PushMessage, Close, Start
  <2>3. SUFFICES ASSUME ~upset' PROVE StepInv' BY <1>1, <2>2 DEF IInv
  <2>4. StepInv BY <2>1, <2>3 DEF IInv
  <2>5. CASE Login
    <3>1. PICK u \in Users : Send("login", u) BY <2>5 DEF Login
    <3>2. Request("login", u) \in Requests BY RequestType DEF Kinds
    <3>. QED BY <1>1, <2>4, <2>5, <3>1, <3>2, AskStep DEF Login, Chooses, Send, Request
  <2>6. CASE Register
    <3>1. Request("register", NoUser) \in Requests BY RequestType DEF Kinds
    <3>. QED BY <1>1, <2>4, <2>6, <3>1, AskStep DEF Register, Chooses, Send, Request
  <2>7. CASE Command
    <3>1. PICK kind \in {"command", "logout"} : Send(kind, user) BY <2>7 DEF Command
    <3>2. Request(kind, user) \in Requests BY <1>1, RequestType DEF Kinds, TypeOK
    <3>. QED BY <1>1, <2>4, <2>7, <3>1, <3>2, AskStep DEF Command, Chooses, Send, Request
  <2>8. CASE Sent BY <1>1, <2>3, <2>4, <2>8, SentStep
  <2>9. CASE Resume BY <1>1, <2>4, <2>9, ResumeStep
  <2>10. CASE Receive BY <1>1, <2>4, <2>10, ReceiveStep
  <2>11. CASE Handle BY <1>1, <2>4, <2>11, HandleStep
  <2>12. CASE Post BY <1>1, <2>4, <2>12, PostStep
  <2>13. CASE Heartbeat
    <3>1. UNCHANGED Affairs /\ UNCHANGED <<request, reader>> BY <2>13 DEF Heartbeat, Affairs
    <3>2. CASE Begin("heart", Beat)
      BY <1>1, <2>4, <3>1, <3>2, BeginQuiet, RestKeeps, FrameFacts
    <3>3. CASE Finish("heart")
      <4>1. writing["heart"] \in Shown
        BY <1>1, <3>3, WriterFacts, FrameFacts DEF Finish, Idle, TypeOK, Writes
      <4>. QED BY <1>1, <2>4, <3>1, <3>3, <4>1, FinishQuiet, RestKeeps, WriterFacts
    <3>. QED BY <2>13, <3>2, <3>3 DEF Heartbeat
  <2>14. CASE Take BY <1>1, <2>4, <2>14, TakeStep
  <2>15. CASE Serve BY <1>1, <2>3, <2>4, <2>15, ServeStep
  <2>16. CASE Output BY <1>1, <2>3, <2>4, <2>16, OutputStep
  <2>17. CASE PushMessage
    <3>1. UNCHANGED Affairs /\ UNCHANGED <<request, reader>> BY <2>17 DEF PushMessage, Affairs
    <3>2. CASE Begin("push", Push)
      BY <1>1, <2>4, <3>1, <3>2, BeginQuiet, RestKeeps, FrameFacts
    <3>3. CASE Finish("push")
      <4>1. writing["push"] \in Shown
        BY <1>1, <3>3, WriterFacts, FrameFacts DEF Finish, Idle, TypeOK, Writes
      <4>. QED BY <1>1, <2>4, <3>1, <3>3, <4>1, FinishQuiet, RestKeeps, WriterFacts
    <3>. QED BY <2>17, <3>2, <3>3 DEF PushMessage
  <2>18. CASE Close BY <1>1, <2>4, <2>18, CloseStep
  <2>19. CASE Start
    <3>1. \A p \in Stations : Pipe(p)' = Pipe(p) BY <2>19 DEF Start, Pipe, Stations
    <3>2. NothingDue' <=> NothingDue BY <3>1 DEF NothingDue
    <3>3. \A p \in Stations, f \in Frames : DueAt(p, f)' <=> DueAt(p, f) BY <3>1 DEF DueAt
    <3>4. Connected /\ Connected' BY <2>19 DEF Start, Connected
    <3>5. PageFits' = PageFits /\ FlagsFit' = FlagsFit /\ \A p, f : Fits(p, f)' = Fits(p, f)
      BY <2>19 DEF Start, PageFits, FlagsFit, Fits, RequestFits, AnswerFits
    <3>6. UNCHANGED <<at, asked, sem>> BY <2>19 DEF Start
    <3>. QED BY <2>4, <3>2, <3>3, <3>4, <3>5, <3>6 DEF StepInv, AskedFits, Free, Answered, CutOff, Waiting
  <2>20. CASE UNCHANGED vars
    <3>1. UNCHANGED Affairs BY <2>20 DEF vars, Affairs
    <3>2. \A p \in Stations : Same(p) BY <2>20 DEF vars, Same, Pipe, Clean, One, Stations, AsSeq
    <3>. QED BY <2>4, <3>1, <3>2, RestKeeps
  <2>. QED BY <1>3, <2>5, <2>6, <2>7, <2>8, <2>9, <2>10, <2>11, <2>12, <2>13, <2>14, <2>15, <2>16,
              <2>17, <2>18, <2>19, <2>20 DEF Next, Quit, ReadError
<1>. QED BY <1>2, <1>3

LEMMA Invariance == Spec => []IInv
BY InitInv, NextInv, PTL DEF Spec

-----------------------------------------------------------------------------
(* The theorems.                                                           *)

\* The frames are where and what they should be: requests and heartbeats go up,
\* answers, heartbeats and messages come down, whatever is lost or doubled
\* (ChatClient and the proxy's coroutine of the connection).
THEOREM TypeCorrect == Spec => []TypeOK
<1>1. IInv => TypeOK BY DEF IInv
<1>. QED BY <1>1, Invariance, PTL

\* While no fault has hit a request or an answer, there is one for every wait of
\* main and none without one: rwsem_ is posted once for each sem_wait.
THEOREM MainAndProxyInStep == Spec => []OneAnswerPerWait
<1>1. IInv => OneAnswerPerWait
  <2>. SUFFICES ASSUME IInv, alive, ~upset PROVE OneAnswerPerWait BY DEF OneAnswerPerWait
  <2>1. NothingDue => Due = {} BY DEF NothingDue, Clean, Due
  <2>2. ASSUME NEW p \in Stations, NEW f \in Frames, Waiting(p, f)
        PROVE  \E d \in Due : Due = {d} /\ Pipe(d[1])[d[2]].kind = asked
    <3>1. PICK i \in DOMAIN Pipe(p) :
            Pipe(p)[i] = f /\ \A j \in DOMAIN Pipe(p) \ {i} : Pipe(p)[j] \in Shown
      BY <2>2 DEF Waiting, DueAt, One
    <3>2. \A q \in Stations \ {p} : \A j \in DOMAIN Pipe(q) : Pipe(q)[j] \in Shown
      BY <2>2 DEF Waiting, DueAt, Clean
    <3>3. f \notin Shown BY FrameFacts DEF Frames
    <3>4. Due = {<<p, i>>} BY <3>1, <3>2, <3>3 DEF Due
    <3>. QED BY <2>2, <3>1, <3>4 DEF Waiting
  <2>3. CutOff => ~open BY DEF CutOff, Connected
  <2>. QED BY <2>1, <2>2, <2>3 DEF IInv, StepInv, Free, Answered, CutOff, Waiting, OneAnswerPerWait
<1>. QED BY <1>1, Invariance, PTL

\* What a request says of its user is what the proxy knows of the connection,
\* though dispatch (chat_service_dispatcher.cpp) does not compare them.
THEOREM UserIdsAreTheSessions == Spec => []RequestsSpeakForSession
<1>1. IInv => RequestsSpeakForSession
  <2>. SUFFICES ASSUME IInv, open, ~upset, request \in Requests PROVE RequestsSpeakForSession
    BY DEF RequestsSpeakForSession, IInv, TypeOK, Beat, Nothing
  <2>1. ~Clean(Pipe("request")) BY SlotFacts, FrameFacts DEF Pipe, Frames
  <2>2. PICK p \in Stations, f \in Frames : Waiting(p, f)
    BY <2>1 DEF IInv, StepInv, Free, Answered, CutOff, NothingDue, Stations
  <2>3. p = "request" BY <2>1, <2>2 DEF Waiting, DueAt, Stations
  <2>4. f = request BY <2>2, <2>3, SlotFacts, FrameFacts DEF Waiting, DueAt, Pipe, Frames
  <2>5. RequestFits(request) /\ request.kind = asked
    BY <2>2, <2>3, <2>4 DEF Waiting, Fits, Connected
  <2>. QED BY <2>5 DEF RequestsSpeakForSession, RequestFits, PageFits, IInv, StepInv, AskedFits
<1>. QED BY <1>1, Invariance, PTL
=============================================================================
