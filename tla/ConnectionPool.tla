--------------------------- MODULE ConnectionPool ---------------------------
(***************************************************************************)
(* The pool of MySQL (or Redis) connections of one service process, the    *)
(* same code in all four services.                                         *)
(*                                                                         *)
(* Request threads take a connection in the constructor of every DAO and   *)
(* give it back in its destructor; a handler with two DAOs holds two.  The *)
(* first one to come starts the pool: it opens InitSize connections and    *)
(* launches a producer thread, which opens another whenever none is idle,  *)
(* and a scanner thread, which closes those that have been idle too long.  *)
(* One mutex and one condition variable serve all of them.  A critical     *)
(* section is one action, except the scanner's, which spins in it.         *)
(***************************************************************************)
EXTENDS Integers, Sequences, FiniteSets

CONSTANTS
  Threads,   \* threads that handle requests
  Conns,     \* bound: connections that can be open at the MySQL server
  InitSize,  \* init_pool_size
  MaxSize,   \* max_pool_size
  MaxNeed,   \* how many connections one request may hold
  Closes     \* whether ~T closes the connection: ~Redis does, ~MySQL does not

ASSUME SizeAssumption ==
  InitSize \in Nat /\ MaxSize \in Nat \ {0} /\ MaxNeed \in Nat \ {0}
ASSUME ClosesAssumption == Closes \in BOOLEAN

VARIABLES
  queue,     \* connectionQueue_
  cnt,       \* connectionCnt_
  started,   \* started_
  pc,        \* per thread: where it is in init() and getConnection()
  filled,    \* per thread: connections it has opened in init()
  need,      \* per thread: connections its request still has to get
  held,      \* per thread: connections it has
  producer,  \* per thread: the producer thread it launched
  scanner,   \* per thread: the scanner thread it launched
  aged,      \* idle connections whose age exceeds max_free_time
  up,        \* FALSE once the process's behaviour is undefined
  open,      \* connections open at the server
  drained    \* history: the scanner took the last idle connection

requests == <<pc, filled, need, held>>
helpers  == <<producer, scanner>>
vars == <<queue, cnt, started, pc, filled, need, held, producer, scanner, aged,
          up, open, drained>>

Init ==
  /\ queue = <<>>
  /\ cnt = 0
  /\ started = FALSE
  /\ pc = [t \in Threads |-> "idle"]
  /\ filled = [t \in Threads |-> 0]
  /\ need = [t \in Threads |-> 0]
  /\ held = [t \in Threads |-> {}]
  /\ producer = [t \in Threads |-> "none"]
  /\ scanner = [t \in Threads |-> "none"]
  /\ aged = {}
  /\ up = TRUE
  /\ open = {}
  /\ drained = FALSE

-----------------------------------------------------------------------------
(* Helpers.                                                                *)

Idle == { queue[i] : i \in DOMAIN queue }

\* The mutex is free: no scanner is in its loop.
Unlocked == up /\ \A t \in Threads : scanner[t] # "scanning"

\* The pcs and the producers after notify_all, when t itself goes on at step.
Notified(t, step) ==
  [x \in Threads |-> IF x = t THEN step ELSE IF pc[x] = "asleep" THEN "ask" ELSE pc[x]]
Alert == [t \in Threads |-> IF producer[t] = "asleep" THEN "awake" ELSE producer[t]]

\* A new connection is idle from now on.
Add(c) ==
  /\ c \in Conns \ open
  /\ open' = open \cup {c}
  /\ queue' = Append(queue, c)
  /\ cnt' = cnt + 1

-----------------------------------------------------------------------------
(* Request threads.                                                        *)

\* The constructor of the first DAO of a request; started_ is read unlocked.
Begin(t) ==
  /\ up /\ pc[t] = "idle"
  /\ pc' = [pc EXCEPT ![t] = IF started THEN "ask" ELSE "fill"]
  /\ \E n \in 1..MaxNeed : need' = [need EXCEPT ![t] = n]
  /\ UNCHANGED <<queue, cnt, started, filled, held, helpers, aged, up, open, drained>>

\* Somebody else may be using the queue.
Racing(t) == \E x \in Threads \ {t} : pc[x] # "idle" \/ producer[x] # "none"

\* Mutant: the loop of init() runs once more than it should.
FillOnceMore(t) ==
  /\ up /\ pc[t] = "fill" /\ filled[t] <= InitSize
  /\ \E c \in Conns : Add(c)
  /\ filled' = [filled EXCEPT ![t] = @ + 1]
  /\ UNCHANGED <<started, pc, need, held, helpers, aged, up, drained>>

\* init() pushes without the lock.  A push that overlaps another access to
\* the queue is a data race.
Fill(t) ==
  /\ up /\ pc[t] = "fill" /\ filled[t] < InitSize
  /\ \/ /\ \E c \in Conns : Add(c)
        /\ filled' = [filled EXCEPT ![t] = @ + 1]
        /\ UNCHANGED up
     \/ /\ Racing(t)
        /\ up' = FALSE
        /\ UNCHANGED <<queue, cnt, open, filled>>
  /\ UNCHANGED <<started, pc, need, held, helpers, aged, drained>>

\* The end of init(): the two threads run, and the pool counts as started.
Launch(t) ==
  /\ up /\ pc[t] = "fill" /\ filled[t] = InitSize
  /\ producer' = [producer EXCEPT ![t] = "awake"]
  /\ scanner' = [scanner EXCEPT ![t] = "sleeping"]
  /\ started' = TRUE
  /\ pc' = [pc EXCEPT ![t] = "ask"]
  /\ filled' = [filled EXCEPT ![t] = 0]
  /\ UNCHANGED <<queue, cnt, need, held, aged, up, open, drained>>

\* Mutant: the connection is handed out and stays in the queue.
TakeWithoutPop(t) ==
  /\ Unlocked /\ pc[t] \in {"ask", "asleep"} /\ queue # <<>>
  /\ held' = [held EXCEPT ![t] = @ \cup {Head(queue)}]
  /\ need' = [need EXCEPT ![t] = @ - 1]
  /\ pc' = [pc EXCEPT ![t] = IF need[t] = 1 THEN "use" ELSE "ask"]
  /\ UNCHANGED <<queue, cnt, started, filled, aged, up, open, drained, helpers>>

\* Mutant: nobody is told that the queue is empty now.
TakeSilently(t) ==
  /\ Unlocked /\ pc[t] \in {"ask", "asleep"} /\ queue # <<>>
  /\ queue' = Tail(queue)
  /\ aged' = aged \ {Head(queue)}
  /\ held' = [held EXCEPT ![t] = @ \cup {Head(queue)}]
  /\ need' = [need EXCEPT ![t] = @ - 1]
  /\ pc' = [pc EXCEPT ![t] = IF need[t] = 1 THEN "use" ELSE "ask"]
  /\ UNCHANGED <<cnt, started, filled, up, open, drained, helpers>>

\* getConnection with an idle connection, also when wait_for has timed out.
\* The thread that takes the last one wakes everybody.
Take(t) ==
  /\ Unlocked /\ pc[t] \in {"ask", "asleep"} /\ queue # <<>>
  /\ queue' = Tail(queue)
  /\ aged' = aged \ {Head(queue)}
  /\ held' = [held EXCEPT ![t] = @ \cup {Head(queue)}]
  /\ need' = [need EXCEPT ![t] = @ - 1]
  /\ LET step == IF need[t] = 1 THEN "use" ELSE "ask"
     IN  IF queue' = <<>>
           THEN /\ pc' = Notified(t, step) /\ producer' = Alert
                /\ drained' = FALSE
           ELSE /\ pc' = [pc EXCEPT ![t] = step]
                /\ UNCHANGED <<producer, drained>>
  /\ UNCHANGED <<cnt, started, filled, scanner, up, open>>

\* getConnection with none: wait_for.
Sleep(t) ==
  /\ Unlocked /\ pc[t] = "ask" /\ queue = <<>>
  /\ pc' = [pc EXCEPT ![t] = "asleep"]
  /\ UNCHANGED <<queue, cnt, started, filled, need, held, helpers, aged, up, open, drained>>

\* ...which times out: getConnection returns nullptr, and the DAO uses it.
TimeOut(t) ==
  /\ Unlocked /\ pc[t] = "asleep" /\ queue = <<>>
  /\ up' = FALSE
  /\ UNCHANGED <<queue, cnt, started, requests, helpers, aged, open, drained>>

\* A DAO is destroyed: the deleter puts its connection back and tells nobody.
GiveBack(t) ==
  /\ Unlocked /\ pc[t] = "use"
  /\ \E c \in held[t] :
       /\ queue' = Append(queue, c)
       /\ held' = [held EXCEPT ![t] = @ \ {c}]
       /\ pc' = IF held[t] = {c} THEN [pc EXCEPT ![t] = "idle"] ELSE pc
  /\ UNCHANGED <<cnt, started, filled, need, helpers, aged, up, open, drained>>

-----------------------------------------------------------------------------
(* The producer and the scanner that thread h has launched.                *)

\* Mutant: the limit is checked one too late.
ProduceOneMore(h) ==
  /\ Unlocked /\ producer[h] = "awake" /\ queue = <<>>
  /\ cnt <= MaxSize /\ \E c \in Conns : Add(c)
  /\ pc' = Notified(h, IF pc[h] = "asleep" THEN "ask" ELSE pc[h])
  /\ producer' = Alert
  /\ UNCHANGED <<started, filled, need, held, scanner, aged, up, drained>>

\* produceConnection with an empty queue: another connection, if there may be
\* one, and in any case notify_all.
Produce(h) ==
  /\ Unlocked /\ producer[h] = "awake" /\ queue = <<>>
  /\ \/ cnt < MaxSize /\ \E c \in Conns : Add(c)
     \/ cnt >= MaxSize /\ UNCHANGED <<queue, cnt, open>>
  /\ pc' = Notified(h, IF pc[h] = "asleep" THEN "ask" ELSE pc[h])
  /\ producer' = Alert
  /\ UNCHANGED <<started, filled, need, held, scanner, aged, up, drained>>

ProducerWaits(h) ==
  /\ Unlocked /\ producer[h] = "awake" /\ queue # <<>>
  /\ producer' = [producer EXCEPT ![h] = "asleep"]
  /\ UNCHANGED <<queue, cnt, started, requests, scanner, aged, up, open, drained>>

\* The scanner wakes up from its sleep and takes the lock...
ScanBegin(h) ==
  /\ Unlocked /\ scanner[h] = "sleeping"
  /\ scanner' = [scanner EXCEPT ![h] = "scanning"]
  /\ UNCHANGED <<queue, cnt, started, requests, producer, aged, up, open, drained>>

\* ...and keeps it until the pool has shrunk to its initial size.
ScanEnd(h) ==
  /\ up /\ scanner[h] = "scanning" /\ cnt <= InitSize
  /\ scanner' = [scanner EXCEPT ![h] = "sleeping"]
  /\ UNCHANGED <<queue, cnt, started, requests, producer, aged, up, open, drained>>

\* Mutant: the scanner closes a connection without taking it off the queue.
CloseWithoutPop(h) ==
  /\ up /\ scanner[h] = "scanning" /\ cnt > InitSize
  /\ queue # <<>> /\ Head(queue) \in aged
  /\ cnt' = cnt - 1
  /\ open' = IF Closes THEN open \ {Head(queue)} ELSE open
  /\ UNCHANGED <<queue, aged, drained, started, requests, helpers, up>>

\* Mutant: the age is compared in the wrong unit and never reached.
CloseNever(h) == FALSE /\ UNCHANGED vars

\* The connection that has been idle longest is closed when it is old enough.
Close(h) ==
  /\ up /\ scanner[h] = "scanning" /\ cnt > InitSize
  /\ queue # <<>> /\ Head(queue) \in aged
  /\ queue' = Tail(queue)
  /\ cnt' = cnt - 1
  /\ aged' = aged \ {Head(queue)}
  /\ open' = IF Closes THEN open \ {Head(queue)} ELSE open
  /\ drained' = (drained \/ queue' = <<>>)
  /\ UNCHANGED <<started, requests, helpers, up>>

\* front() of an empty queue.
ReadPastEnd(h) ==
  /\ up /\ scanner[h] = "scanning" /\ cnt > InitSize
  /\ queue = <<>>
  /\ up' = FALSE
  /\ UNCHANGED <<queue, cnt, started, requests, helpers, aged, open, drained>>

\* The clock of getAliveTime moves on: the longest idle get old first.
GrowOld ==
  /\ up
  /\ \E i \in DOMAIN queue :
       /\ queue[i] \notin aged
       /\ \A j \in 1..(i - 1) : queue[j] \in aged
       /\ aged' = aged \cup {queue[i]}
  /\ UNCHANGED <<queue, cnt, started, requests, helpers, up, open, drained>>

Handle(t) == Fill(t) \/ Launch(t) \/ Take(t) \/ Sleep(t) \/ GiveBack(t)
Scan(h)   == ScanEnd(h) \/ Close(h) \/ ReadPastEnd(h)

Next ==
  \/ \E t \in Threads : Begin(t) \/ Handle(t) \/ TimeOut(t)
  \/ \E h \in Threads : Produce(h) \/ ProducerWaits(h) \/ ScanBegin(h) \/ Scan(h)
  \/ GrowOld

Spec == Init /\ [][Next]_vars

\* Every thread that can go on does.  A scanner that spins uses up processor
\* time, which is what clock() measures, so what is idle grows old.  A wait is
\* not sure to time out: every notify_all starts its 100 ms anew.
Fairness ==
  /\ \A t \in Threads : WF_vars(Handle(t))
  /\ \A h \in Threads : WF_vars(Produce(h) \/ ProducerWaits(h)) /\ WF_vars(Scan(h))
  /\ WF_vars(GrowOld)

FairSpec == Spec /\ Fairness

-----------------------------------------------------------------------------
(* Properties.                                                             *)

\* Type invariant.
TypeOK ==
  /\ queue \in Seq(Conns)
  /\ cnt \in Nat
  /\ started \in BOOLEAN
  /\ pc \in [Threads -> {"idle", "fill", "ask", "asleep", "use"}]
  /\ filled \in [Threads -> 0..InitSize]
  /\ need \in [Threads -> 0..MaxNeed]
  /\ held \in [Threads -> SUBSET Conns]
  /\ producer \in [Threads -> {"none", "awake", "asleep"}]
  /\ scanner \in [Threads -> {"none", "sleeping", "scanning"}]
  /\ aged \subseteq Conns
  /\ up \in BOOLEAN
  /\ open \subseteq Conns
  /\ drained \in BOOLEAN

\* A connection is idle once or in the hands of one thread, and it is open:
\* two requests never talk over the same connection, and none is handed out
\* after the scanner has closed it.
NoSharing ==
  /\ \A i, j \in DOMAIN queue : queue[i] = queue[j] => i = j
  /\ \A t, x \in Threads : t # x => held[t] \cap held[x] = {}
  /\ \A t \in Threads : held[t] \cap Idle = {}
  /\ Idle \cup UNION { held[t] : t \in Threads } \subseteq open

InUse == UNION { held[t] : t \in Threads }

\* The atomic counter, which init(), the producer and the scanner change in
\* different places, is the number of connections there are.
CountExact == cnt = Cardinality(Idle) + Cardinality(InUse)

Starters == { t \in Threads : pc[t] = "fill" \/ producer[t] # "none" }

\* The pool outgrows max_pool_size, which init() does not look at, by at most
\* the initial connections of every thread but one that starts it.
CountBounded ==
  InitSize <= MaxSize =>
    cnt = 0 \/ cnt <= MaxSize + InitSize * (Cardinality(Starters) - 1)

\* When there is no idle connection some producer is awake to open one --
\* unless it was the scanner that took the last one.
ProducerSleepExplained ==
  /\ queue = <<>> /\ ~drained
  => \A h \in Threads : producer[h] # "asleep"

\* The scanner does not keep the pool locked for ever, however young the
\* connection at the front is.
ScannerLetsGo ==
  \A h \in Threads : [](scanner[h] = "scanning" => <>(scanner[h] = "sleeping" \/ ~up))

\* The pool with its queue and threads is a pool.
Promise == INSTANCE BoundedPool
             WITH Users <- Threads, Connections <- Conns, idle <- Idle, lent <- held
KeepsPoolPromise == Promise!Spec
=============================================================================
