------------------------------ MODULE MCDelivery ------------------------------
(* Small instances of Delivery for TLC.                                      *)
EXTENDS Delivery, TLC

CONSTANTS c1, c2, p1, p2

OneProxy   == [c \in Conns |-> p1]
TwoProxies == [c \in Conns |-> IF c = c2 THEN p2 ELSE p1]
NoneUpset  == upset = {}
OtherUp    == mode[p1] # "down" /\ mode[p2] = "up"
NoneLate   == faults = 0

\* User v comes only while the message is on its way and c1, which u may have
\* used before, is the only connection; and he stays.
VTakesOver ==
  (\E c \in Conns : arg[c] = "v" \/ who[c] = "v") =>
    /\ stage["m"] \notin {"none", "ask"} /\ pc[c2] = "none"
    /\ pc[c1] \in {"login_rpc", "insert", "load", "ready"} /\ alive[c1]

ToAll == [m \in Messages |-> Users]
=============================================================================
