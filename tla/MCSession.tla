------------------------------ MODULE MCSession ------------------------------
(* Small instances of Session for TLC.                                     *)
EXTENDS Session, TLC

CONSTANTS c1, c2, p1

OneProxy == [c \in Conns |-> p1]
SameHome == Permutations({c1, c2})
=============================================================================
