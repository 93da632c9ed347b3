---------------------------- MODULE BoundedPool ----------------------------
(***************************************************************************)
(* What a connection pool promises its users, whatever its threads do:     *)
(* a connection is lent to one user at a time, comes back from the user    *)
(* who has it, and is thrown away only while nobody has it.                *)
(***************************************************************************)
CONSTANTS Users, Connections

VARIABLES
  idle,   \* connections nobody has
  lent    \* per user: the connections it has

Lent == UNION { lent[u] : u \in Users }

Init == idle = {} /\ lent = [u \in Users |-> {}]

Open(c) == c \notin idle \cup Lent /\ idle' = idle \cup {c} /\ UNCHANGED lent

Close(c) == c \in idle /\ idle' = idle \ {c} /\ UNCHANGED lent

Borrow(u, c) ==
  /\ c \in idle
  /\ idle' = idle \ {c}
  /\ lent' = [lent EXCEPT ![u] = @ \cup {c}]

Return(u, c) ==
  /\ c \in lent[u]
  /\ idle' = idle \cup {c}
  /\ lent' = [lent EXCEPT ![u] = @ \ {c}]

Next ==
  \E c \in Connections :
    \/ Open(c) \/ Close(c)
    \/ \E u \in Users : Borrow(u, c) \/ Return(u, c)

vars == <<idle, lent>>

Spec == Init /\ [][Next]_vars
=============================================================================
