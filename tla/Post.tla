-------------------------------- MODULE Post --------------------------------
(***************************************************************************)
(* What sending promises, whatever proxies, services and stores are behind *)
(* it: there is one verdict on a message, it is a success only when the    *)
(* copy of every receiver has got in, nothing gets in after the verdict,   *)
(* and what has become of a copy in the end does not change any more.      *)
(***************************************************************************)
CONSTANTS Messages, Users, Receivers

VARIABLES
  verdict,  \* per message: what the service has come to
  place     \* per message and user: where the copy is

Final == {"shown", "gone"}

Init ==
  /\ verdict = [m \in Messages |-> "none"]
  /\ place = [m \in Messages |-> [u \in Users |-> "nowhere"]]

\* A copy gets in, and may get through at once.
Enters(m, u) ==
  /\ verdict[m] = "none" /\ u \in Receivers[m]
  /\ place[m][u] = "nowhere" /\ place'[m][u] \in {"inside"} \cup Final

Ends(m, u) == place[m][u] = "inside" /\ place'[m][u] \in Final

Rests(m, u) == place'[m][u] = place[m][u]

Concludes(m) ==
  /\ verdict[m] = "none"
  /\ \/ verdict'[m] = "refused"
     \/ verdict'[m] = "accepted" /\ \A u \in Receivers[m] : place'[m][u] # "nowhere"

Next ==
  /\ \A m \in Messages, u \in Users : Rests(m, u) \/ Enters(m, u) \/ Ends(m, u)
  /\ \A m \in Messages : verdict'[m] = verdict[m] \/ Concludes(m)

vars == <<verdict, place>>

Spec == Init /\ [][Next]_vars
=============================================================================
