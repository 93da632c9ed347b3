------------------------------- MODULE Mailbox -------------------------------
(***************************************************************************)
(* What offline delivery promises for one user's messages, whatever the    *)
(* queue, the table and the number of processes behind it: a sender gets   *)
(* one answer, nothing is accepted that never got in, and what the user    *)
(* has been shown, or what is lost for good, does not change any more.     *)
(***************************************************************************)
CONSTANT Messages

VARIABLES
  answer,   \* what the sender was told
  place     \* where the message is

Init ==
  /\ answer = [m \in Messages |-> "none"]
  /\ place = [m \in Messages |-> "nowhere"]

\* While its sender has no answer yet a message may get in, again if need be.
Enter(m) ==
  /\ answer[m] = "none"
  /\ place[m] \in {"nowhere", "lost"}
  /\ place' = [place EXCEPT ![m] = "inside"]
  /\ UNCHANGED answer

Accept(m) ==
  /\ answer[m] = "none"
  /\ place[m] # "nowhere"
  /\ answer' = [answer EXCEPT ![m] = "accepted"]
  /\ UNCHANGED place

Refuse(m) ==
  /\ answer[m] = "none"
  /\ answer' = [answer EXCEPT ![m] = "refused"]
  /\ UNCHANGED place

\* The user reads his mail: some of what is inside is shown, at once.
Show ==
  /\ \E S \in SUBSET Messages :
       /\ \A m \in S : place[m] = "inside"
       /\ place' = [m \in Messages |-> IF m \in S THEN "shown" ELSE place[m]]
  /\ UNCHANGED answer

Lose ==
  /\ \E S \in SUBSET Messages :
       /\ \A m \in S : place[m] = "inside"
       /\ place' = [m \in Messages |-> IF m \in S THEN "lost" ELSE place[m]]
  /\ UNCHANGED answer

Next ==
  \/ \E m \in Messages : Enter(m) \/ Accept(m) \/ Refuse(m)
  \/ Show
  \/ Lose

vars == <<answer, place>>

Spec == Init /\ [][Next]_vars
=============================================================================
