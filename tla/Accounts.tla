------------------------------ MODULE Accounts ------------------------------
(***************************************************************************)
(* What logging in promises, whatever stores, services and proxies are     *)
(* behind it: an account, once registered, exists for good; its user is in *)
(* at one place at most, stays there until he is logged out, and gets in   *)
(* again only after that; and each of these things happens at once, to one *)
(* account.  An account the implementation has to give up is lost, and     *)
(* nothing is promised of where its user is any more.                      *)
(***************************************************************************)
CONSTANTS Users, Places

VARIABLES
  accounts, \* the accounts there are
  at,       \* per account: the places its user is logged in from
  lost      \* accounts that have been given up

Init ==
  /\ accounts \subseteq Users
  /\ at = [u \in Users |-> {}]
  /\ lost = {}

Register(u) ==
  /\ u \notin accounts
  /\ accounts' = accounts \cup {u}
  /\ UNCHANGED <<at, lost>>

Login(u, p) ==
  /\ u \in accounts \ lost /\ at[u] = {}
  /\ at' = [at EXCEPT ![u] = {p}]
  /\ UNCHANGED <<accounts, lost>>

Logout(u) ==
  /\ at[u] # {}
  /\ at' = [at EXCEPT ![u] = {}]
  /\ UNCHANGED <<accounts, lost>>

Lose(S) ==
  /\ lost' = lost \cup S
  /\ at' = [u \in Users |-> IF u \in S THEN {} ELSE at[u]]
  /\ UNCHANGED accounts

Next ==
  \/ \E u \in Users : Register(u) \/ Logout(u) \/ \E p \in Places : Login(u, p)
  \/ \E S \in SUBSET Users : Lose(S)

vars == <<accounts, at, lost>>

Spec == Init /\ [][Next]_vars
=============================================================================
