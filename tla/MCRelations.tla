----------------------------- MODULE MCRelations -----------------------------
(* Small instances of Relations for TLC.                                     *)
EXTENDS Relations, TLC

CONSTANTS u1, u2

\* Both users do with the group what can be done; one has friends.
SomeJobs == GroupJobs \cup { j \in FriendJobs : j.user = u1 }

\* Only the account is hidden that the other one befriends.
OneHidden == hidden \subseteq {u2}

Interchangeable == Permutations(Workers)
=============================================================================
