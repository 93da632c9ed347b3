----------------------------- MODULE MCPresence -----------------------------
(* Small instances of Presence for TLC.                                    *)
EXTENDS Presence, TLC

Interchangeable == Permutations(Workers) \cup Permutations(Hosts)
=============================================================================
