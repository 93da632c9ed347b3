------------------------------- MODULE MCCodec -------------------------------
(* Small instances of Codec for TLC.                                         *)
EXTENDS Codec

\* What looks like the head of a frame with n bytes, before seven others.
Alike(n) == MagicBegin \o Word(n) \o <<7, 7, 7, 7, 7, 7, 7>>

\* No payload, a short one, one whose seeming frame has no end, and one whose
\* seeming frame ends where the next one does when that has no payload.
SomeBodies == {<<>>, <<7>>, Alike(3), Alike(20)}

\* What the shortest frame leaves of one of these, and less.
Lost == Encode(<<0>> \o Alike(3))
SomeTails == { SubSeq(Lost, Len(Lost) - n + 1, Len(Lost)) : n \in {1, 4, 13, 14, 15} }
=============================================================================
