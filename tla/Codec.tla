-------------------------------- MODULE Codec --------------------------------
(***************************************************************************)
(* ChatServiceCodeC: frames on the byte stream of one connection, the same *)
(* code in the client, the proxy and (makePackage) ChatService.            *)
(*                                                                         *)
(*     MAGIC_BEGIN | length of the body | body | MAGIC_END                 *)
(*                                                                         *)
(* where the body is the type of the message and its payload.  The stream  *)
(* comes in pieces of any size.  After a piece decode looks, from the      *)
(* first byte on, for a frame that is all there; it does not drop what it  *)
(* has passed over.                                                        *)
(*                                                                         *)
(* Bytes that belong to no frame get into the stream when two threads      *)
(* encode into one buffer (module ChatClient): the shorter frame is        *)
(* written over the head of the longer, whose tail is left.                *)
(***************************************************************************)
EXTENDS Integers, Sequences

CONSTANTS
  Bodies,      \* what a body may be, after the serial number that it begins with
  MaxFrames,   \* bound: frames that are sent
  Tails        \* what may be left of frames that were written over

VARIABLES
  sent,      \* the bodies of the frames sent, in their order
  ends,      \* where in the stream each of these frames ends
  tail,      \* the tail that got into the stream, if one did
  stream,    \* bytes that have been sent and have not arrived
  arrived,   \* number of bytes that have
  buffer,    \* the receiver's TcpBuffer from readIndex to writeIndex
  got        \* the bodies decoded, in their order

vars == <<sent, ends, tail, stream, arrived, buffer, got>>

MagicBegin == <<170, 187, 204, 221>>
MagicEnd   == <<221, 204, 187, 170>>

\* htonl and getInt32FromNetByte; a length is far below 2^31, and bytes that
\* would read as a negative one are not among the inputs.
Word(n) ==
  LET q == n \div 256
      r == q \div 256 IN
  <<r \div 256, r % 256, q % 256, n % 256>>

Int32(b, i) == ((b[i] * 256 + b[i + 1]) * 256 + b[i + 2]) * 256 + b[i + 3]

Encode(body) == MagicBegin \o Word(Len(body)) \o body \o MagicEnd

Reads(b, i, word) == \A j \in 1 .. 4 : b[i + j - 1] = word[j]

\* As long as the head at i says, a frame has its end in b, and the end is one.
Fits(b, i) == i + 7 <= Len(b) /\ i + 7 + Int32(b, i + 4) + 4 <= Len(b)
Ends(b, i) == Reads(b, i + 8 + Int32(b, i + 4), MagicEnd)

\* Mutant: the end of the frame is not looked at.
WholeUnended(b, i) == i + 3 < Len(b) /\ Reads(b, i, MagicBegin) /\ Fits(b, i)

\* A frame begins at i and is all there.
Whole(b, i) ==
  /\ i + 3 < Len(b) /\ Reads(b, i, MagicBegin)
  /\ Fits(b, i) /\ Ends(b, i)

Frames(b) == { i \in 1 .. Len(b) : Whole(b, i) }

-----------------------------------------------------------------------------
(* What the code relies on and does not enforce: nothing is escaped, and a *)
(* payload can hold what reads as the head of a frame.                     *)

Heads(b)    == { i \in 1 .. Len(b) - 3 : Reads(b, i, MagicBegin) }
Frame(k, b) == Encode(<<k>> \o b)

\* The head at i never makes a frame, whatever comes after b.
Harmless(b, i) == Fits(b, i) /\ ~Ends(b, i)

ASSUME ByteAssumption ==
  /\ MaxFrames \in Nat
  /\ Bodies \subseteq Seq(Nat)
  /\ Tails \subseteq Seq(Nat)

\* No body holds a frame, and a head near its end, where a tail can make the
\* receiver begin to read, makes none with what follows either.
ASSUME BodyAssumption ==
  \A b \in Bodies, k \in 1 .. MaxFrames :
    \A i \in Heads(Frame(k, b)) \ {1} :
      /\ Fits(Frame(k, b), i) => ~Ends(Frame(k, b), i)
      /\ \A t \in Tails : i + Len(t) > Len(Frame(k, b)) => Harmless(Frame(k, b), i)

\* No tail makes a frame, by itself or with the last byte of what it follows.
ASSUME TailAssumption ==
  \A t \in Tails :
    /\ \A i \in Heads(t) : Harmless(t, i)
    /\ \E j \in 1 .. 3 : j <= Len(t) => t[j] # MagicBegin[j + 1]

-----------------------------------------------------------------------------

Init ==
  /\ sent = <<>> /\ ends = <<>> /\ tail = <<>>
  /\ stream = <<>> /\ arrived = 0
  /\ buffer = <<>> /\ got = <<>>

Total   == arrived + Len(stream)

Send ==
  /\ Len(sent) < MaxFrames
  /\ \E b \in Bodies :
       LET body == <<Len(sent) + 1>> \o b IN
       /\ sent' = Append(sent, body)
       /\ stream' = stream \o Encode(body)
       /\ ends' = Append(ends, Total + Len(Encode(body)))
  /\ UNCHANGED <<tail, arrived, buffer, got>>

\* Bound: one tail.
LeaveTail ==
  /\ sent # <<>>
  /\ tail = <<>>
  /\ tail' \in Tails
  /\ stream' = stream \o tail'
  /\ UNCHANGED <<sent, ends, arrived, buffer, got>>

Arrive ==
  /\ \E n \in 1 .. Len(stream) :
       /\ buffer' = buffer \o SubSeq(stream, 1, n)
       /\ stream' = SubSeq(stream, n + 1, Len(stream))
       /\ arrived' = arrived + n
  /\ UNCHANGED <<sent, ends, tail, got>>

\* The first frame is taken, and as many bytes as it is long are recycled: the
\* first ones of the buffer, not its own.
Decode ==
  \E i \in Frames(buffer) :
    LET n == Int32(buffer, i + 4) IN
    /\ \A j \in Frames(buffer) : i <= j
    /\ got' = Append(got, SubSeq(buffer, i + 8, i + 7 + n))
    /\ buffer' = SubSeq(buffer, n + 13, Len(buffer))
    /\ UNCHANGED <<sent, ends, tail, stream, arrived>>

Next == Send \/ LeaveTail \/ Arrive \/ Decode

Spec == Init /\ [][Next]_vars

-----------------------------------------------------------------------------
(* Property.                                                               *)

\* The receiver gets the frames that were sent, unaltered and in their order,
\* and a frame that has arrived whole waits for nothing: wherever the stream is
\* cut, whatever a body looks like, and with a tail of a lost frame between.  It
\* gets a frame a second time only if the tail before it is no shorter than the
\* frame (decode, chat_service_codec.cpp).
FramesInOrder ==
  LET serial == [i \in DOMAIN got |-> got[i][1]]
      whole  == { k \in DOMAIN ends : ends[k] <= arrived } IN
  /\ \A i \in DOMAIN got : serial[i] \in whole /\ got[i] = sent[serial[i]]
  /\ \A i \in 2 .. Len(got) :
       \/ serial[i] = serial[i - 1] + 1
       \/ serial[i] = serial[i - 1] /\ Len(tail) >= Len(Encode(got[i]))
  /\ got # <<>> => serial[1] = 1
  /\ Frames(buffer) = {} => whole \subseteq { serial[i] : i \in DOMAIN got }
=============================================================================
