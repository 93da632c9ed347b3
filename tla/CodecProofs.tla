------------------------------ MODULE CodecProofs ------------------------------
(***************************************************************************)
(* That every frame is decoded as it was sent, in its order and as soon as it *)
(* is there, for bodies and tails of any length and however the stream is    *)
(* cut, on the conditions that Codec names.                                 *)
(***************************************************************************)
EXTENDS Codec, TLAPS

-----------------------------------------------------------------------------
(* Sequences of bytes, and how a frame is put together.                    *)

\* What the operators on sequences return, byte by byte.
LEMMA Concat ==
  ASSUME NEW s \in Seq(Nat), NEW t \in Seq(Nat)
  PROVE  /\ s \o t \in Seq(Nat)
         /\ Len(s \o t) = Len(s) + Len(t)
         /\ \A j \in 1 .. Len(s) : (s \o t)[j] = s[j]
         /\ \A j \in 1 .. Len(t) : (s \o t)[Len(s) + j] = t[j]
OBVIOUS

LEMMA Appended ==
  ASSUME NEW S, NEW s \in Seq(S), NEW x \in S
  PROVE  /\ Append(s, x) \in Seq(S)
         /\ Len(Append(s, x)) = Len(s) + 1
         /\ Append(s, x)[Len(s) + 1] = x
         /\ \A j \in 1 .. Len(s) : Append(s, x)[j] = s[j]
         /\ Append(s, x) # <<>>
OBVIOUS

LEMMA Suffix ==
  ASSUME NEW s \in Seq(Nat), NEW m \in 0 .. Len(s)
  PROVE  /\ SubSeq(s, m + 1, Len(s)) \in Seq(Nat)
         /\ Len(SubSeq(s, m + 1, Len(s))) = Len(s) - m
         /\ \A j \in 1 .. Len(s) - m : SubSeq(s, m + 1, Len(s))[j] = s[m + j]
OBVIOUS

LEMMA Prefix ==
  ASSUME NEW s \in Seq(Nat), NEW m \in 0 .. Len(s)
  PROVE  /\ SubSeq(s, 1, m) \in Seq(Nat)
         /\ Len(SubSeq(s, 1, m)) = m
         /\ \A j \in 1 .. m : SubSeq(s, 1, m)[j] = s[j]
OBVIOUS

LEMMA Segment ==
  ASSUME NEW s \in Seq(Nat), NEW a \in Nat, NEW n \in Nat, a + n <= Len(s), NEW t \in Seq(Nat),
         Len(t) = n, \A j \in 1 .. n : t[j] = s[a + j]
  PROVE  SubSeq(s, a + 1, a + n) = t
OBVIOUS

\* htonl and getInt32FromNetByte are each other's inverse.
LEMMA Digit ==
  \A n \in Nat : /\ n = ((n \div 256) * 256) + (n % 256)
                 /\ n \div 256 \in Nat
                 /\ n % 256 \in Nat
OBVIOUS

\* Four bytes, which read as the number they were made of.
LEMMA WordReads ==
  \A n \in Nat : Word(n) \in Seq(Nat) /\ Len(Word(n)) = 4 /\ Int32(Word(n), 1) = n
<1> TAKE n \in Nat
<1> DEFINE q == n \div 256  r == q \div 256
<1>1. /\ q \in Nat /\ r \in Nat
      /\ n = (q * 256) + (n % 256) /\ n % 256 \in Nat
      /\ q = (r * 256) + (q % 256) /\ q % 256 \in Nat
      /\ r = ((r \div 256) * 256) + (r % 256) /\ r \div 256 \in Nat /\ r % 256 \in Nat
  BY Digit
<1>2. Word(n) = <<r \div 256, r % 256, q % 256, n % 256>>
  BY DEF Word
<1> HIDE DEF q, r
<1>3. Int32(Word(n), 1)
        = (((((r \div 256) * 256) + (r % 256)) * 256 + (q % 256)) * 256) + (n % 256)
  BY <1>2 DEF Int32
<1>4. Int32(Word(n), 1) = n
  BY <1>1, <1>3
<1>5. Word(n) \in Seq(Nat) /\ Len(Word(n)) = 4
  BY <1>1, <1>2
<1> QED BY <1>4, <1>5

\* The four parts of a frame and where they are.
LEMMA MagicReads ==
  /\ MagicBegin \in Seq(Nat) /\ Len(MagicBegin) = 4
  /\ MagicEnd \in Seq(Nat) /\ Len(MagicEnd) = 4
BY DEF MagicBegin, MagicEnd

\* A frame, byte by byte.
LEMMA EncodeParts ==
  ASSUME NEW b \in Seq(Nat)
  PROVE  /\ Encode(b) \in Seq(Nat)
         /\ Len(Encode(b)) = Len(b) + 12
         /\ \A j \in 1 .. 4 : Encode(b)[j] = MagicBegin[j]
         /\ \A j \in 1 .. 4 : Encode(b)[4 + j] = Word(Len(b))[j]
         /\ \A j \in 1 .. Len(b) : Encode(b)[8 + j] = b[j]
         /\ \A j \in 1 .. 4 : Encode(b)[8 + Len(b) + j] = MagicEnd[j]
<1> DEFINE w == Word(Len(b))  x == Encode(b)
<1>1. Len(b) \in Nat
  OBVIOUS
<1>2. w \in Seq(Nat) /\ Len(w) = 4
  BY <1>1, WordReads
<1>3. x = MagicBegin \o w \o b \o MagicEnd
  BY DEF Encode
<1> HIDE DEF w, x
<1>4. /\ x \in Seq(Nat)
      /\ Len(x) = Len(MagicBegin) + Len(w) + Len(b) + Len(MagicEnd)
      /\ \A j \in 1 .. Len(MagicBegin) : x[j] = MagicBegin[j]
      /\ \A j \in 1 .. Len(w) : x[Len(MagicBegin) + j] = w[j]
      /\ \A j \in 1 .. Len(b) : x[Len(MagicBegin) + Len(w) + j] = b[j]
      /\ \A j \in 1 .. Len(MagicEnd) : x[Len(MagicBegin) + Len(w) + Len(b) + j] = MagicEnd[j]
  <2>1. MagicBegin \in Seq(Nat) /\ MagicEnd \in Seq(Nat) /\ w \in Seq(Nat)
    BY <1>2, MagicReads
  <2> QED
    BY <1>3, <2>1
<1>5. /\ x \in Seq(Nat)
      /\ Len(x) = 4 + 4 + Len(b) + 4
      /\ \A j \in 1 .. 4 : x[j] = MagicBegin[j]
      /\ \A j \in 1 .. 4 : x[4 + j] = w[j]
      /\ \A j \in 1 .. Len(b) : x[4 + 4 + j] = b[j]
      /\ \A j \in 1 .. 4 : x[4 + 4 + Len(b) + j] = MagicEnd[j]
  BY <1>2, <1>4, MagicReads, Zenon
<1> QED BY <1>5, <1>1 DEF w, x

-----------------------------------------------------------------------------
(* The inductive invariant, in positions of the stream from its first byte *)
(* on: frame k is the bytes from Start(k) + 1 to ends[k].                   *)

Size(k)  == Len(sent[k]) + 12
Start(k) == ends[k] - Size(k)

\* The bytes between frame k and what comes after it.
Gap(k) == (IF k < Len(sent) THEN Start(k + 1) ELSE Total) - ends[k]

\* What has been recycled, and the bytes that have not.
Base  == arrived - Len(buffer)
Bytes == [p \in Base + 1 .. Total |->
            IF p <= arrived THEN buffer[p - Base] ELSE stream[p - arrived]]

TypeOK ==
  /\ sent \in Seq(Seq(Nat)) /\ Len(sent) <= MaxFrames
  /\ \A k \in 1 .. Len(sent) : \E b \in Bodies : sent[k] = <<k>> \o b
  /\ ends \in Seq(Nat) /\ Len(ends) = Len(sent)
  /\ tail \in Tails \cup {<<>>}
  /\ stream \in Seq(Nat) /\ arrived \in Nat
  /\ buffer \in Seq(Nat) /\ Len(buffer) <= arrived
  /\ got \in Seq(Seq(Nat))

\* Frame after frame, and one gap at most, as long as the tail.
Layout ==
  /\ sent = <<>> => tail = <<>> /\ Total = 0
  /\ sent # <<>> => Start(1) = 0
  /\ \A k \in 1 .. Len(sent) : ends[k] <= Total /\ Gap(k) \in 0 .. Len(tail)
  /\ \A j, k \in 1 .. Len(sent) : j < k => ends[j] <= Start(k)
  /\ \A j, k \in 1 .. Len(sent) : Gap(j) > 0 /\ Gap(k) > 0 => j = k

Content ==
  \A k \in 1 .. Len(sent) : \A j \in 1 .. Size(k) :
    Start(k) + j > Base => Bytes[Start(k) + j] = Encode(sent[k])[j]

\* Outside the frames nothing makes one.
Dead(p) ==
  /\ p + 7 <= Total
  /\ p + 11 + Int32(Bytes, p + 4) <= Total
  /\ ~Reads(Bytes, p + 8 + Int32(Bytes, p + 4), MagicEnd)

NoDecoy ==
  \A p \in Base + 1 .. Total - 3 :
    Reads(Bytes, p, MagicBegin) =>
      \/ \E k \in 1 .. Len(sent) : Start(k) < p /\ p + 3 <= ends[k]
      \/ Dead(p)

\* What was decoded last, and how far recycling is behind it: the gap, if it
\* has been passed.
Now == got[Len(got)][1]

Place ==
  /\ got = <<>> => Base = 0
  /\ got # <<>> =>
       /\ Base <= ends[Now] /\ ends[Now] - Base <= Len(tail)
       /\ Now > 1 => Start(Now - 1) < Base
       /\ ends[Now] > Base => \A j \in Now .. Len(sent) : Gap(j) = 0

Decoded ==
  /\ \A i \in DOMAIN got :
       /\ got[i][1] \in 1 .. Len(sent)
       /\ ends[got[i][1]] <= arrived
       /\ got[i] = sent[got[i][1]]
  /\ \A i \in 2 .. Len(got) :
       \/ got[i][1] = got[i - 1][1] + 1
       \/ got[i][1] = got[i - 1][1] /\ Len(tail) >= Len(Encode(got[i]))
  /\ got # <<>> => got[1][1] = 1 /\ \A k \in 1 .. Now : \E i \in DOMAIN got : got[i][1] = k

IInv == TypeOK /\ Layout /\ Content /\ NoDecoy /\ Place /\ Decoded

-----------------------------------------------------------------------------
(* Reading.                                                                *)

\* What is read depends on the bytes that are looked at and nothing else.
LEMMA SameReads ==
  ASSUME NEW f, NEW g, NEW p \in Int, NEW q \in Int, NEW w,
         \A j \in 0 .. 3 : f[p + j] = g[q + j]
  PROVE  Reads(f, p, w) <=> Reads(g, q, w)
<1>1. \A j \in 1 .. 4 : f[p + j - 1] = g[q + j - 1]
  <2> TAKE j \in 1 .. 4
  <2>1. j - 1 \in 0 .. 3 /\ p + (j - 1) = p + j - 1 /\ q + (j - 1) = q + j - 1
    OBVIOUS
  <2> QED
    BY <2>1
<1> QED
  BY <1>1 DEF Reads

\* The same for a length.
LEMMA SameInt32 ==
  ASSUME NEW f, NEW g, NEW p \in Int, NEW q \in Int,
         \A j \in 0 .. 3 : f[p + j] = g[q + j]
  PROVE  Int32(f, p) = Int32(g, q)
<1>1. f[p + 0] = g[q + 0] /\ f[p + 1] = g[q + 1] /\ f[p + 2] = g[q + 2] /\ f[p + 3] = g[q + 3]
  OBVIOUS
<1>2. p + 0 = p /\ q + 0 = q
  OBVIOUS
<1> QED
  BY <1>1, <1>2 DEF Int32

\* Bytes read as a natural number.
LEMMA Int32Nat ==
  ASSUME NEW f, NEW p \in Int, \A j \in 0 .. 3 : f[p + j] \in Nat
  PROVE  Int32(f, p) \in Nat
<1>1. f[p + 0] \in Nat /\ f[p + 1] \in Nat /\ f[p + 2] \in Nat /\ f[p + 3] \in Nat
  OBVIOUS
<1>2. p + 0 = p
  OBVIOUS
<1> QED
  BY <1>1, <1>2 DEF Int32

\* A frame begins and ends with the magic numbers and tells how long it is.
LEMMA FrameReads ==
  ASSUME NEW b \in Seq(Nat)
  PROVE  /\ Encode(b) \in Seq(Nat) /\ Len(Encode(b)) = Len(b) + 12
         /\ Reads(Encode(b), 1, MagicBegin)
         /\ Int32(Encode(b), 5) = Len(b)
         /\ Reads(Encode(b), Len(b) + 9, MagicEnd)
         /\ \A j \in 1 .. Len(b) : Encode(b)[8 + j] = b[j]
<1> DEFINE e == Encode(b)
<1>1. Len(b) \in Nat
  OBVIOUS
<1>2. e \in Seq(Nat) /\ Len(e) = Len(b) + 12 /\ \A j \in 1 .. Len(b) : e[8 + j] = b[j]
  BY EncodeParts
<1>3. \A j \in 1 .. 4 : e[j] = MagicBegin[j]
  BY EncodeParts
<1>4. \A j \in 1 .. 4 : e[4 + j] = Word(Len(b))[j]
  BY EncodeParts
<1>5. \A j \in 1 .. 4 : e[8 + Len(b) + j] = MagicEnd[j]
  BY EncodeParts
<1> HIDE DEF e
<1>6. Reads(e, 1, MagicBegin)
  <2>1. \A j \in 1 .. 4 : 1 + j - 1 = j
    OBVIOUS
  <2> QED
    BY <1>3, <2>1 DEF Reads
<1>7. Int32(e, 5) = Len(b)
  <2>1. \A j \in 0 .. 3 : e[5 + j] = Word(Len(b))[1 + j]
    <3> TAKE j \in 0 .. 3
    <3>1. 1 + j \in 1 .. 4 /\ 4 + (1 + j) = 5 + j
      OBVIOUS
    <3> QED
      BY <3>1, <1>4
  <2>2. Int32(e, 5) = Int32(Word(Len(b)), 1)
    BY <2>1, SameInt32
  <2> QED
    BY <2>2, <1>1, WordReads
<1>8. Reads(e, Len(b) + 9, MagicEnd)
  <2>1. \A j \in 1 .. 4 : Len(b) + 9 + j - 1 = 8 + Len(b) + j
    BY <1>1
  <2> QED
    BY <1>5, <2>1 DEF Reads
<1> QED
  BY <1>2, <1>6, <1>7, <1>8 DEF e

\* What has been sent is a frame of one of the bodies.
LEMMA SentFrame ==
  ASSUME TypeOK, NEW k \in 1 .. Len(sent)
  PROVE  /\ sent[k] \in Seq(Nat) /\ Len(sent[k]) \in Nat \ {0} /\ sent[k][1] = k
         /\ Size(k) = Len(sent[k]) + 12 /\ Size(k) \in Nat
         /\ Len(Encode(sent[k])) = Size(k)
         /\ \E b \in Bodies : k \in 1 .. MaxFrames /\ Encode(sent[k]) = Frame(k, b)
<1>1. sent[k] \in Seq(Nat)
  BY DEF TypeOK
<1>2. PICK b \in Bodies : sent[k] = <<k>> \o b
  BY DEF TypeOK
<1>3. b \in Seq(Nat)
  BY ByteAssumption
<1>4. Len(sent[k]) \in Nat \ {0} /\ sent[k][1] = k
  BY <1>2, <1>3
<1>5. Len(Encode(sent[k])) = Len(sent[k]) + 12
  BY <1>1, FrameReads
<1>6. k \in 1 .. MaxFrames
  BY ByteAssumption DEF TypeOK
<1>7. Encode(sent[k]) = Frame(k, b)
  BY <1>2 DEF Frame
<1> QED
  BY <1>1, <1>4, <1>5, <1>6, <1>7 DEF Size

\* The bytes that have arrived and have not been recycled are the buffer's.
LEMMA InBuffer ==
  ASSUME TypeOK
  PROVE  /\ Base \in Nat /\ arrived = Base + Len(buffer) /\ Total = arrived + Len(stream)
         /\ Len(buffer) \in Nat /\ Len(stream) \in Nat /\ arrived \in Nat /\ Total \in Nat
         /\ \A p \in Base + 1 .. Total : Bytes[p] \in Nat
         /\ \A i \in 1 .. Len(buffer) : Bytes[Base + i] = buffer[i]
         /\ \A j \in 1 .. Len(stream) : Bytes[arrived + j] = stream[j]
<1>1. /\ Base \in Nat /\ arrived = Base + Len(buffer) /\ Total = arrived + Len(stream)
      /\ Total \in Nat /\ Len(buffer) \in Nat /\ Len(stream) \in Nat /\ arrived \in Nat
  BY DEF TypeOK, Base, Total
<1>2. \A i \in 1 .. Len(buffer) : Bytes[Base + i] = buffer[i] /\ Bytes[Base + i] \in Nat
  BY <1>1 DEF Bytes, TypeOK
<1>3. \A j \in 1 .. Len(stream) : Bytes[arrived + j] = stream[j] /\ Bytes[arrived + j] \in Nat
  BY <1>1 DEF Bytes, TypeOK
<1>4. \A p \in Base + 1 .. Total : Bytes[p] \in Nat
  <2> TAKE p \in Base + 1 .. Total
  <2>1. CASE p <= arrived
    <3>1. p - Base \in 1 .. Len(buffer) /\ Base + (p - Base) = p
      BY <2>1, <1>1
    <3> QED
      BY <3>1, <1>2
  <2>2. CASE p > arrived
    <3>1. p - arrived \in 1 .. Len(stream) /\ arrived + (p - arrived) = p
      BY <2>2, <1>1
    <3> QED
      BY <3>1, <1>3
  <2> QED
    BY <1>1, <2>1, <2>2
<1> QED
  BY <1>1, <1>2, <1>3, <1>4

\* Bytes are sent: the old ones stay where they are.
LEMMA Sends ==
  ASSUME TypeOK, NEW e \in Seq(Nat), UNCHANGED <<arrived, buffer>>,
         Len(stream') = Len(stream) + Len(e),
         \A j \in 1 .. Len(stream) : stream'[j] = stream[j],
         \A j \in 1 .. Len(e) : stream'[Len(stream) + j] = e[j]
  PROVE  /\ Base' = Base /\ Total' = Total + Len(e)
         /\ \A p \in Base + 1 .. Total : Bytes'[p] = Bytes[p]
         /\ \A j \in 1 .. Len(e) : Bytes'[Total + j] = e[j]
<1>1. /\ Base \in Nat /\ arrived = Base + Len(buffer) /\ Total = arrived + Len(stream)
      /\ Len(buffer) \in Nat /\ Len(stream) \in Nat /\ arrived \in Nat /\ Len(e) \in Nat
  BY InBuffer
<1>2. Base' = Base /\ Total' = Total + Len(e)
  BY <1>1 DEF Base, Total
<1>3. ASSUME NEW p \in Base + 1 .. Total PROVE Bytes'[p] = Bytes[p]
  <2>1. p > arrived => p - arrived \in 1 .. Len(stream)
    BY <1>1
  <2>2. p \in Base' + 1 .. Total'
    BY <1>1, <1>2
  <2>3. Bytes'[p] = IF p <= arrived THEN buffer[p - Base] ELSE stream'[p - arrived]
    BY <2>2, <1>2 DEF Bytes
  <2>4. Bytes[p] = IF p <= arrived THEN buffer[p - Base] ELSE stream[p - arrived]
    BY DEF Bytes
  <2>5. p > arrived => stream'[p - arrived] = stream[p - arrived]
    BY <2>1
  <2>6. p \in Int /\ arrived \in Int
    BY <1>1
  <2> QED
    BY <2>3, <2>4, <2>5, <2>6
<1>4. ASSUME NEW j \in 1 .. Len(e) PROVE Bytes'[Total + j] = e[j]
  <2>1. PICK p \in Base' + 1 .. Total' : p = Total + j
    BY <1>1, <1>2
  <2>2. Bytes'[p] = IF p <= arrived THEN buffer[p - Base] ELSE stream'[p - arrived]
    BY <1>2 DEF Bytes
  <2>3. ~(p <= arrived) /\ p - arrived = Len(stream) + j
    BY <1>1, <2>1
  <2> QED
    BY <2>1, <2>2, <2>3
<1> QED
  BY <1>2, <1>3, <1>4

\* Bytes arrive: nothing moves.
LEMMA Arrives ==
  ASSUME TypeOK, NEW n \in 1 .. Len(stream), arrived' = arrived + n,
         Len(buffer') = Len(buffer) + n, Len(stream') = Len(stream) - n,
         \A j \in 1 .. Len(buffer) : buffer'[j] = buffer[j],
         \A j \in 1 .. n : buffer'[Len(buffer) + j] = stream[j],
         \A j \in 1 .. Len(stream) - n : stream'[j] = stream[n + j]
  PROVE  /\ Base' = Base /\ Total' = Total
         /\ \A p \in Base + 1 .. Total : Bytes'[p] = Bytes[p]
<1>1. /\ Base \in Nat /\ arrived = Base + Len(buffer) /\ Total = arrived + Len(stream)
      /\ Len(buffer) \in Nat /\ Len(stream) \in Nat /\ arrived \in Nat /\ n \in Nat
  BY InBuffer
<1>2. Base' = Base /\ Total' = Total
  BY <1>1 DEF Base, Total
<1>3. ASSUME NEW p \in Base + 1 .. Total PROVE Bytes'[p] = Bytes[p]
  <2>1. p \in Base' + 1 .. Total'
    BY <1>2
  <2>2. Bytes'[p] = IF p <= arrived' THEN buffer'[p - Base] ELSE stream'[p - arrived']
    BY <2>1, <1>2 DEF Bytes
  <2>3. Bytes[p] = IF p <= arrived THEN buffer[p - Base] ELSE stream[p - arrived]
    BY DEF Bytes
  <2>4. CASE p <= arrived
    <3>1. p - Base \in 1 .. Len(buffer) /\ p <= arrived'
      BY <1>1, <2>4
    <3> QED
      BY <3>1, <2>2, <2>3, <2>4
  <2>5. CASE p > arrived /\ p <= arrived'
    <3>1. p - arrived \in 1 .. n /\ p - Base = Len(buffer) + (p - arrived)
      BY <1>1, <2>5
    <3>2. ~(p <= arrived)
      BY <1>1, <2>5
    <3> QED
      BY <3>1, <3>2, <2>2, <2>3, <2>5
  <2>6. CASE p > arrived'
    <3>1. p - arrived' \in 1 .. Len(stream) - n /\ p - arrived = n + (p - arrived')
      BY <1>1, <2>6
    <3>2. ~(p <= arrived) /\ ~(p <= arrived')
      BY <1>1, <2>6
    <3> QED
      BY <3>1, <3>2, <2>2, <2>3
  <2> QED
    BY <1>1, <2>4, <2>5, <2>6
<1> QED
  BY <1>2, <1>3

\* Bytes are recycled: those that are left stay where they are.
LEMMA Recycles ==
  ASSUME TypeOK, NEW m \in 0 .. Len(buffer), UNCHANGED <<arrived, stream>>,
         Len(buffer') = Len(buffer) - m,
         \A j \in 1 .. Len(buffer) - m : buffer'[j] = buffer[m + j]
  PROVE  /\ Base' = Base + m /\ Total' = Total
         /\ \A p \in Base' + 1 .. Total : Bytes'[p] = Bytes[p]
<1>1. /\ Base \in Nat /\ arrived = Base + Len(buffer) /\ Total = arrived + Len(stream)
      /\ Len(buffer) \in Nat /\ Len(stream) \in Nat /\ arrived \in Nat /\ m \in Nat
  BY InBuffer
<1>2. Base' = Base + m /\ Total' = Total
  BY <1>1 DEF Base, Total
<1>3. ASSUME NEW p \in Base' + 1 .. Total PROVE Bytes'[p] = Bytes[p]
  <2>1. p \in Base' + 1 .. Total' /\ p \in Base + 1 .. Total
    BY <1>1, <1>2
  <2>2. Bytes'[p] = IF p <= arrived THEN buffer'[p - Base'] ELSE stream[p - arrived]
    BY <2>1 DEF Bytes
  <2>3. Bytes[p] = IF p <= arrived THEN buffer[p - Base] ELSE stream[p - arrived]
    BY <2>1 DEF Bytes
  <2>4. p <= arrived => p - Base' \in 1 .. Len(buffer) - m /\ p - Base = m + (p - Base')
    BY <1>1, <1>2
  <2> QED
    BY <1>1, <2>1, <2>2, <2>3, <2>4
<1> QED
  BY <1>2, <1>3

-----------------------------------------------------------------------------
(* Decoding.                                                               *)

\* Where a frame is, in numbers.
LEMMA Places ==
  ASSUME TypeOK, NEW k \in 1 .. Len(sent)
  PROVE  /\ ends[k] \in Nat /\ Start(k) \in Int /\ ends[k] = Start(k) + Size(k)
         /\ Size(k) \in Nat /\ Size(k) >= 13 /\ Len(sent[k]) = Size(k) - 12
<1>1. /\ Size(k) \in Nat /\ Size(k) = Len(sent[k]) + 12 /\ Len(sent[k]) \in Nat \ {0}
  BY SentFrame
<1>2. ends[k] \in Nat
  BY DEF TypeOK
<1> QED
  BY <1>1, <1>2 DEF Start

\* The buffer reads as the stream does, Base further on.
LEMMA BufferReads ==
  ASSUME TypeOK, NEW i \in 1 .. Len(buffer) - 3
  PROVE  /\ \A w : Reads(buffer, i, w) <=> Reads(Bytes, Base + i, w)
         /\ Int32(buffer, i) = Int32(Bytes, Base + i)
         /\ Int32(buffer, i) \in Nat
<1>1. Base \in Nat /\ Len(buffer) \in Nat /\ i \in Nat /\ Base + i \in Int
  BY InBuffer
<1>2. \A j \in 0 .. 3 : buffer[i + j] = Bytes[(Base + i) + j]
  <2> TAKE j \in 0 .. 3
  <2>1. i + j \in 1 .. Len(buffer) /\ Base + (i + j) = (Base + i) + j
    BY <1>1
  <2> QED
    BY <2>1, InBuffer
<1>3. \A j \in 0 .. 3 : buffer[i + j] \in Nat
  <2> TAKE j \in 0 .. 3
  <2>1. i + j \in 1 .. Len(buffer)
    BY <1>1
  <2> QED
    BY <2>1 DEF TypeOK
<1>4. Int32(buffer, i) = Int32(Bytes, Base + i)
  BY <1>1, <1>2, SameInt32
<1>5. Int32(buffer, i) \in Nat
  BY <1>1, <1>3, Int32Nat
<1>6. \A w : Reads(buffer, i, w) <=> Reads(Bytes, Base + i, w)
  <2> TAKE w
  <2> QED
    BY <1>1, <1>2, SameReads
<1> QED
  BY <1>4, <1>5, <1>6

\* Inside a frame the stream reads as the frame does.
LEMMA InFrame ==
  ASSUME TypeOK, Content, NEW k \in 1 .. Len(sent),
         NEW j \in 1 .. Size(k) - 3, Start(k) + j > Base
  PROVE  /\ \A w : Reads(Bytes, Start(k) + j, w) <=> Reads(Encode(sent[k]), j, w)
         /\ Int32(Bytes, Start(k) + j) = Int32(Encode(sent[k]), j)
<1>1. Start(k) \in Int /\ Size(k) \in Nat /\ Base \in Nat
  BY Places, InBuffer
<1>2. PICK p \in Int : p = Start(k) + j
  BY <1>1
<1>3. \A h \in 0 .. 3 : Bytes[p + h] = Encode(sent[k])[j + h]
  <2> TAKE h \in 0 .. 3
  <2>1. j + h \in 1 .. Size(k) /\ Start(k) + (j + h) = p + h /\ Start(k) + (j + h) > Base
    BY <1>1, <1>2
  <2> QED
    BY <2>1 DEF Content
<1>4. j \in Int
  BY <1>1
<1>5. Int32(Bytes, p) = Int32(Encode(sent[k]), j)
  BY <1>3, <1>4, SameInt32
<1>6. \A w : Reads(Bytes, p, w) <=> Reads(Encode(sent[k]), j, w)
  <2> TAKE w
  <2> QED
    BY <1>3, <1>4, SameReads
<1> QED
  BY <1>2, <1>5, <1>6

\* A frame that has arrived and of which nothing has been recycled is found.
LEMMA IsFound ==
  ASSUME TypeOK, Content, NEW k \in 1 .. Len(sent), Start(k) >= Base, ends[k] <= arrived
  PROVE  /\ Start(k) + 1 - Base \in Frames(buffer)
         /\ Int32(buffer, (Start(k) + 1 - Base) + 4) = Len(sent[k])
<1>1. PICK st \in Int, n \in Int, z \in Int, b \in Int, l \in Int :
        st = Start(k) /\ n = Len(sent[k]) /\ z = Size(k) /\ b = Base /\ l = Len(buffer)
  <2>1. Start(k) \in Int /\ Size(k) \in Int /\ Len(sent[k]) \in Int
    BY Places, SentFrame
  <2>2. Base \in Int /\ Len(buffer) \in Int
    BY InBuffer
  <2> QED
    BY <2>1, <2>2
<1>a. st + z <= b + l
  BY <1>1, Places, InBuffer
<1>b. z >= 13 /\ n = z - 12
  BY <1>1, Places
<1>c. b >= 0 /\ l >= 0
  BY <1>1, InBuffer
<1>d. st >= b
  BY <1>1
<1>2. PICK e : e = Encode(sent[k])
  OBVIOUS
<1>3. Reads(e, 1, MagicBegin) /\ Int32(e, 5) = n /\ Reads(e, n + 9, MagicEnd)
  BY <1>1, <1>2, SentFrame, FrameReads
<1>4. PICK i \in Int : i = (st + 1) - b
  OBVIOUS
<1>5. i \in 1 .. l /\ (i + 11) + n <= l /\ st >= b /\ st + z <= b + l
  BY <1>4, <1>a, <1>b, <1>c, <1>d
<1>6. \A j \in 1 .. z - 3 :
        /\ \A w : Reads(e, j, w) => Reads(buffer, i + (j - 1), w)
        /\ Int32(e, j) = Int32(buffer, i + (j - 1))
  <2> TAKE j \in 1 .. z - 3
  <2>1. i + (j - 1) \in 1 .. l - 3 /\ b + (i + (j - 1)) = st + j /\ st + j > b
    BY <1>4, <1>5, <1>b, <1>c
  <2>2. /\ \A w : Reads(Bytes, st + j, w) <=> Reads(e, j, w)
        /\ Int32(Bytes, st + j) = Int32(e, j)
    BY <1>1, <1>2, <2>1, InFrame
  <2> QED
    BY <1>1, <2>1, <2>2, BufferReads
<1>7. Reads(buffer, i, MagicBegin)
  <2>1. 1 \in 1 .. z - 3 /\ i + (1 - 1) = i
    BY <1>b
  <2> QED
    BY <1>3, <1>6, <2>1
<1>8. Int32(buffer, i + 4) = n
  <2>1. 5 \in 1 .. z - 3 /\ i + (5 - 1) = i + 4
    BY <1>b
  <2> QED
    BY <1>3, <1>6, <2>1
<1>9. Reads(buffer, (i + 8) + n, MagicEnd)
  <2>1. n + 9 \in 1 .. z - 3 /\ i + ((n + 9) - 1) = (i + 8) + n
    BY <1>b
  <2> QED
    BY <1>3, <1>6, <2>1
<1>10. Whole(buffer, i)
  <2>1. i + 3 < l /\ i + 7 <= l /\ i + 7 + n + 4 <= l /\ i + 8 + n = (i + 8) + n
    BY <1>5, <1>b
  <2> QED
    BY <1>1, <1>7, <1>8, <1>9, <2>1 DEF Whole, Fits, Ends
<1>11. Start(k) + 1 - Base = i /\ i \in 1 .. Len(buffer)
  BY <1>1, <1>4, <1>5
<1> QED
  BY <1>1, <1>8, <1>10, <1>11 DEF Frames

\* Only the frames decoded last can be recycled in part, and a tail's length of
\* them is left.
LEMMA Behind ==
  ASSUME TypeOK, Layout, Place, Decoded,
         NEW k \in 1 .. Len(sent), Start(k) < Base, Base < ends[k]
  PROVE  ends[k] - Base <= Len(tail)
<1>1. Start(k) \in Int /\ ends[k] \in Int /\ Base \in Int
  BY Places, InBuffer
<1>2. Start(k) >= 0
  <2>1. Start(1) = 0
    BY DEF Layout
  <2>2. CASE k > 1
    <3>1. ends[1] <= Start(k) /\ ends[1] \in Nat
      BY <2>2, Places DEF Layout
    <3> QED
      BY <1>1, <3>1
  <2> QED
    BY <2>1, <2>2
<1>3. got # <<>>
  BY <1>1, <1>2 DEF Place
<1>4. Now \in 1 .. Len(sent)
  BY <1>3 DEF Now, Decoded, TypeOK
<1>5. /\ Start(Now) \in Int /\ ends[Now] \in Int /\ Size(Now) \in Nat
      /\ ends[Now] = Start(Now) + Size(Now)
  BY <1>4, Places
<1>6. Base <= ends[Now] /\ ends[Now] - Base <= Len(tail)
  BY <1>3 DEF Place
<1>7. ~(Now < k)
  BY <1>1, <1>4, <1>5, <1>6 DEF Layout
<1>8. ends[k] <= ends[Now]
  <2>1. CASE k < Now
    <3>1. ends[k] <= Start(Now)
      BY <1>4, <2>1 DEF Layout
    <3> QED
      BY <3>1, <1>1, <1>5
  <2> QED
    BY <1>4, <1>5, <1>7, <2>1
<1> QED
  <2>1. PICK a \in Int, b \in Int, c \in Int, t \in Int :
          a = ends[k] /\ b = ends[Now] /\ c = Base /\ t = Len(tail)
    <3>1. Len(tail) \in Int
      BY ByteAssumption DEF TypeOK
    <3> QED
      BY <1>1, <1>5, <3>1
  <2>2. a <= b /\ b - c <= t
    BY <2>1, <1>6, <1>8
  <2>3. a - c <= t
    BY <2>2
  <2> QED
    BY <2>1, <2>3

\* What is found first is the beginning of a frame.
LEMMA FoundIsFrame ==
  ASSUME TypeOK, Layout, Content, NoDecoy, Place, Decoded,
         NEW i \in Frames(buffer), \A j \in Frames(buffer) : i <= j
  PROVE  \E k \in 1 .. Len(sent) : Start(k) + 1 = Base + i
<1>1. Int32(buffer, i + 4) \in Nat /\ Base \in Int /\ Len(buffer) \in Int /\ i \in 1 .. Len(buffer)
      /\ Total \in Int /\ arrived \in Int
  <2>1. Base \in Int /\ Len(buffer) \in Int /\ Total \in Int /\ arrived \in Int
    BY InBuffer
  <2>2. i \in 1 .. Len(buffer) /\ i + 7 <= Len(buffer)
    BY DEF Frames, Whole, Fits, Ends
  <2>3. i + 4 \in 1 .. Len(buffer) - 3
    BY <2>1, <2>2
  <2> QED
    BY <2>1, <2>2, <2>3, BufferReads
<1>2. PICK n \in Nat, b \in Int, l \in Int, p \in Int, u \in Int :
        n = Int32(buffer, i + 4) /\ b = Base /\ l = Len(buffer) /\ p = Base + i /\ u = Total
  BY <1>1
<1>i. i \in Int
  BY <1>1
<1>3. i >= 1 /\ p = b + i /\ (i + 11) + n <= l /\ b >= 0 /\ (b + l) <= u
  <2>1. i + 7 + n + 4 <= l
    BY <1>2 DEF Frames, Whole, Fits, Ends
  <2>2. (i + 11) + n = i + 7 + n + 4
    BY <1>i
  <2>3. b >= 0 /\ b + l <= u
    BY <1>2, InBuffer
  <2> QED
    BY <1>1, <1>2, <2>1, <2>2, <2>3
<1>4. Reads(Bytes, p, MagicBegin)
  <2>1. i \in 1 .. l - 3
    BY <1>i, <1>3
  <2> QED
    BY <1>2, <2>1, BufferReads DEF Frames, Whole, Fits, Ends
<1>5. Int32(Bytes, p + 4) = n
  <2>1. i + 4 \in 1 .. l - 3 /\ b + (i + 4) = p + 4
    BY <1>i, <1>3
  <2> QED
    BY <1>2, <2>1, BufferReads
<1>6. Reads(Bytes, p + 8 + n, MagicEnd)
  <2>1. i + 8 + n \in 1 .. l - 3 /\ b + (i + 8 + n) = p + 8 + n
    BY <1>i, <1>3
  <2>2. Reads(buffer, i + 8 + n, MagicEnd)
    BY <1>2 DEF Frames, Whole, Fits, Ends
  <2> QED
    BY <1>2, <2>1, <2>2, BufferReads
<1>7. ~Dead(p)
  BY <1>5, <1>6 DEF Dead
<1>8. PICK k \in 1 .. Len(sent) : Start(k) < p /\ p + 3 <= ends[k]
  <2>1. p \in b + 1 .. u - 3
    BY <1>i, <1>3
  <2> QED
    BY <1>2, <1>4, <1>7, <2>1 DEF NoDecoy
<1>e. PICK e : e = Encode(sent[k])
  OBVIOUS
<1>9. PICK st \in Int, z \in Int : st = Start(k) /\ z = Size(k) /\ e = Encode(sent[k])
  BY <1>e, Places
<1>10. /\ ends[k] = st + z /\ Len(e) = z
  BY <1>9, Places, SentFrame
<1>11. st < p /\ p + 3 <= st + z
  BY <1>8, <1>9, <1>10
<1>12. SUFFICES ASSUME p # st + 1 PROVE FALSE
  BY <1>2, <1>9
<1>13. PICK j \in Int : j = p - st
  OBVIOUS
<1>14. j \in 2 .. z - 3
  BY <1>11, <1>12, <1>13
<1>15. \A h \in 1 .. z - 3 : st + h > b =>
         /\ \A w : Reads(Bytes, st + h, w) <=> Reads(e, h, w)
         /\ Int32(Bytes, st + h) = Int32(e, h)
  BY <1>2, <1>9, InFrame
<1>16. Reads(e, j, MagicBegin)
  <2>1. j \in 1 .. z - 3 /\ st + j = p /\ st + j > b
    BY <1>i, <1>3, <1>13, <1>14
  <2> QED
    BY <1>4, <1>15, <2>1
<1>17. /\ Fits(e, j) => ~Ends(e, j)
       /\ \A t \in Tails : j + Len(t) > z => Harmless(e, j)
  <2>1. PICK c \in Bodies : k \in 1 .. MaxFrames /\ e = Frame(k, c)
    BY <1>9, SentFrame
  <2>2. j \in 1 .. Len(e) - 3 /\ j # 1
    BY <1>10, <1>14
  <2>3. j \in Heads(e) \ {1}
    BY <1>16, <2>2 DEF Heads
  <2> QED
    BY <1>10, <2>1, <2>3, BodyAssumption
<1>18. CASE p + 11 + n <= st + z
  <2>1. j + 4 \in 1 .. z - 3 /\ st + (j + 4) = p + 4 /\ st + (j + 4) > b
    BY <1>i, <1>3, <1>13, <1>14, <1>18
  <2>2. Int32(e, j + 4) = n
    BY <1>5, <1>15, <2>1
  <2>3. j + 8 + n \in 1 .. z - 3 /\ st + (j + 8 + n) = p + 8 + n /\ st + (j + 8 + n) > b
    BY <1>i, <1>3, <1>13, <1>14, <1>18
  <2>4. Reads(e, j + 8 + n, MagicEnd)
    BY <1>6, <1>15, <2>3
  <2>5. j + 7 <= z /\ j + 7 + n + 4 <= z
    BY <1>13, <1>18
  <2>6. Fits(e, j) /\ Ends(e, j)
    BY <1>10, <2>2, <2>4, <2>5 DEF Fits, Ends
  <2> QED
    BY <1>17, <2>6
<1>19. CASE p + 11 + n > st + z /\ st >= b
  <2>1. st + z <= b + l
    BY <1>i, <1>3, <1>19
  <2>2. ends[k] <= arrived /\ Start(k) >= Base
    BY <1>2, <1>9, <1>10, <1>19, <2>1, InBuffer
  <2>3. st + 1 - b \in Frames(buffer)
    BY <1>2, <1>9, <2>2, IsFound
  <2>4. i <= st + 1 - b
    BY <2>3
  <2> QED
    BY <1>i, <1>3, <1>11, <1>12, <2>4
<1>20. CASE p + 11 + n > st + z /\ st < b
  <2>1. PICK v \in Int : v = Len(tail)
    BY ByteAssumption DEF TypeOK
  <2>2. b < st + z
    BY <1>i, <1>3, <1>11
  <2>3. st + z - b <= v
    <3>1. Start(k) < Base /\ Base < ends[k]
      BY <1>2, <1>9, <1>10, <1>20, <2>2
    <3>2. ends[k] - Base <= Len(tail)
      BY <3>1, Behind
    <3> QED
      BY <1>2, <1>9, <1>10, <2>1, <3>2
  <2>4. v > 0 /\ j + v > z
    BY <1>i, <1>3, <1>13, <2>2, <2>3
  <2>5. tail \in Tails
    BY <2>1, <2>4 DEF TypeOK
  <2>6. Harmless(e, j)
    BY <1>14, <1>17, <2>1, <2>4, <2>5
  <2>7. j + 7 <= z
    BY <2>6, <1>10 DEF Harmless, Fits, Ends
  <2>8. j + 4 \in 1 .. z - 3 /\ st + (j + 4) = p + 4 /\ st + (j + 4) > b
    BY <1>i, <1>3, <1>13, <1>14, <2>7
  <2>9. Int32(e, j + 4) = n
    BY <1>5, <1>15, <2>8
  <2>10. j + 7 + n + 4 <= z
    BY <2>6, <2>9, <1>10 DEF Harmless, Fits, Ends
  <2> QED
    BY <1>13, <1>20, <2>10
<1> QED
  BY <1>18, <1>19, <1>20

\* What decode takes: a frame that was sent, the one after the last or, if all of
\* it is still there, the last again.
LEMMA FirstFrame ==
  ASSUME TypeOK, Layout, Content, NoDecoy, Place, Decoded,
         NEW i \in Frames(buffer), \A j \in Frames(buffer) : i <= j
  PROVE  \E k \in 1 .. Len(sent) :
           /\ ends[k] <= arrived /\ Base <= Start(k)
           /\ Int32(buffer, i + 4) = Len(sent[k])
           /\ SubSeq(buffer, i + 8, i + 7 + Len(sent[k])) = sent[k]
           /\ IF got = <<>> THEN k = 1 ELSE k = Now \/ (k = Now + 1 /\ Start(Now) < Base)
<1>1. PICK k \in 1 .. Len(sent) : Start(k) + 1 = Base + i
  BY FoundIsFrame
<1>2. Base \in Int /\ Len(buffer) \in Int /\ i \in 1 .. Len(buffer) /\ i + 7 <= Len(buffer)
  BY InBuffer DEF Frames, Whole, Fits, Ends
<1>e. PICK e : e = Encode(sent[k])
  OBVIOUS
<1>3. PICK st \in Int, z \in Int, n \in Nat, b \in Int, l \in Int :
        /\ st = Start(k) /\ z = Size(k) /\ n = Len(sent[k]) /\ b = Base /\ l = Len(buffer)
        /\ e = Encode(sent[k])
  <2>1. Start(k) \in Int /\ Size(k) \in Int
    BY Places
  <2>2. Len(sent[k]) \in Nat
    BY SentFrame
  <2> QED
    BY <1>2, <1>e, <2>1, <2>2
<1>i. i \in Int
  BY <1>2
<1>4. i >= 1 /\ i + 7 <= l /\ st + 1 = b + i /\ b >= 0
  BY <1>1, <1>2, <1>3, InBuffer
<1>5. z = n + 12 /\ ends[k] = st + z /\ Len(e) = z
  BY <1>3, Places, SentFrame
<1>6. Int32(buffer, i + 4) = n
  <2>1. 5 \in 1 .. z - 3 /\ st + 5 > b
    BY <1>4, <1>5, <1>i
  <2>2. Int32(Bytes, st + 5) = Int32(e, 5)
    BY <1>3, <2>1, InFrame
  <2>3. i + 4 \in 1 .. l - 3 /\ b + (i + 4) = st + 5
    BY <1>4, <1>i
  <2>4. Int32(buffer, i + 4) = Int32(Bytes, st + 5)
    BY <1>3, <2>3, BufferReads
  <2>5. Int32(e, 5) = n
    BY <1>3, SentFrame, FrameReads
  <2> QED
    BY <2>2, <2>4, <2>5
<1>7. i + 11 + n <= l
  <2>1. i + 7 + n + 4 <= l
    BY <1>3, <1>6 DEF Frames, Whole, Fits, Ends
  <2> QED
    BY <1>i, <2>1
<1>8. ends[k] <= arrived /\ Base <= Start(k)
  <2>1. st + z <= b + l /\ b <= st
    BY <1>i, <1>4, <1>5, <1>7
  <2> QED
    BY <1>3, <1>5, <2>1, InBuffer
<1>9. SubSeq(buffer, i + 8, i + 7 + n) = sent[k]
  <2>1. \A j \in 1 .. n : sent[k][j] = buffer[(i + 7) + j]
    <3> TAKE j \in 1 .. n
    <3>1. 8 + j \in 1 .. z /\ st + (8 + j) > b
      BY <1>i, <1>4, <1>5
    <3>2. Bytes[st + (8 + j)] = e[8 + j]
      BY <1>3, <3>1 DEF Content
    <3>3. e[8 + j] = sent[k][j]
      BY <1>3, SentFrame, FrameReads
    <3>4. (i + 7) + j \in 1 .. l /\ b + ((i + 7) + j) = st + (8 + j)
      BY <1>i, <1>4, <1>7
    <3>5. Bytes[st + (8 + j)] = buffer[(i + 7) + j]
      BY <1>3, <3>4, InBuffer
    <3> QED
      BY <3>2, <3>3, <3>5
  <2>2. i + 7 \in Nat /\ (i + 7) + n <= l /\ (i + 7) + 1 = i + 8 /\ (i + 7) + n = i + 7 + n
    BY <1>i, <1>4, <1>7
  <2>3. buffer \in Seq(Nat) /\ sent[k] \in Seq(Nat)
    BY DEF TypeOK
  <2>4. SubSeq(buffer, (i + 7) + 1, (i + 7) + n) = sent[k]
    BY <1>3, <2>1, <2>2, <2>3, Segment
  <2> QED
    BY <2>2, <2>4
\* Nothing before it is there.
<1>10. ASSUME NEW m \in 1 .. Len(sent), m < k, Base <= Start(m) PROVE FALSE
  <2>0. /\ Start(m) \in Int /\ ends[m] \in Int /\ Size(m) \in Nat /\ Size(m) >= 13
        /\ ends[m] = Start(m) + Size(m)
    BY Places
  <2>1. PICK s1 \in Int, e1 \in Int : s1 = Start(m) /\ e1 = ends[m] /\ s1 < e1
    BY <2>0
  <2>2. e1 <= st /\ s1 < e1
    BY <1>3, <1>10, <2>1 DEF Layout
  <2>3. ends[m] <= arrived
    <3>1. PICK a \in Int : a = arrived
      BY InBuffer
    <3>2. st + z <= a /\ z >= 0
      BY <1>3, <1>5, <1>8, <3>1
    <3> QED
      BY <2>1, <2>2, <3>1, <3>2
  <2>4. s1 + 1 - b \in Frames(buffer)
    BY <1>3, <1>10, <2>1, <2>3, IsFound
  <2>5. i <= s1 + 1 - b
    BY <2>4
  <2> QED
    BY <1>i, <1>4, <2>2, <2>5
<1>11. CASE got = <<>>
  <2>1. 1 \in 1 .. Len(sent) /\ Start(1) = 0 /\ Base = 0
    BY <1>11 DEF Layout, Place
  <2>2. ~(1 < k)
    BY <1>10, <2>1
  <2> QED
    BY <1>3, <1>6, <1>8, <1>9, <1>11, <2>2
<1>12. CASE got # <<>>
  <2>1. Now \in 1 .. Len(sent)
    BY <1>12 DEF Now, Decoded, TypeOK
  <2>2. PICK w \in Nat, m \in Nat : w = Now /\ m = Len(sent)
    BY <2>1
  <2>3. w >= 1 /\ w <= m /\ k >= 1 /\ k <= m
    BY <2>1, <2>2
  <2>4. Base <= ends[w] /\ (w > 1 => Start(w - 1) < Base)
    BY <1>12, <2>2 DEF Place
  <2>5. k >= w
    <3>1. SUFFICES ASSUME k < w PROVE FALSE
      BY <2>3
    <3>2. w > 1 /\ w - 1 \in 1 .. Len(sent)
      BY <2>2, <2>3, <3>1
    <3>3. PICK s1 \in Int, e1 \in Int :
            s1 = Start(w - 1) /\ e1 = ends[w - 1] /\ s1 < b
      <4>1. Start(w - 1) \in Int /\ ends[w - 1] \in Int
        BY <3>2, Places
      <4> QED
        BY <1>3, <2>4, <3>2, <4>1
    <3>4. k < w - 1 => st + z <= s1
      BY <1>3, <1>5, <3>2, <3>3 DEF Layout
    <3>5. st >= b /\ z >= 0
      BY <1>4, <1>5, <1>i
    <3>6. ~(k < w - 1)
      BY <3>3, <3>4, <3>5
    <3>7. k = w - 1
      BY <3>1, <3>6
    <3> QED
      BY <1>3, <3>3, <3>5, <3>7
  <2>6. k <= w + 1
    <3>1. SUFFICES ASSUME k > w + 1 PROVE FALSE
      BY <2>3
    <3>2. w + 1 \in 1 .. Len(sent) /\ w + 1 < k /\ w < w + 1
      BY <2>2, <2>3, <3>1
    <3>3. Base <= Start(w + 1)
      <4>1. PICK s1 \in Int, e1 \in Int : s1 = Start(w + 1) /\ e1 = ends[w]
        <5>1. Start(w + 1) \in Int /\ ends[w] \in Int
          <6>1. Start(w + 1) \in Int
            BY <3>2, Places
          <6>2. ends[w] \in Int
            BY <2>1, <2>2, Places
          <6> QED
            BY <6>1, <6>2
        <5> QED
          BY <5>1
      <4>2. e1 <= s1
        BY <2>1, <2>2, <3>2, <4>1 DEF Layout
      <4> QED
        BY <1>3, <2>4, <4>1, <4>2
    <3> QED
      BY <1>10, <3>2, <3>3
  <2>7. k = w + 1 => Start(w) < Base
    <3>1. SUFFICES ASSUME k = w + 1, ~(Start(w) < Base) PROVE FALSE
      OBVIOUS
    <3>2. Base <= Start(w)
      <4>1. Start(w) \in Int
        BY <2>1, <2>2, Places
      <4> QED
        BY <1>3, <3>1, <4>1
    <3>3. w < k
      BY <3>1
    <3> QED
      BY <1>10, <2>1, <2>2, <3>2, <3>3
  <2>8. k = w \/ k = w + 1
    BY <2>3, <2>5, <2>6
  <2> QED
    BY <1>3, <1>6, <1>8, <1>9, <1>12, <2>2, <2>7, <2>8
<1> QED
  BY <1>11, <1>12

-----------------------------------------------------------------------------
(* Every step preserves the invariant.                                     *)

\* What is dead stays so, and a head is one that was there, where the bytes are
\* the old ones.
LEMMA DeadStays ==
  ASSUME TypeOK, Base' \in Int, Base' >= Base, Total' \in Int, Total' >= Total,
         \A p \in Base' + 1 .. Total : Bytes'[p] = Bytes[p],
         NEW p \in Base' + 1 .. Total - 3
  PROVE  /\ Reads(Bytes', p, MagicBegin) => Reads(Bytes, p, MagicBegin)
         /\ Dead(p) => Dead(p)'
<1>1. PICK b \in Int, c \in Int, u \in Int, v \in Int :
        b = Base /\ c = Base' /\ u = Total /\ v = Total' /\ c >= b /\ v >= u
  BY InBuffer
<1>2. p \in Int /\ p >= c + 1 /\ p <= u - 3
  BY <1>1
<1>b. c >= b /\ v >= u
  BY <1>1
<1>3. \A q \in c + 1 .. u - 3 : \A h \in 0 .. 3 : Bytes'[q + h] = Bytes[q + h]
  <2> TAKE q \in c + 1 .. u - 3
  <2> TAKE h \in 0 .. 3
  <2>1. q + h \in c + 1 .. u
    OBVIOUS
  <2> QED
    BY <1>1, <2>1
<1>4. \A q \in c + 1 .. u - 3 : \A w : Reads(Bytes', q, w) <=> Reads(Bytes, q, w)
  <2> TAKE q \in c + 1 .. u - 3
  <2> TAKE w
  <2>1. q \in Int
    BY <1>1
  <2> QED
    BY <1>3, <2>1, SameReads
<1>5. \A q \in c + 1 .. u - 3 : Int32(Bytes', q) = Int32(Bytes, q)
  <2> TAKE q \in c + 1 .. u - 3
  <2>1. q \in Int
    BY <1>1
  <2> QED
    BY <1>3, <2>1, SameInt32
<1>6. p \in c + 1 .. u - 3
  BY <1>1
<1>7. ASSUME Dead(p) PROVE Dead(p)'
  <2>1. p + 7 <= u
    BY <1>1, <1>7 DEF Dead
  <2>2. p + 4 \in c + 1 .. u - 3
    BY <1>2, <2>1
  <2>3. \A h \in 0 .. 3 : Bytes[(p + 4) + h] \in Nat
    <3> TAKE h \in 0 .. 3
    <3>1. (p + 4) + h \in b + 1 .. u
      BY <1>b, <2>2
    <3> QED
      BY <1>1, <3>1, InBuffer
  <2>4. PICK n \in Nat : n = Int32(Bytes, p + 4)
    BY <1>2, <2>3, Int32Nat
  <2>5. Int32(Bytes', p + 4) = n
    BY <1>5, <2>2, <2>4
  <2>6. p + 11 + n <= u /\ ~Reads(Bytes, p + 8 + n, MagicEnd)
    BY <1>1, <1>7, <2>4 DEF Dead
  <2>7. p + 8 + n \in c + 1 .. u - 3
    BY <1>2, <2>6
  <2>8. ~Reads(Bytes', p + 8 + n, MagicEnd)
    BY <1>4, <2>6, <2>7
  <2>9. p + 7 <= v /\ p + 11 + n <= v
    BY <1>2, <1>b, <2>1, <2>6
  <2> QED
    BY <1>1, <2>5, <2>8, <2>9 DEF Dead
<1> QED
  BY <1>4, <1>6, <1>7

\* A head that was not there before lies, in part at least, in what was sent.
LEMMA NewHeads ==
  ASSUME TypeOK, NoDecoy, Base' = Base, Total' \in Int, Total' >= Total,
         \A p \in Base + 1 .. Total : Bytes'[p] = Bytes[p],
         \A k \in 1 .. Len(sent) : Start(k)' = Start(k) /\ ends'[k] = ends[k],
         Len(sent') \in Int, Len(sent') >= Len(sent),
         \A p \in Base + 1 .. Total' - 3 :
           p + 3 > Total /\ Reads(Bytes', p, MagicBegin) =>
             \/ \E k \in 1 .. Len(sent') : Start(k)' < p /\ p + 3 <= ends'[k]
             \/ Dead(p)'
  PROVE  NoDecoy'
<1>1. PICK b \in Int, u \in Int, v \in Int, m \in Int, n \in Int :
        /\ b = Base /\ u = Total /\ v = Total' /\ v >= u
        /\ m = Len(sent) /\ n = Len(sent') /\ n >= m
  <2>1. Len(sent) \in Int
    BY DEF TypeOK
  <2> QED
    BY <2>1, InBuffer
<1>2. ASSUME NEW p \in b + 1 .. v - 3, Reads(Bytes', p, MagicBegin)
      PROVE  \/ \E k \in 1 .. Len(sent') : Start(k)' < p /\ p + 3 <= ends'[k]
             \/ Dead(p)'
  <2>1. CASE p + 3 > u
    BY <1>1, <1>2, <2>1
  <2>2. CASE p + 3 <= u
    <3>1. p \in b + 1 .. u - 3
      BY <2>2
    <3>2. Reads(Bytes, p, MagicBegin) /\ (Dead(p) => Dead(p)')
      BY <1>1, <1>2, <3>1, InBuffer, DeadStays
    <3>3. \/ \E k \in 1 .. Len(sent) : Start(k) < p /\ p + 3 <= ends[k]
          \/ Dead(p)
      BY <1>1, <3>1, <3>2 DEF NoDecoy
    <3>4. ASSUME NEW k \in 1 .. Len(sent), Start(k) < p, p + 3 <= ends[k]
          PROVE  k \in 1 .. Len(sent') /\ Start(k)' < p /\ p + 3 <= ends'[k]
      <4>1. k \in 1 .. m
        BY <1>1
      <4>2. k \in 1 .. n
        BY <1>1, <4>1
      <4> QED
        BY <1>1, <3>4, <4>2
    <3> QED
      BY <3>2, <3>3, <3>4
  <2> QED
    BY <1>1, <2>1, <2>2
<1> QED
  BY <1>1, <1>2 DEF NoDecoy

\* Arriving and recycling leave the layout of the stream alone.
LEMMA Kept ==
  ASSUME TypeOK, Layout, Content, NoDecoy, UNCHANGED <<sent, ends, tail>>,
         Base' \in Int, Base' >= Base, Total' = Total,
         \A p \in Base' + 1 .. Total : Bytes'[p] = Bytes[p]
  PROVE  Layout' /\ Content' /\ NoDecoy'
<1>1. \A k : Size(k)' = Size(k) /\ Start(k)' = Start(k)
  BY DEF Size, Start
<1>2. \A k : Gap(k)' = Gap(k)
  <2> TAKE k
  <2>1. Start(k + 1)' = Start(k + 1)
    BY <1>1
  <2> QED
    BY <2>1 DEF Gap
<1>3. Layout'
  BY <1>1, <1>2 DEF Layout
<1>4. Content'
  <2>1. SUFFICES ASSUME NEW k \in 1 .. Len(sent), NEW j \in 1 .. Size(k), Start(k) + j > Base'
                 PROVE  Bytes'[Start(k) + j] = Encode(sent[k])[j]
    BY <1>1 DEF Content
  <2>2. /\ Start(k) \in Int /\ Size(k) \in Nat /\ ends[k] = Start(k) + Size(k)
        /\ ends[k] \in Int /\ Total \in Int /\ Base \in Int
    BY Places, InBuffer
  <2>3. PICK st \in Int, z \in Int, u \in Int, b \in Int, c \in Int :
          st = Start(k) /\ z = Size(k) /\ u = Total /\ b = Base /\ c = Base'
    BY <2>2
  <2>4. st + z <= u /\ c >= b /\ st + j > c /\ j \in 1 .. z
    BY <2>2, <2>3, <2>1 DEF Layout
  <2>5. st + j \in c + 1 .. u /\ st + j > b
    BY <2>4
  <2> QED
    BY <2>1, <2>3, <2>5 DEF Content
<1>5. NoDecoy'
  <2>1. SUFFICES ASSUME NEW p \in Base' + 1 .. Total - 3, Reads(Bytes', p, MagicBegin)
                 PROVE  \/ \E k \in 1 .. Len(sent) : Start(k) < p /\ p + 3 <= ends[k]
                        \/ Dead(p)'
    BY <1>1 DEF NoDecoy
  <2>2. Total \in Int /\ Base \in Int
    BY InBuffer
  <2>3. PICK u \in Int, b \in Int, c \in Int : u = Total /\ b = Base /\ c = Base'
    BY <2>2
  <2>4. Total' \in Int /\ Total' >= Total
    BY <2>2
  <2>5. Reads(Bytes, p, MagicBegin) /\ (Dead(p) => Dead(p)')
    BY <2>1, <2>4, DeadStays
  <2>6. c >= b /\ p \in c + 1 .. u - 3
    BY <2>3
  <2>7. p \in b + 1 .. u - 3
    BY <2>6
  <2> QED
    BY <2>3, <2>5, <2>7 DEF NoDecoy
<1> QED
  BY <1>3, <1>4, <1>5

\* Nothing has been sent.
LEMMA InitInv == Init => IInv
<1> SUFFICES ASSUME Init PROVE IInv
  OBVIOUS
<1>1. /\ sent = <<>> /\ ends = <<>> /\ tail = <<>> /\ stream = <<>> /\ arrived = 0
      /\ buffer = <<>> /\ got = <<>> /\ Len(sent) = 0 /\ Len(buffer) = 0 /\ Len(stream) = 0
  BY DEF Init
<1>2. Total = 0 /\ Base = 0
  <2>1. arrived = 0 /\ Len(stream) = 0 /\ Len(buffer) = 0
    BY <1>1
  <2> QED
    BY <2>1 DEF Total, Base
<1>3. TypeOK
  BY <1>1, ByteAssumption DEF TypeOK
<1>4. Layout
  BY <1>1, <1>2 DEF Layout
<1>5. Content
  BY <1>1 DEF Content
<1>6. NoDecoy
  BY <1>2 DEF NoDecoy
<1>7. Place
  BY <1>1, <1>2 DEF Place
<1>8. Decoded
  BY <1>1 DEF Decoded
<1> QED
  BY <1>3, <1>4, <1>5, <1>6, <1>7, <1>8 DEF IInv

\* Nothing moves; a frame that was not there in full may now be.
LEMMA ArriveStep == IInv /\ Arrive => IInv'
<1> SUFFICES ASSUME IInv, Arrive PROVE IInv'
  OBVIOUS
<1> USE DEF IInv
<1>1. PICK n \in 1 .. Len(stream) :
        /\ buffer' = buffer \o SubSeq(stream, 1, n)
        /\ stream' = SubSeq(stream, n + 1, Len(stream))
        /\ arrived' = arrived + n
  BY DEF Arrive
<1>2. UNCHANGED <<sent, ends, tail, got>>
  BY DEF Arrive
<1>3. /\ buffer \in Seq(Nat) /\ stream \in Seq(Nat) /\ arrived \in Nat
      /\ Len(buffer) \in Nat /\ Len(stream) \in Nat /\ Base \in Int /\ Total \in Int
      /\ n \in Nat /\ n <= Len(stream)
  <2>1. buffer \in Seq(Nat) /\ stream \in Seq(Nat) /\ arrived \in Nat
    BY DEF TypeOK
  <2>2. Len(buffer) \in Nat /\ Len(stream) \in Nat /\ Base \in Int /\ Total \in Int
    BY InBuffer
  <2> QED
    BY <2>1, <2>2
<1>4. /\ stream' \in Seq(Nat) /\ Len(stream') = Len(stream) - n
      /\ \A j \in 1 .. Len(stream) - n : stream'[j] = stream[n + j]
  <2>1. n \in 0 .. Len(stream)
    BY <1>3
  <2> QED
    BY <1>1, <1>3, <2>1, Suffix
<1>5. PICK a : a = SubSeq(stream, 1, n)
  OBVIOUS
<1>6. a \in Seq(Nat) /\ Len(a) = n /\ \A j \in 1 .. n : a[j] = stream[j]
  <2>1. n \in 0 .. Len(stream)
    BY <1>3
  <2> QED
    BY <1>3, <1>5, <2>1, Prefix
<1>7. /\ buffer' \in Seq(Nat) /\ Len(buffer') = Len(buffer) + n
      /\ \A j \in 1 .. Len(buffer) : buffer'[j] = buffer[j]
      /\ \A j \in 1 .. n : buffer'[Len(buffer) + j] = stream[j]
  <2>1. buffer' = buffer \o a
    BY <1>1, <1>5
  <2> QED
    BY <1>3, <1>6, <2>1, Concat
<1>8. /\ Base' = Base /\ Total' = Total
      /\ \A p \in Base + 1 .. Total : Bytes'[p] = Bytes[p]
  BY <1>1, <1>4, <1>7, Arrives
<1>9. arrived' \in Nat /\ arrived' >= arrived /\ Len(buffer') <= arrived'
  <2>1. Len(buffer) <= arrived
    BY DEF TypeOK
  <2> QED
    BY <1>1, <1>3, <1>7, <2>1
<1>10. TypeOK'
  BY <1>2, <1>4, <1>7, <1>9 DEF TypeOK
<1>11. Layout' /\ Content' /\ NoDecoy'
  BY <1>2, <1>3, <1>8, Kept
<1>12. Place'
  <2>1. \A k : Start(k)' = Start(k)
    BY <1>2 DEF Start, Size
  <2>2. \A k : Gap(k)' = Gap(k)
    BY <1>2, <1>8, <2>1 DEF Gap
  <2> QED
    BY <1>2, <1>8, <2>1, <2>2 DEF Place, Now
<1>13. Decoded'
  <2>1. \A i \in DOMAIN got : ends[got[i][1]] <= arrived'
    <3> TAKE i \in DOMAIN got
    <3>1. got[i][1] \in 1 .. Len(sent) /\ ends[got[i][1]] <= arrived
      BY DEF Decoded
    <3>2. ends[got[i][1]] \in Int
      BY <3>1, Places
    <3> QED
      BY <1>3, <1>9, <3>1, <3>2
  <2> QED
    BY <1>2, <2>1 DEF Decoded, Now
<1> QED
  BY <1>10, <1>11, <1>12, <1>13

\* The frame decoded is the next or the last again, and what is recycled for it
\* keeps the distance to its end, or makes it the gap that was passed.
LEMMA DecodeStep == IInv /\ Decode => IInv'
<1> SUFFICES ASSUME IInv, Decode PROVE IInv'
  OBVIOUS
<1>1. TypeOK /\ Layout /\ Content /\ NoDecoy /\ Place /\ Decoded
  BY DEF IInv
<1>2. PICK i \in Frames(buffer) :
        /\ \A j \in Frames(buffer) : i <= j
        /\ got' = Append(got, SubSeq(buffer, i + 8, i + 7 + Int32(buffer, i + 4)))
        /\ buffer' = SubSeq(buffer, Int32(buffer, i + 4) + 13, Len(buffer))
        /\ UNCHANGED <<sent, ends, tail, stream, arrived>>
  BY DEF Decode
<1>3. PICK k \in 1 .. Len(sent) :
        /\ ends[k] <= arrived /\ Base <= Start(k)
        /\ Int32(buffer, i + 4) = Len(sent[k])
        /\ SubSeq(buffer, i + 8, i + 7 + Len(sent[k])) = sent[k]
        /\ IF got = <<>> THEN k = 1 ELSE k = Now \/ (k = Now + 1 /\ Start(Now) < Base)
  BY <1>1, <1>2, FirstFrame
<1>4. PICK st \in Int, e \in Int, z \in Int, b \in Int, l \in Int, w \in Int :
        /\ st = Start(k) /\ e = ends[k] /\ z = Size(k) /\ b = Base /\ l = Len(buffer)
        /\ w = Len(tail)
  <2>1. Start(k) \in Int /\ ends[k] \in Int /\ Size(k) \in Int
    BY <1>1, Places
  <2>2. Base \in Int /\ Len(buffer) \in Int
    BY <1>1, InBuffer
  <2>3. Len(tail) \in Int
    BY <1>1, ByteAssumption DEF TypeOK
  <2> QED
    BY <2>1, <2>2, <2>3
<1>5. e = st + z /\ z >= 13 /\ e <= b + l /\ b <= st /\ b >= 0 /\ l >= 0
  <2>1. e = st + z /\ z >= 13
    BY <1>1, <1>4, Places
  <2>2. e <= b + l /\ b <= st /\ b >= 0 /\ l >= 0
    BY <1>1, <1>3, <1>4, InBuffer
  <2> QED
    BY <2>1, <2>2
<1>6. got' = Append(got, sent[k])
  BY <1>2, <1>3
<1>7. /\ buffer' \in Seq(Nat) /\ Len(buffer') = Len(buffer) - z
      /\ \A j \in 1 .. Len(buffer) - z : buffer'[j] = buffer[z + j]
  <2>1. z \in 0 .. Len(buffer)
    BY <1>4, <1>5
  <2>2. Len(sent[k]) + 13 = z + 1
    BY <1>1, <1>4, Places
  <2>3. buffer' = SubSeq(buffer, z + 1, Len(buffer))
    BY <1>2, <1>3, <2>2
  <2>4. buffer \in Seq(Nat)
    BY <1>1 DEF TypeOK
  <2> QED
    BY <2>1, <2>3, <2>4, Suffix
<1>8. /\ Base' = b + z /\ Total' = Total
      /\ \A p \in Base' + 1 .. Total : Bytes'[p] = Bytes[p]
  <2>1. z \in 0 .. Len(buffer)
    BY <1>4, <1>5
  <2> QED
    BY <1>1, <1>2, <1>4, <1>7, <2>1, Recycles
<1>9. got \in Seq(Seq(Nat)) /\ sent[k] \in Seq(Nat) /\ sent[k][1] = k
  BY <1>1, SentFrame DEF TypeOK
<1>10. /\ got' \in Seq(Seq(Nat)) /\ Len(got') = Len(got) + 1 /\ got' # <<>>
       /\ got'[Len(got) + 1] = sent[k]
       /\ \A j \in 1 .. Len(got) : got'[j] = got[j]
       /\ Len(got) \in Nat
  BY <1>6, <1>9
<1>d. DOMAIN got = 1 .. Len(got) /\ DOMAIN got' = 1 .. Len(got) + 1
  BY <1>9, <1>10
<1>11. Now' = k
  BY <1>9, <1>10 DEF Now
<1>12. TypeOK'
  <2>1. Len(buffer') <= arrived'
    <3>1. arrived = b + l /\ arrived' = arrived
      BY <1>1, <1>2, <1>4, InBuffer
    <3>2. l - z <= b + l
      BY <1>5
    <3> QED
      BY <1>4, <1>7, <3>1, <3>2
  <2> QED
    BY <1>1, <1>2, <1>7, <1>10, <2>1 DEF TypeOK
<1>13. Layout' /\ Content' /\ NoDecoy'
  <2>1. b + z >= b
    BY <1>5
  <2> QED
    BY <1>1, <1>2, <1>4, <1>8, <2>1, Kept
<1>14. \A j : Start(j)' = Start(j) /\ Gap(j)' = Gap(j)
  <2>1. \A j : Start(j)' = Start(j)
    BY <1>2 DEF Start, Size
  <2> QED
    BY <1>2, <1>8, <2>1 DEF Gap
\* If one has been decoded, the new one is the same or the next.
<1>15. ASSUME got # <<>>
       PROVE  /\ Now \in 1 .. Len(sent) /\ Len(got) >= 1 /\ got[Len(got)][1] = Now
              /\ b <= ends[Now] /\ ends[Now] - b <= w
              /\ k = Now \/ (k = Now + 1 /\ Start(Now) < b)
  <2>1. Now \in 1 .. Len(sent) /\ Len(got) >= 1
    BY <1>1, <1>9, <1>15 DEF Now, Decoded
  <2>2. Base <= ends[Now] /\ ends[Now] - Base <= Len(tail)
    BY <1>1, <1>15 DEF Place
  <2> QED
    BY <1>3, <1>4, <1>15, <2>1, <2>2 DEF Now
<1>16. Place'
  <2>1. st - b <= w /\ (st > b => \A j \in k .. Len(sent) : Gap(j) = 0)
    <3>1. CASE got = <<>>
      <4>1. st = 0 /\ b = 0
        BY <1>1, <1>3, <1>4, <3>1 DEF Layout, Place
      <4>2. w >= 0
        BY <1>1, <1>4, ByteAssumption DEF TypeOK
      <4> QED
        BY <4>1, <4>2
    <3>2. CASE got # <<>> /\ k = Now
      <4>1. e - b <= w
        BY <1>4, <1>15, <3>2
      <4>2. st - b <= w /\ (st > b => e > b)
        BY <1>5, <4>1
      <4> QED
        BY <1>1, <1>4, <3>2, <4>2 DEF Place
    <3>3. CASE got # <<>> /\ k = Now + 1
      <4>1. PICK o \in Nat, m \in Nat : o = Now /\ m = Len(sent)
        BY <1>15, <3>3
      <4>2. o >= 1 /\ o < m /\ k = o + 1
        BY <1>15, <3>3, <4>1
      <4>3. PICK g \in Int, f \in Int : g = Gap(o) /\ f = ends[o] /\ g = st - f
        <5>1. ends[o] \in Int
          BY <1>1, <1>15, <3>3, <4>1, Places
        <5>2. Gap(o) = st - ends[o]
          BY <1>4, <4>1, <4>2 DEF Gap
        <5> QED
          BY <5>1, <5>2
      <4>4. g >= 0 /\ g <= w /\ b <= f /\ f - b <= w
        <5>1. Gap(o) \in 0 .. Len(tail)
          BY <1>1, <1>15, <3>3, <4>1 DEF Layout
        <5> QED
          BY <1>4, <1>15, <3>3, <4>1, <4>3, <5>1
      <4>5. CASE f > b
        <5>1. \A j \in o .. Len(sent) : Gap(j) = 0
          BY <1>1, <1>4, <3>3, <4>1, <4>3, <4>5 DEF Place
        <5>2. g = 0
          <6>1. o \in o .. m
            BY <4>2
          <6> QED
            BY <4>1, <4>3, <5>1, <6>1
        <5>3. \A j \in k .. m : j \in o .. m
          BY <4>2
        <5> QED
          <6>1. \A j \in k .. Len(sent) : Gap(j) = 0
            BY <4>1, <5>1, <5>3
          <6>2. st - b <= w
            BY <4>3, <4>4, <5>2
          <6> QED
            BY <6>1, <6>2
      <4>6. CASE f = b
        <5>1. ASSUME st > b, NEW j \in k .. Len(sent) PROVE Gap(j) = 0
          <6>1. g > 0
            BY <4>3, <4>6, <5>1
          <6>2. o \in 1 .. Len(sent) /\ j \in 1 .. Len(sent) /\ j # o
            BY <4>1, <4>2
          <6>3. Gap(j) \in 0 .. Len(tail) /\ ~(Gap(j) > 0)
            BY <1>1, <4>3, <6>1, <6>2 DEF Layout
          <6> QED
            BY <6>3
        <5> QED
          BY <4>3, <4>4, <4>6, <5>1
      <4> QED
        BY <4>4, <4>5, <4>6
    <3> QED
      BY <1>15, <3>1, <3>2, <3>3
  <2>2. k > 1 => Start(k - 1) < b + z
    <3>1. CASE got = <<>>
      BY <1>3, <3>1
    <3>2. CASE got # <<>> /\ k = Now
      <4>1. SUFFICES ASSUME k > 1 PROVE Start(k - 1) < b + z
        OBVIOUS
      <4>2. k - 1 \in 1 .. Len(sent)
        BY <4>1
      <4>3. Start(k - 1) \in Int /\ Start(k - 1) < b
        BY <1>1, <1>4, <3>2, <4>1, <4>2, Places DEF Place
      <4> QED
        BY <1>5, <4>3
    <3>3. CASE got # <<>> /\ k = Now + 1
      <4>1. Start(Now) \in Int /\ Start(Now) < Base
        BY <1>1, <1>3, <1>15, <3>3, Places
      <4>2. k - 1 = Now
        BY <1>15, <3>3
      <4> QED
        BY <1>4, <1>5, <4>1, <4>2
    <3> QED
      BY <1>15, <3>1, <3>2, <3>3
  <2>3. b + z <= e /\ e - (b + z) <= w /\ (e > b + z => \A j \in k .. Len(sent) : Gap(j) = 0)
    BY <1>5, <2>1
  <2> QED
    BY <1>2, <1>4, <1>8, <1>10, <1>11, <1>14, <2>2, <2>3 DEF Place
<1>17. Decoded'
  <2>1. \A j \in DOMAIN got' :
          got'[j][1] \in 1 .. Len(sent) /\ ends[got'[j][1]] <= arrived /\ got'[j] = sent[got'[j][1]]
    <3> TAKE j \in DOMAIN got'
    <3>1. CASE j \in DOMAIN got
      <4>1. got'[j] = got[j]
        BY <1>10, <1>d, <3>1
      <4> QED
        BY <1>1, <3>1, <4>1 DEF Decoded
    <3>2. CASE j = Len(got) + 1
      BY <1>3, <1>9, <1>10, <3>2
    <3> QED
      BY <1>10, <1>d, <3>1, <3>2
  <2>2. ASSUME NEW j \in 2 .. Len(got')
        PROVE  \/ got'[j][1] = got'[j - 1][1] + 1
               \/ got'[j][1] = got'[j - 1][1] /\ Len(tail) >= Len(Encode(got'[j]))
    <3>1. CASE j \in 2 .. Len(got)
      <4>1. got'[j] = got[j] /\ got'[j - 1] = got[j - 1]
        <5>1. PICK h \in Nat : h = Len(got)
          BY <1>10
        <5>2. j \in 1 .. h /\ j - 1 \in 1 .. h
          BY <3>1, <5>1
        <5> QED
          BY <1>10, <5>1, <5>2
      <4> QED
        BY <1>1, <3>1, <4>1 DEF Decoded
    <3>2. CASE j = Len(got) + 1
      <4>1. Len(got) >= 1 /\ got # <<>>
        BY <1>9, <1>10, <2>2, <3>2
      <4>2. got'[j] = sent[k] /\ got'[j - 1] = got[Len(got)]
        BY <1>10, <3>2, <4>1
      <4>3. got'[j][1] = k /\ got'[j - 1][1] = Now
        BY <1>9, <1>15, <4>1, <4>2
      <4>4. k = Now => Len(tail) >= Len(Encode(sent[k]))
        <5>1. SUFFICES ASSUME k = Now PROVE w >= z
          BY <1>1, <1>4, SentFrame
        <5>2. e - b <= w
          BY <1>4, <1>15, <4>1, <5>1
        <5> QED
          BY <1>5, <5>2
      <4> QED
        BY <1>15, <4>1, <4>2, <4>3, <4>4
    <3> QED
      BY <1>10, <3>1, <3>2
  <2>3. got'[1][1] = 1
    <3>1. CASE got = <<>>
      BY <1>3, <1>9, <1>10, <3>1
    <3>2. CASE got # <<>>
      <4>1. got'[1] = got[1]
        BY <1>10, <1>15, <3>2
      <4> QED
        BY <1>1, <3>2, <4>1 DEF Decoded
    <3> QED
      BY <3>1, <3>2
  <2>4. \A q \in 1 .. k : \E j \in DOMAIN got' : got'[j][1] = q
    <3> TAKE q \in 1 .. k
    <3>1. CASE q = k
      <4>1. Len(got) + 1 \in DOMAIN got'
        BY <1>10, <1>d
      <4> QED
        BY <1>9, <1>10, <3>1, <4>1
    <3>2. CASE q # k
      <4>1. got # <<>> /\ q \in 1 .. Now
        BY <1>3, <1>15, <3>2
      <4>2. PICK j \in DOMAIN got : got[j][1] = q
        BY <1>1, <4>1 DEF Decoded
      <4>3. got'[j] = got[j] /\ j \in DOMAIN got'
        BY <1>10, <1>d
      <4> QED
        BY <4>2, <4>3
    <3> QED
      BY <3>1, <3>2
  <2> QED
    BY <1>2, <1>11, <2>1, <2>2, <2>3, <2>4 DEF Decoded
<1> QED
  BY <1>12, <1>13, <1>16, <1>17 DEF IInv

\* No byte of the one number but the last can begin the other.
LEMMA MagicValues ==
  /\ MagicBegin[1] = 170 /\ MagicBegin[2] = 187 /\ MagicBegin[3] = 204 /\ MagicBegin[4] = 221
  /\ MagicEnd[1] = 221 /\ MagicEnd[2] = 204 /\ MagicEnd[3] = 187 /\ MagicEnd[4] = 170
BY DEF MagicBegin, MagicEnd

\* A head begins with a byte that it does not have again.
LEMMA OneBegins ==
  ASSUME NEW f, NEW p \in Int, NEW q \in p + 1 .. p + 3, f[q] = 170
  PROVE  ~Reads(f, p, MagicBegin)
<1>1. PICK h \in 2 .. 4 : q = p + h - 1
  <2>1. q - p + 1 \in 2 .. 4 /\ q = p + (q - p + 1) - 1
    OBVIOUS
  <2> QED
    BY <2>1
<1>2. MagicBegin[h] # 170
  <2>1. h = 2 \/ h = 3 \/ h = 4
    OBVIOUS
  <2> QED
    BY <2>1, MagicValues
<1>3. h \in 1 .. 4
  OBVIOUS
<1> QED
  BY <1>1, <1>2, <1>3 DEF Reads

\* The new frame follows what is there; no head lies across its beginning.
LEMMA SendStep == IInv /\ Send => IInv'
<1> SUFFICES ASSUME IInv, Send PROVE IInv'
  OBVIOUS
<1>1. TypeOK /\ Layout /\ Content /\ NoDecoy /\ Place /\ Decoded
  BY DEF IInv
<1>2. PICK c \in Bodies :
        /\ sent' = Append(sent, <<Len(sent) + 1>> \o c)
        /\ stream' = stream \o Encode(<<Len(sent) + 1>> \o c)
        /\ ends' = Append(ends, Total + Len(Encode(<<Len(sent) + 1>> \o c)))
  BY DEF Send
<1>3. UNCHANGED <<tail, arrived, buffer, got>> /\ Len(sent) < MaxFrames
  BY DEF Send
<1>n. PICK n \in Nat : n = Len(sent)
  <2>1. Len(sent) \in Nat
    BY <1>1 DEF TypeOK
  <2> QED
    BY <2>1
<1>4. PICK body, e : n = Len(sent) /\ body = <<n + 1>> \o c /\ e = Encode(body)
  BY <1>n
<1>5. body \in Seq(Nat) /\ e \in Seq(Nat) /\ Len(e) \in Nat /\ Len(e) = Len(body) + 12
  <2>1. c \in Seq(Nat)
    BY ByteAssumption
  <2>2. body \in Seq(Nat)
    BY <1>4, <2>1
  <2> QED
    <3>1. Encode(body) \in Seq(Nat) /\ Len(Encode(body)) = Len(body) + 12
      BY <2>2, FrameReads
    <3> QED
      BY <1>4, <2>2, <3>1
<1>6. /\ sent' \in Seq(Seq(Nat)) /\ Len(sent') = n + 1 /\ sent'[n + 1] = body /\ sent' # <<>>
      /\ \A k \in 1 .. n : sent'[k] = sent[k]
  <2>1. sent \in Seq(Seq(Nat))
    BY <1>1 DEF TypeOK
  <2>2. sent' = Append(sent, body)
    BY <1>2, <1>4
  <2>3. body \in Seq(Nat)
    BY <1>5
  <2>4. /\ Append(sent, body) \in Seq(Seq(Nat)) /\ Append(sent, body) # <<>>
        /\ Len(Append(sent, body)) = Len(sent) + 1 /\ Append(sent, body)[Len(sent) + 1] = body
        /\ \A j \in 1 .. Len(sent) : Append(sent, body)[j] = sent[j]
    BY <2>1, <2>3, Appended
  <2> QED
    BY <1>4, <2>2, <2>4
<1>7. PICK u \in Nat, b \in Nat, z \in Nat : u = Total /\ b = Base /\ z = Len(e)
  BY <1>1, <1>5, InBuffer
<1>8. /\ ends' \in Seq(Nat) /\ Len(ends') = n + 1 /\ ends'[n + 1] = u + z
      /\ \A k \in 1 .. n : ends'[k] = ends[k]
  <2>1. ends \in Seq(Nat) /\ Len(ends) = n /\ u + z \in Nat
    BY <1>1, <1>4 DEF TypeOK
  <2> QED
    BY <1>2, <1>4, <1>7, <2>1
<1>9. /\ stream' \in Seq(Nat) /\ Len(stream') = Len(stream) + Len(e)
      /\ \A j \in 1 .. Len(stream) : stream'[j] = stream[j]
      /\ \A j \in 1 .. Len(e) : stream'[Len(stream) + j] = e[j]
  <2>1. stream \in Seq(Nat) /\ stream' = stream \o e
    BY <1>1, <1>2, <1>4 DEF TypeOK
  <2> QED
    BY <1>5, <2>1, Concat
<1>10. /\ Base' = b /\ Total' = u + z
       /\ \A p \in b + 1 .. u : Bytes'[p] = Bytes[p]
       /\ \A j \in 1 .. z : Bytes'[u + j] = e[j]
  BY <1>1, <1>3, <1>5, <1>7, <1>9, Sends
<1>11. TypeOK'
  <2>1. Len(sent') <= MaxFrames
    BY <1>3, <1>4, <1>6, ByteAssumption
  <2>2. \A k \in 1 .. Len(sent') : \E d \in Bodies : sent'[k] = <<k>> \o d
    <3> TAKE k \in 1 .. Len(sent')
    <3>1. CASE k = n + 1
      BY <1>4, <1>6, <3>1
    <3>2. CASE k \in 1 .. n
      BY <1>1, <1>4, <1>6, <3>2 DEF TypeOK
    <3>3. k = n + 1 \/ k \in 1 .. n
      <4>1. k \in 1 .. n + 1
        BY <1>6
      <4> QED
        BY <4>1
    <3> QED
      BY <3>1, <3>2, <3>3
  <2> QED
    BY <1>1, <1>3, <1>6, <1>8, <1>9, <2>1, <2>2 DEF TypeOK
<1>12. \A k \in 1 .. n : Size(k)' = Size(k) /\ Start(k)' = Start(k)
  BY <1>6, <1>8 DEF Size, Start
<1>13. Size(n + 1)' = z /\ Start(n + 1)' = u
  <2>1. Size(n + 1)' = z
    BY <1>5, <1>6, <1>7 DEF Size
  <2>2. Start(n + 1)' = (u + z) - z
    BY <1>8, <2>1 DEF Start
  <2> QED
    BY <2>1, <2>2
<1>14. \A k \in 1 .. n : Gap(k)' = Gap(k)
  <2> TAKE k \in 1 .. n
  <2>1. k < n + 1 /\ Gap(k)' = Start(k + 1)' - ends[k]
    BY <1>6, <1>8 DEF Gap
  <2>2. CASE k < n
    <3>1. k + 1 \in 1 .. n
      BY <2>2
    <3> QED
      BY <1>4, <1>12, <2>1, <2>2, <3>1 DEF Gap
  <2>3. CASE k = n
    BY <1>4, <1>7, <1>13, <2>1, <2>3 DEF Gap
  <2> QED
    BY <2>2, <2>3
<1>15. Gap(n + 1)' = 0
  BY <1>6, <1>8, <1>10 DEF Gap
<1>16. \A k \in 1 .. n : ends[k] \in Nat /\ ends[k] <= u /\ Gap(k) \in 0 .. Len(tail)
  BY <1>1, <1>4, <1>7, Places DEF Layout
<1>17. Layout'
  <2>1. Start(1)' = 0
    <3>1. CASE n = 0
      <4>1. sent = <<>>
        <5>1. sent \in Seq(Seq(Nat)) /\ Len(sent) = 0
          BY <1>1, <1>4, <3>1 DEF TypeOK
        <5> QED
          BY <5>1
      <4>2. u = 0
        BY <1>1, <1>7, <4>1 DEF Layout
      <4> QED
        BY <1>13, <3>1, <4>2
    <3>2. CASE n > 0
      <4>1. sent # <<>> /\ 1 \in 1 .. n
        BY <1>4, <3>2
      <4> QED
        BY <1>1, <1>12, <4>1 DEF Layout
    <3> QED
      BY <3>1, <3>2
  <2>2. \A k \in 1 .. n + 1 : ends'[k] <= u + z /\ Gap(k)' \in 0 .. Len(tail)
    <3> TAKE k \in 1 .. n + 1
    <3>1. CASE k \in 1 .. n
      <4>1. ends'[k] = ends[k] /\ ends[k] \in Nat /\ ends[k] <= u
        BY <1>8, <1>16, <3>1
      <4>2. ends'[k] <= u + z
        BY <4>1
      <4> QED
        BY <1>14, <1>16, <3>1, <4>2
    <3>2. CASE k = n + 1
      <4>1. Len(tail) \in Nat
        BY <1>1, ByteAssumption DEF TypeOK
      <4> QED
        BY <1>8, <1>15, <3>2, <4>1
    <3> QED
      BY <3>1, <3>2
  <2>3. \A j, k \in 1 .. n + 1 : j < k => ends'[j] <= Start(k)'
    <3> TAKE j, k \in 1 .. n + 1
    <3> SUFFICES ASSUME j < k PROVE ends'[j] <= Start(k)'
      OBVIOUS
    <3>1. j \in 1 .. n
      OBVIOUS
    <3>2. CASE k \in 1 .. n
      BY <1>1, <1>4, <1>8, <1>12, <3>1, <3>2 DEF Layout
    <3>3. CASE k = n + 1
      BY <1>8, <1>13, <1>16, <3>1, <3>3
    <3> QED
      BY <3>2, <3>3
  <2>4. \A j, k \in 1 .. n + 1 : Gap(j)' > 0 /\ Gap(k)' > 0 => j = k
    <3> TAKE j, k \in 1 .. n + 1
    <3>1. CASE j \in 1 .. n /\ k \in 1 .. n
      BY <1>1, <1>4, <1>14, <3>1 DEF Layout
    <3>2. CASE j = n + 1 \/ k = n + 1
      BY <1>15, <3>2
    <3> QED
      BY <3>1, <3>2
  <2> QED
    BY <1>3, <1>6, <1>10, <2>1, <2>2, <2>3, <2>4 DEF Layout
<1>18. Content'
  <2>1. SUFFICES ASSUME NEW k \in 1 .. n + 1, NEW j \in 1 .. Size(k)', Start(k)' + j > b
                 PROVE  Bytes'[Start(k)' + j] = Encode(sent'[k])[j]
    BY <1>6, <1>10 DEF Content
  <2>2. CASE k \in 1 .. n
    <3>1. PICK st \in Int, s \in Int : st = Start(k) /\ s = Size(k) /\ ends[k] = st + s
      BY <1>1, <1>4, <2>2, Places
    <3>2. st + s <= u /\ j \in 1 .. s /\ st + j > b
      BY <1>12, <1>16, <2>1, <2>2, <3>1
    <3>3. st + j \in b + 1 .. u
      BY <3>2
    <3>4. Bytes[st + j] = Encode(sent[k])[j]
      BY <1>1, <1>4, <1>7, <2>2, <3>1, <3>2 DEF Content
    <3> QED
      BY <1>6, <1>10, <1>12, <2>2, <3>1, <3>3, <3>4
  <2>3. CASE k = n + 1
    <3>1. j \in 1 .. z
      BY <1>13, <2>1, <2>3
    <3> QED
      BY <1>4, <1>6, <1>10, <1>13, <2>3, <3>1
  <2> QED
    BY <2>2, <2>3
<1>19. NoDecoy'
  <2>1. ASSUME NEW p \in b + 1 .. (u + z) - 3, p + 3 > u, Reads(Bytes', p, MagicBegin)
        PROVE  p > u
    <3>1. SUFFICES ASSUME ~(p > u) PROVE FALSE
      OBVIOUS
    <3>2. u + 1 \in p + 1 .. p + 3 /\ 1 \in 1 .. z
      BY <2>1, <3>1
    <3>3. e[1] = 170
      <4>1. Reads(e, 1, MagicBegin)
        BY <1>4, <1>5, FrameReads
      <4>2. 1 \in 1 .. 4 /\ 1 + 1 - 1 = 1
        OBVIOUS
      <4> QED
        BY <4>1, <4>2, MagicValues DEF Reads
    <3>4. Bytes'[u + 1] = 170
      BY <1>10, <3>2, <3>3
    <3>5. p \in Int
      BY <2>1
    <3> QED
      BY <2>1, <3>2, <3>4, <3>5, OneBegins
  <2>2. \A p \in Base + 1 .. Total' - 3 :
          p + 3 > Total /\ Reads(Bytes', p, MagicBegin) =>
            \E k \in 1 .. Len(sent') : Start(k)' < p /\ p + 3 <= ends'[k]
    <3> TAKE p \in Base + 1 .. Total' - 3
    <3> SUFFICES ASSUME p + 3 > Total, Reads(Bytes', p, MagicBegin)
                 PROVE  \E k \in 1 .. Len(sent') : Start(k)' < p /\ p + 3 <= ends'[k]
      OBVIOUS
    <3>1. p \in b + 1 .. (u + z) - 3 /\ p + 3 > u
      BY <1>7, <1>10
    <3>2. p > u /\ p + 3 <= u + z
      BY <2>1, <3>1
    <3>3. n + 1 \in 1 .. Len(sent')
      BY <1>6
    <3> QED
      BY <1>8, <1>13, <3>2, <3>3
  <2>3. Len(sent') \in Int /\ Len(sent') >= Len(sent)
    BY <1>4, <1>6
  <2>4. Total' \in Int /\ Total' >= Total
    BY <1>7, <1>10
  <2>5. \A k \in 1 .. Len(sent) : Start(k)' = Start(k) /\ ends'[k] = ends[k]
    BY <1>4, <1>8, <1>12
  <2>6. Base' = Base /\ \A p \in Base + 1 .. Total : Bytes'[p] = Bytes[p]
    BY <1>7, <1>10
  <2> QED
    BY <1>1, <2>2, <2>3, <2>4, <2>5, <2>6, NewHeads
<1>20. ASSUME got # <<>> PROVE Now \in 1 .. n /\ Now' = Now
  BY <1>1, <1>3, <1>4, <1>20 DEF Now, Decoded, TypeOK
<1>21. Place'
  <2>1. SUFFICES ASSUME got # <<>>
                 PROVE  /\ Base <= ends[Now] /\ ends[Now] - Base <= Len(tail)
                        /\ \A o \in 1 .. n : Now = o + 1 => Start(o)' < Base
                        /\ ends[Now] > Base => \A j \in Now .. n + 1 : Gap(j)' = 0
    <3>1. got = <<>> => Base' = 0
      BY <1>1, <1>7, <1>10 DEF Place
    <3>2. got # <<>> => ends'[Now] = ends[Now]
      BY <1>8, <1>20
    <3>3. ASSUME got # <<>>, Now > 1 PROVE \E o \in 1 .. n : Now = o + 1
      <4>1. Now - 1 \in 1 .. n /\ Now = (Now - 1) + 1
        BY <1>20, <3>3
      <4> QED
        BY <4>1
    <3>4. \A o \in 1 .. n : (o + 1) - 1 = o
      OBVIOUS
    <3> QED
      BY <1>3, <1>6, <1>7, <1>10, <1>20, <3>1, <3>2, <3>3, <3>4 DEF Place
  <2>2. ASSUME NEW o \in 1 .. n, Now = o + 1 PROVE Start(o)' < Base
    <3>1. Now > 1 /\ Now - 1 = o
      BY <2>2
    <3>2. Start(o) < Base
      BY <1>1, <2>1, <3>1 DEF Place
    <3> QED
      BY <1>12, <3>2
  <2>3. ASSUME ends[Now] > Base, NEW j \in Now .. n + 1 PROVE Gap(j)' = 0
    <3>1. CASE j = n + 1
      BY <1>15, <3>1
    <3>2. CASE j # n + 1
      <4>1. j \in 1 .. n /\ j \in Now .. n
        BY <1>20, <2>1, <2>3, <3>2
      <4> QED
        BY <1>1, <1>4, <1>14, <2>1, <2>3, <4>1 DEF Place
    <3> QED
      BY <3>1, <3>2
  <2> QED
    BY <1>1, <2>1, <2>2, <2>3 DEF Place
<1>22. Decoded'
  <2>1. \A i \in DOMAIN got :
          /\ got[i][1] \in 1 .. n + 1
          /\ ends'[got[i][1]] <= arrived
          /\ got[i] = sent'[got[i][1]]
    <3> TAKE i \in DOMAIN got
    <3>1. got[i][1] \in 1 .. n
      BY <1>1, <1>4 DEF Decoded
    <3>2. got[i][1] \in 1 .. n + 1
      BY <3>1
    <3> QED
      BY <1>1, <1>6, <1>8, <3>1, <3>2 DEF Decoded
  <2> QED
    BY <1>1, <1>3, <1>6, <2>1 DEF Decoded, Now
<1> QED
  BY <1>11, <1>17, <1>18, <1>19, <1>21, <1>22 DEF IInv

\* The tail follows the last frame, and makes the one gap there is.
LEMMA TailStep == IInv /\ LeaveTail => IInv'
<1> SUFFICES ASSUME IInv, LeaveTail PROVE IInv'
  OBVIOUS
<1>1. TypeOK /\ Layout /\ Content /\ NoDecoy /\ Place /\ Decoded
  BY DEF IInv
<1>2. /\ sent # <<>> /\ tail = <<>> /\ tail' \in Tails /\ stream' = stream \o tail'
      /\ UNCHANGED <<sent, ends, arrived, buffer, got>>
  BY DEF LeaveTail
<1>3. PICK t \in Seq(Nat) : t = tail'
  BY <1>2, ByteAssumption
<1>4. t \in Tails
  BY <1>2, <1>3
<1>5. PICK n \in Nat, u \in Nat, b \in Nat, z \in Nat :
        n = Len(sent) /\ u = Total /\ b = Base /\ z = Len(t)
  <2>1. Len(sent) \in Nat
    BY <1>1 DEF TypeOK
  <2>2. Len(t) \in Nat
    OBVIOUS
  <2>3. Base \in Nat /\ Total \in Nat
    BY <1>1, InBuffer
  <2> QED
    BY <2>1, <2>2, <2>3
<1>6. /\ stream' \in Seq(Nat) /\ Len(stream') = Len(stream) + Len(t)
      /\ \A j \in 1 .. Len(stream) : stream'[j] = stream[j]
      /\ \A j \in 1 .. Len(t) : stream'[Len(stream) + j] = t[j]
  <2>1. stream \in Seq(Nat) /\ stream' = stream \o t
    BY <1>1, <1>2, <1>3 DEF TypeOK
  <2> QED
    BY <2>1, Concat
<1>7. /\ Base' = b /\ Total' = u + z
      /\ \A p \in b + 1 .. u : Bytes'[p] = Bytes[p]
      /\ \A j \in 1 .. z : Bytes'[u + j] = t[j]
  BY <1>1, <1>2, <1>5, <1>6, Sends
<1>8. TypeOK'
  BY <1>1, <1>2, <1>6 DEF TypeOK
<1>9. \A k : Size(k)' = Size(k) /\ Start(k)' = Start(k)
  BY <1>2 DEF Size, Start
\* The stream ends where the last frame does.
<1>10. Len(tail) = 0
  BY <1>2
<1>11. /\ n >= 1 /\ n \in 1 .. Len(sent) /\ ends[n] = u
       /\ \A k \in 1 .. n : Gap(k) = 0 /\ ends[k] \in Nat /\ ends[k] <= u
  <2>1. n >= 1
    <3>1. sent \in Seq(Seq(Nat))
      BY <1>1 DEF TypeOK
    <3>2. Len(sent) # 0
      BY <1>2, <3>1
    <3> QED
      BY <1>5, <3>2
  <2>2. \A k \in 1 .. n : Gap(k) \in 0 .. 0 /\ ends[k] \in Nat /\ ends[k] <= u
    BY <1>1, <1>5, <1>10, Places DEF Layout
  <2>3. n \in 1 .. n
    BY <2>1
  <2>4. Gap(n) = u - ends[n]
    BY <1>5 DEF Gap
  <2>5. ends[n] = u
    BY <2>2, <2>3, <2>4
  <2> QED
    BY <1>5, <2>1, <2>2, <2>3, <2>5
<1>12. \A k \in 1 .. n : Gap(k)' = IF k = n THEN z ELSE 0
  <2> TAKE k \in 1 .. n
  <2>1. CASE k = n
    <3>1. Gap(n)' = (u + z) - ends[n]
      BY <1>2, <1>5, <1>7 DEF Gap
    <3>2. (u + z) - u = z
      OBVIOUS
    <3> QED
      BY <1>11, <2>1, <3>1, <3>2
  <2>2. CASE k # n
    <3>1. k < n
      BY <2>2
    <3>2. Gap(k)' = Gap(k)
      BY <1>2, <1>5, <1>9, <3>1 DEF Gap
    <3> QED
      BY <1>11, <2>2, <3>2
  <2> QED
    BY <2>1, <2>2
<1>13. Layout'
  <2>1. \A k \in 1 .. n : ends[k] <= u + z /\ Gap(k)' \in 0 .. z
    <3> TAKE k \in 1 .. n
    <3>1. ends[k] \in Nat /\ ends[k] <= u
      BY <1>11
    <3>2. ends[k] <= u + z
      BY <3>1
    <3> QED
      BY <1>12, <3>2
  <2>2. \A j, k \in 1 .. n : Gap(j)' > 0 /\ Gap(k)' > 0 => j = k
    BY <1>12
  <2>3. Start(1)' = 0 /\ \A j, k \in 1 .. n : j < k => ends[j] <= Start(k)'
    BY <1>1, <1>2, <1>5, <1>9 DEF Layout
  <2> QED
    BY <1>2, <1>3, <1>5, <1>7, <2>1, <2>2, <2>3 DEF Layout
<1>14. Content'
  <2>1. SUFFICES ASSUME NEW k \in 1 .. n, NEW j \in 1 .. Size(k), Start(k) + j > b
                 PROVE  Bytes'[Start(k) + j] = Encode(sent[k])[j]
    BY <1>2, <1>5, <1>7, <1>9 DEF Content
  <2>2. PICK st \in Int, s \in Int : st = Start(k) /\ s = Size(k) /\ ends[k] = st + s
    BY <1>1, <1>5, Places
  <2>3. st + s <= u /\ j \in 1 .. s /\ st + j > b
    BY <1>11, <2>1, <2>2
  <2>4. st + j \in b + 1 .. u
    BY <2>3
  <2> QED
    BY <1>1, <1>5, <1>7, <2>1, <2>2, <2>3, <2>4 DEF Content
<1>15. NoDecoy'
\* The last bytes of the last frame begin no head: only the very last could, and
\* the tail does not go on as it would have to.
  <2>1. ASSUME NEW p \in b + 1 .. (u + z) - 3, p + 3 > u, Reads(Bytes', p, MagicBegin)
        PROVE  p > u
    <3>1. SUFFICES ASSUME ~(p > u) PROVE FALSE
      OBVIOUS
    <3>2. PICK st \in Int, s \in Int : st = Start(n) /\ s = Size(n) /\ u = st + s /\ s >= 13
      <4>1. Start(n) \in Int /\ Size(n) \in Int /\ Size(n) >= 13 /\ ends[n] = Start(n) + Size(n)
        BY <1>1, <1>11, Places
      <4> QED
        BY <1>11, <4>1
    <3>3. \A h \in 1 .. 4 : Bytes'[p + h - 1] = MagicBegin[h]
      BY <2>1 DEF Reads
    <3>4. PICK h \in 1 .. 3 : h = u + 1 - p
      BY <2>1, <3>1
    <3>5. Bytes'[p] = MagicEnd[5 - h]
      <4>1. p \in b + 1 .. u /\ s - h + 1 \in 1 .. s /\ st + (s - h + 1) = p /\ p > b
        <5>0. u = st + s /\ s >= 13
          BY <3>2
        <5>1. p \in Int /\ p >= b + 1 /\ p <= u
          BY <3>1
        <5>2. p \in b + 1 .. u
          BY <5>1
        <5>3. s - h + 1 \in 1 .. s
          BY <5>0
        <5>4. st + (s - h + 1) = p
          BY <3>4, <5>0, <5>1
        <5> QED
          BY <5>1, <5>2, <5>3, <5>4
      <4>2. Bytes'[p] = Encode(sent[n])[s - h + 1]
        BY <1>1, <1>5, <1>7, <1>11, <3>2, <4>1 DEF Content
      <4>3. sent[n] \in Seq(Nat) /\ s = Len(sent[n]) + 12 /\ Len(sent[n]) \in Nat
        BY <1>1, <1>11, <3>2, SentFrame
      <4>4. Reads(Encode(sent[n]), Len(sent[n]) + 9, MagicEnd)
        BY <4>3, FrameReads
      <4>5. 5 - h \in 1 .. 4 /\ s - h + 1 = Len(sent[n]) + 9 + (5 - h) - 1
        <5>1. PICK m \in Int : m = Len(sent[n]) /\ s = m + 12
          BY <4>3
        <5>2. 5 - h \in 1 .. 4
          OBVIOUS
        <5>3. s - h + 1 = m + 9 + (5 - h) - 1
          BY <5>1
        <5> QED
          BY <5>1, <5>2, <5>3
      <4> QED
        BY <4>2, <4>4, <4>5 DEF Reads
    <3>6. Bytes'[p] = 170
      <4>1. 1 \in 1 .. 4 /\ p + 1 - 1 = p
        BY <2>1
      <4> QED
        BY <3>3, <4>1, MagicValues
    <3>7. h = 1
      <4>1. MagicEnd[5 - h] = 170
        BY <3>5, <3>6
      <4>2. PICK g : g = 5 - h
        OBVIOUS
      <4>3. h = 1 \/ g = 3 \/ g = 2
        BY <4>2
      <4>4. MagicEnd[g] = 170
        BY <4>1, <4>2
      <4> QED
        BY <4>3, <4>4, MagicValues
    <3>8. ASSUME NEW j \in 1 .. 3 PROVE j <= z /\ t[j] = MagicBegin[j + 1]
      <4>1. p = u /\ j \in 1 .. z /\ j + 1 \in 1 .. 4 /\ p + (j + 1) - 1 = u + j
        BY <2>1, <3>4, <3>7
      <4>2. Bytes'[u + j] = MagicBegin[j + 1]
        BY <3>3, <4>1
      <4> QED
        BY <1>7, <4>1, <4>2
    <3> QED
      BY <1>4, <1>5, <3>8, TailAssumption
  <2>2. ASSUME NEW p \in b + 1 .. (u + z) - 3, p > u, Reads(Bytes', p, MagicBegin)
        PROVE  Dead(p)'
    <3>1. PICK i \in Int : i = p - u
      BY <2>2
    <3>2. i \in 1 .. z - 3 /\ p = u + i
      BY <2>2, <3>1
    <3>3. \A q \in 1 .. z - 3 : \A h \in 0 .. 3 : Bytes'[(u + q) + h] = t[q + h]
      <4> TAKE q \in 1 .. z - 3
      <4> TAKE h \in 0 .. 3
      <4>1. q + h \in 1 .. z /\ (u + q) + h = u + (q + h)
        OBVIOUS
      <4> QED
        BY <1>7, <4>1
    <3>4. \A q \in 1 .. z - 3 :
            (\A w : Reads(Bytes', u + q, w) <=> Reads(t, q, w)) /\ Int32(Bytes', u + q) = Int32(t, q)
      <4> TAKE q \in 1 .. z - 3
      <4>1. q \in Int /\ u + q \in Int
        OBVIOUS
      <4>2. Int32(Bytes', u + q) = Int32(t, q)
        BY <3>3, <4>1, SameInt32
      <4>3. ASSUME NEW w PROVE Reads(Bytes', u + q, w) <=> Reads(t, q, w)
        BY <3>3, <4>1, SameReads
      <4> QED
        BY <4>2, <4>3
    <3>5. Harmless(t, i)
      <4>1. Reads(t, i, MagicBegin)
        BY <2>2, <3>2, <3>4
      <4>2. i \in 1 .. Len(t)
        BY <1>5, <3>2
      <4>3. i \in Heads(t)
        BY <1>5, <3>2, <4>1 DEF Heads
      <4> QED
        BY <1>4, <4>3, TailAssumption
    <3>6. i + 7 <= z
      BY <1>5, <3>5 DEF Harmless, Fits, Ends
    <3>7. i + 4 \in 1 .. z - 3
      BY <3>2, <3>6
    <3>8. \A h \in 0 .. 3 : t[(i + 4) + h] \in Nat
      <4> TAKE h \in 0 .. 3
      <4>1. (i + 4) + h \in 1 .. z
        BY <3>7
      <4> QED
        BY <1>5, <4>1
    <3>9. PICK m \in Nat : m = Int32(t, i + 4)
      <4>1. i + 4 \in Int
        BY <3>1
      <4> QED
        BY <3>8, <4>1, Int32Nat
    <3>10. i + 7 + m + 4 <= z /\ ~Reads(t, i + 8 + m, MagicEnd)
      BY <1>5, <3>5, <3>9 DEF Harmless, Fits, Ends
    <3>11. p + 4 = u + (i + 4) /\ p + 8 + m = u + (i + 8 + m) /\ i + 8 + m \in 1 .. z - 3
      BY <3>2, <3>10
    <3>12. Int32(Bytes', p + 4) = m
      BY <3>4, <3>7, <3>9, <3>11
    <3>13. ~Reads(Bytes', p + 8 + m, MagicEnd)
      BY <3>4, <3>10, <3>11
    <3>14. p + 7 <= u + z /\ p + 11 + m <= u + z
      BY <3>2, <3>6, <3>10
    <3> QED
      BY <1>7, <3>12, <3>13, <3>14 DEF Dead
  <2>3. \A p \in Base + 1 .. Total' - 3 : p + 3 > Total /\ Reads(Bytes', p, MagicBegin) => Dead(p)'
    <3> TAKE p \in Base + 1 .. Total' - 3
    <3> SUFFICES ASSUME p + 3 > Total, Reads(Bytes', p, MagicBegin) PROVE Dead(p)'
      OBVIOUS
    <3>1. p \in b + 1 .. (u + z) - 3 /\ p + 3 > u
      BY <1>5, <1>7
    <3>2. p > u
      BY <2>1, <3>1
    <3> QED
      BY <2>2, <3>1, <3>2
  <2>4. Len(sent') \in Int /\ Len(sent') >= Len(sent)
    BY <1>2, <1>5
  <2>5. Total' \in Int /\ Total' >= Total
    BY <1>5, <1>7
  <2>6. \A k \in 1 .. Len(sent) : Start(k)' = Start(k) /\ ends'[k] = ends[k]
    BY <1>2, <1>9
  <2>7. Base' = Base /\ \A p \in Base + 1 .. Total : Bytes'[p] = Bytes[p]
    BY <1>5, <1>7
  <2> QED
    BY <1>1, <2>3, <2>4, <2>5, <2>6, <2>7, NewHeads
<1>16. Place'
  <2>1. ASSUME got # <<>>
        PROVE  /\ Base <= ends[Now] /\ ends[Now] - Base <= z
               /\ Now > 1 => Start(Now - 1) < Base
               /\ ~(ends[Now] > Base)
    <3>1. Base <= ends[Now] /\ ends[Now] - Base <= 0 /\ (Now > 1 => Start(Now - 1) < Base)
      BY <1>1, <1>10, <2>1 DEF Place
    <3>2. Now \in 1 .. n
      BY <1>1, <1>5, <2>1 DEF Now, Decoded, TypeOK
    <3>3. PICK e \in Int : e = ends[Now]
      BY <1>11, <3>2
    <3>4. b <= e /\ e - b <= 0
      BY <1>5, <3>1, <3>3
    <3>5. e - b <= z /\ ~(e > b)
      BY <3>4
    <3> QED
      BY <1>5, <3>1, <3>3, <3>5
  <2>2. got = <<>> => Base = 0
    BY <1>1 DEF Place
  <2>3. Now' = Now
    BY <1>2 DEF Now
  <2>4. Base' = Base /\ Len(tail') = z
    BY <1>3, <1>5, <1>7
  <2>5. Now > 1 => Start(Now - 1)' = Start(Now - 1)
    BY <1>2 DEF Start, Size, Now
  <2> QED
    BY <1>2, <2>1, <2>2, <2>3, <2>4, <2>5 DEF Place
<1>17. Decoded'
  <2>1. \A i \in 2 .. Len(got) : got[i][1] = got[i - 1][1] + 1
    <3> TAKE i \in 2 .. Len(got)
    <3>1. ~(Len(tail) >= Len(Encode(got[i])))
      <4>1. PICK k \in 1 .. Len(sent) : got[i] = sent[k]
        <5>1. i \in DOMAIN got
          BY <1>1 DEF TypeOK
        <5> QED
          BY <1>1, <5>1 DEF Decoded
      <4>2. Len(Encode(sent[k])) = Size(k) /\ Size(k) \in Nat /\ Size(k) >= 13
        BY <1>1, SentFrame, Places
      <4> QED
        BY <1>10, <4>1, <4>2
    <3> QED
      BY <1>1, <3>1 DEF Decoded
  <2> QED
    BY <1>1, <1>2, <2>1 DEF Decoded, Now
<1> QED
  BY <1>8, <1>13, <1>14, <1>15, <1>16, <1>17 DEF IInv

\* Every action keeps the invariant.
LEMMA StepInv == IInv /\ [Next]_vars => IInv'
<1> SUFFICES ASSUME IInv, [Next]_vars PROVE IInv'
  OBVIOUS
<1>1. CASE Send
  BY <1>1, SendStep
<1>2. CASE LeaveTail
  BY <1>2, TailStep
<1>3. CASE Arrive
  BY <1>3, ArriveStep
<1>4. CASE Decode
  BY <1>4, DecodeStep
<1>5. CASE UNCHANGED vars
  <2>1. UNCHANGED <<sent, ends, tail, stream, arrived, buffer, got>>
    BY <1>5 DEF vars
  <2>2. Base' = Base /\ Total' = Total /\ Bytes' = Bytes
    BY <2>1 DEF Base, Total, Bytes
  <2>3. \A k : Start(k)' = Start(k)
    BY <2>1 DEF Start, Size
  <2>4. \A k : Gap(k)' = Gap(k)
    BY <2>1, <2>2, <2>3 DEF Gap
  <2>5. Base \in Int /\ Total \in Int
    BY InBuffer DEF IInv
  <2>6. TypeOK'
    BY <2>1 DEF IInv, TypeOK
  <2>7. Layout' /\ Content' /\ NoDecoy'
    BY <2>1, <2>2, <2>5, Kept DEF IInv
  <2>8. Place'
    BY <2>1, <2>2, <2>3, <2>4 DEF IInv, Place, Now
  <2>9. Decoded'
    BY <2>1 DEF IInv, Decoded, Now
  <2> QED
    BY <2>6, <2>7, <2>8, <2>9 DEF IInv
<1> QED
  BY <1>1, <1>2, <1>3, <1>4, <1>5 DEF Next

\* Frames lie one after the other with one gap at most, their bytes are in the
\* stream as they were encoded, nothing else there makes a frame, and recycling
\* is behind decoding by the gap (encode and decode, chat_service_codec.cpp).
THEOREM Invariance == Spec => []IInv
BY InitInv, StepInv, PTL DEF Spec

\* A frame that has arrived and was not decoded would be found.
LEMMA InvFrames == IInv => FramesInOrder
<1> SUFFICES ASSUME IInv PROVE FramesInOrder
  OBVIOUS
<1>1. TypeOK /\ Layout /\ Content /\ NoDecoy /\ Place /\ Decoded
  BY DEF IInv
<1> DEFINE serial == [i \in DOMAIN got |-> got[i][1]]
           whole  == { k \in DOMAIN ends : ends[k] <= arrived }
<1>2. DOMAIN ends = 1 .. Len(sent) /\ got \in Seq(Seq(Nat)) /\ DOMAIN got = 1 .. Len(got)
  BY <1>1 DEF TypeOK
<1>3. \A i \in DOMAIN got : serial[i] \in whole /\ got[i] = sent[serial[i]]
  BY <1>1, <1>2 DEF Decoded
<1>4. \A i \in 2 .. Len(got) :
        \/ serial[i] = serial[i - 1] + 1
        \/ serial[i] = serial[i - 1] /\ Len(tail) >= Len(Encode(got[i]))
  <2> TAKE i \in 2 .. Len(got)
  <2>1. i \in DOMAIN got /\ i - 1 \in DOMAIN got
    BY <1>2
  <2> QED
    BY <1>1, <2>1 DEF Decoded
<1>5. got # <<>> => serial[1] = 1
  <2>1. SUFFICES ASSUME got # <<>> PROVE serial[1] = 1
    OBVIOUS
  <2>2. 1 \in DOMAIN got
    BY <1>2, <2>1
  <2> QED
    BY <1>1, <2>1, <2>2 DEF Decoded
<1>6. ASSUME Frames(buffer) = {}, NEW k \in whole PROVE \E i \in DOMAIN got : serial[i] = k
  <2>1. k \in 1 .. Len(sent) /\ ends[k] <= arrived
    BY <1>2
  <2>2. Start(k) \in Int /\ Base \in Int
    BY <1>1, <2>1, Places, InBuffer
  <2>3. Start(k) < Base
    <3>1. ~(Start(k) >= Base)
      BY <1>1, <1>6, <2>1, IsFound
    <3> QED
      BY <2>2, <3>1
  <2>4. got # <<>>
    <3>1. SUFFICES ASSUME got = <<>> PROVE FALSE
      OBVIOUS
    <3>2. Base = 0 /\ Start(1) = 0 /\ 1 \in 1 .. Len(sent)
      BY <1>1, <2>1, <3>1 DEF Place, Layout
    <3>3. k > 1
      BY <2>1, <2>3, <3>2
    <3>4. ends[1] \in Nat /\ ends[1] <= Start(k)
      BY <1>1, <2>1, <3>2, <3>3, Places DEF Layout
    <3> QED
      BY <2>2, <2>3, <3>2, <3>4
  <2>5. Now \in 1 .. Len(sent) /\ Base <= ends[Now]
    <3>1. Len(got) \in DOMAIN got
      BY <1>2, <2>4
    <3>2. Now \in 1 .. Len(sent)
      BY <1>1, <3>1 DEF Now, Decoded
    <3> QED
      BY <1>1, <2>4, <3>2 DEF Place
  <2>6. ~(Now < k)
    <3>1. SUFFICES ASSUME Now < k PROVE FALSE
      OBVIOUS
    <3>2. ends[Now] <= Start(k) /\ ends[Now] \in Int
      BY <1>1, <2>1, <2>5, <3>1, Places DEF Layout
    <3> QED
      BY <2>2, <2>3, <2>5, <3>2
  <2>7. k \in 1 .. Now
    BY <2>1, <2>5, <2>6
  <2> QED
    BY <1>1, <2>4, <2>7 DEF Decoded
<1> QED
  BY <1>3, <1>4, <1>5, <1>6 DEF FramesInOrder

\* sent, ends and got are sequences of bytes and places that fit together,
\* and never is more recycled than has arrived (TcpBuffer::recycleRead).
THEOREM TypeCorrect == Spec => []TypeOK
<1>1. IInv => TypeOK
  BY DEF IInv
<1> QED
  BY <1>1, Invariance, PTL

\* The receiver gets every frame that was sent, unaltered, in order and as soon
\* as it has arrived, and a second time only behind a tail that is as long as
\* the frame (decode, chat_service_codec.cpp).
THEOREM FramesAreDecodedInOrder == Spec => []FramesInOrder
BY Invariance, InvFrames, PTL
================================================================================
