-------------------------- MODULE FrameStreamProofs --------------------------
(***************************************************************************)
(* What the reader of packets hands over, against what was sent, for all   *)
(* texts and any number of packets, wherever TCP cuts the stream.  Whole   *)
(* says that the units to come are the packets to come, one after the      *)
(* other, and is about a stream where nothing has gone wrong; FlagsAreReal *)
(* says that U L I only stands in a header, and is about any stream of     *)
(* headers that were sent whole.                                           *)
(***************************************************************************)
EXTENDS FrameReaderProofs

(***************************************************************************)
(* Sequences of units.                                                     *)
(***************************************************************************)
\* A sequence is its first elements and the others.
LEMMA TakeDrop ==
  ASSUME NEW S, NEW s \in Seq(S), NEW n \in Nat
  PROVE  Take(s, n) \o Drop(s, n) = s
<1> DEFINE t == Take(s, n)
           d == Drop(s, n)
           c == t \o d
<1>1. Len(s) \in Nat
  BY LenProperties
<1>2. /\ t \in Seq(S) /\ Len(t) = IF n < Len(s) THEN n ELSE Len(s)
      /\ \A k \in 1..Len(t) : t[k] = s[k]
  BY TakeProperties
<1>3. /\ d \in Seq(S) /\ Len(d) = IF n <= Len(s) THEN Len(s) - n ELSE 0
      /\ \A k \in 1..Len(d) : d[k] = s[n + k]
  BY DropProperties
<1> HIDE DEF t, d
<1>4. /\ c \in Seq(S) /\ Len(c) = Len(t) + Len(d)
      /\ \A k \in 1..(Len(t) + Len(d)) : c[k] = IF k <= Len(t) THEN t[k] ELSE d[k - Len(t)]
  <2>1. t \in Seq(S) /\ d \in Seq(S)
    BY <1>2, <1>3
  <2> QED
    BY <2>1, ConcatProperties
<1> HIDE DEF c
<1>5. Len(c) = Len(s)
  <2>1. CASE n < Len(s)
    <3>1. Len(t) = n /\ Len(d) = Len(s) - n
      BY <2>1, <1>1, <1>2, <1>3
    <3> QED
      BY <3>1, <1>1, <1>4
  <2>2. CASE ~(n < Len(s))
    <3>1. Len(t) = Len(s) /\ Len(d) = 0
      BY <2>2, <1>1, <1>2, <1>3
    <3> QED
      BY <3>1, <1>1, <1>4
  <2> QED
    BY <2>1, <2>2
<1>6. ASSUME NEW k \in 1..Len(s) PROVE c[k] = s[k]
  <2>1. CASE k <= Len(t)
    BY <2>1, <1>1, <1>2, <1>4, <1>5
  <2>2. CASE ~(k <= Len(t))
    <3>1. Len(t) = n /\ k - n \in 1..Len(d) /\ n + (k - n) = k
      BY <2>2, <1>1, <1>2, <1>3
    <3>2. c[k] = d[k - n]
      BY <2>2, <3>1, <1>4, <1>5
    <3> QED
      BY <3>1, <3>2, <1>3
  <2> QED
    BY <2>1, <2>2
<1>7. c = s
  BY <1>4, <1>5, <1>6, SeqEqual
<1> QED
  BY <1>7 DEF c, t, d

\* What has arrived and what has not are one stream: recv takes from its
\* front, and what arrives does not change it.
LEMMA StreamTaken ==
  ASSUME NEW S, NEW a \in Seq(S), NEW w \in Seq(S), NEW n \in Nat
  PROVE  /\ a \o w \in Seq(S) /\ Len(a \o w) = Len(a) + Len(w)
         /\ Take(a, n) \o (Drop(a, n) \o w) = a \o w
         /\ (a \o Take(w, n)) \o Drop(w, n) = a \o w
<1> DEFINE ta == Take(a, n)
           da == Drop(a, n)
           tw == Take(w, n)
           dw == Drop(w, n)
<1>1. ta \in Seq(S) /\ da \in Seq(S) /\ tw \in Seq(S) /\ dw \in Seq(S)
  BY TakeProperties, DropProperties
<1>2. ta \o da = a /\ tw \o dw = w
  BY TakeDrop
<1> HIDE DEF ta, da, tw, dw
<1>3. (ta \o da) \o w = ta \o (da \o w)
  BY <1>1, ConcatAssociative, SMTT(60)
<1>4. (a \o tw) \o dw = a \o (tw \o dw)
  BY <1>1, ConcatAssociative, SMTT(60)
<1>5. a \o w \in Seq(S) /\ Len(a \o w) = Len(a) + Len(w)
  BY ConcatProperties
<1>6. ta \o (da \o w) = a \o w /\ (a \o tw) \o dw = a \o w
  BY <1>2, <1>3, <1>4
<1> QED
  BY <1>5, <1>6 DEF ta, da, tw, dw

\* What recv takes and what it leaves are the stream.
LEMMA UnitsTaken ==
  ASSUME NEW a \in Seq(Units), NEW w \in Seq(Units), NEW n \in Nat
  PROVE  Take(a, n) \o (Drop(a, n) \o w) = a \o w
<1> DEFINE S == Units
<1>1. a \in Seq(S) /\ w \in Seq(S)
  OBVIOUS
<1> HIDE DEF S
<1> QED
  BY <1>1, StreamTaken

\* What is sent is added at its end.
LEMMA StreamSent ==
  ASSUME NEW h \in Seq(Units), NEW a \in Seq(Units), NEW w \in Seq(Units), NEW f \in Seq(Units)
  PROVE  (h \o (a \o w)) \o f = h \o (a \o (w \o f))
<1> DEFINE c == a \o w
<1>1. c \o f = a \o (w \o f)
  BY ConcatAssociative, SMTT(60)
<1>2. c \in Seq(Units)
  BY ConcatProperties
<1> HIDE DEF c
<1>3. (h \o c) \o f = h \o (c \o f)
  BY <1>2, ConcatAssociative, SMTT(60)
<1> QED
  BY <1>1, <1>3 DEF c

\* What the k-th packet is made of.
PacketUnits(p, k) ==
  /\ p \in Frames /\ p.head \in Seq(Units) /\ p.body \in Seq(Units)
  /\ p = [head |-> p.head, body |-> p.body]
  /\ Len(p.head) = HeaderLen /\ Len(p.body) \in Nat /\ HeaderLen + Len(p.body) < Word
  /\ p.head[1].byte = "W" /\ p.head[2].byte = "U" /\ p.head[3].byte = "L"
  /\ p.head[4].byte = "I" /\ p.head[5].byte = "N" /\ p.head[6].byte = "D"
  /\ p.head[5].total = HeaderLen + Len(p.body)
  /\ \A j \in 1..HeaderLen : p.head[j].of = k
  /\ \A j \in 1..Len(p.body) : p.body[j].of = k

\* CreateHeader makes such packets.
LEMMA PacketShape ==
  ASSUME NEW k \in Nat, NEW text \in Texts
  PROVE  PacketUnits(Packet(k, text), k)
<1> SUFFICES ASSUME NEW p, p = Packet(k, text) PROVE PacketUnits(p, k)
  OBVIOUS
<1>1. p \in Frames /\ p.head \in Seq(Units) /\ p.body \in Seq(Units)
  <2>1. p \in Frames
    BY PacketType
  <2> QED
    BY <2>1 DEF Frames
<1>2. text \in Seq({"W", "U", "L", "I", "x"}) /\ Len(text) \in Nat
  BY ReaderAssumption, LenProperties
<1> DEFINE f == [j \in 1..FlagLen |-> Unit(Flag[j], k, 0)]
           g == <<Unit("N", k, HeaderLen + Len(text)), Unit("D", k, 0)>>
           b == [j \in 1..Len(text) |-> Unit(text[j], k, 0)]
<1>3. p = [head |-> f \o g, body |-> b]
  BY DEF Packet
<1>4. Len(b) = Len(text) /\ \A j \in 1..Len(text) : b[j] = Unit(text[j], k, 0)
  BY <1>2
<1>5. /\ f \in Seq(Units) /\ g \in Seq(Units)
  <2>1. \A byte \in {"W", "U", "L", "I", "N", "D"}, total \in Nat : Unit(byte, k, total) \in Units
    BY DEF Unit, Units
  <2>2. \A j \in 1..FlagLen : Unit(Flag[j], k, 0) \in Units
    BY <2>1 DEF Flag, FlagLen
  <2>3. f \in Seq(Units)
    <3>1. FlagLen \in Nat
      BY DEF FlagLen
    <3> QED
      BY <2>2, <3>1, IsASeq
  <2>4. Unit("N", k, HeaderLen + Len(text)) \in Units /\ Unit("D", k, 0) \in Units
    BY <1>2, <2>1 DEF HeaderLen
  <2> QED
    BY <2>3, <2>4
<1>6. /\ Len(f) = 4 /\ f[1] = Unit("W", k, 0) /\ f[2] = Unit("U", k, 0)
      /\ f[3] = Unit("L", k, 0) /\ f[4] = Unit("I", k, 0)
  BY DEF FlagLen, Flag
<1>7. Len(g) = 2 /\ g[1] = Unit("N", k, HeaderLen + Len(text)) /\ g[2] = Unit("D", k, 0)
  OBVIOUS
<1> HIDE DEF f, g, b
<1> DEFINE h == f \o g
<1>8. /\ Len(h) = Len(f) + Len(g)
      /\ \A j \in 1..(Len(f) + Len(g)) : h[j] = IF j <= Len(f) THEN f[j] ELSE g[j - Len(f)]
  BY <1>5, ConcatProperties
<1> HIDE DEF h
<1>9. /\ h[1] = Unit("W", k, 0) /\ h[2] = Unit("U", k, 0) /\ h[3] = Unit("L", k, 0)
      /\ h[4] = Unit("I", k, 0) /\ h[5] = Unit("N", k, HeaderLen + Len(text))
      /\ h[6] = Unit("D", k, 0) /\ Len(h) = 6
  BY <1>6, <1>7, <1>8
<1>10. p = [head |-> h, body |-> b]
  BY <1>3 DEF h
<1>11. p.head = h /\ p.body = b
  BY <1>10
<1>12. \A byte, total : /\ Unit(byte, k, total).byte = byte /\ Unit(byte, k, total).of = k
                        /\ Unit(byte, k, total).total = total
  BY DEF Unit
<1>13. \A j \in 1..HeaderLen : h[j].of = k
  BY <1>9, <1>12 DEF HeaderLen
<1>14. \A j \in 1..Len(text) : b[j].of = k
  BY <1>4, <1>12
<1>15. HeaderLen + Len(b) < Word /\ HeaderLen + Len(b) = HeaderLen + Len(text)
  BY <1>4, TextsAssumption, Zenon
<1>16. /\ Len(p.head) = HeaderLen /\ Len(p.body) \in Nat /\ HeaderLen + Len(p.body) < Word
       /\ p.head[5].total = HeaderLen + Len(p.body) /\ p = [head |-> p.head, body |-> p.body]
  BY <1>2, <1>4, <1>9, <1>10, <1>11, <1>12, <1>15 DEF HeaderLen
<1>17. /\ p.head[1].byte = "W" /\ p.head[2].byte = "U" /\ p.head[3].byte = "L"
       /\ p.head[4].byte = "I" /\ p.head[5].byte = "N" /\ p.head[6].byte = "D"
  BY <1>9, <1>11, <1>12
<1>18. /\ \A j \in 1..HeaderLen : p.head[j].of = k
       /\ \A j \in 1..Len(p.body) : p.body[j].of = k
  BY <1>4, <1>11, <1>13, <1>14
<1> QED
  BY <1>1, <1>16, <1>17, <1>18 DEF PacketUnits

\* All of a sequence.
LEMMA TakeAll ==
  ASSUME NEW S, NEW s \in Seq(S), NEW n \in Nat, n >= Len(s)
  PROVE  Take(s, n) = s
<1>1. Len(s) \in Nat
  BY LenProperties
<1>2. /\ Take(s, n) \in Seq(S) /\ Len(Take(s, n)) = Len(s)
      /\ \A k \in 1..Len(s) : Take(s, n)[k] = s[k]
  <2>1. /\ Take(s, n) \in Seq(S)
        /\ Len(Take(s, n)) = IF n < Len(s) THEN n ELSE Len(s)
        /\ \A k \in 1..Len(Take(s, n)) : k \in 1..Len(s) /\ Take(s, n)[k] = s[k]
    BY TakeProperties
  <2>2. Len(Take(s, n)) = Len(s)
    BY <1>1, <2>1
  <2> QED
    BY <2>1, <2>2
<1> QED
  BY <1>2, SeqEqual

(***************************************************************************)
(* What was sent.                                                          *)
(***************************************************************************)
\* The packets that were sent were made by CreateHeader, and are numbered.
SentShape == \A k \in 1..Len(sent) : \E text \in Texts : sent[k] = Packet(k, text)

Frame(p) == p.head \o p.body

\* The units it takes.
Size(p) == Len(Frame(p))

\* A packet as it goes over the connection.
FrameUnits(p, k) ==
  /\ Frame(p) \in Seq(Units) /\ Size(p) = HeaderLen + Len(p.body)
  /\ \A j \in 1..HeaderLen : Frame(p)[j] = p.head[j]
  /\ \A j \in 1..Len(p.body) : Frame(p)[HeaderLen + j] = p.body[j]
  /\ \A j \in 1..(HeaderLen + Len(p.body)) : Frame(p)[j].of = k

\* It is its header and its body.
LEMMA FrameShape ==
  ASSUME NEW k \in Nat, NEW p, PacketUnits(p, k)
  PROVE  FrameUnits(p, k)
<1> DEFINE h == p.head
           b == p.body
           f == h \o b
           n == Len(b)
<1>1. /\ h \in Seq(Units) /\ b \in Seq(Units)
      /\ Len(h) = HeaderLen /\ n \in Nat
      /\ \A j \in 1..HeaderLen : h[j].of = k
      /\ \A j \in 1..n : b[j].of = k
  BY DEF PacketUnits
<1>2. Frame(p) = f
  BY DEF Frame
<1> HIDE DEF h, b
<1>3. /\ f \in Seq(Units) /\ Len(f) = Len(h) + n
      /\ \A j \in 1..(Len(h) + n) : f[j] = IF j <= Len(h) THEN h[j] ELSE b[j - Len(h)]
  BY <1>1, ConcatProperties
<1> HIDE DEF f, n
<1>4. Len(h) = 6 /\ HeaderLen = 6
  BY <1>1 DEF HeaderLen
<1>5. \A j \in 1..(6 + n) : f[j] = IF j <= 6 THEN h[j] ELSE b[j - 6]
  BY <1>3, <1>4
<1>6. ASSUME NEW j \in 1..6 PROVE f[j] = h[j] /\ f[j].of = k
  BY <1>1, <1>4, <1>5
<1>7. ASSUME NEW j \in 1..n PROVE f[6 + j] = b[j]
  <2>1. 6 + j \in 1..(6 + n) /\ ~(6 + j <= 6) /\ (6 + j) - 6 = j
    BY <1>1
  <2> QED
    BY <1>5, <2>1
<1>8. ASSUME NEW j \in 1..(6 + n) PROVE f[j].of = k
  <2>1. CASE j <= 6
    BY <1>1, <1>6, <2>1
  <2>2. CASE ~(j <= 6)
    <3>1. j - 6 \in 1..n
      BY <1>1, <2>2
    <3>2. f[j] = b[j - 6]
      BY <1>5, <2>2
    <3> QED
      BY <1>1, <3>1, <3>2
  <2> QED
    BY <2>1, <2>2
<1>9. /\ f \in Seq(Units) /\ n \in Nat /\ Len(f) = HeaderLen + n
      /\ \A j \in 1..HeaderLen : f[j] = h[j]
      /\ \A j \in 1..n : f[HeaderLen + j] = b[j]
      /\ \A j \in 1..(HeaderLen + n) : f[j].of = k
  BY <1>1, <1>3, <1>4, <1>6, <1>7, <1>8
<1> QED
  BY <1>2, <1>9 DEF h, b, n, FrameUnits, Size

\* The units of a stream are the packets of s from the n-th on, and at says
\* where each begins.
WholeAt(R, s, n, at) ==
  /\ at[n] = 0 /\ at[Len(s) + 1] = Len(R)
  /\ \A k \in n..Len(s) :
       /\ at[k + 1] = at[k] + Size(s[k])
       /\ \A j \in 1..Size(s[k]) : R[at[k] + j] = Frame(s[k])[j]
  /\ \A k \in n..Len(s), l \in n..(Len(s) + 1) : k < l => at[k] + Size(s[k]) <= at[l]

Whole(R, s, n) == n \in 1..(Len(s) + 1) /\ \E at \in [Nat -> Nat] : WholeAt(R, s, n, at)

\* The packets of a sequence have a length.
Sized(s) == \A k \in 1..Len(s) : Frame(s[k]) \in Seq(Units)

\* Nothing is sent and nothing is on the way.
LEMMA WholeNone == Whole(<<>>, <<>>, 1)
<1> DEFINE at == [k \in Nat |-> 0]
<1>1. Len(<<>>) = 0
  BY EmptySeq
<1>2. at \in [Nat -> Nat] /\ at[1] = 0
  OBVIOUS
<1>3. 1..0 = {}
  OBVIOUS
<1>4. WholeAt(<<>>, <<>>, 1, at)
  BY <1>1, <1>2, <1>3 DEF WholeAt
<1> QED
  BY <1>1, <1>2, <1>4 DEF Whole

\* One more packet is sent.
LEMMA WholeAppend ==
  ASSUME NEW s \in Seq(Frames), NEW R \in Seq(Units), NEW n \in Nat, Whole(R, s, n), Sized(s),
         NEW p \in Frames, Frame(p) \in Seq(Units)
  PROVE  Whole(R \o Frame(p), Append(s, p), n)
<1>1. PICK at \in [Nat -> Nat] : WholeAt(R, s, n, at)
  BY DEF Whole
<1> DEFINE t == Append(s, p)
           T == R \o Frame(p)
           L == Len(s)
           r == Len(R)
           q == Len(T)
           m == Size(p)
           next == [at EXCEPT ![L + 2] = r + m]
<1>2. /\ Len(t) = L + 1 /\ t[L + 1] = p /\ \A k \in 1..L : t[k] = s[k]
  BY AppendProperties
<1>3. L \in Nat /\ n \in 1..(L + 1) /\ r \in Nat /\ m \in Nat
  BY LenProperties DEF Whole, Size
<1>4. /\ q = r + m
      /\ \A j \in 1..(r + m) :
           T[j] = IF j <= r THEN R[j] ELSE Frame(p)[j - r]
  BY ConcatProperties DEF Size
<1>5. \A k \in n..L : Size(t[k]) \in Nat /\ t[k] = s[k]
  <2>1. \A k \in n..L : k \in 1..L
    BY <1>3
  <2>2. \A k \in 1..L : Size(s[k]) \in Nat
    BY LenProperties DEF Sized, Size
  <2> QED
    BY <1>2, <2>1, <2>2
<1>6. /\ at[n] = 0 /\ at[L + 1] = r
      /\ \A k \in n..L :
           /\ at[k + 1] = at[k] + Size(s[k])
           /\ \A j \in 1..Size(s[k]) : R[at[k] + j] = Frame(s[k])[j]
      /\ \A k \in n..L, l \in n..(L + 1) : k < l => at[k] + Size(s[k]) <= at[l]
  BY <1>1 DEF WholeAt
<1> HIDE DEF t, T, L, r, q, m
<1>7. /\ next \in [Nat -> Nat] /\ next[L + 2] = q
      /\ \A k \in n..(L + 1) : next[k] = at[k] /\ at[k] \in Nat
  <2>1. next \in [Nat -> Nat] /\ next[L + 2] = r + m
    <3>1. L + 2 \in Nat /\ r + m \in Nat
      BY <1>3
    <3> DEFINE w == r + m
               v == L + 2
    <3> HIDE DEF w, v
    <3>2. [at EXCEPT ![v] = w] \in [Nat -> Nat] /\ [at EXCEPT ![v] = w][v] = w
      BY <3>1 DEF w, v
    <3> QED
      BY <3>2 DEF w, v, next
  <2>2. ASSUME NEW k \in n..(L + 1) PROVE next[k] = at[k] /\ at[k] \in Nat
    <3>1. k \in Nat /\ k # L + 2
      BY <1>3
    <3> QED
      BY <3>1
  <2> QED
    BY <1>4, <2>1, <2>2
<1> HIDE DEF next
<1>8. next[n] = 0 /\ next[Len(t) + 1] = q
  <2>1. Len(t) + 1 = L + 2 /\ n \in n..(L + 1)
    BY <1>2, <1>3
  <2> QED
    BY <1>6, <1>7, <2>1
<1>9. ASSUME NEW k \in n..Len(t)
      PROVE  /\ next[k + 1] = next[k] + Size(t[k])
             /\ \A j \in 1..Size(t[k]) : T[next[k] + j] = Frame(t[k])[j]
             /\ next[k] + Size(t[k]) <= q
  <2>1. CASE k = L + 1
    <3>1. k + 1 = L + 2 /\ L + 1 \in n..(L + 1)
      BY <1>3, <2>1
    <3>2. t[k] = p /\ next[k] = r /\ next[k + 1] = q
      BY <1>2, <1>6, <1>7, <2>1, <3>1
    <3>3. ASSUME NEW j \in 1..m PROVE T[r + j] = Frame(p)[j]
      <4>1. r + j \in 1..(r + m) /\ ~(r + j <= r) /\ (r + j) - r = j
        BY <1>3
      <4> QED
        BY <1>4, <4>1
    <3>4. Size(t[k]) = m /\ r + m = q /\ q <= q
      BY <1>3, <1>4, <3>2 DEF m
    <3> QED
      BY <3>2, <3>3, <3>4
  <2>2. CASE k # L + 1
    <3>1. k \in n..L /\ k + 1 \in n..(L + 1) /\ k \in n..(L + 1) /\ L + 1 \in n..(L + 1) /\ k < L + 1
      BY <1>2, <1>3, <2>2
    <3> DEFINE a == at[k]
               z == Size(s[k])
    <3>2. /\ t[k] = s[k] /\ z \in Nat /\ a \in Nat
          /\ next[k] = a /\ next[k + 1] = at[k + 1]
      <4>1. Size(t[k]) \in Nat /\ t[k] = s[k]
        BY <1>5, <3>1
      <4> QED
        BY <1>7, <3>1, <4>1
    <3>3. a + z <= r /\ at[k + 1] = a + z
      BY <1>6, <3>1
    <3>4. \A j \in 1..z : R[a + j] = Frame(s[k])[j]
      BY <1>6, <3>1
    <3> HIDE DEF a, z
    <3>5. ASSUME NEW j \in 1..z PROVE T[a + j] = Frame(s[k])[j]
      <4>1. a + j \in 1..(r + m) /\ a + j <= r
        BY <1>3, <3>2, <3>3
      <4>2. T[a + j] = R[a + j]
        BY <1>4, <4>1
      <4> QED
        BY <3>4, <4>2
    <3>6. a + z <= q
      BY <1>3, <1>4, <3>2, <3>3
    <3>7. Size(t[k]) = z
      BY <3>2 DEF z
    <3> QED
      BY <3>2, <3>3, <3>5, <3>6, <3>7
  <2> QED
    BY <2>1, <2>2
<1>10. ASSUME NEW k \in n..Len(t), NEW l \in n..(Len(t) + 1), k < l
       PROVE  next[k] + Size(t[k]) <= next[l]
  <2>1. CASE l = L + 2
    BY <1>7, <1>9, <2>1
  <2>2. CASE l # L + 2
    <3>1. k \in n..L /\ l \in n..(L + 1) /\ k \in n..(L + 1)
      BY <1>2, <1>3, <1>10, <2>2
    <3>2. t[k] = s[k] /\ next[k] = at[k] /\ next[l] = at[l]
      BY <1>5, <1>7, <3>1
    <3> QED
      BY <1>6, <1>10, <3>1, <3>2
  <2> QED
    BY <2>1, <2>2
<1>11. WholeAt(T, t, n, next)
  BY <1>8, <1>9, <1>10 DEF WholeAt, q
<1>12. n \in 1..(Len(t) + 1)
  BY <1>2, <1>3
<1> QED
  BY <1>7, <1>11, <1>12 DEF Whole, t, T

\* Where there is something, there is all of the first packet.
LEMMA WholeFirst ==
  ASSUME NEW s \in Seq(Frames), NEW R \in Seq(Units), NEW n \in Nat, Whole(R, s, n), Sized(s), Len(R) # 0
  PROVE  /\ n \in 1..Len(s) /\ Size(s[n]) <= Len(R)
         /\ \A j \in 1..Size(s[n]) : R[j] = Frame(s[n])[j]
<1>1. PICK at \in [Nat -> Nat] : WholeAt(R, s, n, at)
  BY DEF Whole
<1> DEFINE L == Len(s)
           r == Len(R)
           m == Size(s[n])
<1>2. L \in Nat /\ r \in Nat /\ n \in 1..(L + 1) /\ r # 0
  BY LenProperties DEF Whole
<1>3. at[n] = 0 /\ at[L + 1] = r
  BY <1>1 DEF WholeAt
<1>4. \A k \in n..L, l \in n..(L + 1) : k < l => at[k] + Size(s[k]) <= at[l]
  BY <1>1 DEF WholeAt
<1>5. \A k \in n..L : \A j \in 1..Size(s[k]) : R[at[k] + j] = Frame(s[k])[j]
  BY <1>1 DEF WholeAt
<1>6. \A k \in 1..L : Size(s[k]) \in Nat
  BY LenProperties DEF Sized, Size
<1> HIDE DEF L, r
<1>7. n # L + 1
  BY <1>2, <1>3
<1>8. n \in 1..L /\ n \in n..L /\ L + 1 \in n..(L + 1) /\ n < L + 1
  BY <1>2, <1>7
<1>9. m \in Nat /\ at[n] + m <= r
  BY <1>3, <1>4, <1>6, <1>8
<1>10. \A j \in 1..m : R[at[n] + j] = Frame(s[n])[j]
  BY <1>5, <1>8
<1> HIDE DEF m
<1>11. m <= r
  BY <1>2, <1>3, <1>9
<1>12. ASSUME NEW j \in 1..m PROVE R[j] = Frame(s[n])[j]
  <2>1. at[n] + j = j
    BY <1>3, <1>9
  <2> QED
    BY <1>10, <2>1
<1> QED
  BY <1>8, <1>11, <1>12 DEF L, r, m

\* The first packet is read.
LEMMA WholeRest ==
  ASSUME NEW s \in Seq(Frames), NEW R \in Seq(Units), NEW n \in Nat, Whole(R, s, n), Sized(s), Len(R) # 0,
         NEW T \in Seq(Units), Len(T) = Len(R) - Size(s[n]),
         \A j \in 1..Len(T) : T[j] = R[Size(s[n]) + j]
  PROVE  Whole(T, s, n + 1)
<1>1. PICK at \in [Nat -> Nat] : WholeAt(R, s, n, at)
  BY DEF Whole
<1> DEFINE L == Len(s)
           r == Len(R)
           q == Len(T)
           m == Size(s[n])
           next == [k \in Nat |-> IF at[k] >= m THEN at[k] - m ELSE 0]
<1>2. L \in Nat /\ r \in Nat /\ n \in 1..L /\ m \in Nat /\ q \in Nat
  <2>1. n \in 1..Len(s)
    BY WholeFirst
  <2> QED
    BY <2>1, LenProperties DEF Sized, Size
<1>3. /\ at[n] = 0 /\ at[L + 1] = r
      /\ \A k \in n..L :
           /\ at[k + 1] = at[k] + Size(s[k])
           /\ \A j \in 1..Size(s[k]) : R[at[k] + j] = Frame(s[k])[j]
      /\ \A k \in n..L, l \in n..(L + 1) : k < l => at[k] + Size(s[k]) <= at[l]
  BY <1>1 DEF WholeAt
<1>4. \A k \in (n + 1)..L : Size(s[k]) \in Nat
  <2>1. \A k \in (n + 1)..L : k \in 1..L
    BY <1>2
  <2> QED
    BY <2>1, LenProperties DEF Sized, Size
<1>5. /\ q = r - m
      /\ \A j \in 1..q : T[j] = R[m + j]
  OBVIOUS
<1>6. n \in n..L
  BY <1>2
<1> HIDE DEF L, m, r, q
<1>7. at[n + 1] = m
  BY <1>2, <1>3, <1>6 DEF m
<1>8. next \in [Nat -> Nat] /\ \A l \in Nat : next[l] = IF at[l] >= m THEN at[l] - m ELSE 0
  <2>1. ASSUME NEW l \in Nat PROVE (IF at[l] >= m THEN at[l] - m ELSE 0) \in Nat
    <3> DEFINE a == at[l]
    <3>1. a \in Nat
      OBVIOUS
    <3> HIDE DEF a
    <3>2. (IF a >= m THEN a - m ELSE 0) \in Nat
      BY <1>2, <3>1
    <3> QED
      BY <3>2 DEF a
  <2> QED
    BY <2>1
<1> HIDE DEF next
<1>9. ASSUME NEW l \in (n + 1)..(L + 1) PROVE at[l] \in Nat /\ at[l] >= m /\ next[l] = at[l] - m
  <2>1. l \in n..(L + 1) /\ n < l /\ l \in Nat
    BY <1>2
  <2>2. at[n] + m <= at[l] /\ at[n] = 0 /\ at[l] \in Nat
    BY <1>3, <1>6, <2>1 DEF m
  <2>3. at[l] >= m
    BY <1>2, <2>2
  <2> QED
    BY <1>8, <2>1, <2>2, <2>3
<1>10. next[n + 1] = 0 /\ next[L + 1] = q
  <2>1. n + 1 \in (n + 1)..(L + 1) /\ L + 1 \in (n + 1)..(L + 1)
    BY <1>2
  <2>2. next[n + 1] = m - m /\ next[L + 1] = r - m
    BY <1>3, <1>7, <1>9, <2>1
  <2> QED
    BY <1>2, <1>5, <2>2
<1>11. ASSUME NEW k \in (n + 1)..L
       PROVE  /\ next[k + 1] = next[k] + Size(s[k])
              /\ \A j \in 1..Size(s[k]) : T[next[k] + j] = Frame(s[k])[j]
  <2>1. k \in n..L /\ k \in (n + 1)..(L + 1) /\ k + 1 \in (n + 1)..(L + 1)
        /\ k + 1 \in n..(L + 1) /\ L + 1 \in n..(L + 1) /\ k < L + 1
    BY <1>2
  <2> DEFINE a == at[k]
             b == next[k]
             z == Size(s[k])
  <2>2. /\ b = a - m /\ next[k + 1] = at[k + 1] - m /\ a \in Nat /\ a >= m
    BY <1>9, <2>1
  <2>3. at[k + 1] = a + z /\ a + z <= r
    BY <1>3, <2>1
  <2>4. \A j \in 1..z : R[a + j] = Frame(s[k])[j]
    BY <1>3, <2>1
  <2>5. z \in Nat
    BY <1>4
  <2> HIDE DEF a, b, z
  <2>6. b \in Nat
    BY <1>2, <2>2
  <2>7. ASSUME NEW j \in 1..z PROVE T[b + j] = Frame(s[k])[j]
    <3>1. q = r - m
      BY <1>5
    <3>2. b + j \in 1..q /\ m + (b + j) = a + j
      BY <1>2, <2>2, <2>3, <2>5, <2>6, <3>1
    <3>3. T[b + j] = R[m + (b + j)]
      BY <1>5, <3>2
    <3> QED
      BY <2>4, <3>2, <3>3
  <2>8. next[k + 1] = b + z
    BY <1>2, <2>2, <2>3, <2>5
  <2> QED
    BY <2>7, <2>8 DEF b, z
<1>12. ASSUME NEW k \in (n + 1)..L, NEW l \in (n + 1)..(L + 1), k < l
       PROVE  next[k] + Size(s[k]) <= next[l]
  <2>1. k \in n..L /\ l \in n..(L + 1) /\ k \in (n + 1)..(L + 1)
    BY <1>2
  <2> DEFINE a == at[k]
             b == at[l]
             c == next[k]
             d == next[l]
             z == Size(s[k])
  <2>2. a + z <= b
    BY <1>3, <1>12, <2>1
  <2>3. c = a - m /\ d = b - m /\ a \in Nat /\ b \in Nat
    BY <1>9, <2>1
  <2>4. z \in Nat
    BY <1>4
  <2> HIDE DEF a, b, c, d, z
  <2>5. c + z <= d
    BY <1>2, <2>2, <2>3, <2>4
  <2> QED
    BY <2>5 DEF c, d, z
<1>13. WholeAt(T, s, n + 1, next)
  BY <1>10, <1>11, <1>12 DEF WholeAt, L, q
<1>14. n + 1 \in 1..(Len(s) + 1)
  BY <1>2 DEF L
<1> QED
  BY <1>8, <1>13, <1>14 DEF Whole

(***************************************************************************)
(* Packets are read as they were sent.                                     *)
(***************************************************************************)
\* What is known of a packet that was sent.
LEMMA SentPacket ==
  ASSUME TypeOK, SentShape, NEW k \in 1..Len(sent)
  PROVE  k \in Nat /\ PacketUnits(sent[k], k) /\ FrameUnits(sent[k], k)
<1>1. PICK text \in Texts : sent[k] = Packet(k, text)
  BY DEF SentShape
<1>2. k \in Nat
  BY TypeParts, LenProperties DEF SentType
<1>3. PacketUnits(sent[k], k)
  BY <1>1, <1>2, PacketShape
<1> QED
  BY <1>2, <1>3, FrameShape

\* They have a length.
LEMMA SentSized == TypeOK /\ SentShape => Sized(sent)
BY SentPacket DEF Sized, FrameUnits

\* Only Send adds a packet, and it is numbered by its place.
LEMMA SentShapeKept ==
  ASSUME TypeOK, SentShape, [Next]_vars
  PROVE  SentShape'
<1>1. CASE Send
  <2>1. PICK text \in Texts : sent' = Append(sent, Packet(Len(sent) + 1, text))
    BY <1>1 DEF Send
  <2>2. sent \in Seq(Frames) /\ Len(sent) \in Nat
    BY TypeParts, LenProperties DEF SentType
  <2>3. Packet(Len(sent) + 1, text) \in Frames
    BY <2>2, PacketType
  <2>4. /\ Len(sent') = Len(sent) + 1 /\ sent'[Len(sent) + 1] = Packet(Len(sent) + 1, text)
        /\ \A k \in 1..Len(sent) : sent'[k] = sent[k]
    BY <2>1, <2>2, <2>3, AppendProperties
  <2>5. ASSUME NEW k \in 1..Len(sent') PROVE \E t \in Texts : sent'[k] = Packet(k, t)
    <3>1. CASE k \in 1..Len(sent)
      BY <2>4, <3>1 DEF SentShape
    <3>2. CASE k = Len(sent) + 1
      BY <2>4, <3>2
    <3> QED
      BY <2>2, <2>4, <3>1, <3>2
  <2> QED
    BY <2>5 DEF SentShape
<1>2. CASE Close \/ Arrive \/ ReadHeader \/ SearchByte \/ ReadRest \/ ReadBody \/ UNCHANGED vars
  <2>1. UNCHANGED sent
    BY <1>2 DEF Close, Arrive, ReadHeader, SearchByte, ReadRest, ReadBody, ServerBody, ClientBody,
       Deliver, Forget, End, vars, streamVars
  <2> QED
    BY <2>1 DEF SentShape
<1>3. CASE HeaderAtEof \/ SearchFails \/ RestMissing
  <2>1. UNCHANGED sent
    BY <1>3 DEF HeaderAtEof, SearchFails, RestMissing, End, streamVars
  <2> QED
    BY <2>1 DEF SentShape
<1> QED
  BY <1>1, <1>2, <1>3 DEF Next, Reader

\* While nothing has gone wrong, the packets handed over are the first that
\* were sent, and what is read of a header and still comes is the others.
InStep ==
  harm = {} =>
    /\ pc \in {"header", "body", "end"}
    /\ Len(delivered) <= Len(sent)
    /\ \A k \in 1..Len(delivered) : delivered[k] = sent[k]
    /\ pc # "end" => Whole(hd \o (avail \o wire), sent, Len(delivered) + 1)
    /\ pc = "header" => hd = <<>>
    /\ pc = "body" => Len(hd) = HeaderLen

\* Where the units after g belong to the packet that g ends in, g is cut.
LEMMA CutOff ==
  ASSUME NEW g \in Seq(Units), wire \in Seq(Units), Len(g) # 0, Len(wire) # 0,
         (g \o wire)[Len(g)].of = (g \o wire)[Len(g) + 1].of
  PROVE  Cut(g, <<>>)
<1> DEFINE a == Len(g)
           b == Len(wire)
           c == g \o wire
<1>1. a \in Nat /\ b \in Nat /\ a # 0 /\ b # 0
  BY LenProperties
<1>2. \A j \in 1..(a + b) : c[j] = IF j <= a THEN g[j] ELSE wire[j - a]
  BY ConcatProperties
<1>3. c[a].of = c[a + 1].of
  OBVIOUS
<1>4. g # <<>> /\ wire # <<>>
  BY EmptySeq
<1> HIDE DEF a, b, c
<1>5. a \in 1..(a + b) /\ a + 1 \in 1..(a + b) /\ a <= a /\ ~(a + 1 <= a) /\ (a + 1) - a = 1
  BY <1>1
<1>6. c[a] = g[a] /\ c[a + 1] = wire[1]
  BY <1>2, <1>5
<1>7. wire[1].of = g[a].of
  BY <1>3, <1>6
<1> QED
  BY <1>4, <1>7 DEF Cut, a

\* Four bytes are a flag.
LEMMA FlagFound ==
  ASSUME NEW s \in Seq(Units), Len(s) >= FlagLen, FlagAt(s, 1)
  PROVE  IsFlag(s)
<1> DEFINE t == Take(s, FlagLen)
<1>1. Len(s) \in Nat /\ FlagLen = 4
  BY LenProperties DEF FlagLen
<1>2. /\ t \in Seq(Units) /\ Len(t) = IF FlagLen < Len(s) THEN FlagLen ELSE Len(s)
      /\ \A k \in 1..Len(t) : t[k] = s[k]
  <2>1. FlagLen \in Nat
    BY <1>1
  <2> QED
    BY <2>1, TakeProperties, Zenon
<1> HIDE DEF t
<1>3. Len(t) = 4
  <2> DEFINE n == Len(s)
             m == Len(t)
  <2>1. n \in Nat /\ n >= 4 /\ m = IF 4 < n THEN 4 ELSE n
    BY <1>1, <1>2
  <2> HIDE DEF n, m
  <2>2. m = 4
    BY <2>1
  <2> QED
    BY <2>2 DEF m
<1>4. t[1].byte = "W" /\ t[2].byte = "U" /\ t[3].byte = "L" /\ t[4].byte = "I"
  BY <1>2, <1>3, 1 + 1 = 2, 1 + 2 = 3, 1 + 3 = 4 DEF FlagAt
<1>5. DOMAIN t = 1..4
  BY <1>2, <1>3, LenProperties
<1>6. Bytes(t) = Flag
  BY <1>4, <1>5 DEF Bytes, Flag
<1> QED
  BY <1>6 DEF IsFlag, t

\* Where nothing goes wrong, what is sent is the whole packet.
LEMMA SentWhole ==
  ASSUME TypeOK, Send, harm' = {}
  PROVE  \E p \in Frames :
           /\ harm = {} /\ sent' = Append(sent, p) /\ Frame(p) \in Seq(Units)
           /\ wire' = wire \o Frame(p)
           /\ UNCHANGED <<avail, pc, hd, delivered>>
<1>1. PICK text \in Texts :
        LET p == Packet(Len(sent) + 1, text)
        IN /\ sent' = Append(sent, p)
           /\ IF side = "server" THEN ClientSends(p) ELSE ServerSends(p)
  BY DEF Send
<1> DEFINE p == Packet(Len(sent) + 1, text)
<1>2. Len(sent) + 1 \in Nat
  BY TypeParts, LenProperties DEF SentType
<1>3. PacketUnits(p, Len(sent) + 1) /\ FrameUnits(p, Len(sent) + 1)
  BY <1>2, PacketShape, FrameShape
<1>4. sent' = Append(sent, p) /\ (ClientSends(p) \/ ServerSends(p))
  BY <1>1
<1> HIDE DEF p
<1>5. /\ p \in Frames /\ p.head \in Seq(Units) /\ p.body \in Seq(Units)
      /\ Len(p.head) = HeaderLen /\ Len(p.body) \in Nat /\ Frame(p) \in Seq(Units)
  BY <1>3 DEF PacketUnits, FrameUnits
<1>6. (wire \o p.head) \o p.body = wire \o Frame(p)
  <2> DEFINE h == p.head
             b == p.body
  <2>1. wire \in Seq(Units) /\ h \in Seq(Units) /\ b \in Seq(Units)
    BY <1>5, TypeParts DEF StreamType
  <2>2. Frame(p) = h \o b
    BY DEF Frame
  <2> HIDE DEF h, b
  <2>3. (wire \o h) \o b = wire \o (h \o b)
    BY <2>1, ConcatAssociative
  <2> QED
    BY <2>2, <2>3 DEF h, b
<1>7. CASE ClientSends(p)
  <2>1. wire' = wire \o p.head \o p.body /\ harm = {}
    BY <1>7 DEF ClientSends
  <2> QED
    BY <1>4, <1>5, <1>6, <2>1 DEF Send
<1>8. CASE ServerSends(p)
  <2> DEFINE data == Take(p.body, Len(p.body) % ShortWord)
  <2>1. PICK h \in {0, FlagLen, HeaderLen}, d \in {0, Lesser(1, Len(data)), Len(data)} :
          /\ wire' = wire \o Take(p.head, h) \o Take(data, d)
          /\ harm' = harm \cup (IF h = FlagLen THEN {"torn"} ELSE {})
                          \cup (IF h = 0 \/ d < Len(data) THEN {"lost"} ELSE {})
                          \cup (IF Len(p.body) >= ShortWord THEN {"long"} ELSE {})
    BY <1>8 DEF ServerSends
  <2>2. harm = {} /\ h # FlagLen /\ h # 0 /\ ~(d < Len(data)) /\ ~(Len(p.body) >= ShortWord)
    BY <2>1
  <2>3. data = p.body
    <3> DEFINE n == Len(p.body)
    <3>1. n \in Nat /\ n < ShortWord
      BY <1>5, <2>2, ReaderAssumption
    <3>2. \A l \in Nat : l < ShortWord => l % ShortWord = l
      BY ReaderAssumption
    <3>3. n % ShortWord = n
      BY <3>1, <3>2
    <3>4. Take(p.body, n) = p.body
      <4>1. n >= n
        BY <3>1
      <4> QED
        BY <1>5, <4>1, TakeAll
    <3> QED
      BY <3>3, <3>4
  <2> HIDE DEF data
  <2>4. Take(p.head, h) = p.head
    <3>1. h = HeaderLen /\ HeaderLen \in Nat /\ HeaderLen >= HeaderLen
      BY <2>1, <2>2 DEF HeaderLen
    <3> QED
      BY <1>5, <3>1, TakeAll
  <2>5. Take(data, d) = p.body
    <3>1. Len(data) \in Nat
      BY <1>5, <2>3
    <3>2. d \in Nat
      BY <2>1, <3>1 DEF Lesser
    <3>3. d >= Len(p.body)
      BY <2>2, <2>3, <3>1, <3>2
    <3> QED
      BY <1>5, <2>3, <3>2, <3>3, TakeAll
  <2>6. wire' = (wire \o p.head) \o p.body
    BY <2>1, <2>4, <2>5
  <2> QED
    BY <1>4, <1>5, <1>6, <2>2, <2>6 DEF Send
<1> QED
  BY <1>4, <1>7, <1>8

\* Nothing that has gone wrong is forgotten.
LEMMA HarmStays == [Next]_vars => harm \subseteq harm'
<1> SUFFICES ASSUME [Next]_vars PROVE harm \subseteq harm'
  OBVIOUS
<1>1. CASE Send
  <2>1. PICK text \in Texts :
          LET p == Packet(Len(sent) + 1, text)
          IN IF side = "server" THEN ClientSends(p) ELSE ServerSends(p)
    BY <1>1 DEF Send
  <2> QED
    BY <2>1 DEF ClientSends, ServerSends
<1>2. CASE Close \/ Arrive \/ SearchByte \/ ReadRest \/ UNCHANGED vars
  BY <1>2 DEF Close, Arrive, SearchByte, ReadRest, vars
<1>3. CASE HeaderAtEof \/ SearchFails \/ RestMissing
  BY <1>3 DEF HeaderAtEof, SearchFails, RestMissing, End
<1>4. CASE ReadHeader \/ ReadBody
  BY <1>4 DEF ReadHeader, ReadBody, ServerBody, ClientBody, End, Forget, Deliver
<1> QED
  BY <1>1, <1>2, <1>3, <1>4 DEF Next, Reader

\* Sending keeps InStep.
LEMMA SendInStep ==
  ASSUME TypeOK, SentShape, InStep, Send
  PROVE  InStep'
<1> SUFFICES ASSUME harm' = {} PROVE InStep'
  BY DEF InStep
<1>1. PICK p \in Frames :
        /\ harm = {} /\ sent' = Append(sent, p) /\ Frame(p) \in Seq(Units)
        /\ wire' = wire \o Frame(p)
        /\ UNCHANGED <<avail, pc, hd, delivered>>
  BY SentWhole
<1>2. /\ sent \in Seq(Frames) /\ wire \in Seq(Units) /\ avail \in Seq(Units) /\ hd \in Seq(Units)
      /\ delivered \in Seq(Frames)
  BY TypeParts DEF SentType, StreamType, HeadType, DeliveredType
<1>3. Len(sent) \in Nat /\ Len(delivered) \in Nat /\ Len(sent') = Len(sent) + 1
      /\ \A k \in 1..Len(sent) : sent'[k] = sent[k]
  BY <1>1, <1>2, LenProperties, AppendProperties
<1>4. Len(delivered) <= Len(sent) /\ \A k \in 1..Len(delivered) : delivered[k] = sent[k]
  BY <1>1 DEF InStep
<1>5. Len(delivered') <= Len(sent') /\ \A k \in 1..Len(delivered') : delivered'[k] = sent'[k]
  BY <1>1, <1>3, <1>4
<1>6. ASSUME pc # "end" PROVE Whole(hd' \o (avail' \o wire'), sent', Len(delivered') + 1)
  <2> DEFINE R == hd \o (avail \o wire)
  <2>1. R \in Seq(Units) /\ Whole(R, sent, Len(delivered) + 1)
    BY <1>1, <1>2, <1>6, ConcatProperties DEF InStep
  <2>2. hd \o (avail \o (wire \o Frame(p))) = R \o Frame(p)
    <3>1. \A u \in Seq(Units) : (hd \o (avail \o wire)) \o u = hd \o (avail \o (wire \o u))
      <4> TAKE u \in Seq(Units)
      <4>1. hd \in Seq(Units) /\ avail \in Seq(Units) /\ wire \in Seq(Units)
        BY <1>2
      <4> QED
        BY <4>1, StreamSent, SMTT(60)
    <3> QED
      BY <1>1, <3>1
  <2> HIDE DEF R
  <2>3. Whole(R \o Frame(p), Append(sent, p), Len(delivered) + 1)
    <3>1. Len(delivered) + 1 \in Nat /\ Sized(sent)
      BY <1>3, SentSized
    <3> QED
      BY <1>1, <1>2, <2>1, <3>1, WholeAppend
  <2> QED
    BY <1>1, <2>2, <2>3
<1> QED
  BY <1>1, <1>5, <1>6 DEF InStep

\* What of a stream begins with the units of a packet and is read whole, is
\* the packet's; what is not there yet makes the read a cut one.
LEMMA ReadWhole ==
  ASSUME NEW a \in Seq(Units), wire \in Seq(Units), NEW n \in Nat, NEW k,
         n <= Len(a \o wire), Len(a) # 0,
         \A j \in 1..n : (a \o wire)[j].of = k,
         ~(Len(Take(a, n)) < n /\ Cut(Take(a, n), Drop(a, n)))
  PROVE  n <= Len(a) /\ Len(Take(a, n)) = n /\ \A j \in 1..n : Take(a, n)[j] = (a \o wire)[j]
<1> DEFINE l == Len(a)
           b == Len(wire)
           c == a \o wire
           t == Take(a, n)
           d == Drop(a, n)
           m == Len(t)
<1>1. l \in Nat /\ b \in Nat /\ l # 0
  BY LenProperties
<1>2. Len(c) = l + b /\ \A j \in 1..(l + b) : c[j] = IF j <= l THEN a[j] ELSE wire[j - l]
  BY ConcatProperties
<1>3. n <= l + b /\ \A j \in 1..n : c[j].of = k
  BY <1>2
<1>4. m = (IF n < l THEN n ELSE l) /\ \A j \in 1..m : t[j] = a[j]
  BY TakeProperties
<1>5. d \in Seq(Units) /\ Len(d) = IF n <= l THEN l - n ELSE 0
  BY DropProperties
<1>6. n <= l
  <2> SUFFICES ASSUME ~(n <= l) PROVE FALSE
    OBVIOUS
  <2>1. n >= l
    BY <1>1
  <2>2. t = a
    BY <2>1, TakeAll
  <2>3. Len(d) = 0
    BY <1>5
  <2>4. d = <<>>
    BY <1>5, <2>3, EmptySeq
  <2>5. m < n
    BY <1>1, <1>4
  <2> HIDE DEF l, b, c, t, d, m
  <2>6. l \in 1..n /\ l + 1 \in 1..n /\ b # 0
    BY <1>1, <1>3
  <2>7. c[l].of = c[l + 1].of
    BY <1>3, <2>6
  <2>8. Cut(a, <<>>)
    BY <1>1, <2>6, <2>7, CutOff DEF l, b, c
  <2> QED
    BY <2>2, <2>4, <2>5, <2>8 DEF t, d, m
<1> HIDE DEF l, b, c, t, d, m
<1>7. m = n
  BY <1>1, <1>4, <1>6
<1>8. ASSUME NEW j \in 1..n PROVE t[j] = c[j]
  <2>1. j \in 1..m /\ j \in 1..(l + b) /\ j <= l
    BY <1>1, <1>6, <1>7
  <2> QED
    BY <1>2, <1>4, <2>1
<1> QED
  BY <1>6, <1>7, <1>8 DEF l, c, t, m

\* Reading a header keeps InStep.
LEMMA HeaderInStep ==
  ASSUME TypeOK, SentShape, InStep, ReadHeader
  PROVE  InStep'
<1> SUFFICES ASSUME harm' = {} PROVE InStep'
  BY DEF InStep
<1> DEFINE n == Len(delivered) + 1
           got == Take(avail, HeaderLen)
           C == avail \o wire
<1>1. /\ avail # <<>> /\ avail' = Drop(avail, HeaderLen) /\ hd' = got /\ pc = "header"
      /\ pc' = (IF IsFlag(got) THEN "body" ELSE "search")
      /\ harm' = harm \cup IF Len(got) < HeaderLen /\ Cut(got, avail') THEN {"short"} ELSE {}
      /\ UNCHANGED <<sent, wire, delivered>>
  BY DEF ReadHeader, Receive, streamVars
<1>2. wire \in Seq(Units) /\ avail \in Seq(Units) /\ sent \in Seq(Frames) /\ HeaderLen \in Nat
      /\ n \in Nat
  BY TypeParts, LenProperties DEF StreamType, SentType, DeliveredType, HeaderLen
<1>3. harm = {} /\ ~(Len(got) < HeaderLen /\ Cut(got, avail'))
  BY <1>1
<1>4. /\ Len(delivered) <= Len(sent) /\ \A k \in 1..Len(delivered) : delivered[k] = sent[k]
      /\ Whole(hd \o C, sent, n) /\ hd = <<>>
  BY <1>1, <1>3 DEF InStep
<1>5. C \in Seq(Units) /\ got \o (Drop(avail, HeaderLen) \o wire) = C
      /\ Len(C) = Len(avail) + Len(wire)
  BY <1>2, StreamTaken, SMTT(60)
<1>6. Len(avail) \in Nat /\ Len(avail) # 0 /\ Len(wire) \in Nat
  BY <1>1, <1>2, EmptySeq, LenProperties
<1>7. Whole(C, sent, n) /\ Sized(sent) /\ Len(C) # 0
  BY <1>4, <1>5, <1>6, ConcatEmptySeq, SentSized
<1> HIDE DEF C, got
<1>8. n \in 1..Len(sent) /\ Size(sent[n]) <= Len(C)
      /\ \A j \in 1..Size(sent[n]) : C[j] = Frame(sent[n])[j]
  BY <1>2, <1>5, <1>7, WholeFirst
<1>9. PacketUnits(sent[n], n) /\ FrameUnits(sent[n], n)
  BY <1>8, SentPacket
<1> DEFINE p == sent[n]
           b == Len(p.body)
<1>10. /\ p.head \in Seq(Units) /\ Len(p.head) = HeaderLen /\ b \in Nat
       /\ p.head[1].byte = "W" /\ p.head[2].byte = "U" /\ p.head[3].byte = "L"
       /\ p.head[4].byte = "I" /\ Size(p) = HeaderLen + b
       /\ \A j \in 1..HeaderLen : Frame(p)[j] = p.head[j]
       /\ \A j \in 1..(HeaderLen + b) : Frame(p)[j].of = n
  BY <1>9 DEF PacketUnits, FrameUnits
<1> HIDE DEF n, p, b
<1>11. /\ HeaderLen <= Len(C)
       /\ \A j \in 1..HeaderLen : C[j] = p.head[j] /\ C[j].of = n
  <2>1. HeaderLen + b <= Len(C) /\ \A j \in 1..(HeaderLen + b) : C[j] = Frame(p)[j]
    BY <1>8, <1>10 DEF p
  <2>2. \A j \in 1..HeaderLen : j \in 1..(HeaderLen + b)
    BY <1>2, <1>10
  <2>3. HeaderLen <= Len(C)
    BY <1>2, <1>5, <1>6, <1>10, <2>1
  <2> QED
    BY <1>10, <2>1, <2>2, <2>3
<1>12. /\ Len(got) = HeaderLen
       /\ \A j \in 1..HeaderLen : got[j] = C[j]
  <2>1. ~(Len(Take(avail, HeaderLen)) < HeaderLen
             /\ Cut(Take(avail, HeaderLen), Drop(avail, HeaderLen)))
    BY <1>1, <1>3 DEF got
  <2>2. HeaderLen <= Len(avail \o wire) /\ \A j \in 1..HeaderLen : (avail \o wire)[j].of = n
    BY <1>11 DEF C
  <2> QED
    BY <1>2, <1>6, <2>1, <2>2, ReadWhole DEF got, C
<1>13. got \in Seq(Units)
  BY <1>2, TakeProperties DEF got
<1>14. IsFlag(got)
  <2>1. FlagAt(got, 1)
    <3>1. 1 \in 1..HeaderLen /\ 2 \in 1..HeaderLen /\ 3 \in 1..HeaderLen /\ 4 \in 1..HeaderLen
      BY DEF HeaderLen
    <3>2. got[1].byte = "W" /\ got[2].byte = "U" /\ got[3].byte = "L" /\ got[4].byte = "I"
      BY <1>10, <1>11, <1>12, <3>1
    <3> QED
      BY <3>2, 1 + 1 = 2, 1 + 2 = 3, 1 + 3 = 4 DEF FlagAt
  <2>2. Len(got) >= FlagLen
    BY <1>12 DEF HeaderLen, FlagLen
  <2> QED
    BY <1>13, <2>1, <2>2, FlagFound
<1>15. hd' \o (avail' \o wire') = C /\ pc' = "body" /\ Len(hd') = HeaderLen
  BY <1>1, <1>5, <1>12, <1>14
<1>16. Whole(hd' \o (avail' \o wire'), sent', Len(delivered') + 1)
  BY <1>1, <1>7, <1>15 DEF n
<1> QED
  BY <1>1, <1>4, <1>15, <1>16 DEF InStep

\* What stands before and after the first n units.
Joined(g, s, n) ==
  /\ g \o s \in Seq(Units) /\ Len(g \o s) = n + Len(s) /\ Len(s) \in Nat
  /\ \A j \in 1..(n + Len(s)) : (g \o s)[j] = IF j <= n THEN g[j] ELSE s[j - n]

\* Two sequences of units, the first of length n, are joined there.
LEMMA ConcatParts ==
  ASSUME NEW g \in Seq(Units), NEW s \in Seq(Units), NEW n \in Nat, Len(g) = n
  PROVE  Joined(g, s, n)
<1> DEFINE a == Len(g)
           b == Len(s)
           c == g \o s
<1>1. b \in Nat /\ a = n
  BY LenProperties
<1>2. c \in Seq(Units) /\ Len(c) = a + b
      /\ \A j \in 1..(a + b) : c[j] = IF j <= a THEN g[j] ELSE s[j - a]
  BY ConcatProperties
<1> HIDE DEF a, b, c
<1>3. c \in Seq(Units) /\ Len(c) = n + b
      /\ \A j \in 1..(n + b) : c[j] = IF j <= n THEN g[j] ELSE s[j - n]
  BY <1>1, <1>2
<1> QED
  BY <1>1, <1>3 DEF Joined, b, c

\* The header of the next packet is what was read of it, and its body is next.
LEMMA NextPacket ==
  ASSUME TypeOK, SentShape, Len(hd) = HeaderLen, NEW n \in Nat,
         Whole(hd \o (avail \o wire), sent, n)
  PROVE  /\ n \in 1..Len(sent) /\ hd = sent[n].head
         /\ Len(sent[n].body) <= Len(avail \o wire)
         /\ \A j \in 1..Len(sent[n].body) : /\ (avail \o wire)[j] = sent[n].body[j]
                                            /\ (avail \o wire)[j].of = n
         /\ hd[HeaderLen].of = n
<1> DEFINE C == avail \o wire
           R == hd \o C
<1>1. /\ hd \in Seq(Units) /\ C \in Seq(Units) /\ sent \in Seq(Frames) /\ Len(C) \in Nat
      /\ R \in Seq(Units)
  <2>1. hd \in Seq(Units) /\ C \in Seq(Units) /\ sent \in Seq(Frames)
    BY TypeParts, ConcatProperties DEF HeadType, StreamType, SentType
  <2> HIDE DEF C
  <2> QED
    BY <2>1, ConcatProperties, LenProperties
<1>2. Whole(R, sent, n) /\ Sized(sent)
  BY SentSized
<1> HIDE DEF C
<1>3. /\ Len(R) = 6 + Len(C)
      /\ \A j \in 1..(6 + Len(C)) : R[j] = IF j <= 6 THEN hd[j] ELSE C[j - 6]
  <2>1. Len(hd) = 6 /\ 6 \in Nat /\ hd \in Seq(Units) /\ C \in Seq(Units)
    BY <1>1 DEF HeaderLen
  <2>2. Joined(hd, C, 6)
    BY <2>1, ConcatParts
  <2> QED
    BY <2>2 DEF Joined
<1> HIDE DEF R
<1>4. Len(R) # 0
  BY <1>1, <1>3
<1>5. /\ n \in 1..Len(sent) /\ Size(sent[n]) <= Len(R)
      /\ \A j \in 1..Size(sent[n]) : R[j] = Frame(sent[n])[j]
  BY <1>1, <1>2, <1>4, WholeFirst
<1>6. PacketUnits(sent[n], n) /\ FrameUnits(sent[n], n)
  BY <1>5, SentPacket
<1> DEFINE p == sent[n]
           b == Len(p.body)
           c == Len(C)
<1>7. /\ p.head \in Seq(Units) /\ Len(p.head) = HeaderLen /\ b \in Nat /\ Size(p) = 6 + b
      /\ \A j \in 1..6 : Frame(p)[j] = p.head[j]
      /\ \A j \in 1..b : Frame(p)[6 + j] = p.body[j]
      /\ \A j \in 1..(6 + b) : Frame(p)[j].of = n
  BY <1>6 DEF PacketUnits, FrameUnits, HeaderLen
<1>8. \A j \in 1..(6 + b) : R[j] = Frame(p)[j]
  BY <1>5, <1>7
<1>9. b <= c
  BY <1>1, <1>3, <1>5, <1>7
<1> HIDE DEF p, b, c
<1>10. c \in Nat /\ \A j \in 1..(6 + c) : R[j] = IF j <= 6 THEN hd[j] ELSE C[j - 6]
  BY <1>1, <1>3 DEF c
<1>11. ASSUME NEW j \in 1..6 PROVE hd[j] = p.head[j] /\ hd[j].of = n
  <2>1. j \in 1..(6 + b) /\ j \in 1..(6 + c) /\ j <= 6
    BY <1>7, <1>10
  <2> QED
    BY <1>7, <1>8, <1>10, <2>1
<1>12. ASSUME NEW j \in 1..b PROVE C[j] = p.body[j] /\ C[j].of = n
  <2>1. 6 + j \in 1..(6 + b) /\ 6 + j \in 1..(6 + c) /\ ~(6 + j <= 6) /\ (6 + j) - 6 = j
    BY <1>7, <1>9, <1>10
  <2>2. R[6 + j] = C[j]
    BY <1>10, <2>1
  <2> QED
    BY <1>7, <1>8, <2>1, <2>2
<1>13. hd = p.head
  <2>1. \A j \in 1..Len(hd) : hd[j] = p.head[j]
    BY <1>11 DEF HeaderLen
  <2> QED
    BY <1>1, <1>7, <2>1, SeqEqual
<1>14. hd[HeaderLen].of = n
  BY <1>11 DEF HeaderLen
<1> QED
  BY <1>5, <1>9, <1>12, <1>13, <1>14 DEF p, b, c, C

\* Its length is the one in its header.
LEMMA NextLength ==
  ASSUME NEW p, NEW k, PacketUnits(p, k), hd = p.head
  PROVE  DataLens = {Len(p.body)} /\ ~CannotAllocate(Len(p.body))
<1> DEFINE b == Len(p.body)
<1>1. /\ Len(hd) = HeaderLen /\ b \in Nat /\ HeaderLen + b < Word
      /\ hd[5].byte = "N" /\ hd[5].total = HeaderLen + b
  BY DEF PacketUnits
<1> HIDE DEF b
<1>2. Word \in Nat \ {0}
  BY ReaderAssumption
<1>3. TotalLengths = {HeaderLen + b}
  <2>1. ~(Len(hd) <= FlagLen) /\ FlagLen + 1 = 5
    BY <1>1 DEF HeaderLen, FlagLen
  <2> QED
    BY <1>1, <2>1 DEF TotalLengths
<1>4. (HeaderLen + b) - HeaderLen = b
  BY <1>1 DEF HeaderLen
<1>5. b % Word = b
  <2>1. b < Word
    BY <1>1, <1>2 DEF HeaderLen
  <2>2. \A l \in Nat : l < Word => l % Word = l
    BY <1>2
  <2> QED
    BY <1>1, <2>1, <2>2
<1>6. DataLens = {b}
  <2>1. DataLens = {((HeaderLen + b) - HeaderLen) % Word}
    BY <1>3 DEF DataLens
  <2> QED
    BY <1>4, <1>5, <2>1
<1>7. ~CannotAllocate(b)
  BY <1>1, <1>2 DEF CannotAllocate, HeaderLen
<1> QED
  BY <1>6, <1>7 DEF b

\* Handing over the body keeps InStep.
LEMMA BodyInStep ==
  ASSUME TypeOK, SentShape, InStep, ReadBody
  PROVE  InStep'
<1> SUFFICES ASSUME harm' = {} PROVE InStep'
  BY DEF InStep
<1>1. PICK m \in DataLens : ServerBody(m) \/ ClientBody(m)
  BY DEF ReadBody
<1> DEFINE n == Len(delivered) + 1
<1>2. /\ pc = "body" /\ harm = {}
      /\ UNCHANGED <<sent, wire>>
  BY <1>1 DEF ServerBody, ClientBody, Deliver, Forget, End, streamVars
<1>3. /\ Len(delivered) <= Len(sent) /\ \A k \in 1..Len(delivered) : delivered[k] = sent[k]
      /\ Whole(hd \o (avail \o wire), sent, n) /\ Len(hd) = HeaderLen
  BY <1>2 DEF InStep
<1>4. /\ hd \in Seq(Units) /\ wire \in Seq(Units) /\ avail \in Seq(Units)
      /\ delivered \in Seq(Frames) /\ sent \in Seq(Frames)
  BY TypeParts DEF HeadType, StreamType, DeliveredType, SentType
<1>5. n \in Nat /\ Len(delivered) \in Nat
  BY <1>4, LenProperties
<1> DEFINE p == sent[n]
           b == Len(p.body)
           C == avail \o wire
<1>6. /\ n \in 1..Len(sent) /\ hd = p.head /\ b <= Len(C)
      /\ \A j \in 1..b : C[j] = p.body[j] /\ C[j].of = n
      /\ hd[HeaderLen].of = n
  BY <1>3, <1>5, NextPacket
<1>7. PacketUnits(p, n) /\ FrameUnits(p, n)
  BY <1>6, SentPacket
<1>8. /\ p \in Frames /\ p.body \in Seq(Units) /\ p = [head |-> p.head, body |-> p.body]
      /\ b \in Nat /\ Size(p) = HeaderLen + b
  BY <1>7 DEF PacketUnits, FrameUnits
<1>9. m = b /\ ~CannotAllocate(m)
  BY <1>1, <1>6, <1>7, NextLength
<1> HIDE DEF n, p, b
<1>10. CASE End
  BY <1>2, <1>3, <1>10 DEF End, InStep
<1>11. ASSUME Forget, m # 0, avail = <<>>
       PROVE  FALSE
  <2> DEFINE c == hd \o wire
  <2>1. ~Cut(hd, <<>>)
    BY <1>11 DEF Forget
  <2>2. C = wire
    BY <1>4, <1>11, ConcatEmptySeq
  <2>3. b # 0 /\ b <= Len(wire) /\ \A j \in 1..b : wire[j].of = n
    BY <1>6, <1>9, <1>11, <2>2
  <2>4. Len(wire) \in Nat /\ Len(wire) # 0 /\ 1 \in 1..b
    BY <1>4, <1>8, <2>3, LenProperties
  <2>5. \A j \in 1..(6 + Len(wire)) : c[j] = IF j <= 6 THEN hd[j] ELSE wire[j - 6]
    <3>1. Len(hd) = 6 /\ 6 \in Nat /\ hd \in Seq(Units) /\ wire \in Seq(Units)
      BY <1>3, <1>4 DEF HeaderLen
    <3>2. Joined(hd, wire, 6)
      BY <3>1, ConcatParts
    <3> QED
      BY <3>2 DEF Joined
  <2> HIDE DEF c
  <2>6. c[6] = hd[6] /\ c[7] = wire[1]
    BY <2>4, <2>5
  <2>7. c[Len(hd)].of = c[Len(hd) + 1].of /\ Len(hd) # 0
    BY <1>3, <1>6, <2>3, <2>4, <2>6 DEF HeaderLen
  <2>8. Cut(hd, <<>>)
    BY <1>4, <2>4, <2>7, CutOff DEF c
  <2> QED
    BY <2>1, <2>8
<1>12. CASE Deliver(m) /\ (avail # <<>> \/ Len(avail) >= m)
  <2> DEFINE body == Take(avail, m)
             rest == Drop(avail, m)
  <2>1. /\ delivered' = Append(delivered, [head |-> hd, body |-> body])
        /\ avail' = rest /\ pc' = "header" /\ hd' = <<>> /\ ~Cut(body, rest)
    BY <1>12 DEF Deliver
  <2>2. Len(avail) \in Nat /\ Len(wire) \in Nat /\ Len(C) = Len(avail) + Len(wire) /\ C \in Seq(Units)
    BY <1>4, LenProperties, StreamTaken
  <2>3. b <= Len(avail) /\ Len(body) = b /\ \A j \in 1..b : body[j] = C[j]
    <3>1. CASE b = 0
      <4>1. Len(body) = IF m < Len(avail) THEN m ELSE Len(avail)
        BY <1>4, <1>8, <1>9, TakeProperties
      <4> QED
        BY <1>9, <2>2, <3>1, <4>1
    <3>2. CASE b # 0
      <4>1. Len(avail) # 0
        BY <1>4, <1>8, <1>9, <1>12, <2>2, <3>2, EmptySeq
      <4>2. m <= Len(avail \o wire) /\ \A j \in 1..m : (avail \o wire)[j].of = n
        BY <1>6, <1>9
      <4>3. ~(Len(Take(avail, m)) < m /\ Cut(Take(avail, m), Drop(avail, m)))
        BY <2>1
      <4> QED
        BY <1>4, <1>8, <1>9, <4>1, <4>2, <4>3, ReadWhole
    <3> QED
      BY <3>1, <3>2
  <2>4. body \in Seq(Units) /\ rest \in Seq(Units)
        /\ Len(rest) = (IF m <= Len(avail) THEN Len(avail) - m ELSE 0)
    BY <1>4, <1>8, <1>9, TakeProperties, DropProperties
  <2> HIDE DEF body, C
  <2>5. body = p.body
    BY <1>6, <1>8, <2>3, <2>4, SeqEqual DEF b
  <2>6. delivered' = Append(delivered, p)
    BY <1>6, <1>8, <2>1, <2>5
  <2>7. /\ Len(delivered') = n /\ \A k \in 1..Len(delivered) : delivered'[k] = delivered[k]
        /\ delivered'[n] = p
    BY <1>4, <1>8, <2>6, AppendProperties DEF n
  <2>8. Len(delivered') <= Len(sent') /\ \A k \in 1..Len(delivered') : delivered'[k] = sent'[k]
    <3>1. \A k \in 1..n : k \in 1..Len(delivered) \/ k = n
      BY <1>5 DEF n
    <3> QED
      BY <1>2, <1>3, <1>6, <2>7, <3>1 DEF p
  <2> DEFINE R == hd \o C
             T == rest \o wire
  <2>9. T \in Seq(Units) /\ body \o T = C
    <3>1. m \in Nat /\ T \in Seq(Units)
      <4>1. rest \in Seq(Units) /\ wire \in Seq(Units)
        BY <1>4, <2>4
      <4> HIDE DEF rest
      <4> QED
        BY <1>8, <1>9, <4>1, ConcatProperties
    <3>2. Take(avail, m) \o (Drop(avail, m) \o wire) = avail \o wire
      <4>1. avail \in Seq(Units) /\ wire \in Seq(Units) /\ m \in Nat
        BY <1>4, <3>1
      <4> QED
        BY <4>1, UnitsTaken, Zenon
    <3> QED
      BY <3>1, <3>2 DEF body, C
  <2>10. R \in Seq(Units) /\ Len(R) = 6 + Len(C)
         /\ \A j \in 1..(6 + Len(C)) : R[j] = IF j <= 6 THEN hd[j] ELSE C[j - 6]
    <3>1. Len(hd) = 6 /\ 6 \in Nat
      BY <1>3 DEF HeaderLen
    <3>2. hd \in Seq(Units) /\ C \in Seq(Units)
      BY <1>4, <2>2
    <3>3. Joined(hd, C, 6)
      BY <3>1, <3>2, ConcatParts
    <3> QED
      BY <3>3 DEF Joined
  <2>11. hd' \o (avail' \o wire') = T
    BY <1>2, <2>1, <2>9, ConcatEmptySeq
  <2> HIDE DEF R, T, rest
  <2> DEFINE q == Len(T)
             c == Len(C)
  <2>12. q \in Nat /\ c \in Nat /\ c = b + q
         /\ \A j \in 1..(b + q) : C[j] = IF j <= b THEN body[j] ELSE T[j - b]
    <3>1. b \in Nat /\ Len(body) = b /\ body \in Seq(Units) /\ T \in Seq(Units)
      BY <1>8, <2>3, <2>4, <2>9
    <3>2. Joined(body, T, b)
      BY <3>1, ConcatParts
    <3>3. /\ Len(C) = b + Len(T) /\ Len(T) \in Nat
          /\ \A j \in 1..(b + Len(T)) : C[j] = IF j <= b THEN body[j] ELSE T[j - b]
      BY <2>9, <3>2 DEF Joined
    <3>4. Len(C) \in Nat
      BY <2>2, LenProperties
    <3> QED
      BY <3>3, <3>4
  <2>13. Len(R) = 6 + c /\ \A j \in 1..(6 + c) : R[j] = IF j <= 6 THEN hd[j] ELSE C[j - 6]
    BY <2>10
  <2> HIDE DEF q, c
  <2>14. q \in Nat /\ c = b + q /\ b \in Nat
    BY <1>8, <2>12
  <2>15. ASSUME NEW j \in 1..q PROVE T[j] = R[(6 + b) + j]
    <3>1. /\ (6 + b) + j \in 1..(6 + c) /\ ~((6 + b) + j <= 6) /\ ((6 + b) + j) - 6 = b + j
          /\ b + j \in 1..(b + q) /\ ~(b + j <= b) /\ (b + j) - b = j
      BY <2>14
    <3>2. R[(6 + b) + j] = C[b + j]
      BY <2>13, <3>1
    <3>3. C[b + j] = T[j]
      BY <2>12, <3>1
    <3> QED
      BY <3>2, <3>3
  <2>16. Len(R) # 0 /\ q = Len(R) - (6 + b) /\ Size(p) = 6 + b
    BY <1>8, <2>12, <2>13 DEF HeaderLen
  <2>17. Len(T) = Len(R) - Size(sent[n]) /\ \A j \in 1..Len(T) : T[j] = R[Size(sent[n]) + j]
    BY <2>15, <2>16 DEF p, q
  <2>18. Whole(R, sent, n) /\ Sized(sent)
    BY <1>3, SentSized DEF R, C
  <2>19. Whole(T, sent, n + 1)
    BY <1>4, <1>5, <2>9, <2>10, <2>16, <2>17, <2>18, WholeRest DEF n
  <2>20. Whole(hd' \o (avail' \o wire'), sent', Len(delivered') + 1)
    BY <1>2, <2>7, <2>11, <2>19
  <2> QED
    BY <2>1, <2>8, <2>20 DEF InStep
<1>13. End \/ (Forget /\ m # 0 /\ avail = <<>>) \/ (Deliver(m) /\ (avail # <<>> \/ Len(avail) >= m))
  <2>1. m = 0 => Len(avail) >= m
    BY <1>4, LenProperties
  <2> QED
    BY <1>1, <1>9, <2>1 DEF ServerBody, ClientBody, NothingYet
<1> QED
  BY <1>10, <1>11, <1>12, <1>13

\* Every step keeps InStep.
LEMMA NextInStep ==
  ASSUME TypeOK, SentShape, InStep, [Next]_vars
  PROVE  InStep'
<1>1. CASE Send
  BY <1>1, SendInStep
<1>2. CASE ReadHeader
  BY <1>2, HeaderInStep
<1>3. CASE ReadBody
  BY <1>3, BodyInStep
<1>4. CASE Arrive
  <2>1. PICK n \in 1..Len(wire) : avail' = avail \o Take(wire, n) /\ wire' = Drop(wire, n)
    BY <1>4 DEF Arrive
  <2>2. wire \in Seq(Units) /\ avail \in Seq(Units) /\ n \in Nat
    BY TypeParts, LenProperties DEF StreamType
  <2>3. avail' \o wire' = avail \o wire
    BY <2>1, <2>2, StreamTaken
  <2>4. UNCHANGED <<sent, pc, hd, delivered, harm>>
    BY <1>4 DEF Arrive
  <2> QED
    BY <2>3, <2>4 DEF InStep
<1>5. CASE Close \/ UNCHANGED vars
  <2>1. UNCHANGED <<sent, wire, avail, pc, hd, delivered, harm>>
    BY <1>5 DEF Close, vars, streamVars
  <2> QED
    BY <2>1 DEF InStep
<1>6. CASE SearchByte \/ ReadRest
  <2>1. pc \in {"search", "rest"} /\ harm' = harm
    BY <1>6 DEF SearchByte, ReadRest
  <2> QED
    BY <2>1 DEF InStep
<1>7. CASE HeaderAtEof \/ SearchFails \/ RestMissing
  <2>1. pc' = "end" /\ UNCHANGED <<sent, delivered, harm>>
    BY <1>7 DEF HeaderAtEof, SearchFails, RestMissing, End, streamVars
  <2> QED
    BY <2>1 DEF InStep
<1> QED
  BY <1>1, <1>2, <1>3, <1>4, <1>5, <1>6, <1>7 DEF Next, Reader

\* As long as nothing has gone wrong, packets are handed over as they were
\* sent and in their order, wherever TCP cuts the stream.
THEOREM ReadAsSentHolds == Spec => []ReadAsSent
<1> DEFINE Inv == TypeOK /\ SearchInv /\ SentShape /\ InStep
<1>1. Init => Inv
  <2> SUFFICES ASSUME Init PROVE SentShape /\ InStep
    BY InitType
  <2>1. SentShape
    BY EmptySeq DEF Init, SentShape
  <2>2. hd \o (avail \o wire) = <<>> /\ Len(delivered) = 0 /\ Len(sent) = 0
    BY EmptySeq, ConcatEmptySeq DEF Init
  <2>3. Whole(hd \o (avail \o wire), sent, Len(delivered) + 1)
    <3>1. Len(delivered) + 1 = 1 /\ sent = <<>>
      BY <2>2 DEF Init
    <3> QED
      BY <2>2, <3>1, WholeNone
  <2> QED
    BY <2>1, <2>2, <2>3 DEF Init, InStep
<1>2. Inv /\ [Next]_vars => Inv'
  BY NextType, SentShapeKept, NextInStep
<1>3. Inv => ReadAsSent
  <2> SUFFICES ASSUME Inv, harm = {} PROVE delivered = SubSeq(sent, 1, Len(delivered))
    BY DEF ReadAsSent
  <2> DEFINE n == Len(delivered)
             s == SubSeq(sent, 1, n)
  <2>1. sent \in Seq(Frames) /\ delivered \in Seq(Frames) /\ n \in Nat /\ Len(sent) \in Nat
    BY TypeParts, LenProperties DEF SentType, DeliveredType
  <2>2. n <= Len(sent) /\ \A k \in 1..n : delivered[k] = sent[k]
    BY DEF InStep
  <2> HIDE DEF n
  <2>3. \A k \in 1..n : sent[k] \in Frames
    BY <2>1, <2>2, ElementOfSeq
  <2>4. /\ s \in Seq(Frames) /\ Len(s) = IF 1 <= n THEN n - 1 + 1 ELSE 0
        /\ \A k \in 1..(n - 1 + 1) : s[k] = sent[1 + k - 1]
    BY <2>1, <2>3, SubSeqProperties
  <2> HIDE DEF s
  <2>5. Len(s) = n
    BY <2>1, <2>4
  <2>6. \A k \in 1..n : s[k] = sent[k]
    BY <2>1, <2>4
  <2>7. delivered = s
    BY <2>1, <2>2, <2>4, <2>5, <2>6, SeqEqual DEF n
  <2> QED
    BY <2>7 DEF s, n
<1> QED
  BY <1>1, <1>2, <1>3, PTL DEF Spec
=============================================================================
