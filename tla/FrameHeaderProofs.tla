-------------------------- MODULE FrameHeaderProofs --------------------------
(***************************************************************************)
(* No text is taken for a request: the header that a packet is handled by  *)
(* is one that was sent, however the stream is cut, whatever entries are   *)
(* lost and wherever the reader has to search.  FlagsAreReal carries it:   *)
(* in the units that are scanned or still to be read, the end of a flag    *)
(* only stands in a header.                                                *)
(***************************************************************************)
EXTENDS FrameStreamProofs

(***************************************************************************)
(* Flags in a stream.                                                      *)
(***************************************************************************)
\* The last three bytes of a flag.
FlagEndAt(S, j) == S[j].byte = "U" /\ S[j + 1].byte = "L" /\ S[j + 2].byte = "I"

\* They stand where they stand in the header of p, and so do their neighbours.
HeadAt(S, j, p) ==
  /\ \A m \in 2..HeaderLen : j + m - 2 \in 1..Len(S) /\ S[j + m - 2] = p.head[m]
  /\ j > 1 => S[j - 1] = p.head[1]

FlagsAreReal(S, s) ==
  \A j \in 1..(Len(S) - 2) : FlagEndAt(S, j) => \E k \in 1..Len(s) : HeadAt(S, j, s[k])

\* T is what is left of S when m units of it are read.
LeftAfter(T, S, m) == Len(S) = m + Len(T) /\ \A j \in 1..Len(T) : T[j] = S[m + j]
Left(T, S) == \E m \in Nat : LeftAfter(T, S, m)

\* Reading on makes no flag.
LEMMA FlagsLeft ==
  ASSUME NEW S \in Seq(Units), NEW T \in Seq(Units), NEW s, FlagsAreReal(S, s), Left(T, S)
  PROVE  FlagsAreReal(T, s)
<1>1. PICK o \in Nat : LeftAfter(T, S, o)
  BY DEF Left
<1> DEFINE a == Len(S)
           b == Len(T)
<1>2. a \in Nat /\ b \in Nat /\ a = o + b
  BY <1>1, LenProperties DEF LeftAfter
<1>3. \A j \in 1..b : T[j] = S[o + j]
  BY <1>1 DEF LeftAfter
<1>4. \A j \in 1..(a - 2) : FlagEndAt(S, j) => \E k \in 1..Len(s) : HeadAt(S, j, s[k])
  BY DEF FlagsAreReal
<1> HIDE DEF a, b
<1>5. ASSUME NEW j \in 1..(b - 2), FlagEndAt(T, j)
      PROVE  \E k \in 1..Len(s) : HeadAt(T, j, s[k])
  <2>1. /\ j \in 1..b /\ j + 1 \in 1..b /\ j + 2 \in 1..b /\ o + j \in 1..(a - 2)
        /\ o + (j + 1) = (o + j) + 1 /\ o + (j + 2) = (o + j) + 2
    BY <1>2
  <2>2. FlagEndAt(S, o + j)
    BY <1>3, <1>5, <2>1 DEF FlagEndAt
  <2>3. PICK k \in 1..Len(s) : HeadAt(S, o + j, s[k])
    BY <1>4, <2>1, <2>2
  <2>4. ASSUME NEW m \in 2..HeaderLen PROVE j + m - 2 \in 1..b /\ T[j + m - 2] = s[k].head[m]
    <3>1. (o + j) + m - 2 \in 1..a /\ S[(o + j) + m - 2] = s[k].head[m]
      BY <2>3 DEF HeadAt, a
    <3>2. m \in Nat /\ m >= 2
      BY DEF HeaderLen
    <3>3. j + m - 2 \in 1..b /\ o + (j + m - 2) = (o + j) + m - 2
      BY <1>2, <3>1, <3>2
    <3> QED
      BY <1>3, <3>1, <3>3
  <2>5. ASSUME j > 1 PROVE T[j - 1] = s[k].head[1]
    <3>1. j - 1 \in 1..b /\ o + (j - 1) = (o + j) - 1 /\ o + j > 1
      BY <1>2, <2>5
    <3>2. S[(o + j) - 1] = s[k].head[1]
      BY <2>3, <3>1 DEF HeadAt
    <3> QED
      BY <1>3, <3>1, <3>2
  <2>6. HeadAt(T, j, s[k])
    BY <2>4, <2>5 DEF HeadAt, b
  <2> QED
    BY <2>6
<1> QED
  BY <1>5 DEF FlagsAreReal, b

\* What is left after its first part.
LEMMA LeftOfConcat ==
  ASSUME NEW g \in Seq(Units), NEW w \in Seq(Units)
  PROVE  Left(w, g \o w)
<1> DEFINE n == Len(g)
           b == Len(w)
           c == g \o w
<1>1. n \in Nat /\ b \in Nat
  BY LenProperties
<1>2. Len(c) = n + b /\ \A j \in 1..(n + b) : c[j] = IF j <= n THEN g[j] ELSE w[j - n]
  BY ConcatProperties
<1> HIDE DEF n, b, c
<1>3. ASSUME NEW j \in 1..b PROVE w[j] = c[n + j]
  <2>1. n + j \in 1..(n + b) /\ ~(n + j <= n) /\ (n + j) - n = j
    BY <1>1
  <2> QED
    BY <1>2, <2>1
<1> QED
  BY <1>1, <1>2, <1>3 DEF Left, LeftAfter, b, c

\* What is left of what is left.
LEMMA LeftAgain ==
  ASSUME NEW S \in Seq(Units), NEW T \in Seq(Units), NEW R \in Seq(Units), Left(T, S), Left(R, T)
  PROVE  Left(R, S)
<1>1. PICK m \in Nat : LeftAfter(T, S, m)
  BY DEF Left
<1>2. PICK n \in Nat : LeftAfter(R, T, n)
  BY DEF Left
<1> DEFINE a == Len(S)
           b == Len(T)
           c == Len(R)
<1>3. a \in Nat /\ b \in Nat /\ c \in Nat /\ a = m + b /\ b = n + c
  BY <1>1, <1>2, LenProperties DEF LeftAfter
<1>4. \A j \in 1..b : T[j] = S[m + j]
  BY <1>1 DEF LeftAfter
<1>5. \A j \in 1..c : R[j] = T[n + j]
  BY <1>2 DEF LeftAfter
<1> HIDE DEF a, b, c
<1>6. ASSUME NEW j \in 1..c PROVE R[j] = S[(m + n) + j]
  <2>1. n + j \in 1..b /\ m + (n + j) = (m + n) + j
    BY <1>3
  <2> QED
    BY <1>4, <1>5, <2>1
<1>7. m + n \in Nat /\ a = (m + n) + c
  BY <1>3
<1>8. LeftAfter(R, S, m + n)
  BY <1>6, <1>7 DEF LeftAfter, a, c
<1> QED
  BY <1>7, <1>8 DEF Left

\* A read leaves the rest of the stream.
LEMMA LeftOfRead ==
  ASSUME NEW g \in Seq(Units), NEW a \in Seq(Units), NEW w \in Seq(Units), NEW n \in Nat
  PROVE  /\ Drop(a, n) \o w \in Seq(Units) /\ a \o w \in Seq(Units) /\ g \o (a \o w) \in Seq(Units)
         /\ Left(Drop(a, n) \o w, g \o (a \o w)) /\ Left(a \o w, g \o (a \o w))
<1> DEFINE t == Take(a, n)
           d == Drop(a, n)
           c == a \o w
           e == d \o w
<1>1. t \in Seq(Units) /\ d \in Seq(Units)
  BY TakeProperties, DropProperties
<1>2. t \o e = c
  BY UnitsTaken, Zenon
<1> HIDE DEF t, d
<1>3. c \in Seq(Units) /\ e \in Seq(Units)
  BY <1>1, ConcatProperties
<1> HIDE DEF c, e
<1>4. Left(e, c)
  <2>1. Left(e, t \o e)
    BY <1>1, <1>3, LeftOfConcat
  <2> QED
    BY <1>2, <2>1
<1>5. Left(c, g \o c) /\ g \o c \in Seq(Units)
  BY <1>3, LeftOfConcat, ConcatProperties
<1>6. Left(e, g \o c)
  BY <1>3, <1>4, <1>5, LeftAgain
<1> QED
  BY <1>3, <1>5, <1>6 DEF c, d, e

\* A piece of a stream that completes no flag in front of it, and has no end
\* of a flag but in the header of p, which it begins with.
PieceIsReal(X, p) ==
  /\ Len(X) >= 1 => X[1].byte \notin {"L", "I"}
  /\ \A j \in 1..(Len(X) - 2) : FlagEndAt(X, j) =>
       j = 2 /\ HeaderLen <= Len(X) /\ \A m \in 1..HeaderLen : X[m] = p.head[m]

\* Sending such a piece makes no flag but its own.
LEMMA FlagsSent ==
  ASSUME NEW s \in Seq(Frames), NEW p \in Frames, NEW S \in Seq(Units), NEW X \in Seq(Units),
         FlagsAreReal(S, s), PieceIsReal(X, p)
  PROVE  FlagsAreReal(S \o X, Append(s, p))
<1> DEFINE n == Len(S)
           b == Len(X)
           c == S \o X
           L == Len(s)
           t == Append(s, p)
<1>1. n \in Nat /\ b \in Nat /\ L \in Nat
  BY LenProperties
<1>2. Len(c) = n + b /\ \A j \in 1..(n + b) : c[j] = IF j <= n THEN S[j] ELSE X[j - n]
  BY ConcatProperties
<1>3. Len(t) = L + 1 /\ t[L + 1] = p /\ \A k \in 1..L : t[k] = s[k]
  BY AppendProperties
<1>4. \A j \in 1..(n - 2) : FlagEndAt(S, j) => \E k \in 1..L : HeadAt(S, j, s[k])
  BY DEF FlagsAreReal
<1>5. /\ b >= 1 => X[1].byte \notin {"L", "I"}
      /\ \A j \in 1..(b - 2) : FlagEndAt(X, j) =>
           j = 2 /\ HeaderLen <= b /\ \A m \in 1..HeaderLen : X[m] = p.head[m]
  BY DEF PieceIsReal
<1> HIDE DEF n, b, c, L, t
<1>6. \A j \in 1..n : c[j] = S[j]
  BY <1>1, <1>2
<1>7. ASSUME NEW j \in 1..b PROVE c[n + j] = X[j]
  <2>1. n + j \in 1..(n + b) /\ ~(n + j <= n) /\ (n + j) - n = j
    BY <1>1
  <2> QED
    BY <1>2, <2>1
<1>8. ASSUME NEW j \in 1..((n + b) - 2), FlagEndAt(c, j)
      PROVE  \E k \in 1..Len(t) : HeadAt(c, j, t[k])
  <2>1. CASE j <= n - 2
    <3>1. /\ j \in 1..n /\ j + 1 \in 1..n /\ j + 2 \in 1..n /\ j \in 1..(n - 2)
      BY <1>1, <2>1
    <3>2. FlagEndAt(S, j)
      BY <1>6, <1>8, <3>1 DEF FlagEndAt
    <3>3. PICK k \in 1..L : HeadAt(S, j, s[k])
      BY <1>4, <3>1, <3>2
    <3>4. k \in 1..Len(t) /\ t[k] = s[k]
      BY <1>1, <1>3
    <3>5. ASSUME NEW m \in 2..HeaderLen PROVE j + m - 2 \in 1..(n + b) /\ c[j + m - 2] = s[k].head[m]
      <4>1. j + m - 2 \in 1..n /\ S[j + m - 2] = s[k].head[m]
        BY <3>3 DEF HeadAt, n
      <4>2. j + m - 2 \in 1..(n + b)
        BY <1>1, <4>1
      <4> QED
        BY <1>6, <4>1, <4>2
    <3>6. ASSUME j > 1 PROVE c[j - 1] = s[k].head[1]
      <4>1. j - 1 \in 1..n
        BY <1>1, <3>1, <3>6
      <4> QED
        BY <1>6, <3>3, <3>6, <4>1 DEF HeadAt
    <3>7. HeadAt(c, j, s[k])
      BY <1>2, <3>5, <3>6 DEF HeadAt
    <3> QED
      BY <3>4, <3>7
  <2>2. CASE j = n - 1 \/ j = n
    <3>1. b >= 1 /\ 1 \in 1..b /\ n + 1 \in {j + 1, j + 2}
      BY <1>1, <2>2
    <3>2. c[n + 1] = X[1]
      BY <1>7, <3>1
    <3>3. X[1].byte \in {"L", "I"}
      BY <1>8, <3>1, <3>2 DEF FlagEndAt
    <3> QED
      BY <1>5, <3>1, <3>3
  <2>3. CASE j > n
    <3>1. PICK l \in Nat : j = n + l /\ l \in 1..(b - 2)
      BY <1>1, <2>3
    <3>2. /\ l \in 1..b /\ l + 1 \in 1..b /\ l + 2 \in 1..b
          /\ j + 1 = n + (l + 1) /\ j + 2 = n + (l + 2)
      BY <1>1, <3>1
    <3>3. c[j] = X[l] /\ c[j + 1] = X[l + 1] /\ c[j + 2] = X[l + 2]
      BY <1>7, <3>1, <3>2
    <3>4. FlagEndAt(X, l)
      BY <1>8, <3>3 DEF FlagEndAt
    <3>5. l = 2 /\ 6 <= b /\ \A m \in 1..6 : X[m] = p.head[m]
      BY <1>5, <3>1, <3>4 DEF HeaderLen
    <3>6. ASSUME NEW m \in 2..6 PROVE j + m - 2 \in 1..(n + b) /\ c[j + m - 2] = p.head[m]
      <4>1. j + m - 2 = n + m /\ m \in 1..b /\ m \in 1..6 /\ n + m \in 1..(n + b)
        BY <1>1, <3>1, <3>5
      <4> QED
        BY <1>7, <3>5, <4>1
    <3>7. c[j - 1] = p.head[1]
      <4>1. j - 1 = n + 1 /\ 1 \in 1..b /\ 1 \in 1..6
        BY <1>1, <3>1, <3>5
      <4> QED
        BY <1>7, <3>5, <4>1
    <3>8. HeadAt(c, j, p)
      BY <1>2, <3>6, <3>7 DEF HeadAt, HeaderLen
    <3>9. L + 1 \in 1..Len(t)
      BY <1>1, <1>3
    <3> QED
      BY <1>3, <3>8, <3>9
  <2> QED
    BY <1>1, <2>1, <2>2, <2>3
<1> QED
  BY <1>2, <1>8 DEF FlagsAreReal, c, t

\* A text with the end of a flag in it looks like one.
LEMMA FlagInText ==
  ASSUME NEW s \in Seq(Units), NEW j \in 1..(Len(s) - 2), FlagEndAt(s, j)
  PROVE  LooksLikeFlag(s)
<1> DEFINE B == {"W", "U", "L", "I", "x", "N", "D"}
           c == Bytes(s)
<1>1. Len(s) \in Nat /\ j \in 1..Len(s) /\ j + 1 \in 1..Len(s) /\ j + 2 \in 1..Len(s)
  BY LenProperties
<1>2. c \in Seq(B) /\ Len(c) = Len(s) /\ \A k \in 1..Len(s) : c[k] = s[k].byte
  <2>1. c = [k \in 1..Len(s) |-> s[k].byte]
    BY LenProperties DEF Bytes
  <2>2. \A k \in 1..Len(s) : s[k].byte \in B
    <3>1. \A k \in 1..Len(s) : s[k] \in Units
      BY ElementOfSeq
    <3> QED
      BY <3>1 DEF Units
  <2> HIDE DEF B, c
  <2>3. c \in Seq(B)
    BY <1>1, <2>1, <2>2, IsASeq
  <2>4. Len(c) = Len(s)
    BY <1>1, <2>1
  <2> QED
    BY <2>1, <2>3, <2>4
<1> DEFINE d == Drop(c, j - 1)
           t == Take(d, 3)
           e == Drop(Flag, 1)
<1>3. j - 1 \in Nat
  BY <1>1
<1> HIDE DEF B, c
<1>4. /\ d \in Seq(B) /\ Len(d) = (IF j - 1 <= Len(c) THEN Len(c) - (j - 1) ELSE 0)
      /\ \A k \in 1..Len(d) : d[k] = c[(j - 1) + k]
  BY <1>2, <1>3, DropProperties
<1> HIDE DEF d
<1>5. Len(d) >= 3 /\ Len(d) \in Nat
  <2> DEFINE n == Len(s)
             m == Len(d)
  <2>1. n \in Nat /\ j + 2 <= n /\ j \in Nat /\ m = IF j - 1 <= n THEN n - (j - 1) ELSE 0
    BY <1>1, <1>2, <1>4
  <2> HIDE DEF n, m
  <2>2. m >= 3 /\ m \in Nat
    BY <2>1
  <2> QED
    BY <2>2 DEF m
<1>6. /\ t \in Seq(B) /\ Len(t) = (IF 3 < Len(d) THEN 3 ELSE Len(d))
      /\ \A k \in 1..Len(t) : t[k] = d[k]
  BY <1>4, TakeProperties
<1> HIDE DEF t
<1>7. Len(t) = 3
  <2> DEFINE n == Len(d)
             m == Len(t)
  <2>1. n >= 3 /\ n \in Nat /\ m = IF 3 < n THEN 3 ELSE n
    BY <1>5, <1>6
  <2> HIDE DEF n, m
  <2>2. m = 3
    BY <2>1
  <2> QED
    BY <2>2 DEF m
<1>8. ASSUME NEW k \in 1..3 PROVE t[k] = c[(j - 1) + k]
  BY <1>4, <1>5, <1>6, <1>7
<1>9. t[1] = "U" /\ t[2] = "L" /\ t[3] = "I"
  <2>1. (j - 1) + 1 = j /\ (j - 1) + 2 = j + 1 /\ (j - 1) + 3 = j + 2
    BY <1>1
  <2>2. t[1] = c[j] /\ t[2] = c[j + 1] /\ t[3] = c[j + 2]
    BY <1>8, <2>1
  <2> QED
    BY <1>1, <1>2, <2>2 DEF FlagEndAt
<1>10. e \in Seq(B) /\ Len(e) = 3 /\ e[1] = "U" /\ e[2] = "L" /\ e[3] = "I"
  <2>1. Flag \in Seq(B) /\ Len(Flag) = 4
    BY DEF Flag, B
  <2>2. /\ e \in Seq(B) /\ Len(e) = (IF 1 <= Len(Flag) THEN Len(Flag) - 1 ELSE 0)
        /\ \A k \in 1..Len(e) : e[k] = Flag[1 + k]
    <3>1. 1 \in Nat
      OBVIOUS
    <3> QED
      BY <2>1, <3>1, DropProperties, Zenon
  <2> HIDE DEF e
  <2>3. Len(e) = 3
    BY <2>1, <2>2
  <2> QED
    BY <2>2, <2>3 DEF Flag
<1> HIDE DEF e
<1>11. t = e
  <2>1. \A k \in 1..Len(t) : t[k] = e[k]
    BY <1>7, <1>9, <1>10
  <2> QED
    BY <1>6, <1>7, <1>10, <2>1, SeqEqual
<1> QED
  BY <1>1, <1>11 DEF LooksLikeFlag, t, d, e, c

(***************************************************************************)
(* What is sent.                                                           *)
(***************************************************************************)
\* D is the beginning of s.
Begins(D, s) == Len(D) <= Len(s) /\ \A j \in 1..Len(D) : D[j] = s[j]

\* The beginning of a text that does not look like a flag.
LEMMA TextPiece ==
  ASSUME NEW D \in Seq(Units), NEW s \in Seq(Units), Begins(D, s), ~LooksLikeFlag(s)
  PROVE  /\ Len(D) >= 1 => D[1].byte \notin {"L", "I"}
         /\ \A j \in 1..(Len(D) - 2) : ~FlagEndAt(D, j)
<1> DEFINE a == Len(D)
           b == Len(s)
<1>1. a \in Nat /\ b \in Nat
  BY LenProperties
<1>2. a <= b /\ \A j \in 1..a : D[j] = s[j]
  BY DEF Begins
<1>3. b >= 1 => s[1].byte \notin {"L", "I"}
  <2> SUFFICES ASSUME b >= 1 PROVE s[1].byte \notin {"L", "I"}
    OBVIOUS
  <2>1. s # <<>>
    BY EmptySeq
  <2> QED
    BY <2>1 DEF LooksLikeFlag
<1>4. \A j \in 1..(b - 2) : ~FlagEndAt(s, j)
  BY FlagInText
<1> HIDE DEF a, b
<1>5. ASSUME a >= 1 PROVE D[1].byte \notin {"L", "I"}
  BY <1>1, <1>2, <1>3, <1>5
<1>6. ASSUME NEW j \in 1..(a - 2) PROVE ~FlagEndAt(D, j)
  <2>1. j \in 1..a /\ j + 1 \in 1..a /\ j + 2 \in 1..a /\ j \in 1..(b - 2)
    BY <1>1, <1>2
  <2> QED
    BY <1>2, <1>4, <2>1 DEF FlagEndAt
<1> QED
  BY <1>5, <1>6 DEF a

\* With its header in front of it.
LEMMA HeadPiece ==
  ASSUME NEW p, NEW k, PacketUnits(p, k), NEW D \in Seq(Units), Begins(D, p.body),
         ~LooksLikeFlag(p.body)
  PROVE  p.head \o D \in Seq(Units) /\ PieceIsReal(p.head \o D, p)
<1> DEFINE h == p.head
           b == Len(D)
           c == h \o D
<1>1. /\ h \in Seq(Units) /\ Len(h) = 6
      /\ h[1].byte = "W" /\ h[2].byte = "U" /\ h[3].byte = "L"
      /\ h[4].byte = "I" /\ h[5].byte = "N" /\ h[6].byte = "D"
  BY DEF PacketUnits, HeaderLen
<1>2. \A j \in 1..(b - 2) : ~FlagEndAt(D, j)
  BY TextPiece DEF PacketUnits
<1> HIDE DEF h
<1>3. /\ c \in Seq(Units) /\ Len(c) = 6 + b /\ b \in Nat
      /\ \A j \in 1..(6 + b) : c[j] = IF j <= 6 THEN h[j] ELSE D[j - 6]
  <2>1. Joined(h, D, 6)
    BY <1>1, ConcatParts
  <2> QED
    BY <2>1 DEF Joined
<1> HIDE DEF b, c
<1>4. \A j \in 1..6 : c[j] = h[j]
  BY <1>3
<1>5. ASSUME NEW j \in 1..b PROVE c[6 + j] = D[j]
  <2>1. 6 + j \in 1..(6 + b) /\ ~(6 + j <= 6) /\ (6 + j) - 6 = j
    BY <1>3
  <2> QED
    BY <1>3, <2>1
<1>6. /\ c[1].byte = "W" /\ c[2].byte = "U" /\ c[3].byte = "L"
      /\ c[4].byte = "I" /\ c[5].byte = "N" /\ c[6].byte = "D"
  BY <1>1, <1>4
<1>7. ASSUME NEW j \in 1..((6 + b) - 2), FlagEndAt(c, j) PROVE j = 2
  <2>1. CASE j \in 1..6
    <3>1. c[j].byte = "U"
      BY <1>7 DEF FlagEndAt
    <3>2. j = 1 \/ j = 2 \/ j = 3 \/ j = 4 \/ j = 5 \/ j = 6
      BY <2>1
    <3> QED
      BY <1>6, <3>1, <3>2
  <2>2. CASE ~(j \in 1..6)
    <3>1. PICK l \in Nat : j = 6 + l /\ l \in 1..(b - 2)
      BY <1>3, <2>2
    <3>2. l \in 1..b /\ l + 1 \in 1..b /\ l + 2 \in 1..b
          /\ j + 1 = 6 + (l + 1) /\ j + 2 = 6 + (l + 2)
      BY <1>3, <3>1
    <3>3. FlagEndAt(D, l)
      BY <1>5, <1>7, <3>1, <3>2 DEF FlagEndAt
    <3> QED
      BY <1>2, <3>1, <3>3
  <2> QED
    BY <2>1, <2>2
<1>8. 6 <= 6 + b
  BY <1>3
<1>9. PieceIsReal(c, p)
  BY <1>3, <1>4, <1>6, <1>7, <1>8 DEF PieceIsReal, HeaderLen, h
<1> QED
  BY <1>3, <1>9 DEF h, c

\* The first n of a sequence are its beginning.
LEMMA TakeBegins ==
  ASSUME NEW s \in Seq(Units), NEW n \in Nat
  PROVE  Take(s, n) \in Seq(Units) /\ Begins(Take(s, n), s)
<1> DEFINE a == Len(s)
           b == Len(Take(s, n))
<1>1. /\ Take(s, n) \in Seq(Units) /\ b = (IF n < a THEN n ELSE a) /\ a \in Nat
      /\ \A k \in 1..b : Take(s, n)[k] = s[k]
  BY TakeProperties, LenProperties
<1> HIDE DEF a, b
<1>2. b <= a
  BY <1>1
<1> QED
  BY <1>1, <1>2 DEF Begins, a, b

\* And so is the beginning of their beginning.
LEMMA BeginsAgain ==
  ASSUME NEW r \in Seq(Units), NEW t \in Seq(Units), NEW s \in Seq(Units), Begins(r, t), Begins(t, s)
  PROVE  Begins(r, s)
<1> DEFINE a == Len(r)
           b == Len(t)
           c == Len(s)
<1>1. a \in Nat /\ b \in Nat /\ c \in Nat
  BY LenProperties
<1>2. /\ a <= b /\ b <= c
      /\ \A j \in 1..a : r[j] = t[j]
      /\ \A j \in 1..b : t[j] = s[j]
  BY DEF Begins
<1> HIDE DEF a, b, c
<1>3. a <= c /\ \A j \in 1..a : j \in 1..b
  BY <1>1, <1>2
<1>4. \A j \in 1..a : r[j] = s[j]
  BY <1>2, <1>3
<1> QED
  BY <1>3, <1>4 DEF Begins, a, c

\* What has arrived is the beginning of what is to come.
LEMMA ConcatBegins ==
  ASSUME NEW s \in Seq(Units), NEW w \in Seq(Units)
  PROVE  Begins(s, s \o w)
<1> DEFINE a == Len(s)
           b == Len(w)
           c == s \o w
<1>1. a \in Nat /\ b \in Nat
  BY LenProperties
<1>2. Len(c) = a + b /\ \A j \in 1..(a + b) : c[j] = IF j <= a THEN s[j] ELSE w[j - a]
  BY ConcatProperties
<1> HIDE DEF a, b, c
<1>3. a <= a + b /\ \A j \in 1..a : c[j] = s[j]
  BY <1>1, <1>2
<1> QED
  BY <1>2, <1>3 DEF Begins, a, c

\* Where no header is sent in part, Send puts a header, or none, and the
\* beginning of its text on the way.
LEMMA SendPiece ==
  ASSUME TypeOK, Send, "torn" \notin harm'
  PROVE  \E p \in Frames, D \in Seq(Units) :
           /\ PacketUnits(p, Len(sent) + 1) /\ sent' = Append(sent, p) /\ Begins(D, p.body)
           /\ wire' = wire \o (p.head \o D) \/ wire' = wire \o D
           /\ UNCHANGED <<avail, pc, hd, scan, i, delivered>>
<1>1. PICK text \in Texts :
        LET p == Packet(Len(sent) + 1, text)
        IN /\ sent' = Append(sent, p)
           /\ IF side = "server" THEN ClientSends(p) ELSE ServerSends(p)
  BY DEF Send
<1> DEFINE p == Packet(Len(sent) + 1, text)
<1>2. Len(sent) + 1 \in Nat
  BY TypeParts, LenProperties DEF SentType
<1>3. PacketUnits(p, Len(sent) + 1)
  BY <1>2, PacketShape
<1>4. sent' = Append(sent, p) /\ (ClientSends(p) \/ ServerSends(p))
  BY <1>1
<1>5. UNCHANGED <<avail, pc, hd, scan, i, delivered>>
  BY DEF Send, searchVars
<1> HIDE DEF p
<1>6. /\ p \in Frames /\ p.head \in Seq(Units) /\ p.body \in Seq(Units)
      /\ Len(p.head) = HeaderLen /\ Len(p.body) \in Nat
  BY <1>3 DEF PacketUnits
<1>7. wire \in Seq(Units)
  BY TypeParts DEF StreamType
<1>8. ASSUME NEW g \in Seq(Units), NEW D \in Seq(Units) PROVE (wire \o g) \o D = wire \o (g \o D)
  BY <1>7, ConcatAssociative
<1>9. CASE ClientSends(p)
  <2>1. wire' = (wire \o p.head) \o p.body
    BY <1>9 DEF ClientSends
  <2>2. wire' = wire \o (p.head \o p.body)
    BY <1>6, <1>8, <2>1
  <2>3. Begins(p.body, p.body)
    BY <1>6 DEF Begins
  <2> QED
    BY <1>3, <1>4, <1>5, <1>6, <2>2, <2>3
<1>10. CASE ServerSends(p)
  <2> DEFINE n == Len(p.body) % ShortWord
             data == Take(p.body, n)
  <2>1. PICK h \in {0, FlagLen, HeaderLen}, d \in {0, Lesser(1, Len(data)), Len(data)} :
          /\ wire' = wire \o Take(p.head, h) \o Take(data, d)
          /\ harm' = harm \cup (IF h = FlagLen THEN {"torn"} ELSE {})
                          \cup (IF h = 0 \/ d < Len(data) THEN {"lost"} ELSE {})
                          \cup (IF Len(p.body) >= ShortWord THEN {"long"} ELSE {})
    BY <1>10 DEF ServerSends
  <2>2. h = 0 \/ h = HeaderLen
    BY <2>1
  <2>3. n \in Nat
    <3>1. \A l \in Nat : l % ShortWord \in Nat
      BY ReaderAssumption
    <3> QED
      BY <1>6, <3>1, Zenon
  <2> HIDE DEF n
  <2>4. data \in Seq(Units) /\ Begins(data, p.body) /\ Len(data) \in Nat
    BY <1>6, <2>3, TakeBegins, LenProperties
  <2> HIDE DEF data
  <2>5. d \in Nat
    BY <2>1, <2>4 DEF Lesser
  <2> DEFINE D == Take(data, d)
  <2>6. D \in Seq(Units) /\ Begins(D, p.body)
    <3>1. D \in Seq(Units) /\ Begins(D, data)
      BY <2>4, <2>5, TakeBegins
    <3> HIDE DEF D
    <3> QED
      BY <1>6, <2>4, <3>1, BeginsAgain
  <2>7. wire' = (wire \o Take(p.head, h)) \o D
    BY <2>1
  <2> HIDE DEF D
  <2>8. CASE h = 0
    <3>1. Take(p.head, 0) = <<>>
      <4>1. Len(Take(p.head, 0)) = 0 /\ Take(p.head, 0) \in Seq(Units)
        <5>1. /\ Take(p.head, 0) \in Seq(Units)
              /\ Len(Take(p.head, 0)) = IF 0 < Len(p.head) THEN 0 ELSE Len(p.head)
          BY <1>6, TakeProperties
        <5> QED
          BY <1>6, <5>1 DEF HeaderLen
      <4> QED
        BY <4>1, EmptySeq
    <3>2. wire \o <<>> = wire
      BY <1>7, ConcatEmptySeq
    <3>3. wire' = wire \o D
      BY <2>7, <2>8, <3>1, <3>2
    <3> QED
      BY <1>3, <1>4, <1>5, <1>6, <2>6, <3>3
  <2>9. CASE h = HeaderLen
    <3>1. Take(p.head, HeaderLen) = p.head
      <4>1. HeaderLen \in Nat /\ HeaderLen >= Len(p.head)
        BY <1>6 DEF HeaderLen
      <4> QED
        BY <1>6, <4>1, TakeAll
    <3>2. wire' = (wire \o p.head) \o D
      BY <2>7, <2>9, <3>1
    <3>3. (wire \o p.head) \o D = wire \o (p.head \o D)
      BY <1>6, <1>8, <2>6, Zenon
    <3>4. wire' = wire \o (p.head \o D)
      BY <3>2, <3>3
    <3> QED
      BY <1>3, <1>4, <1>5, <1>6, <2>6, <3>4
  <2> QED
    BY <2>2, <2>8, <2>9
<1> QED
  BY <1>4, <1>9, <1>10

(***************************************************************************)
(* The invariant.                                                          *)
(***************************************************************************)
\* No header was sent in part, and no text looks like a flag.
Clean == "torn" \notin harm /\ \A k \in 1..Len(sent) : ~LooksLikeFlag(sent[k].body)

\* What is scanned and what is still to be read.
Ahead == scan \o (avail \o wire)

\* h is a header that was sent, or begins like one.
OfHeader(h) == \E k \in 1..Len(sent) : Begins(h, sent[k].head)

\* The index of the search forgets the first byte of the flag, not the others.
MatchedBy(s, k) == \A m \in 2..k : s[Len(s) - k + m].byte = Flag[m]
Matched == MatchedBy(scan, i)

\* The flag that was found is that of a packet whose code comes next.
Found ==
  \E k \in 1..Len(sent) :
    /\ Len(hd) = FlagLen /\ Begins(hd, sent[k].head)
    /\ Len(avail \o wire) >= 2
    /\ (avail \o wire)[1] = sent[k].head[5] /\ (avail \o wire)[2] = sent[k].head[6]

HeadersReal ==
  Clean =>
    /\ FlagsAreReal(Ahead, sent)
    /\ pc = "search" => Matched
    /\ pc = "rest" => Found
    /\ pc = "body" => OfHeader(hd)
    /\ \A d \in 1..Len(delivered) : OfHeader(delivered[d].head)

\* A flag is compared whole.
LEMMA FlagRead ==
  ASSUME NEW s \in Seq(Units), IsFlag(s)
  PROVE  Len(s) >= 4 /\ FlagAt(s, 1)
<1> DEFINE t == Take(s, FlagLen)
           n == Len(s)
           m == Len(t)
<1>1. n \in Nat /\ n >= 4 /\ Bytes(t) = Flag
  BY LenProperties DEF IsFlag, FlagLen
<1>2. /\ t \in Seq(Units) /\ m = IF 4 < n THEN 4 ELSE n
      /\ \A k \in 1..m : t[k] = s[k]
  BY TakeProperties DEF FlagLen
<1> HIDE DEF t, n, m
<1>3. m = 4
  BY <1>1, <1>2
<1>4. DOMAIN t = 1..4
  BY <1>2, <1>3, LenProperties DEF m
<1>5. ASSUME NEW k \in 1..4 PROVE s[k].byte = Flag[k]
  <2>1. Bytes(t)[k] = t[k].byte
    BY <1>4 DEF Bytes
  <2> QED
    BY <1>1, <1>2, <1>3, <2>1
<1>6. FlagAt(s, 1)
  BY <1>5, 1 + 1 = 2, 1 + 2 = 3, 1 + 3 = 4 DEF FlagAt, Flag
<1> QED
  BY <1>1, <1>6 DEF n

\* The types of what HeadersReal is about.
LEMMA AheadType ==
  ASSUME TypeOK
  PROVE  /\ scan \in Seq(Units) /\ avail \in Seq(Units) /\ wire \in Seq(Units) /\ hd \in Seq(Units)
         /\ sent \in Seq(Frames) /\ delivered \in Seq(Frames)
         /\ avail \o wire \in Seq(Units) /\ Ahead \in Seq(Units)
<1>1. /\ scan \in Seq(Units) /\ avail \in Seq(Units) /\ wire \in Seq(Units) /\ hd \in Seq(Units)
      /\ sent \in Seq(Frames) /\ delivered \in Seq(Frames)
  BY TypeParts DEF ScanType, StreamType, HeadType, SentType, DeliveredType
<1> DEFINE C == avail \o wire
<1>2. C \in Seq(Units)
  BY <1>1, ConcatProperties
<1> HIDE DEF C
<1>3. scan \o C \in Seq(Units)
  BY <1>1, <1>2, ConcatProperties
<1> QED
  BY <1>1, <1>2, <1>3 DEF Ahead, C

\* What is sent is added at its end.
LEMMA AheadSent ==
  ASSUME TypeOK
  PROVE  \A u \in Seq(Units) : /\ Ahead \o u = scan \o (avail \o (wire \o u))
                               /\ (avail \o wire) \o u = avail \o (wire \o u)
<1>1. scan \in Seq(Units) /\ avail \in Seq(Units) /\ wire \in Seq(Units)
  BY AheadType
<1>2. \A u \in Seq(Units) : (scan \o (avail \o wire)) \o u = scan \o (avail \o (wire \o u))
  BY <1>1, StreamSent, SMTT(60)
<1>3. \A u \in Seq(Units) : (avail \o wire) \o u = avail \o (wire \o u)
  BY <1>1, ConcatAssociative, SMTT(30)
<1> QED
  BY <1>2, <1>3 DEF Ahead

\* Sending keeps HeadersReal.
LEMMA SendHeaders ==
  ASSUME TypeOK, SentShape, HeadersReal, Send
  PROVE  HeadersReal'
<1> SUFFICES ASSUME Clean' PROVE HeadersReal'
  BY DEF HeadersReal
<1>1. "torn" \notin harm' /\ \A k \in 1..Len(sent') : ~LooksLikeFlag(sent'[k].body)
  BY DEF Clean
<1>2. PICK p \in Frames, D \in Seq(Units) :
        /\ PacketUnits(p, Len(sent) + 1) /\ sent' = Append(sent, p) /\ Begins(D, p.body)
        /\ wire' = wire \o (p.head \o D) \/ wire' = wire \o D
        /\ UNCHANGED <<avail, pc, hd, scan, i, delivered>>
  BY <1>1, SendPiece
<1>3. /\ scan \in Seq(Units) /\ avail \in Seq(Units) /\ wire \in Seq(Units) /\ hd \in Seq(Units)
      /\ sent \in Seq(Frames) /\ delivered \in Seq(Frames)
      /\ avail \o wire \in Seq(Units) /\ Ahead \in Seq(Units) /\ Len(sent) \in Nat
  BY AheadType, LenProperties
<1>4. /\ Len(sent') = Len(sent) + 1 /\ sent'[Len(sent) + 1] = p
      /\ \A k \in 1..Len(sent) : k \in 1..Len(sent') /\ sent'[k] = sent[k]
  BY <1>2, <1>3, AppendProperties
<1>5. ~LooksLikeFlag(p.body)
  <2>1. Len(sent) + 1 \in 1..Len(sent')
    BY <1>3, <1>4
  <2> QED
    BY <1>1, <1>4, <2>1
<1>6. Clean
  <2>1. "torn" \notin harm
    BY <1>1, HarmStays DEF Next
  <2> QED
    BY <1>1, <1>4, <2>1 DEF Clean
<1>7. PICK X \in Seq(Units) : wire' = wire \o X /\ PieceIsReal(X, p)
  <2>1. p.head \o D \in Seq(Units) /\ PieceIsReal(p.head \o D, p)
    BY <1>2, <1>5, HeadPiece
  <2>2. PieceIsReal(D, p)
    <3>1. p.body \in Seq(Units)
      BY <1>2 DEF PacketUnits
    <3> QED
      BY <1>2, <1>5, <3>1, TextPiece DEF PieceIsReal
  <2> QED
    BY <1>2, <2>1, <2>2
<1>8. FlagsAreReal(Ahead', sent')
  <2>1. FlagsAreReal(Ahead \o X, Append(sent, p))
    BY <1>3, <1>6, <1>7, FlagsSent DEF HeadersReal
  <2>2. Ahead \o X = scan \o (avail \o (wire \o X))
    BY AheadSent
  <2>3. Ahead' = Ahead \o X
    BY <1>2, <1>7, <2>2 DEF Ahead
  <2> QED
    BY <1>2, <2>1, <2>3
<1>9. pc' = "search" => Matched'
  BY <1>2, <1>6 DEF HeadersReal, Matched
<1>10. pc' = "body" => OfHeader(hd)'
  BY <1>2, <1>4, <1>6 DEF HeadersReal, OfHeader
<1>11. (\A d \in 1..Len(delivered) : OfHeader(delivered[d].head))'
  BY <1>2, <1>4, <1>6 DEF HeadersReal, OfHeader
<1>12. ASSUME pc = "rest" PROVE Found'
  <2>1. PICK k \in 1..Len(sent) :
          /\ Len(hd) = FlagLen /\ Begins(hd, sent[k].head)
          /\ Len(avail \o wire) >= 2
          /\ (avail \o wire)[1] = sent[k].head[5] /\ (avail \o wire)[2] = sent[k].head[6]
    BY <1>6, <1>12 DEF HeadersReal, Found
  <2> DEFINE c == avail \o wire
             e == c \o X
  <2>2. avail' \o wire' = e
    <3>1. (avail \o wire) \o X = avail \o (wire \o X)
      BY AheadSent
    <3> QED
      BY <1>2, <1>7, <3>1
  <2>3. c \in Seq(Units)
    BY <1>3
  <2> HIDE DEF c
  <2>4. /\ Len(c) \in Nat /\ Len(X) \in Nat /\ Len(e) = Len(c) + Len(X)
        /\ \A j \in 1..(Len(c) + Len(X)) : e[j] = IF j <= Len(c) THEN c[j] ELSE X[j - Len(c)]
    BY <2>3, ConcatProperties, LenProperties
  <2>5. Len(c) >= 2 /\ c[1] = sent[k].head[5] /\ c[2] = sent[k].head[6]
    BY <2>1 DEF c
  <2> HIDE DEF e
  <2>6. Len(e) >= 2 /\ e[1] = c[1] /\ e[2] = c[2]
    BY <2>4, <2>5
  <2>7. k \in 1..Len(sent') /\ sent'[k] = sent[k]
    BY <1>4
  <2> QED
    BY <1>2, <2>1, <2>2, <2>5, <2>6, <2>7 DEF Found
<1> QED
  BY <1>2, <1>8, <1>9, <1>10, <1>11, <1>12 DEF HeadersReal

\* What has gone wrong stays so: where nothing is sent, a clean stream was one.
LEMMA CleanBefore ==
  ASSUME [Next]_vars, UNCHANGED sent, Clean'
  PROVE  Clean
BY HarmStays DEF Clean

\* The end of the connection, or of the thread, keeps HeadersReal.
LEMMA EndHeaders ==
  ASSUME TypeOK, HeadersReal, End
  PROVE  HeadersReal'
<1>1. /\ pc' = "end" /\ scan' = <<>> /\ UNCHANGED <<sent, avail, wire, delivered, harm>>
  BY DEF End, streamVars
<1>2. Clean' => Clean
  BY <1>1 DEF Clean
<1>3. Clean => FlagsAreReal(Ahead', sent')
  <2>1. /\ avail \o wire \in Seq(Units) /\ Ahead \in Seq(Units)
        /\ Left(avail \o wire, Ahead)
    <3>1. scan \in Seq(Units) /\ avail \o wire \in Seq(Units) /\ Ahead \in Seq(Units)
      BY AheadType
    <3> QED
      BY <3>1, LeftOfConcat DEF Ahead
  <2>2. Clean => FlagsAreReal(avail \o wire, sent)
    BY <2>1, FlagsLeft DEF HeadersReal
  <2>3. Ahead' = avail \o wire
    BY <1>1, <2>1, ConcatEmptySeq DEF Ahead
  <2> QED
    BY <1>1, <2>2, <2>3
<1>4. Clean => (\A d \in 1..Len(delivered) : OfHeader(delivered[d].head))'
  BY <1>1 DEF HeadersReal, OfHeader
<1> QED
  BY <1>1, <1>2, <1>3, <1>4 DEF HeadersReal

\* A flag at the front of the stream begins a header.
LEMMA FlagAhead ==
  ASSUME TypeOK, SentShape, NEW C \in Seq(Units), NEW got \in Seq(Units), Begins(got, C), Len(got) <= HeaderLen,
         FlagsAreReal(C, sent), IsFlag(got)
  PROVE  OfHeader(got)
<1> DEFINE n == Len(got)
           c == Len(C)
<1>1. n \in Nat /\ c \in Nat /\ n >= 4 /\ n <= 6
  BY FlagRead, LenProperties DEF HeaderLen
<1>2. n <= c /\ \A j \in 1..n : got[j] = C[j]
  BY DEF Begins
<1>3. got[2].byte = "U" /\ got[3].byte = "L" /\ got[4].byte = "I"
  BY FlagRead, 1 + 1 = 2, 1 + 2 = 3, 1 + 3 = 4 DEF FlagAt
<1> HIDE DEF n, c
<1>4. FlagEndAt(C, 2) /\ 2 \in 1..(c - 2)
  <2>1. C[2] = got[2] /\ C[3] = got[3] /\ C[4] = got[4]
    BY <1>1, <1>2
  <2>2. 2 \in 1..(c - 2)
    BY <1>1, <1>2
  <2> QED
    BY <1>3, <2>1, <2>2, 2 + 1 = 3, 2 + 2 = 4 DEF FlagEndAt
<1>5. PICK k \in 1..Len(sent) : HeadAt(C, 2, sent[k])
  BY <1>4 DEF FlagsAreReal, c
<1>6. ASSUME NEW m \in 1..n PROVE got[m] = sent[k].head[m]
  <2>1. got[m] = C[m]
    BY <1>2
  <2>2. CASE m = 1
    <3>1. C[2 - 1] = sent[k].head[1] /\ 2 - 1 = 1
      BY <1>5 DEF HeadAt
    <3> QED
      BY <2>1, <2>2, <3>1
  <2>3. CASE m # 1
    <3>1. m \in 2..6 /\ 2 + m - 2 = m
      BY <1>1, <2>3
    <3>2. C[2 + m - 2] = sent[k].head[m]
      BY <1>5, <3>1 DEF HeadAt, HeaderLen
    <3> QED
      BY <2>1, <3>1, <3>2
  <2> QED
    BY <2>2, <2>3
<1>7. n <= Len(sent[k].head)
  <2>1. Len(sent[k].head) = 6
    BY <1>5, SentPacket DEF PacketUnits, HeaderLen
  <2> QED
    BY <1>1, <2>1
<1> QED
  BY <1>5, <1>6, <1>7 DEF OfHeader, Begins, n

\* Reading a header keeps HeadersReal.
LEMMA ReadHeaders ==
  ASSUME TypeOK, SearchInv, SentShape, HeadersReal, ReadHeader
  PROVE  HeadersReal'
<1> DEFINE got == Take(avail, HeaderLen)
           C == avail \o wire
           T == Drop(avail, HeaderLen) \o wire
<1>1. /\ avail' = Drop(avail, HeaderLen) /\ hd' = got /\ scan = <<>> /\ scan' = <<>> /\ i' = 0
      /\ pc' = (IF IsFlag(got) THEN "body" ELSE "search")
      /\ harm \subseteq harm'
      /\ UNCHANGED <<sent, wire, delivered>>
  BY DEF ReadHeader, Receive, SearchInv, streamVars, searchVars
<1>2. Clean' => Clean
  BY <1>1 DEF Clean
<1>3. avail \in Seq(Units) /\ wire \in Seq(Units) /\ HeaderLen \in Nat /\ C \in Seq(Units)
  BY AheadType DEF HeaderLen
<1>4. /\ got \in Seq(Units) /\ Begins(got, avail) /\ Len(got) <= HeaderLen
  <2>1. got \in Seq(Units) /\ Begins(got, avail)
    BY <1>3, TakeBegins
  <2>2. Len(got) = IF HeaderLen < Len(avail) THEN HeaderLen ELSE Len(avail)
    BY <1>3, TakeProperties
  <2>3. Len(avail) \in Nat
    BY <1>3, LenProperties
  <2> QED
    BY <1>3, <2>1, <2>2, <2>3
<1>5. Begins(avail, C)
  BY <1>3, ConcatBegins
<1>6. Begins(got, C)
  BY <1>3, <1>4, <1>5, BeginsAgain
<1>7. T \in Seq(Units) /\ Left(T, C)
  <2>1. <<>> \in Seq(Units) /\ <<>> \o C = C
    BY <1>3, EmptySeq, ConcatEmptySeq
  <2>2. T \in Seq(Units) /\ Left(T, <<>> \o C)
    BY <1>3, <2>1, LeftOfRead
  <2> QED
    BY <2>1, <2>2
<1>8. Ahead = C /\ Ahead' = T
  <2>1. <<>> \o C = C /\ <<>> \o T = T
    BY <1>3, <1>7, ConcatEmptySeq
  <2> HIDE DEF got
  <2> QED
    BY <1>1, <2>1 DEF Ahead
<1> HIDE DEF got, C, T
<1>9. Clean => FlagsAreReal(C, sent)
  BY <1>8 DEF HeadersReal
<1>10. Clean => FlagsAreReal(Ahead', sent')
  BY <1>1, <1>3, <1>7, <1>8, <1>9, FlagsLeft
<1>11. Clean /\ pc' = "body" => OfHeader(hd)'
  <2>1. Clean /\ IsFlag(got) => OfHeader(got)
    BY <1>3, <1>4, <1>6, <1>9, FlagAhead
  <2> QED
    BY <1>1, <2>1 DEF OfHeader
<1>12. Matched'
  BY <1>1 DEF Matched, MatchedBy
<1>13. Clean => (\A d \in 1..Len(delivered) : OfHeader(delivered[d].head))'
  BY <1>1 DEF HeadersReal, OfHeader
<1> QED
  BY <1>1, <1>2, <1>10, <1>11, <1>12, <1>13 DEF HeadersReal

\* Concatenation of streams is associative.
LEMMA ConcatAgain ==
  ASSUME NEW r \in Seq(Units), NEW t \in Seq(Units), NEW s \in Seq(Units)
  PROVE  (r \o t) \o s = r \o (t \o s)
BY ConcatAssociative

\* A byte goes from the stream to what is scanned.
LEMMA ByteMoved ==
  ASSUME TypeOK, avail # <<>>
  PROVE  Append(scan, avail[1]) \o (Drop(avail, 1) \o wire) = Ahead
<1>1. scan \in Seq(Units) /\ avail \in Seq(Units) /\ wire \in Seq(Units)
  BY AheadType
<1>2. Len(avail) \in Nat /\ Len(avail) # 0
  BY <1>1, LenProperties, EmptySeq
<1>3. avail[1] \in Units
  BY <1>1, <1>2, ElementOfSeq
<1> DEFINE t == Take(avail, 1)
           u == <<avail[1]>>
           e == Drop(avail, 1) \o wire
<1>4. t = u
  <2>1. t \in Seq(Units) /\ Len(t) = (IF 1 < Len(avail) THEN 1 ELSE Len(avail))
        /\ \A k \in 1..Len(t) : t[k] = avail[k]
    BY <1>1, TakeProperties
  <2> HIDE DEF t
  <2>2. Len(t) = 1
    BY <1>2, <2>1
  <2>3. u \in Seq(Units) /\ Len(u) = 1 /\ u[1] = avail[1]
    BY <1>3
  <2> HIDE DEF u
  <2>4. \A k \in 1..Len(t) : t[k] = u[k]
    BY <2>1, <2>2, <2>3
  <2> QED
    BY <2>1, <2>2, <2>3, <2>4, SeqEqual
<1>5. t \o e = avail \o wire /\ e \in Seq(Units)
  <2>1. 1 \in Nat
    OBVIOUS
  <2>2. Drop(avail, 1) \in Seq(Units)
    BY <1>1, <2>1, DropProperties
  <2> QED
    BY <1>1, <2>1, <2>2, StreamTaken, ConcatProperties, SMTT(60)
<1>6. u \in Seq(Units) /\ Append(scan, avail[1]) = scan \o u
  BY <1>1, <1>3, AppendIsConcat
<1> HIDE DEF t, u, e
<1>7. (scan \o u) \o e = scan \o (u \o e)
  BY <1>1, <1>5, <1>6, ConcatAgain, Zenon
<1> QED
  BY <1>4, <1>5, <1>6, <1>7 DEF Ahead, e

\* The four units h are the flag of a packet sent, and c starts with its code.
FoundBefore(h, c) ==
  \E k \in 1..Len(sent) :
    /\ Begins(h, sent[k].head) /\ Len(c) >= 2
    /\ c[1] = sent[k].head[5] /\ c[2] = sent[k].head[6]

\* The search finds the end of a flag, and by it a header.
LEMMA FlagInScan ==
  ASSUME TypeOK, SentShape, NEW s \in Seq(Units), NEW c \in Seq(Units), FlagsAreReal(s \o c, sent),
         NEW n \in Nat, n = Len(s), n >= 4, FlagEndAt(s, n - 2),
         NEW h \in Seq(Units), Len(h) = 4, \A m \in 1..4 : h[m] = s[n - 4 + m]
  PROVE  FoundBefore(h, c)
<1> DEFINE S == s \o c
           b == Len(c)
           a == Len(S)
<1>1. b \in Nat
  BY LenProperties
<1>2. a = n + b /\ \A j \in 1..(n + b) : S[j] = IF j <= n THEN s[j] ELSE c[j - n]
  <2>1. Joined(s, c, n)
    BY ConcatParts
  <2> QED
    BY <2>1 DEF Joined
<1>3. \A j \in 1..(a - 2) : FlagEndAt(S, j) => \E k \in 1..Len(sent) : HeadAt(S, j, sent[k])
  BY DEF FlagsAreReal
<1> HIDE DEF S, a, b
<1>4. ASSUME NEW j \in 1..n PROVE S[j] = s[j]
  <2>1. j \in 1..(n + b) /\ j <= n
    BY <1>1
  <2> QED
    BY <1>2, <2>1
<1>5. n - 2 \in 1..(a - 2) /\ n - 2 \in 1..n /\ n - 1 \in 1..n /\ n \in 1..n
      /\ (n - 2) + 1 = n - 1 /\ (n - 2) + 2 = n /\ n - 2 > 1 /\ (n - 2) - 1 = n - 3
      /\ n - 3 \in 1..n
  BY <1>1, <1>2
<1>6. FlagEndAt(S, n - 2)
  BY <1>4, <1>5 DEF FlagEndAt
<1>7. PICK k \in 1..Len(sent) : HeadAt(S, n - 2, sent[k])
  BY <1>3, <1>5, <1>6
<1>8. ASSUME NEW m \in 2..6 PROVE n - 4 + m \in 1..(n + b) /\ S[n - 4 + m] = sent[k].head[m]
  <2>1. (n - 2) + m - 2 = n - 4 + m
    BY SMTT(30)
  <2>2. (n - 2) + m - 2 \in 1..a /\ S[(n - 2) + m - 2] = sent[k].head[m]
    BY <1>7 DEF HeadAt, HeaderLen, a
  <2> QED
    BY <1>2, <2>1, <2>2
<1>9. S[n - 3] = sent[k].head[1]
  BY <1>5, <1>7 DEF HeadAt
<1>10. ASSUME NEW m \in 1..4 PROVE h[m] = sent[k].head[m]
  <2>1. n - 4 + m \in 1..n
    OBVIOUS
  <2>2. h[m] = S[n - 4 + m]
    BY <1>4, <2>1
  <2>3. CASE m = 1
    <3>1. n - 4 + m = n - 3
      BY <2>3
    <3> QED
      BY <1>9, <2>2, <2>3, <3>1
  <2>4. CASE m # 1
    <3>1. m \in 2..6
      BY <2>4
    <3> QED
      BY <1>8, <2>2, <3>1
  <2> QED
    BY <2>3, <2>4
<1>11. b >= 2 /\ c[1] = sent[k].head[5] /\ c[2] = sent[k].head[6]
  <2>1. n - 4 + 5 = n + 1 /\ n - 4 + 6 = n + 2 /\ 5 \in 2..6 /\ 6 \in 2..6
    OBVIOUS
  <2>2. n + 2 \in 1..(n + b) /\ S[n + 1] = sent[k].head[5] /\ S[n + 2] = sent[k].head[6]
    BY <1>8, <2>1
  <2>3. b >= 2
    BY <1>1, <2>2
  <2>4. /\ n + 1 \in 1..(n + b) /\ ~(n + 1 <= n) /\ (n + 1) - n = 1
        /\ n + 2 \in 1..(n + b) /\ ~(n + 2 <= n) /\ (n + 2) - n = 2
    BY <1>1, <2>3
  <2>5. S[n + 1] = c[1] /\ S[n + 2] = c[2]
    BY <1>2, <2>4
  <2> QED
    BY <2>2, <2>3, <2>5
<1>12. Begins(h, sent[k].head)
  <2>1. Len(sent[k].head) = 6
    BY SentPacket DEF PacketUnits, HeaderLen
  <2> QED
    BY <1>10, <2>1 DEF Begins
<1> QED
  BY <1>11, <1>12 DEF b, FoundBefore

\* One more byte is compared with the flag.
LEMMA ByteMatched ==
  ASSUME NEW s \in Seq(Units), NEW u \in Units, NEW k \in 0..3, k <= Len(s), MatchedBy(s, k),
         NEW l, l = IF u.byte = Flag[k + 1] THEN k + 1 ELSE 1
  PROVE  l \in 1..4 /\ l <= Len(Append(s, u)) /\ MatchedBy(Append(s, u), l)
<1> DEFINE t == Append(s, u)
           n == Len(s)
<1>1. n \in Nat /\ Len(t) = n + 1 /\ t[n + 1] = u /\ \A j \in 1..n : t[j] = s[j]
  BY AppendProperties, LenProperties
<1>2. k <= n /\ \A m \in 2..k : s[n - k + m].byte = Flag[m]
  BY DEF MatchedBy
<1> HIDE DEF t, n
<1>3. CASE u.byte = Flag[k + 1]
  <2>1. l = k + 1 /\ l \in 1..4 /\ l <= n + 1
    BY <1>1, <1>3, <1>2
  <2>2. ASSUME NEW m \in 2..l PROVE t[(n + 1) - l + m].byte = Flag[m]
    <3>1. CASE m = l
      <4>1. (n + 1) - l + m = n + 1 /\ m = k + 1
        BY <1>1, <2>1, <3>1
      <4> QED
        BY <1>1, <1>3, <4>1
    <3>2. CASE m # l
      <4>1. m \in 2..k /\ (n + 1) - l + m = n - k + m /\ n - k + m \in 1..n
        BY <1>1, <1>2, <2>1, <3>2
      <4> QED
        BY <1>1, <1>2, <4>1
    <3> QED
      BY <3>1, <3>2
  <2> QED
    BY <1>1, <2>1, <2>2 DEF MatchedBy, t
<1>4. CASE u.byte # Flag[k + 1]
  <2>1. l = 1 /\ 1 <= n + 1
    BY <1>1, <1>4
  <2> QED
    BY <1>1, <2>1 DEF MatchedBy, t
<1> QED
  BY <1>3, <1>4

\* A byte of the search keeps HeadersReal.
LEMMA ByteHeaders ==
  ASSUME TypeOK, SearchInv, SentShape, HeadersReal, SearchByte
  PROVE  HeadersReal'
<1> SUFFICES ASSUME Clean' PROVE HeadersReal'
  BY DEF HeadersReal
<1> DEFINE C == avail' \o wire
           n == Len(scan)
<1>1. /\ pc = "search" /\ avail # <<>> /\ avail' = Drop(avail, 1)
      /\ scan' = Append(scan, avail[1])
      /\ i' = (IF avail[1].byte = Flag[i + 1] THEN i + 1 ELSE 1)
      /\ UNCHANGED <<sent, wire, delivered, harm>>
  BY DEF SearchByte, Receive, NextIndex, streamVars
<1>2. Clean
  BY <1>1 DEF Clean
<1>3. /\ scan \in Seq(Units) /\ avail \in Seq(Units) /\ wire \in Seq(Units) /\ n \in Nat
  BY AheadType, LenProperties
<1>4. avail[1] \in Units
  <2>1. 1 \in 1..Len(avail)
    BY <1>1, <1>3, LenProperties, EmptySeq
  <2> QED
    BY <1>3, <2>1, ElementOfSeq
<1>5. i \in 0..3 /\ i <= n
  <2>1. i \in 0..4
    BY TypeParts DEF ScanType, FlagLen
  <2>2. i < 4 /\ i <= n
    BY <1>1 DEF SearchInv, FlagLen
  <2> HIDE DEF n
  <2> QED
    BY <2>1, <2>2
<1>6. MatchedBy(scan, i) /\ i <= Len(scan)
  BY <1>1, <1>2, <1>5 DEF HeadersReal, Matched
<1>7. scan' \in Seq(Units) /\ Len(scan') = n + 1
  BY <1>1, <1>3, <1>4, AppendProperties
<1>8. C \in Seq(Units)
  <2>1. 1 \in Nat
    OBVIOUS
  <2>2. avail' \in Seq(Units)
    BY <1>1, <1>3, <2>1, DropProperties
  <2> QED
    BY <1>3, <2>2, ConcatProperties
<1>9. scan' \o C = Ahead /\ Ahead' = Ahead
  <2>1. Append(scan, avail[1]) \o (Drop(avail, 1) \o wire) = Ahead
    BY <1>1, ByteMoved
  <2>2. scan' \o C = Ahead
    BY <1>1, <2>1
  <2> QED
    BY <1>1, <2>2 DEF Ahead
<1> HIDE DEF C, n
<1>10. i' \in 1..4 /\ i' <= Len(scan') /\ MatchedBy(scan', i')
  <2> DEFINE u == avail[1]
             l == IF u.byte = Flag[i + 1] THEN i + 1 ELSE 1
  <2>1. l = (IF u.byte = Flag[i + 1] THEN i + 1 ELSE 1) /\ u \in Units
    BY <1>4
  <2>2. i' = l /\ scan' = Append(scan, u)
    BY <1>1
  <2> HIDE DEF l, u
  <2>3. l \in 1..4 /\ l <= Len(Append(scan, u)) /\ MatchedBy(Append(scan, u), l)
    BY <1>3, <1>5, <1>6, <2>1, ByteMatched, Zenon
  <2> QED
    BY <2>2, <2>3
<1>11. Matched'
  BY <1>10 DEF Matched
<1>12. FlagsAreReal(Ahead, sent)
  BY <1>2 DEF HeadersReal
<1>13. ASSUME pc' = "rest" PROVE Found'
  <2>1. i' = 4 /\ hd' = Drop(scan', Len(scan') - 4)
    BY <1>13 DEF SearchByte, FlagLen
  <2> DEFINE q == n + 1
  <2>2. q \in Nat /\ q >= 4 /\ q = Len(scan') /\ q - 4 \in Nat
    BY <1>3, <1>7, <1>10, <2>1
  <2>3. \A m \in 2..4 : scan'[q - 4 + m].byte = Flag[m]
    BY <1>10, <2>1, <2>2 DEF MatchedBy
  <2> HIDE DEF q
  <2>4. FlagEndAt(scan', q - 2)
    <3>1. /\ q - 4 + 2 = q - 2 /\ q - 4 + 3 = (q - 2) + 1 /\ q - 4 + 4 = (q - 2) + 2
          /\ 2 \in 2..4 /\ 3 \in 2..4 /\ 4 \in 2..4
      BY <2>2
    <3>2. Flag[2] = "U" /\ Flag[3] = "L" /\ Flag[4] = "I"
      BY DEF Flag
    <3> QED
      BY <2>3, <3>1, <3>2 DEF FlagEndAt
  <2>5. /\ hd' \in Seq(Units) /\ Len(hd') = 4
        /\ \A m \in 1..4 : hd'[m] = scan'[q - 4 + m]
    <3> DEFINE d == Drop(scan', q - 4)
               b == Len(d)
    <3>1. /\ d \in Seq(Units) /\ b = (IF q - 4 <= q THEN q - (q - 4) ELSE 0)
          /\ \A m \in 1..b : d[m] = scan'[(q - 4) + m]
      BY <1>7, <2>2, DropProperties
    <3>2. hd' = d
      BY <2>1, <2>2
    <3> HIDE DEF b
    <3>3. b = 4
      BY <2>2, <3>1
    <3> QED
      BY <3>1, <3>2, <3>3 DEF b
  <2>6. FlagsAreReal(scan' \o C, sent)
    BY <1>9, <1>12
  <2> DEFINE s == scan'
             h == hd'
  <2>7. /\ s \in Seq(Units) /\ q = Len(s) /\ FlagEndAt(s, q - 2) /\ FlagsAreReal(s \o C, sent)
        /\ h \in Seq(Units) /\ Len(h) = 4 /\ \A m \in 1..4 : h[m] = s[q - 4 + m]
    BY <1>7, <2>2, <2>4, <2>5, <2>6
  <2> HIDE DEF s, h
  <2>8. PICK k \in 1..Len(sent) :
          /\ Begins(h, sent[k].head) /\ Len(C) >= 2
          /\ C[1] = sent[k].head[5] /\ C[2] = sent[k].head[6]
    <3>1. FoundBefore(h, C)
      BY <1>8, <2>2, <2>7, FlagInScan, Zenon
    <3> QED
      BY <3>1 DEF FoundBefore
  <2>9. avail' \o wire' = C /\ hd' = h /\ Len(hd') = FlagLen
    BY <1>1, <2>5 DEF C, h, FlagLen
  <2> QED
    BY <1>1, <2>8, <2>9 DEF Found
<1>14. pc' # "body"
  BY DEF SearchByte
<1>15. (\A d \in 1..Len(delivered) : OfHeader(delivered[d].head))'
  BY <1>1, <1>2 DEF HeadersReal, OfHeader
<1> QED
  BY <1>1, <1>9, <1>11, <1>12, <1>13, <1>14, <1>15 DEF HeadersReal

\* Reading the rest of a header keeps HeadersReal.
LEMMA RestHeaders ==
  ASSUME TypeOK, SentShape, HeadersReal, ReadRest
  PROVE  HeadersReal'
<1> SUFFICES ASSUME Clean' PROVE HeadersReal'
  BY DEF HeadersReal
<1> DEFINE got == Take(avail, 2)
           C == avail \o wire
           T == Drop(avail, 2) \o wire
<1>1. /\ pc = "rest" /\ avail' = Drop(avail, 2) /\ hd' = hd \o got /\ scan' = <<>>
      /\ pc' \in {"body", "end"}
      /\ UNCHANGED <<sent, wire, delivered, harm>>
  <2>1. HeaderLen - FlagLen = 2
    BY DEF HeaderLen, FlagLen
  <2> QED
    BY <2>1 DEF ReadRest, Receive, streamVars
<1>2. Clean
  BY <1>1 DEF Clean
<1>3. /\ hd \in Seq(Units) /\ scan \in Seq(Units) /\ avail \in Seq(Units) /\ wire \in Seq(Units)
      /\ C \in Seq(Units) /\ Ahead \in Seq(Units) /\ 2 \in Nat
  BY AheadType
<1>4. T \in Seq(Units) /\ Left(T, Ahead)
  BY <1>3, LeftOfRead DEF Ahead
<1>5. Ahead' = T
  <2>1. <<>> \o T = T
    BY <1>4, ConcatEmptySeq
  <2> QED
    BY <1>1, <2>1 DEF Ahead
<1>6. /\ got \in Seq(Units) /\ Begins(got, C) /\ Len(got) \in 0..2
  <2>1. got \in Seq(Units) /\ Begins(got, avail) /\ Begins(avail, C)
    BY <1>3, TakeBegins, ConcatBegins
  <2>2. Len(got) = IF 2 < Len(avail) THEN 2 ELSE Len(avail)
    BY <1>3, TakeProperties
  <2>3. Len(avail) \in Nat
    BY <1>3, LenProperties
  <2>4. Len(got) \in 0..2
    <3> DEFINE a == Len(avail)
               g == Len(got)
    <3>1. a \in Nat /\ g = IF 2 < a THEN 2 ELSE a
      BY <2>2, <2>3
    <3> HIDE DEF a, g
    <3>2. g \in 0..2
      BY <3>1
    <3> QED
      BY <3>2 DEF g
  <2> HIDE DEF got, C
  <2> QED
    BY <1>3, <2>1, <2>4, BeginsAgain
<1> HIDE DEF got, C, T
<1>7. FlagsAreReal(Ahead', sent')
  BY <1>1, <1>2, <1>3, <1>4, <1>5, FlagsLeft DEF HeadersReal
<1>8. PICK k \in 1..Len(sent) :
        /\ Len(hd) = FlagLen /\ Begins(hd, sent[k].head)
        /\ Len(C) >= 2 /\ C[1] = sent[k].head[5] /\ C[2] = sent[k].head[6]
  BY <1>1, <1>2 DEF HeadersReal, Found, C
<1>9. Begins(hd \o got, sent[k].head)
  <2> DEFINE g == Len(got)
             c == hd \o got
             h == sent[k].head
  <2>1. Len(h) = 6
    BY SentPacket DEF PacketUnits, HeaderLen
  <2>2. \A j \in 1..4 : hd[j] = h[j]
    BY <1>8 DEF Begins, FlagLen
  <2>3. \A j \in 1..g : got[j] = C[j]
    BY <1>6 DEF Begins
  <2>4. 4 \in Nat /\ Len(hd) = 4
    BY <1>8 DEF FlagLen
  <2>5. Len(c) = 4 + g /\ \A j \in 1..(4 + g) : c[j] = IF j <= 4 THEN hd[j] ELSE got[j - 4]
    <3>1. got \in Seq(Units) /\ hd \in Seq(Units)
      BY <1>3, <1>6
    <3>2. Joined(hd, got, 4)
      BY <2>4, <3>1, ConcatParts
    <3> QED
      BY <3>2 DEF Joined
  <2>6. g \in 0..2
    BY <1>6
  <2>7. C[1] = h[5] /\ C[2] = h[6]
    BY <1>8
  <2> HIDE DEF g, c, h
  <2>8. ASSUME NEW j \in 1..(4 + g) PROVE c[j] = h[j]
    <3>1. CASE j <= 4
      BY <2>2, <2>5, <3>1
    <3>2. CASE j = 5
      <4>1. c[j] = got[1] /\ 1 \in 1..g
        BY <2>5, <2>6, <3>2
      <4> QED
        BY <2>3, <2>7, <3>2, <4>1
    <3>3. CASE j = 6
      <4>1. c[j] = got[2] /\ 2 \in 1..g
        BY <2>5, <2>6, <3>3
      <4> QED
        BY <2>3, <2>7, <3>3, <4>1
    <3> QED
      BY <2>6, <3>1, <3>2, <3>3
  <2>9. Len(c) <= Len(h) /\ \A j \in 1..Len(c) : c[j] = h[j]
    BY <2>1, <2>5, <2>6, <2>8
  <2> QED
    BY <2>9 DEF Begins, c, h
<1>10. OfHeader(hd)'
  BY <1>1, <1>8, <1>9 DEF OfHeader
<1>11. (\A d \in 1..Len(delivered) : OfHeader(delivered[d].head))'
  BY <1>1, <1>2 DEF HeadersReal, OfHeader
<1> QED
  BY <1>1, <1>7, <1>10, <1>11 DEF HeadersReal

\* What arrives stays in its place.
LEMMA ArriveHeaders ==
  ASSUME TypeOK, HeadersReal, Arrive
  PROVE  HeadersReal'
<1>1. PICK n \in 1..Len(wire) : avail' = avail \o Take(wire, n) /\ wire' = Drop(wire, n)
  BY DEF Arrive
<1>2. UNCHANGED <<sent, pc, hd, scan, i, delivered, harm>>
  BY DEF Arrive, searchVars
<1>3. avail' \o wire' = avail \o wire
  <2>1. avail \in Seq(Units) /\ wire \in Seq(Units) /\ n \in Nat
    BY AheadType
  <2>2. (avail \o Take(wire, n)) \o Drop(wire, n) = avail \o wire
    BY <2>1, StreamTaken
  <2> QED
    BY <1>1, <2>2
<1>4. Ahead' = Ahead
  BY <1>2, <1>3 DEF Ahead
<1>5. Clean' => Clean
  BY <1>2 DEF Clean
<1>6. Found => Found'
  BY <1>2, <1>3 DEF Found
<1>7. Matched => Matched'
  BY <1>2 DEF Matched
<1>8. (OfHeader(hd) => OfHeader(hd)')
  BY <1>2 DEF OfHeader
<1>9. (\A d \in 1..Len(delivered) : OfHeader(delivered[d].head))
        => (\A d \in 1..Len(delivered) : OfHeader(delivered[d].head))'
  BY <1>2 DEF OfHeader
<1> QED
  BY <1>2, <1>4, <1>5, <1>6, <1>7, <1>8, <1>9 DEF HeadersReal

\* Handing over a body, or forgetting its header, keeps HeadersReal.
LEMMA BodyHeaders ==
  ASSUME TypeOK, SearchInv, HeadersReal, pc = "body", NEW n \in Nat, Deliver(n) \/ Forget
  PROVE  HeadersReal'
<1> SUFFICES ASSUME Clean' PROVE HeadersReal'
  BY DEF HeadersReal
<1> DEFINE C == avail \o wire
           T == Drop(avail, n) \o wire
           frame == [head |-> hd, body |-> Take(avail, n)]
<1>1. /\ pc' = "header" /\ scan = <<>> /\ scan' = <<>>
      /\ avail' \in {avail, Drop(avail, n)}
      /\ delivered' \in {delivered, Append(delivered, frame)}
      /\ harm \subseteq harm'
      /\ UNCHANGED <<sent, wire>>
  BY DEF Deliver, Forget, SearchInv, streamVars, searchVars
<1>2. Clean
  BY <1>1 DEF Clean
<1>3. /\ hd \in Seq(Units) /\ avail \in Seq(Units) /\ wire \in Seq(Units)
      /\ C \in Seq(Units) /\ delivered \in Seq(Frames)
  BY AheadType
<1>4. <<>> \o C = C /\ <<>> \in Seq(Units)
  BY <1>3, ConcatEmptySeq, EmptySeq
<1>5. T \in Seq(Units) /\ Left(T, C)
  <2>1. T \in Seq(Units) /\ Left(T, <<>> \o C)
    BY <1>3, <1>4, LeftOfRead
  <2> QED
    BY <1>4, <2>1
<1>6. <<>> \o T = T
  BY <1>5, ConcatEmptySeq
<1>7. Ahead = C /\ (Ahead' = C \/ Ahead' = T)
  BY <1>1, <1>4, <1>6 DEF Ahead
<1>8. frame \in Frames
  <2>1. Take(avail, n) \in Seq(Units)
    BY <1>3, TakeProperties
  <2> QED
    BY <1>3, <2>1 DEF Frames
<1>9. frame.head = hd
  OBVIOUS
<1> HIDE DEF C, T, frame
<1>10. FlagsAreReal(C, sent)
  BY <1>2, <1>7 DEF HeadersReal
<1>11. FlagsAreReal(Ahead', sent')
  BY <1>1, <1>3, <1>5, <1>7, <1>10, FlagsLeft
<1>12. OfHeader(hd) /\ \A d \in 1..Len(delivered) : OfHeader(delivered[d].head)
  BY <1>2 DEF HeadersReal
<1>13. ASSUME NEW d \in 1..Len(delivered') PROVE OfHeader(delivered'[d].head)
  <2>1. CASE delivered' = delivered
    BY <1>12, <2>1
  <2>2. CASE delivered' = Append(delivered, frame)
    <3> DEFINE l == Len(delivered)
    <3>1. l \in Nat /\ d \in 1..(l + 1)
      BY <1>3, <1>8, <2>2, AppendProperties, LenProperties
    <3>2. delivered'[l + 1] = frame /\ \A j \in 1..l : delivered'[j] = delivered[j]
      BY <1>3, <1>8, <2>2, AppendProperties
    <3>3. \A j \in 1..l : OfHeader(delivered[j].head)
      BY <1>12
    <3> HIDE DEF l
    <3>4. CASE d = l + 1
      BY <1>9, <1>12, <3>2, <3>4
    <3>5. CASE d # l + 1
      <4>1. d \in 1..l
        BY <3>1, <3>5
      <4> QED
        BY <3>2, <3>3, <4>1
    <3> QED
      BY <3>4, <3>5
  <2> QED
    BY <1>1, <2>1, <2>2
<1>14. (\A d \in 1..Len(delivered) : OfHeader(delivered[d].head))'
  BY <1>1, <1>13 DEF OfHeader
<1> QED
  BY <1>1, <1>11, <1>14 DEF HeadersReal

\* Every step keeps HeadersReal.
LEMMA NextHeaders ==
  ASSUME TypeOK, SearchInv, SentShape, HeadersReal, [Next]_vars
  PROVE  HeadersReal'
<1>1. CASE Send
  BY <1>1, SendHeaders
<1>2. CASE Arrive
  BY <1>2, ArriveHeaders
<1>3. CASE Close \/ UNCHANGED vars
  <2>1. UNCHANGED <<sent, wire, avail, pc, hd, scan, i, delivered, harm>>
    BY <1>3 DEF Close, vars, streamVars, searchVars
  <2> QED
    BY <2>1 DEF HeadersReal, Clean, Ahead, Matched, MatchedBy, Found, OfHeader
<1>4. CASE ReadHeader
  BY <1>4, ReadHeaders
<1>5. CASE HeaderAtEof \/ SearchFails \/ RestMissing
  <2>1. End
    BY <1>5 DEF HeaderAtEof, SearchFails, RestMissing
  <2> QED
    BY <2>1, EndHeaders
<1>6. CASE SearchByte
  BY <1>6, ByteHeaders
<1>7. CASE ReadRest
  BY <1>7, RestHeaders
<1>8. CASE ReadBody
  <2>1. PICK n \in DataLens : ServerBody(n) \/ ClientBody(n)
    BY <1>8 DEF ReadBody
  <2>2. n \in Nat
    BY DataLensType
  <2>3. pc = "body" /\ (Deliver(0) \/ Deliver(n) \/ Forget \/ End)
    BY <2>1 DEF ServerBody, ClientBody
  <2>4. CASE End
    BY <2>4, EndHeaders
  <2>5. CASE Deliver(n) \/ Forget
    BY <2>2, <2>3, <2>5, BodyHeaders
  <2>6. CASE Deliver(0)
    <3>1. 0 \in Nat
      OBVIOUS
    <3> QED
      BY <2>3, <2>6, <3>1, BodyHeaders
  <2> QED
    BY <2>3, <2>4, <2>5, <2>6
<1> QED
  BY <1>1, <1>2, <1>3, <1>4, <1>5, <1>6, <1>7, <1>8 DEF Next, Reader

\* The code and the length that a packet is handled by are those of a packet
\* that was sent, or missing, unless a text looks like a flag or a header was
\* sent in part: reading anywhere, losing entries and searching never make a
\* request of a text.
THEOREM HeaderIsRealHolds == Spec => []HeaderIsReal
<1> DEFINE Inv == TypeOK /\ SearchInv /\ SentShape /\ HeadersReal
<1>1. Init => Inv
  <2> SUFFICES ASSUME Init PROVE Inv
    OBVIOUS
  <2>1. TypeOK /\ SearchInv
    BY InitType
  <2>2. /\ sent = <<>> /\ wire = <<>> /\ avail = <<>> /\ scan = <<>> /\ delivered = <<>>
        /\ pc = "header"
    BY DEF Init
  <2>3. Len(<<>>) = 0 /\ <<>> \in Seq(Units) /\ <<>> \o <<>> = <<>>
    BY EmptySeq, ConcatEmptySeq
  <2>4. SentShape
    BY <2>2, <2>3 DEF SentShape
  <2>5. Ahead = <<>>
    BY <2>2, <2>3 DEF Ahead
  <2>6. FlagsAreReal(Ahead, sent)
    BY <2>3, <2>5 DEF FlagsAreReal
  <2>7. HeadersReal
    BY <2>2, <2>3, <2>6 DEF HeadersReal
  <2> QED
    BY <2>1, <2>4, <2>7
<1>2. Inv /\ [Next]_vars => Inv'
  BY NextType, SentShapeKept, NextHeaders
<1>3. Inv => HeaderIsReal
  <2> SUFFICES ASSUME Inv, Clean PROVE \A d \in 1..Len(delivered) :
                 \E k \in 1..Len(sent) : delivered[d].head = Take(sent[k].head, Len(delivered[d].head))
    BY DEF HeaderIsReal, Clean
  <2> TAKE d \in 1..Len(delivered)
  <2> DEFINE h == delivered[d].head
  <2>1. PICK k \in 1..Len(sent) : Begins(h, sent[k].head)
    BY DEF HeadersReal, OfHeader
  <2> DEFINE H == sent[k].head
             t == Take(H, Len(h))
  <2>2. h \in Seq(Units) /\ Len(h) \in Nat
    <3>1. delivered[d] \in Frames
      BY AheadType, ElementOfSeq
    <3>2. h \in Seq(Units)
      BY <3>1 DEF Frames
    <3> QED
      BY <3>2, LenProperties
  <2>3. H \in Seq(Units) /\ Len(H) \in Nat
    <3>1. H \in Seq(Units)
      BY SentPacket DEF PacketUnits
    <3> QED
      BY <3>1, LenProperties
  <2>4. Len(h) <= Len(H) /\ \A j \in 1..Len(h) : h[j] = H[j]
    BY <2>1 DEF Begins
  <2> HIDE DEF h, H
  <2>5. /\ t \in Seq(Units) /\ Len(t) = (IF Len(h) < Len(H) THEN Len(h) ELSE Len(H))
        /\ \A j \in 1..Len(t) : t[j] = H[j]
    BY <2>2, <2>3, TakeProperties
  <2> HIDE DEF t
  <2>6. Len(t) = Len(h)
    <3> DEFINE a == Len(h)
               b == Len(H)
               c == Len(t)
    <3>1. a \in Nat /\ b \in Nat /\ a <= b /\ c = IF a < b THEN a ELSE b
      BY <2>2, <2>3, <2>4, <2>5
    <3> HIDE DEF a, b, c
    <3>2. c = a
      BY <3>1
    <3> QED
      BY <3>2 DEF a, c
  <2>7. \A j \in 1..Len(h) : h[j] = t[j]
    BY <2>4, <2>5, <2>6
  <2>8. h = t
    BY <2>2, <2>5, <2>6, <2>7, SeqEqual
  <2> QED
    BY <2>8 DEF h, H, t
<1>4. Inv /\ [][Next]_vars => []Inv
  BY <1>2, PTL
<1> QED
  BY <1>1, <1>3, <1>4, PTL DEF Spec
=============================================================================
