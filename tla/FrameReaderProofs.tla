-------------------------- MODULE FrameReaderProofs --------------------------
(***************************************************************************)
(* What holds of the reader of packets for all texts, any number of        *)
(* packets and every limit of the search, however the stream is cut.       *)
(***************************************************************************)
EXTENDS FrameReader, SequenceTheorems, TLAPS

\* The conjuncts of TypeOK, by what changes together.
FinType == fin \in BOOLEAN
SentType == sent \in Seq(Frames)
StreamType == wire \in Seq(Units) /\ avail \in Seq(Units)
HeadType == hd \in Seq(Units) /\ Len(hd) <= HeaderLen
ScanType == scan \in Seq(Units) /\ Len(scan) <= MaxSearch /\ i \in 0..FlagLen
DeliveredType == delivered \in Seq(Frames)
RestType ==
  /\ side \in {"server", "client"} /\ pc \in {"header", "search", "rest", "body", "end"}
  /\ harm \subseteq {"torn", "lost", "long", "short", "late"}

\* TypeOK is the conjunction of its parts.
LEMMA TypeParts ==
  TypeOK <=> /\ FinType /\ SentType /\ StreamType /\ HeadType /\ ScanType
             /\ DeliveredType /\ RestType
BY DEF TypeOK, FinType, SentType, StreamType, HeadType, ScanType, DeliveredType, RestType

\* And so it is after a step.
LEMMA TypePartsNext ==
  TypeOK' <=> /\ FinType' /\ SentType' /\ StreamType' /\ HeadType' /\ ScanType'
              /\ DeliveredType' /\ RestType'
BY DEF TypeOK, FinType, SentType, StreamType, HeadType, ScanType, DeliveredType, RestType

\* What the search keeps: before it, nothing is scanned; while it runs, it
\* has read less than its limit and no less than it has matched; after it,
\* there is room for the rest of the header.
SearchInv ==
  /\ pc \in {"header", "body"} => scan = <<>> /\ i = 0
  /\ pc = "search" => Len(scan) < MaxSearch /\ i < FlagLen /\ i <= Len(scan)
  /\ pc = "rest" => Len(hd) <= FlagLen

(***************************************************************************)
(* The helpers on sequences.                                               *)
(***************************************************************************)
\* The first n elements of a sequence.
LEMMA TakeProperties ==
  ASSUME NEW S, NEW s \in Seq(S), NEW n \in Nat
  PROVE  /\ Take(s, n) \in Seq(S)
         /\ Len(Take(s, n)) = IF n < Len(s) THEN n ELSE Len(s)
         /\ \A k \in 1..Len(Take(s, n)) : k \in 1..Len(s) /\ Take(s, n)[k] = s[k]
<1> DEFINE m == Lesser(n, Len(s))
<1>1. Len(s) \in Nat /\ m \in Nat /\ m <= Len(s) /\ m = IF n < Len(s) THEN n ELSE Len(s)
  BY LenProperties DEF Lesser
<1>2. \A k \in 1..m : s[k] \in S
  BY <1>1, ElementOfSeq
<1> HIDE DEF m
<1>3. /\ SubSeq(s, 1, m) \in Seq(S)
      /\ Len(SubSeq(s, 1, m)) = IF 1 <= m THEN m - 1 + 1 ELSE 0
      /\ \A k \in 1..(m - 1 + 1) : SubSeq(s, 1, m)[k] = s[1 + k - 1]
  BY <1>1, <1>2, SubSeqProperties
<1>4. Len(SubSeq(s, 1, m)) = m
  BY <1>1, <1>3
<1>5. \A k \in 1..m : k \in 1..Len(s) /\ SubSeq(s, 1, m)[k] = s[k]
  BY <1>1, <1>3
<1>6. Take(s, n) = SubSeq(s, 1, m)
  BY DEF Take, m
<1> QED
  BY <1>1, <1>3, <1>4, <1>5, <1>6

\* What is left without them.
LEMMA DropProperties ==
  ASSUME NEW S, NEW s \in Seq(S), NEW n \in Nat
  PROVE  /\ Drop(s, n) \in Seq(S)
         /\ Len(Drop(s, n)) = IF n <= Len(s) THEN Len(s) - n ELSE 0
         /\ \A k \in 1..Len(Drop(s, n)) : n + k \in 1..Len(s) /\ Drop(s, n)[k] = s[n + k]
<1>1. Len(s) \in Nat
  BY LenProperties
<1>2. \A k \in (n + 1)..Len(s) : s[k] \in S
  BY <1>1, ElementOfSeq
<1> DEFINE d == SubSeq(s, n + 1, Len(s))
<1>3. /\ d \in Seq(S)
      /\ Len(d) = IF n + 1 <= Len(s) THEN Len(s) - (n + 1) + 1 ELSE 0
      /\ \A k \in 1..(Len(s) - (n + 1) + 1) : d[k] = s[(n + 1) + k - 1]
  BY <1>1, <1>2, SubSeqProperties
<1> HIDE DEF d
<1>4. Len(d) = IF n <= Len(s) THEN Len(s) - n ELSE 0
  BY <1>1, <1>3
<1>5. \A k \in 1..Len(d) : n + k \in 1..Len(s) /\ d[k] = s[n + k]
  BY <1>1, <1>3, <1>4
<1> QED
  BY <1>3, <1>4, <1>5 DEF Drop, d

\* The packets that are sent are frames.
LEMMA PacketType ==
  ASSUME NEW k \in Nat, NEW text \in Texts
  PROVE  Packet(k, text) \in Frames
<1>1. text \in Seq({"W", "U", "L", "I", "x"}) /\ Len(text) \in Nat
  BY ReaderAssumption, LenProperties
<1>2. \A byte \in {"W", "U", "L", "I", "x", "N", "D"}, total \in Nat : Unit(byte, k, total) \in Units
  BY DEF Unit, Units
<1>3. [j \in 1..FlagLen |-> Unit(Flag[j], k, 0)] \in Seq(Units)
  <2>1. ASSUME NEW j \in 1..FlagLen PROVE Unit(Flag[j], k, 0) \in Units
    <3>1. Flag[j] \in {"W", "U", "L", "I"}
      BY DEF Flag, FlagLen
    <3> QED
      BY <1>2, <3>1
  <2>2. FlagLen \in Nat
    BY DEF FlagLen
  <2> QED
    BY <2>1, <2>2, IsASeq
<1>4. <<Unit("N", k, HeaderLen + Len(text)), Unit("D", k, 0)>> \in Seq(Units)
  <2>1. Unit("N", k, HeaderLen + Len(text)) \in Units /\ Unit("D", k, 0) \in Units
    BY <1>1, <1>2 DEF HeaderLen
  <2> QED
    BY <2>1
<1>5. [j \in 1..Len(text) |-> Unit(text[j], k, 0)] \in Seq(Units)
  <2>1. ASSUME NEW j \in 1..Len(text) PROVE Unit(text[j], k, 0) \in Units
    <3>1. text[j] \in {"W", "U", "L", "I", "x"}
      BY <1>1, ElementOfSeq
    <3> QED
      BY <1>2, <3>1
  <2> QED
    BY <1>1, <2>1, IsASeq
<1> QED
  BY <1>3, <1>4, <1>5, ConcatProperties DEF Packet, Frames

(***************************************************************************)
(* The types.                                                              *)
(***************************************************************************)
\* The initial state is well typed.
LEMMA InitType == Init => TypeOK /\ SearchInv
<1> SUFFICES ASSUME Init PROVE TypeOK /\ SearchInv
  OBVIOUS
<1> USE DEF Init
<1>1. FinType
  BY Zenon DEF FinType
<1>2. SentType /\ StreamType /\ DeliveredType /\ RestType
  BY EmptySeq DEF SentType, StreamType, DeliveredType, RestType
<1>3. HeadType /\ ScanType
  BY EmptySeq, ReaderAssumption DEF HeadType, ScanType, HeaderLen, FlagLen
<1> QED
  BY <1>1, <1>2, <1>3, TypeParts DEF SearchInv

\* The sender and the network.
LEMMA SenderType ==
  ASSUME TypeOK, SearchInv, Send \/ Close \/ Arrive
  PROVE  TypeOK' /\ SearchInv'
<1> USE TypeParts, TypePartsNext
<1>1. HeadType' /\ ScanType' /\ DeliveredType' /\ SearchInv'
  BY DEF Send, Close, Arrive, searchVars, HeadType, ScanType, DeliveredType, SearchInv
<1>2. FinType'
  BY Zenon DEF Send, Close, Arrive, FinType
<1>3. CASE Send
  <2>1. PICK text \in Texts :
          LET p == Packet(Len(sent) + 1, text)
          IN /\ sent' = Append(sent, p)
             /\ IF side = "server" THEN ClientSends(p) ELSE ServerSends(p)
    BY <1>3 DEF Send
  <2> DEFINE p == Packet(Len(sent) + 1, text)
  <2>2. p \in Frames
    BY LenProperties, PacketType DEF SentType
  <2> HIDE DEF p
  <2>3. sent' = Append(sent, p) /\ (ClientSends(p) \/ ServerSends(p)) /\ UNCHANGED <<side, avail, pc>>
    BY <1>3, <2>1 DEF Send, p
  <2>4. SentType'
    BY <2>2, <2>3, AppendProperties DEF SentType
  <2>5. p.head \in Seq(Units) /\ p.body \in Seq(Units)
    BY <2>2 DEF Frames
  <2>6. ASSUME ClientSends(p) PROVE StreamType' /\ RestType'
    <3>1. wire \o p.head \o p.body \in Seq(Units)
      BY <2>5, ConcatProperties DEF StreamType
    <3> QED
      BY <2>3, <2>6, <3>1 DEF ClientSends, StreamType, RestType
  <2>7. ASSUME ServerSends(p) PROVE StreamType' /\ RestType'
    <3> DEFINE data == Take(p.body, Len(p.body) % ShortWord)
    <3>1. PICK h \in {0, FlagLen, HeaderLen}, d \in {0, Lesser(1, Len(data)), Len(data)} :
            /\ wire' = wire \o Take(p.head, h) \o Take(data, d)
            /\ harm' = harm \cup (IF h = FlagLen THEN {"torn"} ELSE {})
                            \cup (IF h = 0 \/ d < Len(data) THEN {"lost"} ELSE {})
                            \cup (IF Len(p.body) >= ShortWord THEN {"long"} ELSE {})
      BY <2>7 DEF ServerSends
    <3>2. Len(p.body) % ShortWord \in Nat
      <4>1. Len(p.body) \in Nat
        BY <2>5, LenProperties
      <4>2. \A n \in Nat : n % ShortWord \in Nat
        BY ReaderAssumption
      <4> QED
        BY <4>1, <4>2, Zenon
    <3>3. data \in Seq(Units) /\ Len(data) \in Nat
      BY <2>5, <3>2, TakeProperties, LenProperties
    <3> HIDE DEF data
    <3>4. h \in Nat /\ d \in Nat
      BY <3>1, <3>3 DEF FlagLen, HeaderLen, Lesser
    <3>5. Take(p.head, h) \in Seq(Units) /\ Take(data, d) \in Seq(Units)
      BY <2>5, <3>3, <3>4, TakeProperties
    <3>6. wire' \in Seq(Units)
      BY <3>1, <3>5, ConcatProperties DEF StreamType
    <3>7. harm' \subseteq harm \cup {"torn", "lost", "long"}
      <4> DEFINE a == IF h = FlagLen THEN {"torn"} ELSE {}
                 b == IF h = 0 \/ d < Len(data) THEN {"lost"} ELSE {}
                 c == IF Len(p.body) >= ShortWord THEN {"long"} ELSE {}
      <4>1. a \subseteq {"torn"} /\ b \subseteq {"lost"} /\ c \subseteq {"long"}
        OBVIOUS
      <4>2. harm' = harm \cup a \cup b \cup c
        BY <3>1
      <4> HIDE DEF a, b, c
      <4> QED
        BY <4>1, <4>2
    <3>8. RestType'
      BY <2>3, <3>7 DEF RestType
    <3> QED
      BY <2>3, <3>6, <3>8 DEF StreamType
  <2> QED
    BY <1>1, <1>2, <2>3, <2>4, <2>6, <2>7
<1>4. CASE Close
  <2>1. SentType' /\ StreamType' /\ RestType'
    BY <1>4 DEF Close, SentType, StreamType, RestType
  <2> QED
    BY <1>1, <1>2, <2>1
<1>5. CASE Arrive
  <2>1. PICK n \in 1..Len(wire) : avail' = avail \o Take(wire, n) /\ wire' = Drop(wire, n)
    BY <1>5 DEF Arrive
  <2>2. n \in Nat
    BY LenProperties DEF StreamType
  <2>3. Take(wire, n) \in Seq(Units) /\ Drop(wire, n) \in Seq(Units)
    BY <2>2, TakeProperties, DropProperties DEF StreamType
  <2>4. avail \o Take(wire, n) \in Seq(Units)
    BY <2>3, ConcatProperties DEF StreamType
  <2>5. SentType' /\ RestType' /\ StreamType'
    BY <1>5, <2>1, <2>3, <2>4 DEF Arrive, SentType, StreamType, RestType
  <2> QED
    BY <1>1, <1>2, <2>5
<1> QED
  BY <1>3, <1>4, <1>5

\* The end of the connection, or of the thread.
LEMMA EndType ==
  ASSUME TypeOK, End
  PROVE  TypeOK' /\ SearchInv'
<1> USE TypeParts, TypePartsNext DEF End
<1>1. FinType'
  BY Zenon DEF FinType, streamVars
<1>2. SentType' /\ StreamType' /\ DeliveredType' /\ RestType'
  BY DEF SentType, StreamType, DeliveredType, RestType, streamVars
<1>3. HeadType' /\ ScanType' /\ SearchInv'
  BY EmptySeq, ReaderAssumption DEF HeadType, ScanType, SearchInv, HeaderLen, FlagLen
<1> QED
  BY <1>1, <1>2, <1>3

\* Reading a header.
LEMMA HeaderType ==
  ASSUME TypeOK, SearchInv, ReadHeader
  PROVE  TypeOK' /\ SearchInv'
<1> USE TypeParts, TypePartsNext DEF ReadHeader
<1> DEFINE got == Take(avail, HeaderLen)
<1>1. /\ avail' = Drop(avail, HeaderLen) /\ hd' = got /\ pc = "header"
      /\ pc' \in {"body", "search"} /\ UNCHANGED <<side, streamVars, searchVars, delivered>>
      /\ harm' \subseteq harm \cup {"short"}
  BY DEF Receive
<1>2. got \in Seq(Units) /\ Len(got) <= HeaderLen /\ Drop(avail, HeaderLen) \in Seq(Units)
  BY TakeProperties, DropProperties, LenProperties DEF StreamType, HeaderLen
<1> HIDE DEF got
<1>3. FinType'
  BY <1>1, Zenon DEF FinType, streamVars
<1>4. SentType' /\ StreamType' /\ HeadType' /\ ScanType' /\ DeliveredType' /\ RestType'
  BY <1>1, <1>2 DEF SentType, StreamType, HeadType, ScanType, DeliveredType, RestType,
     streamVars, searchVars
<1>5. SearchInv'
  <2>1. scan = <<>> /\ i = 0 /\ Len(scan) = 0
    BY <1>1, EmptySeq DEF SearchInv
  <2> QED
    BY <1>1, <2>1, ReaderAssumption DEF SearchInv, searchVars, FlagLen
<1> QED
  BY <1>3, <1>4, <1>5

\* A byte of the search.
LEMMA ByteType ==
  ASSUME TypeOK, SearchInv, SearchByte
  PROVE  TypeOK' /\ SearchInv'
<1> USE TypeParts, TypePartsNext
<1>1. /\ avail # <<>> /\ avail' = Drop(avail, 1) /\ scan' = Append(scan, avail[1])
      /\ i' \in {1, i + 1} /\ pc = "search" /\ UNCHANGED <<side, streamVars, delivered, harm>>
  BY DEF SearchByte, Receive, NextIndex
<1>2. avail[1] \in Units /\ Drop(avail, 1) \in Seq(Units)
  <2>1. 1 \in 1..Len(avail)
    BY <1>1, LenProperties, EmptySeq DEF StreamType
  <2> QED
    BY <2>1, ElementOfSeq, DropProperties DEF StreamType
<1>3. scan' \in Seq(Units) /\ Len(scan') = Len(scan) + 1 /\ Len(scan) \in Nat
  BY <1>1, <1>2, AppendProperties, LenProperties DEF ScanType
<1>4. Len(scan) < MaxSearch /\ i < FlagLen /\ i <= Len(scan) /\ i \in Nat
  BY <1>1 DEF SearchInv, ScanType
<1>5. i' <= Len(scan') /\ i' <= FlagLen /\ i' \in Nat /\ Len(scan') <= MaxSearch
  BY <1>1, <1>3, <1>4, ReaderAssumption DEF FlagLen
<1> DEFINE found == i' = FlagLen /\ Len(scan') < MaxSearch
<1>6. /\ hd' = IF found THEN Drop(scan', Len(scan') - FlagLen) ELSE hd
      /\ pc' = IF found THEN "rest" ELSE IF Len(scan') < MaxSearch THEN "search" ELSE "end"
  BY DEF SearchByte
<1>7. found => hd' \in Seq(Units) /\ Len(hd') = FlagLen
  <2> SUFFICES ASSUME found PROVE hd' \in Seq(Units) /\ Len(hd') = FlagLen
    OBVIOUS
  <2>1. PICK n \in Nat : n = Len(scan') - FlagLen /\ n <= Len(scan')
    BY <1>3, <1>5 DEF FlagLen
  <2>2. Drop(scan', n) \in Seq(Units) /\ Len(Drop(scan', n)) = Len(scan') - n
    BY <1>3, <2>1, DropProperties
  <2>3. hd' = Drop(scan', n)
    BY <1>6, <2>1
  <2> QED
    BY <1>3, <2>1, <2>2, <2>3 DEF FlagLen
<1> HIDE DEF found
<1>8. HeadType'
  <2>1. CASE found
    <3>1. hd' \in Seq(Units)
      BY <1>7, <2>1
    <3>2. Len(hd') = FlagLen
      BY <1>7, <2>1
    <3>3. Len(hd') <= HeaderLen
      BY <3>2 DEF FlagLen, HeaderLen
    <3> QED
      BY <3>1, <3>3 DEF HeadType
  <2>2. CASE ~found
    BY <1>6, <2>2 DEF HeadType
  <2> QED
    BY <2>1, <2>2
<1>9. ScanType' /\ SearchInv'
  <2>1. ScanType'
    BY <1>3, <1>5 DEF ScanType, FlagLen
  <2>2. pc' \in {"rest", "search", "end"} /\ (pc' = "rest" => found)
        /\ (pc' = "search" => Len(scan') < MaxSearch /\ i' # FlagLen)
    BY <1>6 DEF found
  <2>3. i' # FlagLen => i' < FlagLen
    BY <1>5 DEF FlagLen
  <2>4. pc' = "rest" => Len(hd') <= FlagLen
    <3>1. pc' = "rest" => Len(hd') = FlagLen
      BY <1>7, <2>2
    <3> QED
      BY <3>1 DEF FlagLen
  <2>5. SearchInv'
    BY <1>5, <2>2, <2>3, <2>4 DEF SearchInv
  <2> QED
    BY <2>1, <2>5
<1>10. FinType'
  BY <1>1, Zenon DEF FinType, streamVars
<1>11. SentType' /\ StreamType' /\ DeliveredType' /\ RestType'
  BY <1>1, <1>2, <1>6 DEF SentType, StreamType, DeliveredType, RestType, streamVars
<1> QED
  BY <1>8, <1>9, <1>10, <1>11

\* The rest of a header after the search.
LEMMA AfterSearchType ==
  ASSUME TypeOK, SearchInv, ReadRest
  PROVE  TypeOK' /\ SearchInv'
<1> USE TypeParts, TypePartsNext
<1> DEFINE got == Take(avail, HeaderLen - FlagLen)
<1>1. /\ avail' = Drop(avail, HeaderLen - FlagLen) /\ hd' = hd \o got /\ pc = "rest"
      /\ pc' \in {"body", "end"} /\ UNCHANGED <<side, streamVars, delivered, harm>>
      /\ scan' = <<>> /\ i' = 0
  BY DEF ReadRest, Receive
<1>2. HeaderLen - FlagLen \in Nat
  BY DEF HeaderLen, FlagLen
<1>3. /\ got \in Seq(Units) /\ Len(got) \in Nat /\ Len(got) <= HeaderLen - FlagLen
      /\ Drop(avail, HeaderLen - FlagLen) \in Seq(Units)
  BY <1>2, TakeProperties, DropProperties, LenProperties DEF StreamType
<1> HIDE DEF got
<1>4. Len(hd) <= FlagLen /\ Len(hd) \in Nat
  BY <1>1, LenProperties DEF SearchInv, HeadType
<1>5. HeadType'
  BY <1>1, <1>3, <1>4, ConcatProperties DEF HeadType, HeaderLen, FlagLen
<1>6. ScanType' /\ SearchInv'
  BY <1>1, EmptySeq, ReaderAssumption DEF ScanType, SearchInv, FlagLen
<1>7. FinType'
  BY <1>1, Zenon DEF FinType, streamVars
<1>8. SentType' /\ StreamType' /\ DeliveredType' /\ RestType'
  BY <1>1, <1>3 DEF SentType, StreamType, DeliveredType, RestType, streamVars
<1> QED
  BY <1>5, <1>6, <1>7, <1>8

\* A packet that is handed over, or given up.
LEMMA DeliverType ==
  ASSUME TypeOK, SearchInv, pc = "body", NEW n \in Nat, Deliver(n) \/ Forget
  PROVE  TypeOK' /\ SearchInv'
<1> USE TypeParts, TypePartsNext
<1> DEFINE body == Take(avail, n)
           frame == [head |-> hd, body |-> body]
<1>1. /\ hd' = <<>> /\ pc' = "header" /\ UNCHANGED <<side, streamVars, searchVars>>
      /\ harm' \subseteq harm \cup {"short", "late"}
      /\ avail' \in {avail, Drop(avail, n)}
      /\ delivered' \in {delivered, Append(delivered, frame)}
  BY DEF Deliver, Forget
<1>2. body \in Seq(Units) /\ Drop(avail, n) \in Seq(Units)
  BY TakeProperties, DropProperties DEF StreamType
<1>3. frame \in Frames
  BY <1>2 DEF Frames, HeadType
<1> HIDE DEF frame, body
<1>4. DeliveredType'
  BY <1>1, <1>3, AppendProperties DEF DeliveredType
<1>5. HeadType' /\ ScanType' /\ SearchInv'
  BY <1>1, EmptySeq DEF HeadType, ScanType, SearchInv, HeaderLen, searchVars
<1>6. FinType'
  BY <1>1, Zenon DEF FinType, streamVars
<1>7. SentType' /\ StreamType' /\ RestType'
  BY <1>1, <1>2 DEF SentType, StreamType, RestType, streamVars
<1> QED
  BY <1>4, <1>5, <1>6, <1>7

\* A length is a natural number, whatever the header holds.
LEMMA DataLensType ==
  ASSUME TypeOK
  PROVE  DataLens \subseteq 0..(Word - 1)
<1>1. \A total \in Int : (total - HeaderLen) % Word \in 0..(Word - 1)
  <2>1. \A n \in Int : n % Word \in 0..(Word - 1)
    BY ReaderAssumption
  <2> QED
    BY <2>1 DEF HeaderLen
<1>2. TotalLengths \subseteq Int
  <2>1. CASE Len(hd) <= FlagLen
    BY <2>1 DEF TotalLengths
  <2>2. CASE ~(Len(hd) <= FlagLen)
    <3>1. FlagLen + 1 \in 1..Len(hd)
      BY <2>2, TypeParts, LenProperties DEF HeadType, FlagLen
    <3>2. hd[FlagLen + 1] \in Units
      BY <3>1, TypeParts, ElementOfSeq DEF HeadType
    <3>3. hd[FlagLen + 1].total \in Nat
      BY <3>2 DEF Units
    <3> QED
      BY <2>2, <3>3 DEF TotalLengths
  <2> QED
    BY <2>1, <2>2
<1> QED
  BY <1>1, <1>2 DEF DataLens

\* Every step keeps the types and what the search needs.
LEMMA NextType == TypeOK /\ SearchInv /\ [Next]_vars => TypeOK' /\ SearchInv'
<1> SUFFICES ASSUME TypeOK, SearchInv, [Next]_vars PROVE TypeOK' /\ SearchInv'
  OBVIOUS
<1>1. CASE Send \/ Close \/ Arrive
  BY <1>1, SenderType
<1>2. CASE ReadHeader \/ SearchByte \/ ReadRest
  BY <1>2, HeaderType, ByteType, AfterSearchType
<1>3. CASE HeaderAtEof \/ SearchFails \/ RestMissing
  BY <1>3, EndType DEF HeaderAtEof, SearchFails, RestMissing
<1>4. CASE ReadBody
  <2>1. PICK n \in DataLens : ServerBody(n) \/ ClientBody(n)
    BY <1>4 DEF ReadBody
  <2>2. n \in Nat /\ 0 \in Nat
    BY DataLensType, ReaderAssumption
  <2>3. pc = "body" /\ (End \/ Forget \/ Deliver(n) \/ Deliver(0))
    BY <2>1 DEF ServerBody, ClientBody
  <2> QED
    BY <2>2, <2>3, DeliverType, EndType
<1>5. CASE UNCHANGED vars
  <2>1. FinType'
    BY <1>5, TypeParts, Zenon DEF FinType, vars, streamVars
  <2>2. /\ SentType' /\ StreamType' /\ HeadType' /\ ScanType' /\ DeliveredType' /\ RestType'
        /\ SearchInv'
    BY <1>5, TypeParts DEF SentType, StreamType, HeadType, ScanType, DeliveredType, RestType,
       SearchInv, vars, streamVars, searchVars
  <2> QED
    BY <2>1, <2>2, TypePartsNext
<1> QED
  BY <1>1, <1>2, <1>3, <1>4, <1>5 DEF Next, Reader

\* The state of the reader is well typed: no header is read beyond the
\* Header it is received into, and no search beyond its limit.
THEOREM TypeCorrect == Spec => []TypeOK
<1> QED
  BY InitType, NextType, PTL DEF Spec

(***************************************************************************)
(* The search.                                                             *)
(***************************************************************************)
FlagAt(s, j) ==
  s[j].byte = "W" /\ s[j + 1].byte = "U" /\ s[j + 2].byte = "L" /\ s[j + 3].byte = "I"
NoFlag(s, n) == \A j \in 1..(n - 3) : ~FlagAt(s, j)

\* The index may be ahead of what was matched, but it is never behind: where
\* the bytes read end with a part of the flag, it is the length of that part.
NotBehind(s, k) ==
  LET n == Len(s)
  IN /\ n >= 1 /\ s[n].byte = "W" => k = 1
     /\ n >= 2 /\ s[n - 1].byte = "W" /\ s[n].byte = "U" => k = 2
     /\ n >= 3 /\ s[n - 2].byte = "W" /\ s[n - 1].byte = "U" /\ s[n].byte = "L" => k = 3
ScanInv ==
  /\ pc = "search" => NotBehind(scan, i) /\ NoFlag(scan, Len(scan))
  /\ pc = "rest" => NoFlag(scan, Len(scan) - 1)

\* A flag is its four bytes.
LEMMA FlagBytes ==
  ASSUME NEW s \in Seq(Units), ContainsFlag(s)
  PROVE  \E j \in 1..(Len(s) - 3) : FlagAt(s, j)
<1>1. PICK j \in 1..(Len(s) - FlagLen + 1) : IsFlag(Drop(s, j - 1))
  BY DEF ContainsFlag
<1>2. Len(s) \in Nat /\ j \in 1..(Len(s) - 3) /\ j - 1 \in Nat
  BY <1>1, LenProperties DEF FlagLen
<1> DEFINE d == Drop(s, j - 1)
           t == Take(d, FlagLen)
<1>3. d \in Seq(Units) /\ \A k \in 1..Len(d) : d[k] = s[(j - 1) + k]
  BY <1>2, DropProperties
<1>4. Len(d) >= FlagLen /\ Bytes(t) = Flag
  BY <1>1 DEF IsFlag
<1> HIDE DEF d
<1>5. t \in Seq(Units) /\ \A k \in 1..Len(t) : k \in 1..Len(d) /\ t[k] = d[k]
  BY <1>3, TakeProperties DEF FlagLen
<1>6. Len(t) = FlagLen
  <2>1. Len(d) \in Nat /\ FlagLen \in Nat /\ Len(t) = IF FlagLen < Len(d) THEN FlagLen ELSE Len(d)
    BY <1>3, TakeProperties, LenProperties DEF FlagLen
  <2> QED
    BY <1>4, <2>1
<1> HIDE DEF t
<1>7. ASSUME NEW k \in 1..4 PROVE s[(j - 1) + k].byte = Flag[k]
  <2>1. k \in DOMAIN t
    BY <1>5, <1>6, LenProperties DEF FlagLen
  <2>2. Bytes(t)[k] = t[k].byte
    BY <2>1 DEF Bytes
  <2>3. t[k] = s[(j - 1) + k]
    BY <1>3, <1>5, <1>6 DEF FlagLen
  <2> QED
    BY <1>4, <2>2, <2>3
<1>8. Flag[1] = "W" /\ Flag[2] = "U" /\ Flag[3] = "L" /\ Flag[4] = "I"
  BY DEF Flag
<1>9. (j - 1) + 1 = j /\ (j - 1) + 2 = j + 1 /\ (j - 1) + 3 = j + 2 /\ (j - 1) + 4 = j + 3
  BY <1>2
<1>10. FlagAt(s, j)
  <2>1. /\ s[(j - 1) + 1].byte = "W" /\ s[(j - 1) + 2].byte = "U"
        /\ s[(j - 1) + 3].byte = "L" /\ s[(j - 1) + 4].byte = "I"
    BY <1>7, <1>8
  <2> QED
    BY <1>9, <2>1 DEF FlagAt
<1> QED
  BY <1>2, <1>10

\* A byte is read.  It ends a flag only if the index gets to the end of it.
LEMMA ByteScanned ==
  ASSUME NEW s \in Seq(Units), NEW u \in Units, NEW k \in 0..3, NotBehind(s, k),
         NoFlag(s, Len(s)), NEW m, m = IF u.byte = Flag[k + 1] THEN k + 1 ELSE 1
  PROVE  /\ NotBehind(Append(s, u), m)
         /\ NoFlag(Append(s, u), Len(s))
         /\ m # FlagLen => NoFlag(Append(s, u), Len(s) + 1)
<1> DEFINE t == Append(s, u)
<1>1. Len(s) \in Nat /\ Len(t) = Len(s) + 1 /\ t[Len(s) + 1] = u
      /\ \A j \in 1..Len(s) : t[j] = s[j]
  BY AppendProperties, LenProperties
<1> HIDE DEF t
<1>2. Flag[1] = "W" /\ Flag[2] = "U" /\ Flag[3] = "L" /\ Flag[4] = "I"
  BY DEF Flag
<1>3. /\ u.byte = "W" => m = 1
      /\ k = 1 /\ u.byte = "U" => m = 2
      /\ k = 2 /\ u.byte = "L" => m = 3
      /\ k = 3 /\ u.byte = "I" => m = 4
  BY <1>2
<1>4. NotBehind(t, m)
  <2>1. Len(t) >= 2 /\ t[Len(t) - 1].byte = "W" /\ t[Len(t)].byte = "U" => m = 2
    <3> SUFFICES ASSUME Len(t) >= 2, t[Len(t) - 1].byte = "W", t[Len(t)].byte = "U" PROVE m = 2
      OBVIOUS
    <3>1. Len(s) >= 1 /\ s[Len(s)].byte = "W" /\ u.byte = "U"
      BY <1>1
    <3> QED
      BY <1>3, <3>1 DEF NotBehind
  <2>2. Len(t) >= 3 /\ t[Len(t) - 2].byte = "W" /\ t[Len(t) - 1].byte = "U" /\ t[Len(t)].byte = "L"
          => m = 3
    <3> SUFFICES ASSUME Len(t) >= 3, t[Len(t) - 2].byte = "W", t[Len(t) - 1].byte = "U",
                        t[Len(t)].byte = "L"
                 PROVE  m = 3
      OBVIOUS
    <3>1. Len(s) >= 2 /\ s[Len(s) - 1].byte = "W" /\ s[Len(s)].byte = "U" /\ u.byte = "L"
      BY <1>1
    <3> QED
      BY <1>3, <3>1 DEF NotBehind
  <2>3. t[Len(t)].byte = "W" => m = 1
    BY <1>1, <1>3
  <2> QED
    BY <2>1, <2>2, <2>3 DEF NotBehind
<1>5. NoFlag(t, Len(s))
  <2> SUFFICES ASSUME NEW j \in 1..(Len(s) - 3), FlagAt(t, j) PROVE FALSE
    BY DEF NoFlag
  <2>1. /\ j \in 1..Len(s) /\ j + 1 \in 1..Len(s) /\ j + 2 \in 1..Len(s) /\ j + 3 \in 1..Len(s)
    BY <1>1
  <2>2. FlagAt(s, j)
    BY <1>1, <2>1 DEF FlagAt
  <2> QED
    BY <2>2 DEF NoFlag
<1>6. ASSUME m # FlagLen PROVE NoFlag(t, Len(s) + 1)
  <2> SUFFICES ASSUME NEW j \in 1..((Len(s) + 1) - 3), FlagAt(t, j) PROVE FALSE
    BY DEF NoFlag
  <2>1. CASE j \in 1..(Len(s) - 3)
    BY <1>5, <2>1 DEF NoFlag
  <2>2. CASE j = Len(s) - 2
    <3>1. /\ j \in 1..Len(s) /\ j + 1 \in 1..Len(s) /\ j + 2 \in 1..Len(s)
          /\ j + 1 = Len(s) - 1 /\ j + 2 = Len(s) /\ j + 3 = Len(s) + 1 /\ Len(s) >= 3
      BY <1>1, <2>2
    <3>2. /\ s[Len(s) - 2].byte = "W" /\ s[Len(s) - 1].byte = "U" /\ s[Len(s)].byte = "L"
          /\ u.byte = "I"
      BY <1>1, <2>2, <3>1 DEF FlagAt
    <3>3. k = 3
      BY <3>1, <3>2 DEF NotBehind
    <3> QED
      BY <1>3, <1>6, <3>2, <3>3 DEF FlagLen
  <2> QED
    BY <1>1, <2>1, <2>2
<1> QED
  BY <1>4, <1>5, <1>6 DEF t

\* Every step keeps ScanInv.
LEMMA NextScan ==
  ASSUME TypeOK, SearchInv, ScanInv, [Next]_vars
  PROVE  ScanInv'
<1>1. scan \in Seq(Units) /\ Len(scan) \in Nat /\ i \in 0..FlagLen
  BY TypeParts, LenProperties DEF ScanType
<1>2. CASE SearchByte
  <2>1. /\ avail # <<>> /\ scan' = Append(scan, avail[1]) /\ pc = "search"
        /\ i' = IF avail[1].byte = Flag[i + 1] THEN i + 1 ELSE 1
    BY <1>2 DEF SearchByte, Receive, NextIndex
  <2>2. avail[1] \in Units
    <3>1. 1 \in 1..Len(avail) /\ avail \in Seq(Units)
      BY <2>1, TypeParts, LenProperties, EmptySeq DEF StreamType
    <3> QED
      BY <3>1, ElementOfSeq
  <2>3. i \in 0..3 /\ NotBehind(scan, i) /\ NoFlag(scan, Len(scan))
    BY <1>1, <2>1 DEF SearchInv, ScanInv, FlagLen
  <2>4. /\ NotBehind(scan', i') /\ NoFlag(scan', Len(scan))
        /\ i' # FlagLen => NoFlag(scan', Len(scan) + 1)
    BY <1>1, <2>1, <2>2, <2>3, ByteScanned
  <2>5. Len(scan') = Len(scan) + 1
    BY <1>1, <2>1, <2>2, AppendProperties
  <2>6. pc' = "search" => i' # FlagLen
    BY <1>2 DEF SearchByte
  <2>7. Len(scan') - 1 = Len(scan)
    BY <1>1, <2>5
  <2> QED
    BY <2>4, <2>5, <2>6, <2>7 DEF ScanInv
<1>3. CASE ReadHeader
  <2>1. pc' \in {"body", "search"} /\ scan' = <<>> /\ i' = 0
    BY <1>3 DEF ReadHeader, SearchInv, searchVars
  <2>2. Len(scan') = 0 /\ 1..(Len(scan') - 3) = {}
    BY <2>1, EmptySeq
  <2>3. NotBehind(scan', i') /\ NoFlag(scan', Len(scan'))
    BY <2>2 DEF NotBehind, NoFlag
  <2> QED
    BY <2>1, <2>3 DEF ScanInv
<1>4. CASE Send \/ Close \/ Arrive \/ UNCHANGED vars
  <2>1. UNCHANGED <<pc, scan, i>>
    BY <1>4 DEF Send, Close, Arrive, vars, searchVars
  <2> QED
    BY <2>1 DEF ScanInv
<1>5. CASE HeaderAtEof \/ SearchFails \/ RestMissing \/ ReadRest \/ ReadBody
  <2>1. pc' \in {"header", "body", "end"}
    BY <1>5 DEF HeaderAtEof, SearchFails, RestMissing, ReadRest, ReadBody, ServerBody,
       ClientBody, End, Deliver, Forget
  <2> QED
    BY <2>1 DEF ScanInv
<1> QED
  BY <1>2, <1>3, <1>4, <1>5 DEF Next, Reader

\* SearchPacketHeader never runs past a flag, whatever the bytes.
THEOREM SearchStopsAtFirstFlagHolds == Spec => []SearchStopsAtFirstFlag
<1> DEFINE Inv == TypeOK /\ SearchInv /\ ScanInv
<1>1. Init => Inv
  BY InitType DEF Init, ScanInv
<1>2. Inv /\ [Next]_vars => Inv'
  BY NextType, NextScan
<1>3. Inv => SearchStopsAtFirstFlag
  <2> SUFFICES ASSUME Inv PROVE SearchStopsAtFirstFlag
    OBVIOUS
  <2>1. scan \in Seq(Units) /\ Len(scan) \in Nat
    BY TypeParts, LenProperties DEF ScanType
  <2>2. ASSUME pc = "search" PROVE ~ContainsFlag(scan)
    BY <2>1, <2>2, FlagBytes DEF ScanInv, NoFlag
  <2>3. ASSUME pc = "rest" PROVE ~ContainsFlag(Take(scan, Len(scan) - 1))
    <3> SUFFICES ASSUME ContainsFlag(Take(scan, Len(scan) - 1)) PROVE FALSE
      OBVIOUS
    <3> DEFINE t == Take(scan, Len(scan) - 1)
    <3>1. NoFlag(scan, Len(scan) - 1)
      BY <2>3 DEF ScanInv
    <3>2. CASE Len(scan) = 0
      <4>1. Lesser(Len(scan) - 1, Len(scan)) < 1
        BY <3>2 DEF Lesser
      <4>2. t = <<>>
        BY <3>2, <4>1, SubSeqEmpty DEF Take, Lesser
      <4>3. t \in Seq(Units) /\ Len(t) = 0
        BY <4>2, EmptySeq
      <4> QED
        BY <4>3, FlagBytes
    <3>3. CASE Len(scan) # 0
      <4>1. PICK n \in Nat : n = Len(scan) - 1
        BY <2>1, <3>3
      <4>2. /\ t \in Seq(Units) /\ Len(t) = n
            /\ \A k \in 1..n : t[k] = scan[k]
        BY <2>1, <4>1, TakeProperties
      <4>3. PICK j \in 1..(n - 3) : FlagAt(t, j)
        BY <4>2, FlagBytes
      <4>4. j \in 1..n /\ j + 1 \in 1..n /\ j + 2 \in 1..n /\ j + 3 \in 1..n
        BY <4>1
      <4>5. FlagAt(scan, j)
        BY <4>2, <4>3, <4>4 DEF FlagAt
      <4> QED
        BY <3>1, <4>1, <4>5 DEF NoFlag
    <3> QED
      BY <3>2, <3>3
  <2> QED
    BY <2>2, <2>3 DEF SearchStopsAtFirstFlag
<1> QED
  BY <1>1, <1>2, <1>3, PTL DEF Spec
=============================================================================
