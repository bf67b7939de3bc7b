---------------------------- MODULE FrameReader ----------------------------
(***************************************************************************)
(* How a packet is read from a connection: by the server (RecvFromClient,  *)
(* Net_Receive and SearchPacketHeader of server/) or by the client (the    *)
(* first half of threadRecv, with the client's own copies of the other     *)
(* two).  The two programs read alike and differ in what they do when the  *)
(* data has not arrived: the server's sockets do not block and its select  *)
(* has a timeout of 0, the client waits in recv.                           *)
(*                                                                         *)
(* A connection is a sequence of units that TCP cuts anywhere: the four    *)
(* bytes of the flag, the code and the length of a header ("N"), its two   *)
(* ids ("D"), and the bytes of a body.  A unit knows which packet it is    *)
(* of; the programs do not.                                                *)
(***************************************************************************)
EXTENDS Integers, Sequences

CONSTANTS
  Texts,       \* the bodies of packets: sequences of bytes
  MaxPackets,  \* bound on the packets that are sent
  MaxSearch,   \* iMaxRevBytes
  Word,        \* one more than the largest unsigned int, in units
  ShortWord    \* one more than the largest usLen, in units

ASSUME ReaderAssumption ==
  /\ \A t \in Texts : t \in Seq({"W", "U", "L", "I", "x"})
  /\ MaxPackets \in Nat /\ MaxSearch \in Nat \ {0}
  /\ Word \in Nat \ {0} /\ ShortWord \in Nat \ {0}

VARIABLES
  side,       \* which program reads: "server" or "client"
  sent,       \* the packets as they should be read: records [head, body]
  wire,       \* units that have not arrived
  fin,        \* the sender has closed the connection
  avail,      \* units that have arrived and are not read
  pc,         \* where the reader is
  hd,         \* what it has of the header
  scan,       \* what SearchPacketHeader has read
  i,          \* its index in the flag
  delivered,  \* the packets handed to the switch on usCode
  harm        \* history: what has gone wrong so far

streamVars == <<sent, wire, fin>>
searchVars == <<scan, i>>
vars == <<side, streamVars, avail, pc, hd, searchVars, delivered, harm>>

Flag == <<"W", "U", "L", "I">>
FlagLen == 4
HeaderLen == 6

\* uiTotalLength holds the length of every packet: a text that is typed has
\* less than 1024 bytes, and no list of users comes near 4 GB.
ASSUME TextsAssumption == \A t \in Texts : HeaderLen + Len(t) < Word

Unit(byte, k, total) == [byte |-> byte, of |-> k, total |-> total]

\* CreateHeader and the data of packet number k.
Packet(k, text) ==
  [head |-> [j \in 1..FlagLen |-> Unit(Flag[j], k, 0)]
              \o <<Unit("N", k, HeaderLen + Len(text)), Unit("D", k, 0)>>,
   body |-> [j \in 1..Len(text) |-> Unit(text[j], k, 0)]]

Lesser(m, n) == IF m < n THEN m ELSE n
Take(s, n) == SubSeq(s, 1, Lesser(n, Len(s)))
Drop(s, n) == SubSeq(s, n + 1, Len(s))
Bytes(s) == [j \in DOMAIN s |-> s[j].byte]

Init ==
  /\ side \in {"server", "client"}
  /\ sent = <<>> /\ wire = <<>> /\ fin = FALSE /\ avail = <<>>
  /\ pc = "header" /\ hd = <<>>
  /\ scan = <<>> /\ i = 0
  /\ delivered = <<>> /\ harm = {}

(***************************************************************************)
(* The sender and the network.                                             *)
(***************************************************************************)
\* The functions *_CP of the client send header and data at once.
ClientSends(p) == wire' = wire \o p.head \o p.body /\ UNCHANGED harm

\* The server sends them apart, either may be lost, or in part when the
\* buffer of the socket is full; and usLen holds 16 bits of the length of a
\* list of users, the header all of it.
ServerSends(p) ==
  LET data == Take(p.body, Len(p.body) % ShortWord)
  IN \E h \in {0, FlagLen, HeaderLen}, d \in {0, Lesser(1, Len(data)), Len(data)} :
       /\ wire' = wire \o Take(p.head, h) \o Take(data, d)
       /\ harm' = harm \cup (IF h = FlagLen THEN {"torn"} ELSE {})
                       \cup (IF h = 0 \/ d < Len(data) THEN {"lost"} ELSE {})
                       \cup (IF Len(p.body) >= ShortWord THEN {"long"} ELSE {})

Send ==
  /\ ~fin /\ Len(sent) < MaxPackets
  /\ \E text \in Texts :
       LET p == Packet(Len(sent) + 1, text)
       IN /\ sent' = Append(sent, p)
          /\ IF side = "server" THEN ClientSends(p) ELSE ServerSends(p)
  /\ UNCHANGED <<side, fin, avail, pc, hd, searchVars, delivered>>

Close ==
  /\ ~fin
  /\ fin' = TRUE
  /\ UNCHANGED <<side, sent, wire, avail, pc, hd, searchVars, delivered, harm>>

Arrive ==
  /\ \E n \in 1..Len(wire) : avail' = avail \o Take(wire, n) /\ wire' = Drop(wire, n)
  /\ UNCHANGED <<side, sent, fin, pc, hd, searchVars, delivered, harm>>

(***************************************************************************)
(* Reading: recv takes what is there.  With nothing there, it returns 0 at *)
(* the end of the stream, and otherwise the server does not wait.          *)
(***************************************************************************)
Eof == fin /\ wire = <<>> /\ avail = <<>>
NothingYet == ~Eof /\ avail = <<>>

\* What is read ends where the rest of its packet is still on the way.
Cut(got, left) ==
  got # <<>> /\ left = <<>> /\ wire # <<>> /\ wire[1].of = got[Len(got)].of

\* ClientExit for the connection, or the end of threadRecv.
End ==
  /\ pc' = "end" /\ hd' = <<>> /\ scan' = <<>> /\ i' = 0
  /\ UNCHANGED <<side, streamVars, avail, delivered, harm>>

\* A read of at most n units.
Receive(n, got) ==
  /\ avail # <<>>
  /\ got = Take(avail, n)
  /\ avail' = Drop(avail, n)

\* Mistake: one byte of the flag is compared.
IsFlag_FirstByte(s) == s # <<>> /\ s[1].byte = Flag[1]

IsFlag(s) == Len(s) >= FlagLen /\ Bytes(Take(s, FlagLen)) = Flag

ReadHeader ==
  /\ pc = "header"
  /\ LET got == Take(avail, HeaderLen)
     IN /\ Receive(HeaderLen, got)
        /\ hd' = got
        /\ pc' = IF IsFlag(got) THEN "body" ELSE "search"
        /\ harm' = harm \cup IF Len(got) < HeaderLen /\ Cut(got, avail') THEN {"short"} ELSE {}
  /\ UNCHANGED <<side, streamVars, searchVars, delivered>>

\* The client sends a keep-alive instead, and reads again.
HeaderAtEof == pc = "header" /\ Eof /\ side = "server" /\ End

\* Mistake: after a mismatch the search starts over with the next byte.
NextIndex_StartOver(byte) == IF byte = Flag[i + 1] THEN i + 1 ELSE 0

\* i = 0 after a mismatch, but the loop increments it.
NextIndex(byte) == IF byte = Flag[i + 1] THEN i + 1 ELSE 1

\* SearchPacketHeader, a byte at a time.
SearchByte ==
  /\ pc = "search"
  /\ Receive(1, Take(avail, 1))
  /\ scan' = Append(scan, avail[1])
  /\ i' = NextIndex(avail[1].byte)
  /\ LET found == i' = FlagLen /\ Len(scan') < MaxSearch
     IN /\ hd' = IF found THEN Drop(scan', Len(scan') - FlagLen) ELSE hd
        /\ pc' = IF found THEN "rest" ELSE IF Len(scan') < MaxSearch THEN "search" ELSE "end"
  /\ UNCHANGED <<side, streamVars, delivered, harm>>

\* Mistake: a recv of 0 is not counted.
SearchFails_NotAtEof == pc = "search" /\ NothingYet /\ side = "server" /\ End

\* recv gives EAGAIN, or 0 until iMaxRevBytes.
SearchFails == pc = "search" /\ (Eof \/ (NothingYet /\ side = "server")) /\ End

\* Mistake: a whole header is read after the flag.
ReadRest_WholeHeader ==
  /\ pc = "rest"
  /\ LET got == Take(avail, HeaderLen)
     IN /\ Receive(HeaderLen, got)
        /\ hd' = hd \o got
        /\ pc' = IF Len(got) = HeaderLen THEN "body" ELSE "end"
  /\ scan' = <<>> /\ i' = 0
  /\ UNCHANGED <<side, streamVars, delivered, harm>>

ReadRest ==
  /\ pc = "rest"
  /\ LET got == Take(avail, HeaderLen - FlagLen)
     IN /\ Receive(HeaderLen - FlagLen, got)
        /\ hd' = hd \o got
        /\ pc' = IF Len(got) = HeaderLen - FlagLen THEN "body" ELSE "end"
  /\ scan' = <<>> /\ i' = 0
  /\ UNCHANGED <<side, streamVars, delivered, harm>>

RestMissing == pc = "rest" /\ (Eof \/ (NothingYet /\ side = "server")) /\ End

\* uiTotalLength: 0 when the header ends before it, anything when these
\* bytes are not a length.
TotalLengths ==
  IF Len(hd) <= FlagLen THEN {0}
  ELSE IF hd[FlagLen + 1].byte = "N" THEN {hd[FlagLen + 1].total}
  ELSE 0..(HeaderLen + 2)

\* Mistake: the length of the header is not subtracted.
DataLens_WithHeader == TotalLengths

\* uiDataLen, an unsigned int.
DataLens == {(total - HeaderLen) % Word : total \in TotalLengths}

\* The body is handed over as far as it was received.
Deliver(n) ==
  /\ LET body == Take(avail, n)
     IN /\ delivered' = Append(delivered, [head |-> hd, body |-> body])
        /\ avail' = Drop(avail, n)
        /\ harm' = harm \cup IF Cut(body, avail') THEN {"short"} ELSE {}
  /\ pc' = "header" /\ hd' = <<>>
  /\ UNCHANGED <<side, streamVars, searchVars>>

\* RecvFromClient returns -2: the next bytes are read as a header.
Forget ==
  /\ pc' = "header" /\ hd' = <<>>
  /\ harm' = harm \cup IF Cut(hd, avail) THEN {"late"} ELSE {}
  /\ UNCHANGED <<side, streamVars, avail, searchVars, delivered>>

CannotAllocate(n) == n >= Word - HeaderLen

\* RecvFromClient: any part of the body will do.
ServerBody(n) ==
  /\ pc = "body" /\ side = "server"
  /\ \/ n = 0 /\ Deliver(0)
     \/ n # 0 /\ avail # <<>> /\ Deliver(n)
     \/ n # 0 /\ (NothingYet \/ CannotAllocate(n)) /\ Forget
     \/ n # 0 /\ Eof /\ End

\* threadRecv: a part of the body ends the thread.
ClientBody(n) ==
  /\ pc = "body" /\ side = "client"
  /\ \/ Len(avail) >= n /\ Deliver(n)
     \/ 0 < Len(avail) /\ Len(avail) < n /\ End
     \/ n # 0 /\ (Eof \/ CannotAllocate(n)) /\ End

ReadBody == \E n \in DataLens : ServerBody(n) \/ ClientBody(n)

Reader ==
  \/ ReadHeader \/ HeaderAtEof \/ SearchByte \/ SearchFails
  \/ ReadRest \/ RestMissing \/ ReadBody

Next == Send \/ Close \/ Arrive \/ Reader

Spec == Init /\ [][Next]_vars

\* What was sent arrives, and the reader's thread runs.
Fairness == WF_vars(Arrive) /\ WF_vars(Reader)

LiveSpec == Spec /\ Fairness

(***************************************************************************)
(* Properties.                                                             *)
(***************************************************************************)
Units == [byte : {"W", "U", "L", "I", "x", "N", "D"}, of : Nat, total : Nat]
Frames == [head : Seq(Units), body : Seq(Units)]

\* The type of the state; what is received fits into the Header it is
\* received into, and the search ends by its limit.
TypeOK ==
  /\ side \in {"server", "client"} /\ fin \in BOOLEAN
  /\ sent \in Seq(Frames) /\ delivered \in Seq(Frames)
  /\ wire \in Seq(Units) /\ avail \in Seq(Units)
  /\ pc \in {"header", "search", "rest", "body", "end"}
  /\ hd \in Seq(Units) /\ Len(hd) <= HeaderLen
  /\ scan \in Seq(Units) /\ Len(scan) <= MaxSearch /\ i \in 0..FlagLen
  /\ harm \subseteq {"torn", "lost", "long", "short", "late"}

\* Packets are read as they were sent, in their order, as long as no entry
\* was lost, no length was cut to 16 bits, no header and no body was read
\* before all of it had arrived and, at the server, no body came later than
\* its header: the client waits for it.
ReadAsSent == harm = {} => delivered = SubSeq(sent, 1, Len(delivered))

ContainsFlag(s) == \E j \in 1..(Len(s) - FlagLen + 1) : IsFlag(Drop(s, j - 1))

\* SearchPacketHeader does not run past a flag: the bytes it has read hold
\* none but the one that ends the search, although its index in the flag
\* forgets what it has matched.
SearchStopsAtFirstFlag ==
  /\ pc = "search" => ~ContainsFlag(scan)
  /\ pc = "rest" => ~ContainsFlag(Take(scan, Len(scan) - 1))

\* A text that could be taken for a flag: the search is content with a
\* mismatch and the last three bytes of the flag.  Where headers are lost one
\* text follows another, and may complete what that one ends with.
LooksLikeFlag(s) ==
  \/ \E j \in 1..Len(s) : Take(Drop(Bytes(s), j - 1), 3) = Drop(Flag, 1)
  \/ s # <<>> /\ s[1].byte \in {"L", "I"}

\* However the stream is cut and whatever entries are lost, the code and the
\* length that a packet is handled by are those of a packet that was sent,
\* or missing: no text is taken for a request.  Except for a text with the
\* end of a flag in it or in front of it, and a header sent in part.
HeaderIsReal ==
  "torn" \notin harm /\ (\A k \in 1..Len(sent) : ~LooksLikeFlag(sent[k].body)) =>
    \A d \in 1..Len(delivered) :
      LET head == delivered[d].head
      IN \E k \in 1..Len(sent) : head = Take(sent[k].head, Len(head))

\* When the sender has closed, the reader gets through what is left.
EofIsReached == fin ~> pc = "end" \/ (side = "client" /\ avail = <<>>)
=============================================================================
