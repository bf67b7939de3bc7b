---------------------------- MODULE ClientProofs ----------------------------
(***************************************************************************)
(* What holds of the client for all users, all delays within the timeout,  *)
(* all sizes of the counter and any number of requests.                    *)
(***************************************************************************)
EXTENDS Client, SequenceTheorems, TLAPS

\* The conjuncts of TypeOK, by what changes together.
PcType ==
  /\ pc \in [Threads -> Labels]
  /\ pc["main"] \in {"menu", "close", "join recv", "join heart", "done"}
  /\ pc["recv"] \in {"top", "recv", "body", "done"} \cup Sending
  /\ pc["heart"] \in {"top", "sleep", "done"} \cup Sending
SharedType ==
  /\ sock \in {"open", "closed"}
  /\ aliveSeq \in 0..(Word - 1) /\ reg \in [Threads -> 0..(Word - 1)]
MenuType == name \in Users \cup {0} /\ requests \in 0..MaxRequests /\ shown \subseteq Users
ClockType == beat \in Nat /\ slept \in Nat /\ age \in Nat
UpType == up \in Seq(Packets) /\ link \in {"open", "fin", "poked", "rst"}
DownType == down \in Seq(Replies)
ServerType == session \in Users \cup {0} /\ seqRead \in -1..(Word - 1)
FlagType == exit \in BOOLEAN /\ refused \in BOOLEAN /\ cut \in BOOLEAN

\* TypeOK is the conjunction of its parts.
LEMMA TypeParts ==
  TypeOK <=> /\ PcType /\ SharedType /\ MenuType /\ ClockType
             /\ UpType /\ DownType /\ ServerType /\ FlagType
BY DEF TypeOK, PcType, SharedType, MenuType, ClockType, UpType, DownType, ServerType, FlagType

\* And so it is after a step.
LEMMA TypePartsNext ==
  TypeOK' <=> /\ PcType' /\ SharedType' /\ MenuType' /\ ClockType'
              /\ UpType' /\ DownType' /\ ServerType' /\ FlagType'
BY DEF TypeOK, PcType, SharedType, MenuType, ClockType, UpType, DownType, ServerType, FlagType

\* A step of the program counter of a thread.
LEMMA GotoType ==
  ASSUME PcType, NEW t \in {"recv", "heart"}, NEW label, Goto(t, label),
         t = "recv" => label \in {"top", "recv", "body", "done"} \cup Sending,
         t = "heart" => label \in {"top", "sleep", "done"} \cup Sending
  PROVE  PcType'
BY DEF Goto, PcType, Threads, Labels, Sending

\* A step of main.
LEMMA GotoMain ==
  ASSUME PcType, NEW label \in {"menu", "close", "join recv", "join heart", "done"},
         Goto("main", label)
  PROVE  PcType'
BY DEF Goto, PcType, Threads, Labels, Sending

\* What Net_Send adds is a packet.
LEMMA SendType ==
  ASSUME UpType, NEW kind \in Kinds, NEW seq \in 0..(Word - 1), NEW user \in Users \cup {0},
         Net_Send(kind, seq, user)
  PROVE  UpType'
<1> DEFINE p == [kind |-> kind, seq |-> seq, user |-> user, wait |-> 0]
<1>1. p \in Packets
  BY DEF Packets
<1>2. Append(up, p) \in Seq(Packets)
  BY <1>1 DEF UpType
<1> QED
  BY <1>2 DEF Net_Send, UpType

\* The initial state is well typed.
LEMMA InitType == Init => TypeOK
<1> SUFFICES ASSUME Init PROVE TypeOK
  OBVIOUS
<1> USE DEF Init
<1>1. PcType
  BY DEF PcType, Threads, Labels
<1>2. SharedType /\ MenuType /\ ClockType /\ ServerType
  BY ClientAssumption DEF SharedType, MenuType, ClockType, ServerType
<1>3. UpType /\ DownType
  BY EmptySeq DEF UpType, DownType
<1>4. FlagType
  BY Zenon DEF FlagType
<1> QED
  BY <1>1, <1>2, <1>3, <1>4, TypeParts

\* The steps that advance the sequence number.
LEMMA BumpType ==
  ASSUME TypeOK, NEW t \in {"recv", "heart"}, BumpSeq(t)
  PROVE  TypeOK'
<1> USE TypeParts, TypePartsNext
<1>1. CASE CheckSeq(t) \/ ResetSeq(t) \/ LoadSeq(t)
  <2>1. PcType'
    BY <1>1, GotoType DEF CheckSeq, ResetSeq, LoadSeq, Sending
  <2>2. SharedType'
    BY <1>1, ClientAssumption
    DEF CheckSeq, ResetSeq, LoadSeq, seqVars, SharedType, Threads
  <2>3. UNCHANGED <<exit, clockVars, menuVars, shown, up, down, link, serverVars>>
    BY <1>1 DEF CheckSeq, ResetSeq, LoadSeq
  <2> QED
    BY <2>1, <2>2, <2>3 DEF MenuType, ClockType, UpType, DownType, ServerType, FlagType,
       clockVars, menuVars, serverVars
<1>2. CASE StoreSeq(t)
  <2> USE <1>2 DEF StoreSeq
  <2>1. PcType'
    BY GotoType DEF Sending
  <2>2. \A n \in Nat : n % Word \in 0..(Word - 1)
    BY ClientAssumption
  <2>3. SharedType'
    BY <2>2, ClientAssumption DEF SharedType, Threads
  <2>4. ClockType'
    BY DEF ClockType
  <2> QED
    BY <2>1, <2>3, <2>4
    DEF MenuType, UpType, DownType, ServerType, FlagType, menuVars, serverVars
<1> QED
  BY <1>1, <1>2 DEF BumpSeq

\* The other steps of threadSendHeart.
LEMMA HeartType ==
  ASSUME TypeOK, HeartEnds \/ HeartBeats \/ HeartRests \/ HeartWakes
  PROVE  TypeOK'
<1> USE TypeParts, TypePartsNext
<1>1. PcType'
  BY GotoType DEF HeartEnds, HeartBeats, HeartRests, HeartWakes, Sending
<1>2. SharedType' /\ MenuType' /\ DownType' /\ ServerType' /\ FlagType'
  BY DEF HeartEnds, HeartBeats, HeartRests, HeartWakes, SharedType, MenuType, DownType,
     ServerType, FlagType, seqVars, menuVars, serverVars
<1>3. ClockType'
  BY DEF HeartEnds, HeartBeats, HeartRests, HeartWakes, ClockType, clockVars
<1>4. CASE HeartBeats
  <2>1. Net_Send("KEEP_ALIVE_REQ", aliveSeq, 0)
    BY <1>4 DEF HeartBeats
  <2>2. UpType'
    BY <2>1, SendType DEF SharedType, Kinds
  <2> QED
    BY <1>1, <1>2, <1>3, <2>2
<1>5. CASE ~HeartBeats
  <2>1. UpType'
    BY <1>5 DEF HeartEnds, HeartRests, HeartWakes, UpType
  <2> QED
    BY <1>1, <1>2, <1>3, <2>1
<1> QED
  BY <1>4, <1>5

\* The text of a list.
LEMMA ListType ==
  ASSUME NEW online \in SUBSET Users
  PROVE  SetUserListJasonData(online) \in Json
BY DEF SetUserListJasonData, Json

\* What the client prints of it are users.
LEMMA ShownType ==
  ASSUME NEW json \in Json
  PROVE  GetUserListJasonData(json) \subseteq Users
BY DEF GetUserListJasonData, Json

\* The other steps of threadRecv.
LEMMA ReceiverType ==
  ASSUME TypeOK, RecvTop \/ RecvFails \/ RecvPacket \/ RecvNothing \/ SendBody
  PROVE  TypeOK'
<1> USE TypeParts, TypePartsNext
<1>1. PcType'
  BY GotoType DEF RecvTop, RecvFails, RecvPacket, RecvNothing, SendBody, Sending
<1>2. SharedType' /\ ClockType' /\ ServerType' /\ FlagType'
  BY DEF RecvTop, RecvFails, RecvPacket, RecvNothing, SendBody, SharedType, ClockType,
     ServerType, FlagType, seqVars, clockVars, serverVars
<1>3. CASE RecvTop \/ RecvFails
  <2>1. MenuType' /\ UpType' /\ DownType'
    BY <1>3 DEF RecvTop, RecvFails, MenuType, UpType, DownType, menuVars
  <2> QED
    BY <1>1, <1>2, <2>1
<1>4. CASE RecvPacket
  <2> USE <1>4 DEF RecvPacket
  <2>1. Head(down) \in Replies /\ Tail(down) \in Seq(Replies)
    BY HeadTailProperties DEF DownType
  <2>2. Head(down).json \in Json
    BY <2>1 DEF Replies
  <2>3. MenuType' /\ UpType' /\ DownType'
    BY <2>1, <2>2, ShownType
       DEF GetUserList_Rsp_Function, MenuType, UpType, DownType, menuVars
  <2> QED
    BY <1>1, <1>2, <2>3
<1>5. CASE RecvNothing \/ SendBody
  <2>1. Net_Send("header", 0, 0) \/ Net_Send("body", aliveSeq, 0)
    BY <1>5 DEF RecvNothing, SendBody
  <2>2. UpType'
    BY <2>1, SendType, ClientAssumption DEF SharedType, Kinds
  <2>3. MenuType' /\ DownType'
    BY <1>5 DEF RecvNothing, SendBody, MenuType, DownType, menuVars
  <2> QED
    BY <1>1, <1>2, <2>2, <2>3
<1> QED
  BY <1>3, <1>4, <1>5

\* The steps of main.
LEMMA MainType ==
  ASSUME TypeOK, Main \/ Stop
  PROVE  TypeOK'
<1> USE TypeParts, TypePartsNext
<1>1. CASE (\E u \in Users : Login(u)) \/ GetUserList \/ TalkWithUser
  <2>1. Choose
    BY <1>1 DEF Login, GetUserList, TalkWithUser
  <2>2. PcType' /\ SharedType' /\ ClockType' /\ DownType' /\ ServerType' /\ FlagType'
    BY <2>1 DEF Choose, PcType, SharedType, ClockType, DownType, ServerType, FlagType,
       threadVars, seqVars, clockVars, serverVars
  <2>3. \E kind \in Kinds, user \in Users \cup {0} : Net_Send(kind, 0, user)
    BY <1>1 DEF Login, GetUserList, TalkWithUser, Kinds, MenuType
  <2>4. UpType'
    BY <2>3, SendType, ClientAssumption
  <2>5. MenuType'
    BY <1>1, <2>1, ClientAssumption DEF Login, GetUserList, TalkWithUser, Choose, MenuType
  <2> QED
    BY <2>2, <2>4, <2>5
<1>2. CASE Exit \/ Stop
  <2>1. PcType'
    BY <1>2, GotoMain DEF Exit, Stop, CloseSocket, Join
  <2>2. SharedType' /\ MenuType' /\ ClockType' /\ UpType' /\ DownType' /\ ServerType'
    BY <1>2 DEF Exit, Stop, CloseSocket, Join, SharedType, MenuType, ClockType, UpType,
       DownType, ServerType, seqVars, menuVars, clockVars, serverVars
  <2>3. FlagType'
    BY <1>2, Zenon DEF Exit, Stop, CloseSocket, Join, FlagType, serverVars
  <2> QED
    BY <2>1, <2>2, <2>3
<1> QED
  BY <1>1, <1>2 DEF Main

\* What Reply adds is a reply.
LEMMA ReplyType ==
  ASSUME DownType, cut \in BOOLEAN, NEW kind \in Codes, NEW json \in Json,
         Reply(kind, json)
  PROVE  DownType' /\ cut' \in BOOLEAN
<1> DEFINE r(whole, text) == [kind |-> kind, whole |-> whole, json |-> text]
<1>1. \A whole \in BOOLEAN, text \in Json : r(whole, text) \in Replies
  BY Zenon DEF Replies
<1>2. {} \in Json
  BY DEF Json
<1>3. r(TRUE, json) \in Replies /\ r(FALSE, {}) \in Replies
  BY <1>1, <1>2, Zenon
<1>4. down' \in {down, Append(down, r(TRUE, json)), Append(down, r(FALSE, {}))}
  BY Zenon DEF Reply
<1> HIDE DEF r
<1>5. Append(down, r(TRUE, json)) \in Seq(Replies) /\ Append(down, r(FALSE, {})) \in Seq(Replies)
  BY <1>3, AppendProperties DEF DownType
<1>6. DownType'
  BY <1>4, <1>5, Zenon DEF DownType
<1>7. cut' \in BOOLEAN
  BY Zenon DEF Reply
<1> QED
  BY <1>6, <1>7

\* What the server reads is a packet, and what it leaves are packets.
LEMMA TakeType ==
  ASSUME TypeOK, NEW kind, Take(kind)
  PROVE  /\ Head(up) \in Packets /\ Tail(up) \in Seq(Packets)
         /\ PcType' /\ SharedType' /\ MenuType' /\ UpType'
         /\ beat' \in Nat /\ slept' \in Nat /\ exit' \in BOOLEAN
<1> USE TypeParts
<1>1. Head(up) \in Packets /\ Tail(up) \in Seq(Packets)
  BY HeadTailProperties DEF Take, UpType
<1>2. PcType' /\ SharedType' /\ MenuType' /\ UpType' /\ beat' \in Nat /\ slept' \in Nat
  BY <1>1 DEF Take, PcType, SharedType, MenuType, UpType, ClockType, threadVars, seqVars,
     menuVars
<1>3. exit' \in BOOLEAN
  BY Zenon DEF Take, FlagType, threadVars
<1> QED
  BY <1>1, <1>2, <1>3

\* The server's handling of a packet.
LEMMA ServeType ==
  ASSUME TypeOK, Serve
  PROVE  TypeOK'
<1> USE TypeParts, TypePartsNext
<1>1. {} \in Json /\ Codes = {"KEEP_ALIVE_RSP", "LOGIN_RSP", "GET_USER_LIST_RSP"}
  BY DEF Json, Codes
<1>2. cut \in BOOLEAN /\ refused \in BOOLEAN
  BY Zenon DEF FlagType
<1>3. CASE ServeKeepAlive
  <2> USE <1>3 DEF ServeKeepAlive
  <2>1. Head(up) \in Packets /\ PcType' /\ SharedType' /\ MenuType' /\ UpType' /\ ClockType'
    BY TakeType DEF ClockType
  <2>2. DownType' /\ cut' \in BOOLEAN
    BY <1>1, <1>2, ReplyType
  <2>3. ServerType'
    BY <2>1 DEF ServerType, Packets
  <2>4. FlagType'
    BY <1>2, <2>2, TakeType, Zenon DEF FlagType
  <2> QED
    BY <2>1, <2>2, <2>3, <2>4
<1>4. CASE ServeLogin
  <2> USE <1>4 DEF ServeLogin
  <2>1. Head(up) \in Packets /\ PcType' /\ SharedType' /\ MenuType' /\ UpType' /\ ClockType'
    BY TakeType DEF ClockType
  <2>2. DownType' /\ cut' \in BOOLEAN
    BY <1>1, <1>2, ReplyType
  <2>3. ServerType'
    BY <2>1 DEF ServerType, Packets
  <2>4. FlagType'
    BY <1>2, <2>2, TakeType, Zenon DEF FlagType
  <2> QED
    BY <2>1, <2>2, <2>3, <2>4
<1>5. CASE ServeUserList
  <2> USE <1>5 DEF ServeUserList
  <2>1. PcType' /\ SharedType' /\ MenuType' /\ UpType' /\ ClockType' /\ ServerType'
    BY TakeType DEF ClockType, ServerType
  <2>2. ASSUME session # 0 PROVE DownType' /\ cut' \in BOOLEAN
    <3>1. PICK others \in SUBSET Users :
            Reply("GET_USER_LIST_RSP", SetUserListJasonData(others \cup {session}))
      BY <2>2
    <3>2. SetUserListJasonData(others \cup {session}) \in Json
      BY <2>2, ListType DEF ServerType
    <3> QED
      BY <1>1, <1>2, <3>1, <3>2, ReplyType
  <2>3. ASSUME session = 0 PROVE DownType' /\ cut' \in BOOLEAN
    <3>1. down' = down /\ cut' = cut
      BY <2>3
    <3> QED
      BY <3>1, <1>2, Zenon, TypeParts DEF DownType
  <2>4. DownType' /\ cut' \in BOOLEAN
    BY <2>2, <2>3
  <2>5. FlagType'
    BY <1>2, <2>4, TakeType, Zenon DEF FlagType
  <2> QED
    BY <2>1, <2>4, <2>5
<1>6. CASE ServeTalk
  <2> USE <1>6 DEF ServeTalk
  <2>1. PcType' /\ SharedType' /\ MenuType' /\ UpType' /\ ClockType' /\ ServerType' /\ DownType'
    BY TakeType DEF ClockType, ServerType, DownType, serverVars
  <2>2. FlagType'
    BY <1>2, TakeType, Zenon DEF FlagType, serverVars
  <2> QED
    BY <2>1, <2>2
<1> QED
  BY <1>3, <1>4, <1>5, <1>6 DEF Serve

\* The end of the connection and the clock.
LEMMA ClosesType ==
  ASSUME TypeOK, ServerCloses \/ Reset \/ Tick
  PROVE  TypeOK'
<1> USE TypeParts, TypePartsNext
<1>1. CASE ServerCloses \/ Reset
  <2>1. UNCHANGED <<threadVars, seqVars, beat, slept, menuVars, shown, down>>
    BY <1>1 DEF ServerCloses, Reset, clockVars
  <2>2. PcType' /\ SharedType' /\ MenuType' /\ DownType'
    BY <2>1 DEF PcType, SharedType, MenuType, DownType, threadVars, seqVars, menuVars
  <2>3. ClockType'
    BY <1>1, <2>1 DEF ServerCloses, Reset, ClockType, clockVars
  <2>4. UpType'
    BY <1>1, EmptySeq DEF ServerCloses, Reset, UpType
  <2>5. ServerType'
    BY <1>1, ClientAssumption DEF ServerCloses, Reset, ServerType, serverVars
  <2>6. FlagType'
    BY <1>1, Zenon DEF ServerCloses, Reset, FlagType, serverVars, threadVars
  <2> QED
    BY <2>2, <2>3, <2>4, <2>5, <2>6
<1>2. CASE Tick
  <2>1. PcType' /\ SharedType' /\ MenuType' /\ DownType' /\ ServerType'
    BY <1>2 DEF Tick, PcType, SharedType, MenuType, DownType, ServerType, threadVars,
       seqVars, menuVars, serverVars
  <2>2. ClockType'
    BY <1>2, TimingAssumption, SMTT(60) DEF Tick, ClockType, Lesser
  <2>3. ASSUME NEW k \in 1..Len(up) PROVE [up[k] EXCEPT !.wait = @ + 1] \in Packets
    <3>1. up[k] \in Packets
      BY DEF UpType
    <3> QED
      BY <3>1 DEF Packets
  <2>4. UpType'
    BY <1>2, <2>3, LenProperties, IsASeq DEF Tick, UpType
  <2>5. FlagType'
    BY <1>2, Zenon DEF Tick, FlagType, serverVars, threadVars
  <2> QED
    BY <2>1, <2>2, <2>4, <2>5
<1> QED
  BY <1>1, <1>2

\* Every step keeps the types.
LEMMA NextType == TypeOK /\ [Next]_vars => TypeOK'
<1> SUFFICES ASSUME TypeOK, [Next]_vars PROVE TypeOK'
  OBVIOUS
<1>1. CASE Heart \/ Receiver
  BY <1>1, HeartType, ReceiverType, BumpType DEF Heart, Receiver
<1>2. CASE Main \/ Stop
  BY <1>2, MainType
<1>3. CASE Serve
  BY <1>3, ServeType
<1>4. CASE TimeOut \/ ClientLeft \/ ServerFails \/ Reset \/ Tick
  BY <1>4, ClosesType DEF TimeOut, ClientLeft, ServerFails
<1>5. CASE UNCHANGED vars
  <2>1. PcType' /\ SharedType' /\ MenuType' /\ ClockType'
    BY <1>5, TypeParts DEF vars, threadVars, seqVars, clockVars, menuVars,
       PcType, SharedType, MenuType, ClockType
  <2>3. UpType' /\ DownType' /\ ServerType'
    BY <1>5, TypeParts DEF vars, serverVars, UpType, DownType, ServerType
  <2>2. FlagType'
    BY <1>5, TypeParts, Zenon DEF vars, threadVars, serverVars, FlagType
  <2> QED
    BY <2>1, <2>2, <2>3, TypePartsNext
<1> QED
  BY <1>1, <1>2, <1>3, <1>4, <1>5 DEF Next

\* The state of the client and of its connection is well typed.
THEOREM TypeCorrect == Spec => []TypeOK
<1> QED
  BY InitType, NextType, PTL DEF Spec

(***************************************************************************)
(* Who may do what while the connection is open.                           *)
(***************************************************************************)
\* Only stop closes the socket and ends threadSendHeart; threadRecv sends
\* only when the server has closed, and ends after a reply that was cut.
ThreadsInv ==
  /\ sock = "closed" \/ pc["main"] # "menu" \/ pc["heart"] = "done" => exit
  /\ pc["recv"] \in {"body"} \cup Sending => link # "open"
  /\ DeafOnlyAfterCut
CutInv == \A k \in 1..Len(down) : ~down[k].whole => cut \/ link # "open"

\* A connection that was closed stays so when something is sent.
LEMMA SendsLink ==
  ASSUME NEW kind, NEW seq, NEW user, Net_Send(kind, seq, user)
  PROVE  link' = "open" <=> link = "open"
BY DEF Net_Send

\* ThreadsInv holds at first.
LEMMA InitThreads == Init => ThreadsInv /\ CutInv
BY DEF Init, ThreadsInv, CutInv, DeafOnlyAfterCut, Threads, Sending

\* Every step keeps ThreadsInv.
LEMMA NextThreads ==
  ASSUME TypeOK, TypeOK', ThreadsInv, CutInv, [Next]_vars
  PROVE  ThreadsInv'
<1> USE DEF ThreadsInv, DeafOnlyAfterCut
<1>1. PcType
  BY TypeParts
<1>2. CASE Heart
  <2>1. /\ UNCHANGED <<exit, sock, cut>> /\ (link' = "open" <=> link = "open")
        /\ pc'["main"] = pc["main"] /\ pc'["recv"] = pc["recv"]
    BY <1>1, <1>2, SendsLink DEF Heart, HeartEnds, HeartBeats, HeartRests, HeartWakes, BumpSeq,
       CheckSeq, ResetSeq, LoadSeq, StoreSeq, Goto, PcType, Threads, serverVars
  <2>2. pc'["heart"] = "done" => exit
    BY <1>1, <1>2 DEF Heart, HeartEnds, HeartBeats, HeartRests, HeartWakes, BumpSeq,
       CheckSeq, ResetSeq, LoadSeq, StoreSeq, Goto, PcType, Threads
  <2> QED
    BY <2>1, <2>2
<1>3. CASE Receiver
  <2>1. /\ UNCHANGED <<exit, sock, cut>> /\ (link' = "open" <=> link = "open")
        /\ pc'["main"] = pc["main"] /\ pc'["heart"] = pc["heart"]
    BY <1>1, <1>3, SendsLink DEF Receiver, RecvTop, RecvFails, RecvPacket, RecvNothing, SendBody,
       BumpSeq, CheckSeq, ResetSeq, LoadSeq, StoreSeq, Goto, PcType, Threads, serverVars
  <2>2. CASE RecvTop \/ RecvFails \/ RecvNothing \/ SendBody
    BY <1>1, <2>1, <2>2 DEF RecvTop, RecvFails, RecvNothing, SendBody, Goto, PcType, Threads,
       Sending
  <2>3. CASE RecvPacket
    <3>1. Head(down) = down[1] /\ 1 \in 1..Len(down)
      BY <2>3, HeadTailProperties, TypeParts DEF RecvPacket, DownType
    <3>2. pc'["recv"] \in {"top", "done"} /\ (pc'["recv"] = "done" => ~Head(down).whole)
      BY <1>1, <2>3 DEF RecvPacket, Goto, PcType, Threads
    <3>3. ~Head(down).whole => cut \/ link # "open"
      BY <3>1, Zenon DEF CutInv
    <3> QED
      BY <2>1, <3>2, <3>3 DEF Sending
  <2>4. CASE BumpSeq("recv")
    BY <1>1, <2>1, <2>4 DEF BumpSeq, CheckSeq, ResetSeq, LoadSeq, StoreSeq, Goto, PcType,
       Threads, Sending
  <2> QED
    BY <1>3, <2>2, <2>3, <2>4 DEF Receiver
<1>4. CASE Main \/ Stop
  <2>1. UNCHANGED cut /\ (link' = "open" <=> link = "open") /\ (exit => exit')
        /\ pc'["heart"] = pc["heart"] /\ pc'["recv"] = pc["recv"]
    BY <1>1, <1>4, SendsLink DEF Main, Login, GetUserList, TalkWithUser, Choose, Exit, Stop,
       CloseSocket, Join, Goto, PcType, Threads, threadVars, serverVars
  <2>2. sock' = "closed" \/ pc'["main"] # "menu" => exit'
    BY <1>1, <1>4 DEF Main, Login, GetUserList, TalkWithUser, Choose, Exit, Stop,
       CloseSocket, Join, Goto, PcType, Threads, threadVars
  <2> QED
    BY <2>1, <2>2
<1>5. CASE Serve
  <2>1. UNCHANGED <<threadVars, link>>
    BY <1>5 DEF Serve, ServeKeepAlive, ServeLogin, ServeUserList, ServeTalk, Take
  <2>2. cut => cut'
    BY <1>5, Zenon DEF Serve, ServeKeepAlive, ServeLogin, ServeUserList, ServeTalk, Reply,
       serverVars
  <2> QED
    BY <2>1, <2>2 DEF threadVars
<1>6. CASE TimeOut \/ ClientLeft \/ ServerFails \/ Reset
  BY <1>6 DEF TimeOut, ClientLeft, ServerFails, ServerCloses, Reset, threadVars
<1>7. CASE Tick \/ UNCHANGED vars
  BY <1>7 DEF Tick, vars, threadVars, serverVars
<1> QED
  BY <1>2, <1>3, <1>4, <1>5, <1>6, <1>7 DEF Next

\* The elements of a sequence that grew by one.
LEMMA AppendedAt ==
  ASSUME NEW S, NEW s \in Seq(S), NEW e
  PROVE  /\ Len(Append(s, e)) = Len(s) + 1 /\ Len(s) \in Nat
         /\ \A k \in 1..Len(s) : Append(s, e)[k] = s[k]
         /\ Append(s, e)[Len(s) + 1] = e
         /\ \A k \in 1..Len(Append(s, e)) :
                \/ k \in 1..Len(s) /\ Append(s, e)[k] = s[k]
                \/ k = Len(s) + 1 /\ Append(s, e)[k] = e
<1> DEFINE T == S \cup {e}
<1>1. s \in Seq(T) /\ e \in T
  BY SeqMonotonic
<1> HIDE DEF T
<1>2. /\ Len(Append(s, e)) = Len(s) + 1 /\ Len(s) \in Nat
      /\ \A k \in 1..Len(s) : Append(s, e)[k] = s[k]
      /\ Append(s, e)[Len(s) + 1] = e
  BY <1>1, AppendProperties, LenProperties
<1>3. ASSUME NEW k \in 1..Len(Append(s, e))
      PROVE  \/ k \in 1..Len(s) /\ Append(s, e)[k] = s[k]
             \/ k = Len(s) + 1 /\ Append(s, e)[k] = e
  <2>1. k \in 1..Len(s) \/ k = Len(s) + 1
    BY <1>2
  <2> QED
    BY <2>1, <1>2, Zenon
<1> QED
  BY <1>2, <1>3, Zenon

\* Every step keeps CutInv.
LEMMA NextCut ==
  ASSUME TypeOK, CutInv, [Next]_vars
  PROVE  CutInv'
<1>1. link # "open" => link' # "open"
  BY SendsLink DEF Next, Heart, HeartEnds, HeartBeats, HeartRests, HeartWakes, BumpSeq,
     CheckSeq, ResetSeq, LoadSeq, StoreSeq, Receiver, RecvTop, RecvFails, RecvPacket,
     RecvNothing, SendBody, Main, Login, GetUserList, TalkWithUser, Exit, Stop, CloseSocket,
     Join, Serve, ServeKeepAlive, ServeLogin, ServeUserList, ServeTalk, Take, TimeOut,
     ClientLeft, ServerFails, ServerCloses, Reset, Tick, vars
<1>2. CASE UNCHANGED <<down, cut>>
  BY <1>1, <1>2 DEF CutInv
<1>3. CASE RecvPacket
  <2>1. /\ \A k \in 1..Len(Tail(down)) : k + 1 \in 1..Len(down) /\ Tail(down)[k] = down[k + 1]
    BY <1>3, HeadTailProperties, TypeParts DEF RecvPacket, DownType
  <2>2. UNCHANGED cut /\ down' = Tail(down)
    BY <1>3 DEF RecvPacket, serverVars
  <2> QED
    BY <1>1, <2>1, <2>2 DEF CutInv
<1>4. CASE \E kind, json : Reply(kind, json)
  <2>1. PICK kind, json : Reply(kind, json)
    BY <1>4
  <2> DEFINE r(whole, text) == [kind |-> kind, whole |-> whole, json |-> text]
  <2>2. \/ down' = Append(down, r(TRUE, json)) /\ cut' = cut
        \/ down' = Append(down, r(FALSE, {})) /\ cut' = TRUE
        \/ down' = down /\ cut' = TRUE
    BY <2>1, Zenon DEF Reply
  <2>3. r(TRUE, json).whole
    OBVIOUS
  <2> HIDE DEF r
  <2>4. CASE cut' = TRUE
    BY <2>4 DEF CutInv
  <2>5. CASE down' = Append(down, r(TRUE, json)) /\ cut' = cut
    <3>1. \A k \in 1..Len(down') : \/ k \in 1..Len(down) /\ down'[k] = down[k]
                                   \/ down'[k] = r(TRUE, json)
      BY <2>5, AppendedAt, TypeParts DEF DownType
    <3> QED
      BY <1>1, <2>3, <2>5, <3>1 DEF CutInv
  <2> QED
    BY <2>2, <2>4, <2>5
<1>5. \/ UNCHANGED <<down, cut>>
      \/ RecvPacket
      \/ \E kind, json : Reply(kind, json)
      \/ ServerCloses
  BY DEF Next, Heart, HeartEnds, HeartBeats, HeartRests, HeartWakes, BumpSeq,
     CheckSeq, ResetSeq, LoadSeq, StoreSeq, Receiver, RecvTop, RecvFails,
     RecvNothing, SendBody, Main, Login, GetUserList, TalkWithUser, Choose, Exit, Stop,
     CloseSocket, Join, Serve, ServeKeepAlive, ServeLogin, ServeUserList, ServeTalk, TimeOut,
     ClientLeft, ServerFails, Reset, Tick, vars, serverVars
<1>6. CASE ServerCloses
  BY <1>6 DEF ServerCloses, CutInv
<1> QED
  BY <1>2, <1>3, <1>4, <1>5, <1>6

\* While the server keeps the connection, its client receives, unless a
\* reply was cut, for all users and any number of requests.
THEOREM DeafOnlyAfterCutHolds == Spec => []DeafOnlyAfterCut
<1> DEFINE Inv == TypeOK /\ ThreadsInv /\ CutInv
<1>1. Init => Inv
  BY InitType, InitThreads
<1>2. Inv /\ [Next]_vars => Inv'
  BY NextType, NextThreads, NextCut
<1>3. Inv => DeafOnlyAfterCut
  BY DEF ThreadsInv
<1> QED
  BY <1>1, <1>2, <1>3, PTL DEF Spec

(***************************************************************************)
(* What is on its way to the server.                                       *)
(***************************************************************************)
Packet(kind, seq, user) == [kind |-> kind, seq |-> seq, user |-> user, wait |-> 0]

\* A step puts a packet at the end of what is on its way, takes one from
\* its front, lets the server close, lets a second pass or leaves it alone.
LEMMA UpSteps ==
  ASSUME TypeOK, ThreadsInv, [Next]_vars
  PROVE  \/ up' = up
         \/ /\ link = "open" /\ sock = "open" /\ HeartBeats
            /\ up' = Append(up, Packet("KEEP_ALIVE_REQ", aliveSeq, 0))
         \/ /\ link = "open" /\ sock = "open" /\ ~HeartBeats
            /\ \/ GetUserList /\ up' = Append(up, Packet("GET_USER_LIST_REQ", 0, 0))
               \/ TalkWithUser /\ up' = Append(up, Packet("TALK_WITH_USER_REQ", 0, name))
               \/ \E u \in Users : Login(u) /\ up' = Append(up, Packet("LOGIN_REQ", 0, u))
         \/ link = "open" /\ up # <<>> /\ up' = Tail(up) /\ Serve
         \/ up' = <<>> /\ ServerCloses
         \/ up' = [k \in 1..Len(up) |-> [up[k] EXCEPT !.wait = @ + 1]] /\ Tick
<1> USE DEF Net_Send, Packet
<1>1. CASE Heart
  BY <1>1 DEF Heart, HeartEnds, HeartBeats, HeartRests, HeartWakes, BumpSeq, CheckSeq,
     ResetSeq, LoadSeq, StoreSeq
<1>2. CASE Receiver
  BY <1>2 DEF Receiver, RecvTop, RecvFails, RecvPacket, RecvNothing, SendBody, BumpSeq,
     CheckSeq, ResetSeq, LoadSeq, StoreSeq, ThreadsInv
<1>3. CASE GetUserList \/ TalkWithUser \/ \E u \in Users : Login(u)
  <2>1. ~HeartBeats
    <3>1. pc' = pc
      BY <1>3 DEF GetUserList, TalkWithUser, Login, Choose, threadVars
    <3>2. PcType
      BY TypeParts
    <3> QED
      BY <3>1, <3>2 DEF HeartBeats, Goto, PcType, Threads
  <2> QED
    BY <1>3, <2>1 DEF GetUserList, TalkWithUser, Login
<1>4. CASE Exit \/ Stop \/ Reset \/ UNCHANGED vars
  BY <1>4 DEF Exit, Stop, CloseSocket, Join, Reset, vars
<1>5. CASE Serve
  BY <1>5 DEF Serve, ServeKeepAlive, ServeLogin, ServeUserList, ServeTalk, Take
<1>6. CASE TimeOut \/ ClientLeft \/ ServerFails
  BY <1>6 DEF TimeOut, ClientLeft, ServerFails, ServerCloses
<1>7. CASE Tick
  BY <1>7 DEF Tick
<1> QED
  BY <1>1, <1>2, <1>3, <1>4, <1>5, <1>6, <1>7 DEF Next, Main

\* The elements of what the server leaves.
LEMMA TailAt ==
  ASSUME TypeOK, up # <<>>
  PROVE  /\ Head(up) = up[1] /\ 1 \in 1..Len(up) /\ Len(Tail(up)) = Len(up) - 1
         /\ \A k \in 1..Len(Tail(up)) : k + 1 \in 1..Len(up) /\ Tail(up)[k] = up[k + 1]
         /\ \A k \in 1..Len(up) : k # 1 => k - 1 \in 1..Len(Tail(up)) /\ Tail(up)[k - 1] = up[k]
<1>1. up \in Seq(Packets)
  BY TypeParts DEF UpType
<1> QED
  BY <1>1, HeadTailProperties

\* The elements of what was there when a second passes.
LEMMA TickAt ==
  ASSUME TypeOK, Tick
  PROVE  /\ Len(up') = Len(up)
         /\ \A k \in 1..Len(up) : /\ up'[k].kind = up[k].kind /\ up'[k].seq = up[k].seq
                                  /\ up'[k].user = up[k].user /\ up'[k].wait = up[k].wait + 1
<1>1. up \in Seq(Packets) /\ Len(up) \in Nat
  BY TypeParts DEF UpType
<1>2. up' = [k \in 1..Len(up) |-> [up[k] EXCEPT !.wait = @ + 1]]
  BY DEF Tick
<1>3. Len(up') = Len(up)
  BY <1>1, <1>2
<1>4. ASSUME NEW k \in 1..Len(up)
      PROVE  /\ up'[k].kind = up[k].kind /\ up'[k].seq = up[k].seq
             /\ up'[k].user = up[k].user /\ up'[k].wait = up[k].wait + 1
  <2>1. up[k] \in Packets /\ up'[k] = [up[k] EXCEPT !.wait = @ + 1]
    BY <1>1, <1>2
  <2> QED
    BY <2>1 DEF Packets
<1> QED
  BY <1>3, <1>4

\* Every step keeps the packets whole.
LEMMA NextPieces ==
  ASSUME TypeOK, ThreadsInv, NoPiecesSent, [Next]_vars
  PROVE  NoPiecesSent'
<1> USE DEF NoPiecesSent
<1>1. up \in Seq(Packets)
  BY TypeParts DEF UpType
<1>2. ASSUME NEW kind, NEW seq, NEW user, kind \notin {"header", "body"},
             up' = Append(up, Packet(kind, seq, user))
      PROVE  NoPiecesSent'
  <2>1. Packet(kind, seq, user).kind = kind
    BY DEF Packet
  <2> QED
    BY <1>1, <1>2, <2>1, AppendedAt
<1>3. CASE up' = Tail(up) /\ up # <<>>
  BY <1>3, TailAt
<1>4. CASE Tick
  BY <1>4, TickAt
<1>5. CASE up' = <<>> \/ up' = up
  BY <1>5, EmptySeq
<1> QED
  BY <1>2, <1>3, <1>4, <1>5, UpSteps

\* Nothing but whole packets is read by the server, whichever threads send.
THEOREM NoPiecesSentHolds == Spec => []NoPiecesSent
<1> DEFINE Inv == TypeOK /\ ThreadsInv /\ CutInv /\ NoPiecesSent
<1>1. Init => Inv
  BY InitType, InitThreads DEF Init, NoPiecesSent
<1>2. Inv /\ [Next]_vars => Inv'
  BY NextType, NextThreads, NextCut, NextPieces
<1> QED
  BY <1>1, <1>2, PTL DEF Spec

(***************************************************************************)
(* Time: the server's timer is no older than the client's, or a keep-alive *)
(* is on its way that was sent when it was not.                            *)
(***************************************************************************)
HeartInv ==
  /\ slept <= MaxSleep
  /\ pc["heart"] = "sleep" => beat <= Every + slept
  /\ pc["heart"] = "top" => beat <= Every + MaxSleep
  /\ pc["heart"] \in Sending => beat = 0
WaitInv == \A k \in 1..Len(up) : up[k].wait <= Delay
OnItsWay ==
  \E k \in 1..Len(up) : up[k].kind = "KEEP_ALIVE_REQ" /\ age <= Every + MaxSleep + up[k].wait
FreshInv == link = "open" /\ ~exit => age <= beat \/ OnItsWay

\* They hold at first.
LEMMA InitTime == Init => HeartInv /\ WaitInv /\ FreshInv
BY TimingAssumption DEF Init, HeartInv, WaitInv, FreshInv, Threads, Sending

\* threadSendHeart keeps the time.
LEMMA NextHeart ==
  ASSUME TypeOK, HeartInv, [Next]_vars
  PROVE  HeartInv'
<1> USE TimingAssumption DEF HeartInv
<1>1. PcType /\ ClockType
  BY TypeParts
<1> DEFINE h == pc'["heart"]
<1>2. CASE HeartEnds \/ HeartBeats \/ HeartRests \/ HeartWakes
  <2>1. \/ h = "done" /\ UNCHANGED <<beat, slept>>
        \/ h = "check" /\ beat' = 0 /\ UNCHANGED slept
        \/ h = "sleep" /\ beat <= Every /\ UNCHANGED beat /\ slept' = 0
        \/ h = "top" /\ pc["heart"] = "sleep" /\ UNCHANGED <<beat, slept>>
    BY <1>1, <1>2 DEF HeartEnds, HeartBeats, HeartRests, HeartWakes, Goto, PcType, Threads,
       clockVars
  <2> HIDE DEF h
  <2>2. /\ slept' <= MaxSleep /\ (h = "sleep" => beat' <= Every + slept')
        /\ (h = "top" => beat' <= Every + MaxSleep) /\ (h \in Sending => beat' = 0)
    BY <1>1, <2>1 DEF ClockType, Sending
  <2> QED
    BY <2>2 DEF h
<1>3. CASE BumpSeq("heart")
  <2>1. \/ h \in Sending /\ pc["heart"] \in Sending /\ UNCHANGED <<beat, slept>>
        \/ h = "sleep" /\ pc["heart"] \in Sending /\ UNCHANGED beat /\ slept' = 0
    BY <1>1, <1>3 DEF BumpSeq, CheckSeq, ResetSeq, LoadSeq, StoreSeq, Goto, PcType, Threads,
       Sending, clockVars
  <2> HIDE DEF h
  <2>2. /\ slept' <= MaxSleep /\ (h = "sleep" => beat' <= Every + slept')
        /\ (h = "top" => beat' <= Every + MaxSleep) /\ (h \in Sending => beat' = 0)
    BY <1>1, <2>1 DEF ClockType, Sending
  <2> QED
    BY <2>2 DEF h
<1>4. CASE Receiver \/ Main \/ Stop
  <2>1. UNCHANGED <<beat, slept>>
    BY <1>4 DEF Receiver, RecvTop, RecvFails, RecvPacket, RecvNothing, SendBody, BumpSeq,
       CheckSeq, ResetSeq, LoadSeq, StoreSeq, Main, Login, GetUserList, TalkWithUser, Choose,
       Exit, Stop, CloseSocket, Join, clockVars
  <2>2. pc'["heart"] = pc["heart"]
    BY <1>1, <1>4 DEF Receiver, RecvTop, RecvFails, RecvPacket, RecvNothing, SendBody, BumpSeq,
       CheckSeq, ResetSeq, LoadSeq, StoreSeq, Main, Login, GetUserList, TalkWithUser, Choose,
       Exit, Stop, CloseSocket, Join, Goto, PcType, Threads, threadVars
  <2> QED
    BY <2>1, <2>2
<1>5. CASE Serve \/ TimeOut \/ ClientLeft \/ ServerFails \/ Reset \/ UNCHANGED vars
  BY <1>5 DEF Serve, ServeKeepAlive, ServeLogin, ServeUserList, ServeTalk, Take, TimeOut,
     ClientLeft, ServerFails, ServerCloses, Reset, vars, threadVars, clockVars
<1>6. CASE Tick
  BY <1>1, <1>6, SMTT(60) DEF Tick, ClockType, threadVars, Sending
<1> QED
  BY <1>2, <1>3, <1>4, <1>5, <1>6 DEF Next, Heart

\* What was sent is read in time.
LEMMA NextWait ==
  ASSUME TypeOK, ThreadsInv, WaitInv, [Next]_vars
  PROVE  WaitInv'
<1> USE DEF WaitInv
<1>1. up \in Seq(Packets) /\ Len(up) \in Nat
  BY TypeParts DEF UpType
<1>2. ASSUME NEW kind, NEW seq, NEW user, up' = Append(up, Packet(kind, seq, user))
      PROVE  WaitInv'
  <2>1. Packet(kind, seq, user).wait <= Delay
    BY TimingAssumption DEF Packet
  <2> QED
    BY <1>1, <1>2, <2>1, AppendedAt
<1>3. CASE up' = Tail(up) /\ up # <<>>
  BY <1>3, TailAt
<1>4. CASE Tick
  <2>1. \A k \in 1..Len(up) : up[k].wait + 1 <= Delay
    <3>1. \A k \in 1..Len(up) : up[k].wait < Delay /\ up[k] \in Packets
      BY <1>1, <1>4 DEF Tick
    <3> QED
      BY <3>1, TimingAssumption DEF Packets
  <2> QED
    BY <1>4, <2>1, TickAt
<1>5. CASE up' = <<>> \/ up' = up
  BY <1>5, EmptySeq
<1> QED
  BY <1>2, <1>3, <1>4, <1>5, UpSteps

\* The timer of the server stays young enough.
LEMMA NextFresh ==
  ASSUME TypeOK, TypeOK', ThreadsInv, HeartInv, FreshInv, [Next]_vars
  PROVE  FreshInv'
<1> SUFFICES ASSUME link' = "open", ~exit'
             PROVE  age' <= beat' \/ OnItsWay'
  BY DEF FreshInv
<1>1. ClockType /\ ClockType' /\ up \in Seq(Packets) /\ Len(up) \in Nat
  BY TypeParts, TypePartsNext DEF UpType
<1>2. link = "open"
  BY SendsLink DEF Next, Heart, HeartEnds, HeartBeats, HeartRests, HeartWakes, BumpSeq,
     CheckSeq, ResetSeq, LoadSeq, StoreSeq, Receiver, RecvTop, RecvFails, RecvPacket,
     RecvNothing, SendBody, Main, Login, GetUserList, TalkWithUser, Exit, Stop, CloseSocket,
     Join, Serve, ServeKeepAlive, ServeLogin, ServeUserList, ServeTalk, Take, TimeOut,
     ClientLeft, ServerFails, ServerCloses, Reset, Tick, vars
<1>3. ~exit
  BY DEF Next, Heart, HeartEnds, HeartBeats, HeartRests, HeartWakes, BumpSeq,
     CheckSeq, ResetSeq, LoadSeq, StoreSeq, Receiver, RecvTop, RecvFails, RecvPacket,
     RecvNothing, SendBody, Main, Login, GetUserList, TalkWithUser, Choose, Exit, Stop,
     CloseSocket, Join, Serve, ServeKeepAlive, ServeLogin, ServeUserList, ServeTalk, Take,
     TimeOut, ClientLeft, ServerFails, ServerCloses, Reset, Tick, vars, threadVars
<1>4. age <= beat \/ OnItsWay
  BY <1>2, <1>3 DEF FreshInv
<1>5. ASSUME NEW p, up' = Append(up, p), OnItsWay, age' = age
      PROVE  OnItsWay'
  BY <1>1, <1>5, AppendedAt DEF OnItsWay
<1>6. CASE HeartBeats
  <2>1. sock = "open" /\ Net_Send("KEEP_ALIVE_REQ", aliveSeq, 0) /\ age' = age
    BY <1>3, <1>6, TypeParts DEF ThreadsInv, SharedType, HeartBeats
  <2> DEFINE p == Packet("KEEP_ALIVE_REQ", aliveSeq, 0)
  <2>2. up' = Append(up, p)
    BY <1>2, <2>1 DEF Net_Send, Packet
  <2>3. CASE OnItsWay
    BY <1>5, <2>1, <2>2, <2>3
  <2>4. CASE age <= beat
    <3>1. age <= Every + MaxSleep /\ age \in Nat
      BY <1>1, <1>6, <2>4, TimingAssumption DEF HeartInv, HeartBeats, ClockType
    <3>2. p.kind = "KEEP_ALIVE_REQ" /\ p.wait = 0
      BY DEF Packet
    <3> HIDE DEF p
    <3>3. Len(up') = Len(up) + 1 /\ up'[Len(up) + 1] = p
      BY <1>1, <2>2, AppendedAt
    <3>4. Len(up) + 1 \in 1..Len(up') /\ age' <= Every + MaxSleep + p.wait
      BY <1>1, <2>1, <3>1, <3>2, <3>3, TimingAssumption
    <3> QED
      BY <3>2, <3>3, <3>4 DEF OnItsWay
  <2> QED
    BY <1>4, <2>3, <2>4
<1>7. CASE ServeKeepAlive
  BY <1>1, <1>7 DEF ServeKeepAlive, ClockType
<1>8. CASE Tick
  <2>1. pc["heart"] = "sleep" /\ beat' = beat + 1 /\ age' <= age + 1
    BY <1>1, <1>2, <1>3, <1>8, TimingAssumption, SMTT(60) DEF Tick, ThreadsInv, Lesser, ClockType
  <2>2. CASE age <= beat
    BY <1>1, <2>1, <2>2 DEF ClockType
  <2>3. CASE OnItsWay
    <3>1. PICK k \in 1..Len(up) :
            up[k].kind = "KEEP_ALIVE_REQ" /\ age <= Every + MaxSleep + up[k].wait
      BY <2>3 DEF OnItsWay
    <3>2. up'[k].kind = "KEEP_ALIVE_REQ" /\ up'[k].wait = up[k].wait + 1 /\ k \in 1..Len(up')
      BY <1>8, <3>1, TickAt
    <3>3. up[k].wait \in Nat
      <4>1. up[k] \in Packets
        BY <1>1, ElementOfSeq
      <4> QED
        BY <4>1 DEF Packets
    <3>4. age' <= Every + MaxSleep + up'[k].wait
      BY <1>1, <2>1, <3>1, <3>2, <3>3, TimingAssumption DEF ClockType
    <3> QED
      BY <3>2, <3>4 DEF OnItsWay
  <2> QED
    BY <1>4, <2>2, <2>3
<1>9. CASE Serve /\ ~ServeKeepAlive
  <2>1. up # <<>> /\ up' = Tail(up) /\ Head(up).kind # "KEEP_ALIVE_REQ" /\ UNCHANGED <<age, beat>>
    BY <1>9 DEF Serve, ServeLogin, ServeUserList, ServeTalk, Take
  <2>2. CASE OnItsWay
    <3>1. PICK k \in 1..Len(up) :
            up[k].kind = "KEEP_ALIVE_REQ" /\ age <= Every + MaxSleep + up[k].wait
      BY <2>2 DEF OnItsWay
    <3>2. k - 1 \in 1..Len(up') /\ up'[k - 1] = up[k]
      BY <2>1, <3>1, TailAt
    <3> QED
      BY <2>1, <3>1, <3>2 DEF OnItsWay
  <2> QED
    BY <1>4, <2>1, <2>2
<1>10. CASE ~HeartBeats /\ ~Serve /\ ~Tick
  <2>1. UNCHANGED <<age, beat>>
    BY <1>2, <1>10 DEF Next, Heart, HeartEnds, HeartRests, HeartWakes, BumpSeq, CheckSeq,
       ResetSeq, LoadSeq, StoreSeq, Receiver, RecvTop, RecvFails, RecvPacket, RecvNothing,
       SendBody, Main, Login, GetUserList, TalkWithUser, Choose, Exit, Stop, CloseSocket, Join,
       TimeOut, ClientLeft, ServerFails, ServerCloses, Reset, vars, clockVars
  <2>2. up' = up \/ \E p : up' = Append(up, p)
    BY <1>2, <1>10, UpSteps DEF ServerCloses
  <2>3. CASE up' = up
    BY <1>4, <2>1, <2>3 DEF OnItsWay
  <2> QED
    BY <1>4, <1>5, <2>1, <2>2, <2>3
<1> QED
  BY <1>6, <1>7, <1>8, <1>9, <1>10

\* The server does not time out a client that is not stopping, for every
\* period, sleep, delay and timeout that fit together.
THEOREM NotTimedOutHolds == Spec => []NotTimedOut
<1> DEFINE Inv == /\ TypeOK /\ ThreadsInv /\ CutInv
                  /\ HeartInv /\ WaitInv /\ FreshInv
<1>1. Init => Inv
  BY InitType, InitThreads, InitTime
<1>2. Inv /\ [Next]_vars => Inv'
  BY NextType, NextThreads, NextCut, NextHeart, NextWait, NextFresh
<1>3. Inv => NotTimedOut
  <2> SUFFICES ASSUME Inv, link = "open", ~exit PROVE age <= Timeout
    BY DEF NotTimedOut
  <2>1. PcType /\ ClockType /\ up \in Seq(Packets)
    BY TypeParts DEF UpType
  <2>2. beat <= Every + MaxSleep
    <3>1. pc["heart"] \in {"sleep", "top"} \cup Sending
      BY <2>1 DEF ThreadsInv, PcType
    <3> QED
      BY <2>1, <3>1, TimingAssumption DEF HeartInv, ClockType
  <2>3. CASE age <= beat
    BY <2>1, <2>2, <2>3, TimingAssumption DEF ClockType
  <2>4. CASE OnItsWay
    <3>1. PICK k \in 1..Len(up) : age <= Every + MaxSleep + up[k].wait
      BY <2>4 DEF OnItsWay
    <3>2. up[k] \in Packets
      BY <2>1, ElementOfSeq
    <3>3. up[k].wait \in Nat /\ up[k].wait <= Delay
      BY <3>2 DEF WaitInv, Packets
    <3> QED
      BY <2>1, <3>1, <3>3, <3>2, TimingAssumption DEF ClockType
  <2> QED
    BY <2>3, <2>4 DEF FreshInv
<1> QED
  BY <1>1, <1>2, <1>3, PTL DEF Spec

(***************************************************************************)
(* The sequence numbers: the one the server has read last, those on their  *)
(* way, and the one that is sent next follow one another.                  *)
(***************************************************************************)
IsBeat(s, k) == k = 0 \/ s[k].kind = "KEEP_ALIVE_REQ"
SeqAt(s, r, k) == IF k = 0 THEN r ELSE s[k].seq
\* After r, the keep-alives of s follow one another ...
Chained(s, r) ==
  \A j, k \in 0..Len(s) :
    j < k /\ IsBeat(s, j) /\ IsBeat(s, k) /\ (\A m \in (j + 1)..(k - 1) : ~IsBeat(s, m)) =>
      SeqAt(s, r, k) = NextSeq(SeqAt(s, r, j))
\* ... up to n.
Ends(s, r, n) ==
  \E k \in 0..Len(s) :
    /\ IsBeat(s, k) /\ \A m \in (k + 1)..Len(s) : ~IsBeat(s, m)
    /\ n = SeqAt(s, r, k)
\* threadSendHeart, after it has sent n.
Latest(n) ==
  /\ pc["heart"] \in {"top", "sleep", "done"} => aliveSeq = NextSeq(n)
  /\ pc["heart"] = "check" => aliveSeq = n
  /\ pc["heart"] = "reset" => n > SeqMax
  /\ pc["heart"] = "load" => aliveSeq = IF n > SeqMax THEN 0 ELSE n
  /\ pc["heart"] = "store" => reg["heart"] = IF n > SeqMax THEN 0 ELSE n
SeqInv ==
  link = "open" => /\ Chained(up, seqRead)
                   /\ \A n \in -1..(Word - 1) : Ends(up, seqRead, n) => Latest(n)

\* A packet that is no keep-alive changes nothing.
LEMMA ChainOther ==
  ASSUME NEW s \in Seq(Packets), NEW p, p.kind # "KEEP_ALIVE_REQ", NEW r
  PROVE  /\ Chained(s, r) => Chained(Append(s, p), r)
         /\ \A n : Ends(Append(s, p), r, n) => Ends(s, r, n)
<1> DEFINE t == Append(s, p)
<1>1. /\ Len(t) = Len(s) + 1 /\ Len(s) \in Nat
      /\ \A k \in 1..Len(s) : t[k] = s[k] /\ t[Len(s) + 1] = p
  BY AppendedAt
<1>2. ~IsBeat(t, Len(t))
  BY <1>1 DEF IsBeat
<1>3. \A k \in 0..Len(s) : (IsBeat(t, k) <=> IsBeat(s, k)) /\ SeqAt(t, r, k) = SeqAt(s, r, k)
  BY <1>1 DEF IsBeat, SeqAt
<1>4. \A k \in 0..Len(t) : IsBeat(t, k) => k \in 0..Len(s)
  BY <1>1, <1>2
<1> HIDE DEF t
<1>5. ASSUME Chained(s, r) PROVE Chained(t, r)
  <2>1. SUFFICES ASSUME NEW j \in 0..Len(t), NEW k \in 0..Len(t), j < k, IsBeat(t, j),
                        IsBeat(t, k), \A m \in (j + 1)..(k - 1) : ~IsBeat(t, m)
                 PROVE  SeqAt(t, r, k) = NextSeq(SeqAt(t, r, j))
    BY DEF Chained
  <2>2. j \in 0..Len(s) /\ k \in 0..Len(s) /\ IsBeat(s, j) /\ IsBeat(s, k)
    BY <1>3, <1>4, <2>1
  <2>3. \A m \in (j + 1)..(k - 1) : ~IsBeat(s, m)
    BY <1>1, <1>3, <2>1, <2>2
  <2>4. SeqAt(s, r, k) = NextSeq(SeqAt(s, r, j))
    BY <1>5, <2>1, <2>2, <2>3 DEF Chained
  <2> QED
    BY <1>3, <2>2, <2>4
<1>6. ASSUME NEW n, Ends(t, r, n) PROVE Ends(s, r, n)
  <2>1. PICK k \in 0..Len(t) : /\ IsBeat(t, k) /\ \A m \in (k + 1)..Len(t) : ~IsBeat(t, m)
                               /\ n = SeqAt(t, r, k)
    BY <1>6 DEF Ends
  <2>2. k \in 0..Len(s) /\ IsBeat(s, k) /\ n = SeqAt(s, r, k)
    BY <1>3, <1>4, <2>1
  <2>3. \A m \in (k + 1)..Len(s) : ~IsBeat(s, m)
    BY <1>1, <1>3, <2>1, <2>2
  <2> QED
    BY <2>2, <2>3 DEF Ends
<1> QED
  BY <1>5, <1>6 DEF t

\* A keep-alive with the next number prolongs the chain.
LEMMA ChainBeat ==
  ASSUME NEW s \in Seq(Packets), NEW p, p.kind = "KEEP_ALIVE_REQ", NEW r,
         Chained(s, r), \A n : Ends(s, r, n) => p.seq = NextSeq(n)
  PROVE  /\ Chained(Append(s, p), r)
         /\ \A n : Ends(Append(s, p), r, n) => n = p.seq
<1> DEFINE t == Append(s, p)
<1>1. /\ Len(t) = Len(s) + 1 /\ Len(s) \in Nat
      /\ \A k \in 1..Len(s) : t[k] = s[k]
      /\ t[Len(s) + 1] = p
  BY AppendedAt
<1>2. IsBeat(t, Len(t)) /\ SeqAt(t, r, Len(t)) = p.seq
  BY <1>1 DEF IsBeat, SeqAt
<1>3. \A k \in 0..Len(s) : (IsBeat(t, k) <=> IsBeat(s, k)) /\ SeqAt(t, r, k) = SeqAt(s, r, k)
  BY <1>1 DEF IsBeat, SeqAt
<1> HIDE DEF t
<1>4. Chained(t, r)
  <2>1. SUFFICES ASSUME NEW j \in 0..Len(t), NEW k \in 0..Len(t), j < k, IsBeat(t, j),
                        IsBeat(t, k), \A m \in (j + 1)..(k - 1) : ~IsBeat(t, m)
                 PROVE  SeqAt(t, r, k) = NextSeq(SeqAt(t, r, j))
    BY DEF Chained
  <2>2. j \in 0..Len(s) /\ IsBeat(s, j) /\ \A m \in (j + 1)..(k - 1) : ~IsBeat(s, m)
    BY <1>1, <1>3, <2>1
  <2>3. CASE k \in 0..Len(s)
    BY <1>3, <2>1, <2>2, <2>3 DEF Chained
  <2>4. CASE k = Len(t)
    <3>1. \A m \in (j + 1)..Len(s) : ~IsBeat(s, m)
      BY <1>1, <2>2, <2>4
    <3>2. Ends(s, r, SeqAt(s, r, j))
      BY <2>2, <3>1 DEF Ends
    <3> QED
      BY <1>2, <1>3, <2>2, <2>4, <3>2
  <2> QED
    BY <1>1, <2>3, <2>4
<1>5. ASSUME NEW n, Ends(t, r, n) PROVE n = p.seq
  <2>1. PICK k \in 0..Len(t) : /\ IsBeat(t, k) /\ \A m \in (k + 1)..Len(t) : ~IsBeat(t, m)
                               /\ n = SeqAt(t, r, k)
    BY <1>5 DEF Ends
  <2>2. k = Len(t)
    BY <1>1, <1>2, <2>1
  <2> QED
    BY <1>2, <2>1, <2>2
<1> QED
  BY <1>4, <1>5 DEF t

\* Taking the first packet leaves the chain that starts with it.
LEMMA ChainTail ==
  ASSUME NEW s \in Seq(Packets), s # <<>>, NEW r, Chained(s, r),
         NEW q, q = IF IsBeat(s, 1) THEN s[1].seq ELSE r
  PROVE  /\ IsBeat(s, 1) => q = NextSeq(r)
         /\ Chained(Tail(s), q)
         /\ \A n : Ends(Tail(s), q, n) => Ends(s, r, n)
<1> DEFINE t == Tail(s)
           back(k) == IF k = 0 /\ ~IsBeat(s, 1) THEN 0 ELSE k + 1
<1>1. /\ Len(t) = Len(s) - 1 /\ Len(s) \in Nat /\ Len(s) > 0
      /\ \A k \in 1..Len(t) : t[k] = s[k + 1]
  BY HeadTailProperties, EmptySeq
<1>2. IsBeat(s, 1) => q = NextSeq(r)
  <2> SUFFICES ASSUME IsBeat(s, 1) PROVE q = NextSeq(r)
    OBVIOUS
  <2>1. 0 \in 0..Len(s) /\ 1 \in 0..Len(s) /\ IsBeat(s, 0)
    BY <1>1 DEF IsBeat
  <2>2. SeqAt(s, r, 1) = NextSeq(SeqAt(s, r, 0))
    BY <2>1 DEF Chained
  <2> QED
    BY <2>2 DEF SeqAt
<1>3. \A k \in 1..Len(t) : (IsBeat(t, k) <=> IsBeat(s, k + 1)) /\ SeqAt(t, q, k) = SeqAt(s, r, k + 1)
  BY <1>1 DEF IsBeat, SeqAt
<1>4. IsBeat(s, back(0)) /\ IsBeat(t, 0) /\ SeqAt(t, q, 0) = SeqAt(s, r, back(0))
  BY DEF IsBeat, SeqAt
<1>5. \A k \in Nat : back(k) = k + 1 \/ (k = 0 /\ back(k) = 0 /\ ~IsBeat(s, 1))
  OBVIOUS
<1> HIDE DEF t
<1>6. \A k \in 0..Len(t) : /\ back(k) \in 0..Len(s) /\ SeqAt(t, q, k) = SeqAt(s, r, back(k))
                           /\ (IsBeat(t, k) <=> IsBeat(s, back(k)))
  BY <1>1, <1>3, <1>4
<1> HIDE DEF back
<1>7. ASSUME NEW j \in 0..Len(t), NEW k \in 1..(Len(t) + 1),
             \A m \in (j + 1)..(k - 1) : ~IsBeat(t, m)
      PROVE  \A m \in (back(j) + 1)..k : ~IsBeat(s, m)
  <2> SUFFICES ASSUME NEW m \in (back(j) + 1)..k PROVE ~IsBeat(s, m)
    OBVIOUS
  <2>1. Len(t) \in Nat /\ j \in Nat /\ back(j) \in Nat /\ m \in Nat \ {0}
    BY <1>1, <1>6
  <2>2. CASE m = 1
    BY <1>5, <2>1, <2>2
  <2>3. CASE m # 1
    <3>1. back(j) = j + 1 \/ (j = 0 /\ back(j) = 0)
      BY <1>5, <2>1, Zenon
    <3>2. m \in Int /\ k \in Int /\ back(j) + 1 <= m /\ m <= k /\ m >= 2 /\ k <= Len(t) + 1
      BY <2>1, <2>3
    <3>3. m - 1 >= j + 1 /\ m - 1 <= k - 1 /\ m - 1 >= 1 /\ m - 1 <= Len(t) /\ (m - 1) + 1 = m
      BY <2>1, <3>1, <3>2
    <3>4. m - 1 \in (j + 1)..(k - 1) /\ m - 1 \in 1..Len(t)
      BY <2>1, <3>2, <3>3
    <3>5. IsBeat(t, m - 1) <=> IsBeat(s, (m - 1) + 1)
      BY <3>4, <1>3
    <3>6. ~IsBeat(t, m - 1)
      BY <3>4, <1>7
    <3> QED
      BY <3>3, <3>5, <3>6
  <2> QED
    BY <2>2, <2>3
<1>8. Chained(t, q)
  <2>1. SUFFICES ASSUME NEW j \in 0..Len(t), NEW k \in 0..Len(t), j < k, IsBeat(t, j),
                        IsBeat(t, k), \A m \in (j + 1)..(k - 1) : ~IsBeat(t, m)
                 PROVE  SeqAt(t, q, k) = NextSeq(SeqAt(t, q, j))
    BY DEF Chained
  <2>2. back(k) = k + 1 /\ k \in 1..(Len(t) + 1) /\ back(j) < back(k)
    <3>1. j \in Nat /\ k \in Nat /\ k # 0 /\ Len(t) \in Nat /\ k <= Len(t)
      BY <1>1, <2>1
    <3>2. back(k) = k + 1 /\ (back(j) = j + 1 \/ back(j) = 0)
      BY <1>5, <3>1, Zenon
    <3> QED
      BY <2>1, <3>1, <3>2
  <2>3. \A m \in (back(j) + 1)..(back(k) - 1) : ~IsBeat(s, m)
    BY <1>7, <2>1, <2>2
  <2>4. SeqAt(s, r, back(k)) = NextSeq(SeqAt(s, r, back(j)))
    BY <1>6, <2>1, <2>2, <2>3 DEF Chained
  <2> QED
    BY <1>6, <2>1, <2>4
<1>9. ASSUME NEW n, Ends(t, q, n) PROVE Ends(s, r, n)
  <2>1. PICK k \in 0..Len(t) : /\ IsBeat(t, k) /\ \A m \in (k + 1)..Len(t) : ~IsBeat(t, m)
                               /\ n = SeqAt(t, q, k)
    BY <1>9 DEF Ends
  <2>2. Len(t) + 1 = Len(s) /\ Len(t) + 1 \in 1..(Len(t) + 1) /\ (Len(t) + 1) - 1 = Len(t)
    BY <1>1
  <2>3. \A m \in (back(k) + 1)..Len(s) : ~IsBeat(s, m)
    BY <1>7, <2>1, <2>2
  <2> QED
    BY <1>6, <2>1, <2>3 DEF Ends
<1> QED
  BY <1>2, <1>8, <1>9 DEF t

\* A second that passes changes nothing.
LEMMA ChainSame ==
  ASSUME NEW s, NEW t, NEW r, Len(t) = Len(s),
         \A k \in 1..Len(s) : t[k].kind = s[k].kind /\ t[k].seq = s[k].seq, Len(s) \in Nat
  PROVE  /\ Chained(s, r) => Chained(t, r)
         /\ \A n : Ends(t, r, n) => Ends(s, r, n)
<1>1. \A k \in 0..Len(s) : (IsBeat(t, k) <=> IsBeat(s, k)) /\ SeqAt(t, r, k) = SeqAt(s, r, k)
  BY DEF IsBeat, SeqAt
<1>2. ASSUME Chained(s, r) PROVE Chained(t, r)
  <2>1. SUFFICES ASSUME NEW j \in 0..Len(t), NEW k \in 0..Len(t), j < k, IsBeat(t, j),
                        IsBeat(t, k), \A m \in (j + 1)..(k - 1) : ~IsBeat(t, m)
                 PROVE  SeqAt(t, r, k) = NextSeq(SeqAt(t, r, j))
    BY DEF Chained
  <2>2. IsBeat(s, j) /\ IsBeat(s, k) /\ \A m \in (j + 1)..(k - 1) : ~IsBeat(s, m)
    BY <1>1, <2>1
  <2> QED
    BY <1>1, <1>2, <2>1, <2>2 DEF Chained
<1>3. ASSUME NEW n, Ends(t, r, n) PROVE Ends(s, r, n)
  <2>1. PICK k \in 0..Len(t) : /\ IsBeat(t, k) /\ \A m \in (k + 1)..Len(t) : ~IsBeat(t, m)
                               /\ n = SeqAt(t, r, k)
    BY <1>3 DEF Ends
  <2>2. IsBeat(s, k) /\ \A m \in (k + 1)..Len(s) : ~IsBeat(s, m)
    BY <1>1, <2>1
  <2> QED
    BY <1>1, <2>1, <2>2 DEF Ends
<1> QED
  BY <1>2, <1>3

\* A chain ends with a sequence number.
LEMMA EndsType ==
  ASSUME NEW s \in Seq(Packets), NEW r \in -1..(Word - 1), NEW n, Ends(s, r, n)
  PROVE  n \in -1..(Word - 1)
<1>1. PICK k \in 0..Len(s) : n = SeqAt(s, r, k)
  BY DEF Ends
<1>2. CASE k = 0
  BY <1>1, <1>2 DEF SeqAt
<1>3. CASE k # 0
  <2>1. s[k] \in Packets
    BY <1>3, ElementOfSeq, LenProperties
  <2>2. s[k].seq \in 0..(Word - 1)
    BY <2>1 DEF Packets
  <2> QED
    BY <1>1, <1>3, <2>2, ClientAssumption DEF SeqAt
<1> QED
  BY <1>2, <1>3

\* threadSendHeart after a keep-alive: the number is advanced.
LEMMA LatestBump ==
  ASSUME TypeOK, ThreadsInv, NEW n \in -1..(Word - 1), Latest(n),
         HeartEnds \/ HeartRests \/ HeartWakes \/ BumpSeq("heart")
  PROVE  Latest(n)'
<1>1. PcType /\ SharedType
  BY TypeParts
<1>2. CASE HeartEnds \/ HeartRests \/ HeartWakes
  BY <1>1, <1>2 DEF HeartEnds, HeartRests, HeartWakes, Latest, Goto, PcType, Threads, seqVars
<1>3. CASE CheckSeq("heart") \/ ResetSeq("heart") \/ LoadSeq("heart")
  BY <1>1, <1>3 DEF CheckSeq, ResetSeq, LoadSeq, Latest, Goto, PcType, SharedType, Threads,
     seqVars
<1>4. CASE StoreSeq("heart")
  <2>1. pc["heart"] = "store" /\ pc'["heart"] = "sleep" /\ aliveSeq' = (reg["heart"] + 1) % Word
    BY <1>1, <1>4 DEF StoreSeq, Goto, PcType, Threads
  <2>2. reg["heart"] = IF n > SeqMax THEN 0 ELSE n
    BY <2>1 DEF Latest
  <2>3. reg["heart"] \in Nat /\ reg["heart"] + 1 < Word
    BY <1>1, <2>2, ClientAssumption DEF SharedType, Threads
  <2>4. \A m \in Nat : m < Word => m % Word = m
    BY ClientAssumption
  <2>5. aliveSeq' = reg["heart"] + 1
    BY <2>1, <2>3, <2>4
  <2> QED
    BY <2>1, <2>2, <2>5 DEF Latest, NextSeq
<1> QED
  BY <1>2, <1>3, <1>4 DEF BumpSeq

\* It holds at first.
LEMMA InitSeq == Init => SeqInv
<1> SUFFICES ASSUME Init PROVE SeqInv
  OBVIOUS
<1>1. Len(up) = 0 /\ 0..Len(up) = {0}
  BY EmptySeq DEF Init
<1>2. Latest(-1)
  BY ClientAssumption DEF Init, Latest, Threads, NextSeq
<1>3. seqRead = -1
  BY DEF Init
<1>4. Chained(up, seqRead)
  BY <1>1 DEF Chained
<1>5. \A n : Ends(up, seqRead, n) => n = -1
  BY <1>1, <1>3 DEF Ends, SeqAt
<1> QED
  BY <1>2, <1>4, <1>5 DEF SeqInv

\* Every step keeps SeqInv.
LEMMA NextSeqInv ==
  ASSUME TypeOK, TypeOK', ThreadsInv, SeqInv, [Next]_vars
  PROVE  SeqInv'
<1> SUFFICES ASSUME link' = "open"
             PROVE  /\ Chained(up', seqRead')
                    /\ \A n \in -1..(Word - 1) : Ends(up', seqRead', n) => Latest(n)'
  BY DEF SeqInv
<1>1. up \in Seq(Packets) /\ Len(up) \in Nat /\ PcType /\ SharedType
  BY TypeParts DEF UpType
<1>2. link = "open" /\ ~ServerCloses
  BY SendsLink DEF Next, Heart, HeartEnds, HeartBeats, HeartRests, HeartWakes, BumpSeq,
     CheckSeq, ResetSeq, LoadSeq, StoreSeq, Receiver, RecvTop, RecvFails, RecvPacket,
     RecvNothing, SendBody, Main, Login, GetUserList, TalkWithUser, Exit, Stop, CloseSocket,
     Join, Serve, ServeKeepAlive, ServeLogin, ServeUserList, ServeTalk, Take, TimeOut,
     ClientLeft, ServerFails, ServerCloses, Reset, Tick, vars
<1>3. Chained(up, seqRead) /\ \A n \in -1..(Word - 1) : Ends(up, seqRead, n) => Latest(n)
  BY <1>2 DEF SeqInv
<1>4. CASE HeartBeats
  <2> DEFINE p == Packet("KEEP_ALIVE_REQ", aliveSeq, 0)
  <2>1. up' = Append(up, p)
    BY <1>2, <1>4, TypeParts DEF ThreadsInv, SharedType, HeartBeats, Net_Send, Packet
  <2>2. /\ pc["heart"] = "top" /\ pc'["heart"] = "check"
        /\ UNCHANGED <<aliveSeq, seqRead>>
    BY <1>1, <1>4 DEF HeartBeats, Goto, PcType, Threads, seqVars, serverVars
  <2>3. p.kind = "KEEP_ALIVE_REQ" /\ p.seq = aliveSeq
    BY DEF Packet
  <2> HIDE DEF p
  <2>4. ASSUME NEW n, Ends(up, seqRead, n) PROVE p.seq = NextSeq(n)
    <3>1. n \in -1..(Word - 1)
      BY <1>1, <2>4, EndsType, TypeParts DEF ServerType
    <3> QED
      BY <1>3, <2>2, <2>3, <2>4, <3>1 DEF Latest
  <2>5. Chained(up', seqRead) /\ \A n : Ends(up', seqRead, n) => n = p.seq
    BY <1>1, <1>3, <2>1, <2>3, <2>4, ChainBeat
  <2>6. Latest(aliveSeq)'
    BY <2>2 DEF Latest
  <2> QED
    BY <2>2, <2>3, <2>5, <2>6 DEF Latest
<1>5. CASE Heart /\ ~HeartBeats
  <2>1. UNCHANGED <<up, seqRead>>
    BY <1>5 DEF Heart, HeartEnds, HeartRests, HeartWakes, BumpSeq, CheckSeq, ResetSeq, LoadSeq,
       StoreSeq, serverVars
  <2>2. \A n \in -1..(Word - 1) : Latest(n) => Latest(n)'
    BY <1>5, LatestBump DEF Heart
  <2> QED
    BY <1>3, <2>1, <2>2
<1>6. CASE Serve
  <2>1. /\ up # <<>> /\ up' = Tail(up) /\ Head(up) = up[1] /\ UNCHANGED <<pc, aliveSeq, reg>>
    BY <1>6, TailAt DEF Serve, ServeKeepAlive, ServeLogin, ServeUserList, ServeTalk, Take,
       threadVars, seqVars
  <2>2. seqRead' = IF IsBeat(up, 1) THEN up[1].seq ELSE seqRead
    BY <1>6, <2>1 DEF Serve, ServeKeepAlive, ServeLogin, ServeUserList, ServeTalk, Take, IsBeat,
       serverVars
  <2>3. Chained(up', seqRead') /\ \A n : Ends(up', seqRead', n) => Ends(up, seqRead, n)
    BY <1>1, <1>3, <2>1, <2>2, ChainTail
  <2>4. \A n : Latest(n)' <=> Latest(n)
    BY <2>1 DEF Latest
  <2> QED
    BY <1>3, <2>3, <2>4
<1>7. CASE ~Heart /\ ~Serve
  <2>1. UNCHANGED <<seqRead, aliveSeq, reg>> /\ pc'["heart"] = pc["heart"]
    BY <1>1, <1>2, <1>7 DEF Next, Receiver, RecvTop, RecvFails, RecvPacket, RecvNothing,
       SendBody, BumpSeq, CheckSeq, ResetSeq, LoadSeq, StoreSeq, ThreadsInv, Sending, Main,
       Login, GetUserList, TalkWithUser, Choose, Exit, Stop, CloseSocket, Join, Goto, PcType,
       Threads, TimeOut, ClientLeft, ServerFails, Reset, Tick, vars, threadVars, seqVars,
       serverVars
  <2>2. \A n : Latest(n)' <=> Latest(n)
    BY <2>1 DEF Latest
  <2>3. Chained(up', seqRead) /\ \A n : Ends(up', seqRead, n) => Ends(up, seqRead, n)
    <3>1. ASSUME NEW kind, NEW seq, NEW user, kind # "KEEP_ALIVE_REQ",
                 up' = Append(up, Packet(kind, seq, user))
          PROVE  Chained(up', seqRead) /\ \A n : Ends(up', seqRead, n) => Ends(up, seqRead, n)
      <4>1. Packet(kind, seq, user).kind # "KEEP_ALIVE_REQ"
        BY <3>1 DEF Packet
      <4> QED
        BY <1>1, <1>3, <3>1, <4>1, ChainOther
    <3>2. ASSUME Tick
          PROVE  Chained(up', seqRead) /\ \A n : Ends(up', seqRead, n) => Ends(up, seqRead, n)
      BY <1>1, <1>3, <3>2, TickAt, ChainSame
    <3>3. ASSUME up' = up
          PROVE  Chained(up', seqRead) /\ \A n : Ends(up', seqRead, n) => Ends(up, seqRead, n)
      BY <1>3, <3>3
    <3> QED
      BY <1>2, <1>7, <3>1, <3>2, <3>3, UpSteps DEF Heart
  <2> QED
    BY <1>3, <2>1, <2>2, <2>3
<1> QED
  BY <1>4, <1>5, <1>6, <1>7

\* The server reads the numbers of keep-alives one after the other, for
\* every limit of the counter, although nothing locks it.
THEOREM AliveSeqConsecutiveHolds == Spec => AliveSeqConsecutive
<1> DEFINE Inv == TypeOK /\ ThreadsInv /\ CutInv /\ SeqInv
<1>1. Init => Inv
  BY InitType, InitThreads, InitSeq
<1>2. Inv /\ [Next]_vars => Inv'
  BY NextType, NextThreads, NextCut, NextSeqInv
<1>3. Inv => [ServeKeepAlive => seqRead' = NextSeq(seqRead)]_vars
  <2> SUFFICES ASSUME Inv, ServeKeepAlive PROVE seqRead' = NextSeq(seqRead)
    OBVIOUS
  <2>1. link = "open" /\ up # <<>> /\ Head(up).kind = "KEEP_ALIVE_REQ" /\ seqRead' = Head(up).seq
    BY DEF ServeKeepAlive, Take
  <2>2. Head(up) = up[1] /\ IsBeat(up, 1)
    BY <2>1, TailAt DEF IsBeat
  <2>3. up[1].seq = NextSeq(seqRead)
    BY <2>1, <2>2, ChainTail, TypeParts DEF SeqInv, UpType
  <2> QED
    BY <2>1, <2>2, <2>3
<1> QED
  BY <1>1, <1>2, <1>3, PTL DEF Spec, AliveSeqConsecutive

(***************************************************************************)
(* The list that is printed.                                               *)
(***************************************************************************)
HasSelf(rsp, u) ==
  rsp.whole /\ rsp.kind = "GET_USER_LIST_RSP" =>
    u # 0 /\ u \in GetUserListJasonData(rsp.json)
ListInv ==
  link = "open" => ListShowsSelf /\ \A k \in 1..Len(down) : HasSelf(down[k], session)

\* Whoever the server encodes as online, the client decodes as online.
LEMMA RoundTrip ==
  ASSUME NEW online \in SUBSET Users, NEW u \in online
  PROVE  u \in GetUserListJasonData(SetUserListJasonData(online))
<1> DEFINE item == [UserName |-> u, IsOnline |-> "cJSON_True"]
           json == SetUserListJasonData(online)
<1>1. item \in json
  BY DEF SetUserListJasonData
<1>2. GetItemBool(item.IsOnline) = 0 /\ item.UserName = u
  BY DEF GetItemBool
<1>3. item \in {q \in json : GetItemBool(q.IsOnline) = 0}
  BY <1>1, <1>2
<1> HIDE DEF item, json
<1>4. item.UserName \in GetUserListJasonData(json)
  BY <1>3 DEF GetUserListJasonData
<1> QED
  BY <1>2, <1>4 DEF json

\* What is on its way to the client after a reply.
LEMMA ReplyAt ==
  ASSUME DownType, NEW kind, NEW json, Reply(kind, json)
  PROVE  \A k \in 1..Len(down') :
           \/ k \in 1..Len(down) /\ down'[k] = down[k]
           \/ down'[k] = [kind |-> kind, whole |-> TRUE, json |-> json]
           \/ down'[k] = [kind |-> kind, whole |-> FALSE, json |-> {}]
<1> DEFINE a == [kind |-> kind, whole |-> TRUE, json |-> json]
           b == [kind |-> kind, whole |-> FALSE, json |-> {}]
<1>1. down' = down \/ down' = Append(down, a) \/ down' = Append(down, b)
  BY Zenon DEF Reply
<1> HIDE DEF a, b
<1>2. ASSUME NEW e \in {a, b}, down' = Append(down, e)
      PROVE  \A k \in 1..Len(down') :
               (k \in 1..Len(down) /\ down'[k] = down[k]) \/ down'[k] = a \/ down'[k] = b
  BY <1>2, AppendedAt DEF DownType
<1>3. \A k \in 1..Len(down') :
        (k \in 1..Len(down) /\ down'[k] = down[k]) \/ down'[k] = a \/ down'[k] = b
  BY <1>1, <1>2
<1> QED
  BY <1>3 DEF a, b

\* A reply that has the client in it may be added.
LEMMA ReplySelf ==
  ASSUME TypeOK, \A k \in 1..Len(down) : HasSelf(down[k], session), session' = session,
         NEW kind, NEW json, Reply(kind, json),
         kind = "GET_USER_LIST_RSP" => session # 0 /\ session \in GetUserListJasonData(json)
  PROVE  \A k \in 1..Len(down') : HasSelf(down'[k], session')
<1> SUFFICES ASSUME NEW k \in 1..Len(down') PROVE HasSelf(down'[k], session)
  OBVIOUS
<1>1. \/ k \in 1..Len(down) /\ down'[k] = down[k]
      \/ down'[k] = [kind |-> kind, whole |-> TRUE, json |-> json]
      \/ down'[k] = [kind |-> kind, whole |-> FALSE, json |-> {}]
  BY ReplyAt, TypeParts
<1> QED
  BY <1>1 DEF HasSelf

\* Every step keeps ListInv.
LEMMA NextList ==
  ASSUME TypeOK, ListInv, [Next]_vars
  PROVE  ListInv'
<1> SUFFICES ASSUME link' = "open"
             PROVE  ListShowsSelf' /\ \A k \in 1..Len(down') : HasSelf(down'[k], session')
  BY DEF ListInv
<1>1. link = "open" /\ ~ServerCloses
  BY SendsLink DEF Next, Heart, HeartEnds, HeartBeats, HeartRests, HeartWakes, BumpSeq,
     CheckSeq, ResetSeq, LoadSeq, StoreSeq, Receiver, RecvTop, RecvFails, RecvPacket,
     RecvNothing, SendBody, Main, Login, GetUserList, TalkWithUser, Exit, Stop, CloseSocket,
     Join, Serve, ServeKeepAlive, ServeLogin, ServeUserList, ServeTalk, Take, TimeOut,
     ClientLeft, ServerFails, ServerCloses, Reset, Tick, vars
<1>2. ListShowsSelf /\ \A k \in 1..Len(down) : HasSelf(down[k], session)
  BY <1>1 DEF ListInv
<1>3. down \in Seq(Replies) /\ shown \subseteq Users /\ session \in Users \cup {0}
  BY TypeParts DEF DownType, MenuType, ServerType
<1>4. CASE UNCHANGED <<shown, down, session>>
  BY <1>1, <1>2, <1>4 DEF ListShowsSelf, HasSelf
<1>5. CASE RecvTop
  <2>1. shown' = {} /\ UNCHANGED <<down, session>>
    BY <1>5 DEF RecvTop, serverVars
  <2> QED
    BY <1>2, <2>1 DEF ListShowsSelf, HasSelf
<1>6. CASE RecvPacket
  <2>1. /\ down # <<>> /\ down' = Tail(down) /\ UNCHANGED session
        /\ shown' = GetUserList_Rsp_Function(Head(down))
    BY <1>6 DEF RecvPacket, serverVars
  <2>2. /\ 1 \in 1..Len(down) /\ Head(down) = down[1]
        /\ \A k \in 1..Len(Tail(down)) : k + 1 \in 1..Len(down) /\ Tail(down)[k] = down[k + 1]
    BY <1>3, <2>1, HeadTailProperties
  <2>3. \A k \in 1..Len(down') : HasSelf(down'[k], session')
    BY <1>2, <2>1, <2>2 DEF HasSelf
  <2>4. shown' # {} => session \in shown'
    BY <1>1, <1>2, <2>1, <2>2 DEF GetUserList_Rsp_Function, ListShowsSelf, HasSelf
  <2> QED
    BY <2>1, <2>3, <2>4 DEF ListShowsSelf
<1>7. CASE Serve
  <2>1. shown' = shown
    BY <1>7 DEF Serve, ServeKeepAlive, ServeLogin, ServeUserList, ServeTalk, Take
  <2>2. CASE ServeKeepAlive
    <3>1. Reply("KEEP_ALIVE_RSP", {}) /\ UNCHANGED session
      BY <2>2 DEF ServeKeepAlive
    <3>2. \A k \in 1..Len(down') : HasSelf(down'[k], session')
      BY <1>2, <3>1, ReplySelf
    <3> QED
      BY <1>1, <1>2, <2>1, <3>1, <3>2 DEF ListShowsSelf
  <2>3. CASE ServeLogin
    <3>1. Reply("LOGIN_RSP", {}) /\ (session' = session \/ session = 0)
      BY <2>3 DEF ServeLogin
    <3>2. CASE session' = session
      <4>1. \A k \in 1..Len(down') : HasSelf(down'[k], session')
        BY <1>2, <3>1, <3>2, ReplySelf
      <4> QED
        BY <1>1, <1>2, <2>1, <3>2, <4>1 DEF ListShowsSelf
    <3>3. CASE session = 0
      <4>1. shown = {}
        BY <1>1, <1>2, <1>3, <3>3, ClientAssumption DEF ListShowsSelf
      <4>2. \A k \in 1..Len(down) : HasSelf(down[k], session')
        BY <1>2, <3>3 DEF HasSelf
      <4>3. \A k \in 1..Len(down') : HasSelf(down'[k], session')
        <5> SUFFICES ASSUME NEW k \in 1..Len(down') PROVE HasSelf(down'[k], session')
          OBVIOUS
        <5>1. \/ k \in 1..Len(down) /\ down'[k] = down[k]
              \/ down'[k] = [kind |-> "LOGIN_RSP", whole |-> TRUE, json |-> {}]
              \/ down'[k] = [kind |-> "LOGIN_RSP", whole |-> FALSE, json |-> {}]
          BY <3>1, ReplyAt, TypeParts
        <5> QED
          BY <4>2, <5>1 DEF HasSelf
      <4> QED
        BY <2>1, <4>1, <4>3 DEF ListShowsSelf
    <3> QED
      BY <3>1, <3>2, <3>3
  <2>4. CASE ServeUserList
    <3>1. UNCHANGED session
      BY <2>4 DEF ServeUserList
    <3>2. CASE session = 0
      <4>1. down' = down
        BY <2>4, <3>2 DEF ServeUserList
      <4> QED
        BY <1>1, <1>2, <2>1, <3>1, <4>1 DEF ListShowsSelf, HasSelf
    <3>3. CASE session # 0
      <4>1. PICK others \in SUBSET Users :
              Reply("GET_USER_LIST_RSP", SetUserListJasonData(others \cup {session}))
        BY <2>4, <3>3 DEF ServeUserList
      <4>2. session \in GetUserListJasonData(SetUserListJasonData(others \cup {session}))
        BY <1>3, <3>3, RoundTrip
      <4>3. \A k \in 1..Len(down') : HasSelf(down'[k], session')
        BY <1>2, <3>1, <3>3, <4>1, <4>2, ReplySelf
      <4> QED
        BY <1>1, <1>2, <2>1, <3>1, <4>3 DEF ListShowsSelf
    <3> QED
      BY <3>2, <3>3
  <2>5. CASE ServeTalk
    <3>1. UNCHANGED <<shown, down, session>>
      BY <2>1, <2>5 DEF ServeTalk, serverVars
    <3> QED
      BY <1>4, <3>1
  <2> QED
    BY <1>7, <2>2, <2>3, <2>4, <2>5 DEF Serve
<1>8. UNCHANGED <<shown, down, session>> \/ RecvTop \/ RecvPacket \/ Serve
  BY <1>1 DEF Next, Heart, HeartEnds, HeartBeats, HeartRests, HeartWakes, BumpSeq,
     CheckSeq, ResetSeq, LoadSeq, StoreSeq, Receiver, RecvFails, RecvNothing, SendBody, Main,
     Login, GetUserList, TalkWithUser, Choose, Exit, Stop, CloseSocket, Join, TimeOut,
     ClientLeft, ServerFails, Reset, Tick, vars, menuVars, serverVars
<1> QED
  BY <1>4, <1>5, <1>6, <1>7, <1>8

\* The list that a client prints has its own user online, whoever else is,
\* and whatever replies are cut.
THEOREM ListShowsSelfHolds == Spec => []ListShowsSelf
<1> DEFINE Inv == TypeOK /\ ListInv /\ (link # "open" => ListShowsSelf)
<1>1. Init => Inv
  BY InitType DEF Init, ListInv, ListShowsSelf
<1>2. Inv /\ [Next]_vars => Inv'
  BY NextType, NextList DEF ListShowsSelf
<1>3. Inv => ListShowsSelf
  BY DEF ListInv
<1> QED
  BY <1>1, <1>2, <1>3, PTL DEF Spec

(***************************************************************************)
(* The name that messages are sent under: that of the login which was read *)
(* last or is on its way before them.                                      *)
(***************************************************************************)
IsLogin(s, k) == k = 0 \/ s[k].kind = "LOGIN_REQ"
UserAt(s, r, k) == IF k = 0 THEN r ELSE s[k].user
\* At k, the last login after r was that of u.
From(s, r, k, u) ==
  \A j \in 0..(k - 1) :
    IsLogin(s, j) /\ (\A m \in (j + 1)..(k - 1) : ~IsLogin(s, m)) => u = UserAt(s, r, j)
\* All messages of s are from such users, and the next is, sent under n.
Names(s, r, n) ==
  /\ \A k \in 1..Len(s) : s[k].kind = "TALK_WITH_USER_REQ" => From(s, r, k, s[k].user)
  /\ From(s, r, Len(s) + 1, n)
NameInv ==
  /\ pc["main"] \in {"menu", "close"} => sock = "open"
  /\ link = "open" /\ ~refused => Names(up, session, name)

\* A packet that is no login, and is sent under the name if it is a message.
LEMMA NamesOther ==
  ASSUME NEW s \in Seq(Packets), NEW p, p.kind # "LOGIN_REQ", NEW r, NEW n, Names(s, r, n),
         p.kind = "TALK_WITH_USER_REQ" => p.user = n
  PROVE  Names(Append(s, p), r, n)
<1> DEFINE t == Append(s, p)
<1>1. /\ Len(t) = Len(s) + 1 /\ Len(s) \in Nat
      /\ \A k \in 1..Len(s) : t[k] = s[k]
      /\ t[Len(s) + 1] = p
  BY AppendedAt
<1>2. ~IsLogin(t, Len(s) + 1)
  BY <1>1 DEF IsLogin
<1>3. \A k \in 0..Len(s) : (IsLogin(t, k) <=> IsLogin(s, k)) /\ UserAt(t, r, k) = UserAt(s, r, k)
  BY <1>1 DEF IsLogin, UserAt
<1> HIDE DEF t
<1>4. \A k \in 1..(Len(s) + 1) : \A u : From(s, r, k, u) => From(t, r, k, u)
  BY <1>1, <1>3 DEF From
<1>5. From(s, r, Len(s) + 1, n)
  BY DEF Names
<1>6. From(t, r, Len(t) + 1, n)
  <2>1. SUFFICES ASSUME NEW j \in 0..Len(t), IsLogin(t, j),
                        \A m \in (j + 1)..Len(t) : ~IsLogin(t, m)
                 PROVE  n = UserAt(t, r, j)
    BY <1>1 DEF From
  <2>2. j \in 0..Len(s) /\ \A m \in (j + 1)..Len(s) : ~IsLogin(t, m)
    BY <1>1, <1>2, <2>1
  <2>3. From(t, r, Len(s) + 1, n) /\ (Len(s) + 1) - 1 = Len(s)
    BY <1>1, <1>4, <1>5
  <2> QED
    BY <2>1, <2>2, <2>3 DEF From
<1>7. ASSUME NEW k \in 1..Len(t), t[k].kind = "TALK_WITH_USER_REQ"
      PROVE  From(t, r, k, t[k].user)
  <2>1. CASE k \in 1..Len(s)
    BY <1>1, <1>4, <1>7, <2>1 DEF Names
  <2>2. CASE k = Len(s) + 1
    BY <1>1, <1>4, <1>5, <1>7, <2>2
  <2> QED
    BY <1>1, <2>1, <2>2
<1> QED
  BY <1>6, <1>7 DEF Names, t

\* A login: the next message is sent under its name.
LEMMA NamesLogin ==
  ASSUME NEW s \in Seq(Packets), NEW p, p.kind = "LOGIN_REQ", NEW r, NEW n, Names(s, r, n)
  PROVE  Names(Append(s, p), r, p.user)
<1> DEFINE t == Append(s, p)
<1>1. /\ Len(t) = Len(s) + 1 /\ Len(s) \in Nat
      /\ \A k \in 1..Len(s) : t[k] = s[k]
      /\ t[Len(s) + 1] = p
  BY AppendedAt
<1>2. IsLogin(t, Len(t)) /\ UserAt(t, r, Len(t)) = p.user
  BY <1>1 DEF IsLogin, UserAt
<1>3. \A k \in 0..Len(s) : (IsLogin(t, k) <=> IsLogin(s, k)) /\ UserAt(t, r, k) = UserAt(s, r, k)
  BY <1>1 DEF IsLogin, UserAt
<1> HIDE DEF t
<1>4. \A k \in 1..(Len(s) + 1) : \A u : From(s, r, k, u) => From(t, r, k, u)
  BY <1>1, <1>3 DEF From
<1>5. From(t, r, Len(t) + 1, p.user)
  <2>1. SUFFICES ASSUME NEW j \in 0..Len(t), \A m \in (j + 1)..Len(t) : ~IsLogin(t, m)
                 PROVE  j = Len(t)
    BY <1>1, <1>2 DEF From
  <2> QED
    BY <1>1, <1>2, <2>1
<1>6. ASSUME NEW k \in 1..Len(t), t[k].kind = "TALK_WITH_USER_REQ"
      PROVE  From(t, r, k, t[k].user)
  <2>1. k \in 1..Len(s)
    BY <1>1, <1>6
  <2> QED
    BY <1>1, <1>4, <1>6, <2>1 DEF Names
<1> QED
  BY <1>5, <1>6 DEF Names, t

\* The first packet is read.
LEMMA NamesTail ==
  ASSUME NEW s \in Seq(Packets), s # <<>>, NEW r, NEW n, Names(s, r, n),
         NEW q, q = IF IsLogin(s, 1) THEN s[1].user ELSE r
  PROVE  Names(Tail(s), q, n)
<1> DEFINE t == Tail(s)
<1>1. /\ Len(t) = Len(s) - 1 /\ Len(s) \in Nat /\ Len(s) > 0
      /\ \A k \in 1..Len(t) : t[k] = s[k + 1]
  BY HeadTailProperties, EmptySeq
<1>2. \A k \in 1..Len(t) : /\ IsLogin(t, k) <=> IsLogin(s, k + 1)
                           /\ UserAt(t, q, k) = UserAt(s, r, k + 1)
  BY <1>1 DEF IsLogin, UserAt
<1> HIDE DEF t
<1>3. ASSUME NEW k \in 1..(Len(t) + 1), NEW u, From(s, r, k + 1, u)
      PROVE  From(t, q, k, u)
  <2>1. SUFFICES ASSUME NEW j \in 0..(k - 1), IsLogin(t, j),
                        \A m \in (j + 1)..(k - 1) : ~IsLogin(t, m)
                 PROVE  u = UserAt(t, q, j)
    BY DEF From
  <2>2. k \in Nat /\ k <= Len(t) + 1 /\ Len(t) \in Nat /\ j \in Nat
    BY <1>1
  <2>3. \A m \in (j + 2)..k : ~IsLogin(s, m)
    <3> SUFFICES ASSUME NEW m \in (j + 2)..k PROVE ~IsLogin(s, m)
      OBVIOUS
    <3>1. m - 1 \in (j + 1)..(k - 1) /\ m - 1 \in 1..Len(t) /\ (m - 1) + 1 = m
      BY <2>2
    <3> QED
      BY <1>2, <2>1, <3>1
  <2>4. \A i \in 0..k : IsLogin(s, i) /\ (\A m \in (i + 1)..k : ~IsLogin(s, m)) => u = UserAt(s, r, i)
    BY <1>3, <2>2 DEF From
  <2>5. CASE j # 0
    <3>1. j \in 1..Len(t) /\ j + 1 \in 0..k /\ (j + 1) + 1 = j + 2
      BY <2>2, <2>5
    <3> QED
      BY <1>2, <2>1, <2>3, <2>4, <3>1
  <2>6. CASE j = 0 /\ IsLogin(s, 1)
    <3>1. 1 \in 0..k /\ 1 + 1 = j + 2
      BY <2>2, <2>6
    <3> QED
      BY <2>3, <2>4, <2>6, <3>1 DEF UserAt
  <2>7. CASE j = 0 /\ ~IsLogin(s, 1)
    <3>1. 0 \in 0..k /\ \A m \in (0 + 1)..k : ~IsLogin(s, m)
      BY <2>2, <2>3, <2>7
    <3> QED
      BY <2>4, <2>7, <3>1 DEF UserAt, IsLogin
  <2> QED
    BY <2>5, <2>6, <2>7
<1>4. From(t, q, Len(t) + 1, n)
  <2>1. Len(t) + 1 \in 1..(Len(t) + 1) /\ (Len(t) + 1) + 1 = Len(s) + 1
    BY <1>1
  <2> QED
    BY <1>3, <2>1 DEF Names
<1>5. ASSUME NEW k \in 1..Len(t), t[k].kind = "TALK_WITH_USER_REQ"
      PROVE  From(t, q, k, t[k].user)
  <2>1. k \in 1..(Len(t) + 1) /\ k + 1 \in 1..Len(s) /\ t[k] = s[k + 1]
    BY <1>1
  <2> QED
    BY <1>3, <1>5, <2>1 DEF Names
<1> QED
  BY <1>4, <1>5 DEF Names, t

\* A second that passes changes nothing.
LEMMA NamesSame ==
  ASSUME NEW s, NEW t, NEW r, NEW n, Len(t) = Len(s), Len(s) \in Nat,
         \A k \in 1..Len(s) : t[k].kind = s[k].kind /\ t[k].user = s[k].user,
         Names(s, r, n)
  PROVE  Names(t, r, n)
<1>1. \A k \in 0..Len(s) : (IsLogin(t, k) <=> IsLogin(s, k)) /\ UserAt(t, r, k) = UserAt(s, r, k)
  BY DEF IsLogin, UserAt
<1>2. \A k \in 1..(Len(s) + 1) : \A u : From(s, r, k, u) => From(t, r, k, u)
  BY <1>1 DEF From
<1> QED
  BY <1>2 DEF Names

\* The initial state.
LEMMA InitNames == Init => NameInv
<1> SUFFICES ASSUME Init PROVE NameInv
  OBVIOUS
<1>1. Len(up) = 0 /\ session = 0 /\ name = 0 /\ sock = "open"
  BY EmptySeq DEF Init
<1>2. From(up, session, 1, name)
  BY <1>1 DEF From, UserAt
<1> QED
  BY <1>1, <1>2 DEF NameInv, Names

\* Every step keeps NameInv.
LEMMA NextNames ==
  ASSUME TypeOK, ThreadsInv, NameInv, [Next]_vars
  PROVE  NameInv'
<1>1. up \in Seq(Packets) /\ Len(up) \in Nat /\ PcType /\ SharedType
  BY TypeParts DEF UpType
<1>2. pc'["main"] \in {"menu", "close"} => sock' = "open"
  <2>1. CASE Stop \/ Exit
    BY <1>1, <2>1 DEF Stop, CloseSocket, Join, Exit, NameInv, Goto, PcType, Threads
  <2>2. CASE ~Stop /\ ~Exit
    <3>1. sock' = sock /\ pc'["main"] = pc["main"]
      BY <1>1, <2>2 DEF Next, Heart, HeartEnds, HeartBeats, HeartRests, HeartWakes, BumpSeq,
         CheckSeq, ResetSeq, LoadSeq, StoreSeq, Receiver, RecvTop, RecvFails, RecvPacket,
         RecvNothing, SendBody, Main, Login, GetUserList, TalkWithUser, Choose, Serve,
         ServeKeepAlive, ServeLogin, ServeUserList, ServeTalk, Take, TimeOut, ClientLeft,
         ServerFails, ServerCloses, Reset, Tick, Goto, PcType, Threads, vars, threadVars
    <3> QED
      BY <3>1 DEF NameInv
  <2> QED
    BY <2>1, <2>2
<1>3. ASSUME link' = "open", ~refused'
      PROVE  Names(up', session', name')
  <2>1. link = "open" /\ ~ServerCloses
    BY <1>3, SendsLink DEF Next, Heart, HeartEnds, HeartBeats, HeartRests, HeartWakes, BumpSeq,
       CheckSeq, ResetSeq, LoadSeq, StoreSeq, Receiver, RecvTop, RecvFails, RecvPacket,
       RecvNothing, SendBody, Main, Login, GetUserList, TalkWithUser, Exit, Stop, CloseSocket,
       Join, Serve, ServeKeepAlive, ServeLogin, ServeUserList, ServeTalk, Take, TimeOut,
       ClientLeft, ServerFails, ServerCloses, Reset, Tick, vars
  <2>2. ~refused
    BY <1>3, <2>1 DEF Next, Heart, HeartEnds, HeartBeats, HeartRests, HeartWakes, BumpSeq,
       CheckSeq, ResetSeq, LoadSeq, StoreSeq, Receiver, RecvTop, RecvFails, RecvPacket,
       RecvNothing, SendBody, Main, Login, GetUserList, TalkWithUser, Choose, Exit, Stop,
       CloseSocket, Join, Serve, ServeKeepAlive, ServeLogin, ServeUserList, ServeTalk,
       TimeOut, ClientLeft, ServerFails, Reset, Tick, vars, serverVars
  <2>3. Names(up, session, name)
    BY <2>1, <2>2 DEF NameInv
  <2>4. CASE \E u \in Users : Login(u)
    <3>1. PICK u \in Users : Login(u)
      BY <2>4
    <3> DEFINE p == Packet("LOGIN_REQ", 0, u)
    <3>2. up' = Append(up, p) /\ name' = u /\ session' = session
      BY <2>1, <3>1 DEF Login, Choose, Net_Send, Packet, NameInv, serverVars
    <3>3. p.kind = "LOGIN_REQ" /\ p.user = u
      BY DEF Packet
    <3> HIDE DEF p
    <3> QED
      BY <1>1, <2>3, <3>2, <3>3, NamesLogin
  <2>5. CASE Serve
    <3>1. up # <<>> /\ up' = Tail(up) /\ Head(up) = up[1] /\ name' = name
      BY <2>5, TailAt DEF Serve, ServeKeepAlive, ServeLogin, ServeUserList, ServeTalk, Take,
         menuVars
    <3>2. session' = IF IsLogin(up, 1) THEN up[1].user ELSE session
      BY <1>3, <2>5, <3>1 DEF Serve, ServeKeepAlive, ServeLogin, ServeUserList, ServeTalk, Take,
         IsLogin, serverVars
    <3> QED
      BY <1>1, <2>3, <3>1, <3>2, NamesTail
  <2>6. CASE ~Serve /\ ~\E u \in Users : Login(u)
    <3>1. UNCHANGED <<session, name>>
      BY <2>1, <2>6 DEF Next, Heart, HeartEnds, HeartBeats, HeartRests, HeartWakes, BumpSeq,
         CheckSeq, ResetSeq, LoadSeq, StoreSeq, Receiver, RecvTop, RecvFails, RecvPacket,
         RecvNothing, SendBody, Main, GetUserList, TalkWithUser, Choose, Exit, Stop,
         CloseSocket, Join, TimeOut, ClientLeft, ServerFails, Reset, Tick, vars, menuVars,
         serverVars
    <3>2. ASSUME NEW kind, NEW seq, NEW user, kind # "LOGIN_REQ",
                 kind = "TALK_WITH_USER_REQ" => user = name,
                 up' = Append(up, Packet(kind, seq, user))
          PROVE  Names(up', session, name)
      <4>1. Packet(kind, seq, user).kind = kind /\ Packet(kind, seq, user).user = user
        BY DEF Packet
      <4> QED
        BY <1>1, <2>3, <3>2, <4>1, NamesOther
    <3>3. ASSUME Tick PROVE Names(up', session, name)
      BY <1>1, <2>3, <3>3, TickAt, NamesSame
    <3>4. ASSUME up' = up PROVE Names(up', session, name)
      BY <2>3, <3>4
    <3>5. Names(up', session, name)
      BY <2>1, <2>6, <3>2, <3>3, <3>4, UpSteps
    <3> QED
      BY <3>1, <3>5
  <2> QED
    BY <2>4, <2>5, <2>6
<1> QED
  BY <1>2, <1>3 DEF NameInv

\* A message names the user who is logged in as its sender, however logins
\* and messages follow one another, unless a login was refused.
THEOREM SenderIsSessionHolds == Spec => SenderIsSession
<1> DEFINE Inv == TypeOK /\ ThreadsInv /\ CutInv /\ NameInv
<1>1. Init => Inv
  BY InitType, InitThreads, InitNames
<1>2. Inv /\ [Next]_vars => Inv'
  BY NextType, NextThreads, NextCut, NextNames
<1>3. Inv => [ServeTalk /\ session # 0 => Head(up).user = session \/ refused]_vars
  <2> SUFFICES ASSUME Inv, ServeTalk, ~refused PROVE Head(up).user = session
    OBVIOUS
  <2>1. link = "open" /\ up # <<>> /\ Head(up).kind = "TALK_WITH_USER_REQ"
    BY DEF ServeTalk, Take
  <2>2. Head(up) = up[1] /\ 1 \in 1..Len(up)
    BY <2>1, TailAt
  <2>3. From(up, session, 1, up[1].user)
    BY <2>1, <2>2 DEF NameInv, Names
  <2> QED
    BY <2>2, <2>3 DEF From, IsLogin, UserAt
<1> QED
  BY <1>1, <1>2, <1>3, PTL DEF Spec, SenderIsSession
=============================================================================
