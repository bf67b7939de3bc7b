------------------------- MODULE ClientTableProofs -------------------------
(***************************************************************************)
(* What the two threads of server.cpp never do to g_vecClientSocket, for   *)
(* every number of connections, descriptors and requests: Shape (types,    *)
(* bounds of the indices kept across steps, and what a push_back under way *)
(* has copied), then Unique (a descriptor is in one slot at most, also in  *)
(* the copy and in the push_back to come), then Attended (an open          *)
(* descriptor is in a slot, on its way into one, or was refused).  Each is *)
(* inductive relative to the ones before it.                               *)
(***************************************************************************)
EXTENDS ClientTable, SequenceTheorems, TLAPS

\* From FindExisting to the end of AddClientSocket the descriptor is a real
\* one, and a copy of the vector has one slot more than the vector.
AddingShape ==
  /\ apc \in {"find", "free", "stamp", "grow"} => afd \in Fds
  /\ apc = "grow" => Len(spareSock) = Len(sock) + 1 /\ Len(spareAge) = Len(sock) + 1

\* The first inductive invariant.
Shape == TypeOK /\ IndexInBounds /\ AddingShape

\* The server starts in a state of the right shape.
LEMMA InitShape == Init => Shape
<1> SUFFICES ASSUME Init PROVE Shape
  OBVIOUS
<1> USE DEF Init
<1>1. KernelType
  BY EmptySeq, BoundsAssumption DEF KernelType
<1>2. TableType /\ AcceptType
  BY EmptySeq DEF TableType, AcceptType, AcceptPc, Descriptors
<1>3. RecvType
  BY DEF RecvType, RecvPc, Descriptors
<1>4. HistoryType
  <2>1. 0 \in Ages
    BY BoundsAssumption DEF Ages, Expired
  <2> QED
    BY <2>1 DEF HistoryType
<1>5. IndexInBounds /\ AddingShape
  BY DEF IndexInBounds, AddingShape, InSlot
<1> QED
  BY <1>1, <1>2, <1>3, <1>4, <1>5 DEF Shape, TypeOK

\* A clock tick keeps an age within its bound.
LEMMA OlderType == \A a \in Ages : Older(a) \in Ages
BY BoundsAssumption DEF Older, Ages, Expired

\* What clients do keeps the shape.
LEMMA ClientsShape ==
  ASSUME Shape, NEW c \in Conns, Connect(c) \/ Hangup(c) \/ \E r \in Requests : SendRequest(c, r)
  PROVE  Shape'
<1> USE DEF kernelVars, tableVars, acceptVars, recvVars, historyVars
<1>1. KernelType'
  <2>1. CASE Connect(c)
    BY <2>1, AppendProperties DEF Connect, Shape, TypeOK, KernelType
  <2>2. CASE Hangup(c)
    BY <2>2 DEF Hangup, Shape, TypeOK, KernelType
  <2>3. ASSUME NEW r \in Requests, SendRequest(c, r) PROVE KernelType'
    BY <2>3, AppendProperties, BoundsAssumption DEF SendRequest, Shape, TypeOK, KernelType
  <2> QED BY <2>1, <2>2, <2>3
<1>2. UNCHANGED <<tableVars, acceptVars, recvVars, mpc, historyVars>>
  BY DEF Connect, Hangup, SendRequest
<1> QED
  BY <1>1, <1>2 DEF Shape, TypeOK, TableType, AcceptType, RecvType, HistoryType, IndexInBounds, AddingShape

\* The passing of a second keeps the shape.
LEMMA TickShape == ASSUME Shape, Tick PROVE Shape'
<1> USE DEF Tick, kernelVars, recvVars
<1>1. age' \in Seq(Ages) /\ Len(age') = Len(age)
  BY OlderType, SeqDef, LenProperties, ElementOfSeq DEF Shape, TypeOK, TableType
<1>2. spareAge' \in Seq(Ages) /\ Len(spareAge') = Len(spareAge)
  BY OlderType, SeqDef, LenProperties, ElementOfSeq DEF Shape, TypeOK, AcceptType
<1>3. KernelType' /\ TableType' /\ AcceptType' /\ RecvType'
  BY <1>1, <1>2 DEF Shape, TypeOK, KernelType, TableType, AcceptType, RecvType
<1>4. HistoryType'
  BY OlderType DEF Shape, TypeOK, HistoryType
<1>5. IndexInBounds' /\ AddingShape'
  BY <1>1, <1>2 DEF Shape, IndexInBounds, AddingShape
<1> QED
  BY <1>3, <1>4, <1>5 DEF Shape, TypeOK

\* ThreadAccept and AddClientSocket keep the shape.
LEMMA AcceptShape == ASSUME Shape, AcceptThread PROVE Shape'
<1> USE DEF kernelVars, tableVars, acceptVars, recvVars, historyVars
<1>a. /\ Len(sock) \in Nat /\ Len(age) = Len(sock)
      /\ \A k \in 1..Len(sock) : sock[k] \in Descriptors
      /\ afd \in Descriptors /\ aj \in Nat /\ 0 \in Ages
  BY LenProperties, ElementOfSeq, BoundsAssumption
     DEF Shape, TypeOK, TableType, AcceptType, IndexInBounds, Ages, Expired
<1>1. CASE AcceptTop \/ AcceptFails \/ AcceptNonBlockFails
  <2>1. UNCHANGED <<owner, peer, inbox, credit, tableVars, recvVars, mpc, historyVars>>
    BY <1>1 DEF AcceptTop, AcceptFails, AcceptNonBlockFails
  <2>2. UNCHANGED <<afd, aj, spareSock, spareAge>> /\ apc' \in {"top", "accept", "done"}
    BY <1>1 DEF AcceptTop, AcceptFails, AcceptNonBlockFails
  <2>3. backlog' \in Seq(Conns)
    BY <1>1, HeadTailProperties
       DEF AcceptTop, AcceptFails, AcceptNonBlockFails, Shape, TypeOK, KernelType
  <2> QED
    BY <2>1, <2>2, <2>3
       DEF Shape, TypeOK, KernelType, TableType, AcceptType, RecvType, HistoryType,
           IndexInBounds, AddingShape, AcceptPc
<1>2. CASE AcceptOk
  <2>1. Head(backlog) \in Conns /\ Tail(backlog) \in Seq(Conns)
    BY <1>2, HeadTailProperties DEF AcceptOk, Shape, TypeOK, KernelType
  <2>2. KernelType'
    BY <1>2, <2>1 DEF AcceptOk, Shape, TypeOK, KernelType
  <2>3. AcceptType' /\ TableType' /\ RecvType' /\ mpc' = mpc
    BY <1>2 DEF AcceptOk, Shape, TypeOK, AcceptType, TableType, RecvType, AcceptPc, Descriptors
  <2>4. HistoryType'
    BY <1>2, <2>1, <1>a DEF AcceptOk, Shape, TypeOK, HistoryType
  <2>5. IndexInBounds' /\ AddingShape'
    BY <1>2 DEF AcceptOk, Shape, IndexInBounds, AddingShape
  <2> QED BY <2>2, <2>3, <2>4, <2>5 DEF Shape, TypeOK
<1>3. CASE FindExisting
  <2>1. KernelType' /\ TableType' /\ AcceptType' /\ RecvType' /\ mpc' = mpc
    BY <1>3, <1>a DEF FindExisting, Shape, TypeOK, KernelType, TableType, AcceptType, RecvType, AcceptPc
  <2>2. HistoryType'
    <3>1. {owner[afd]} \ {NoConn} \in SUBSET Conns
      BY <1>3 DEF FindExisting, Shape, TypeOK, KernelType, AddingShape
    <3>2. dropped' \in SUBSET Conns
      BY <1>3, <3>1 DEF FindExisting, Shape, TypeOK, HistoryType
    <3> QED
      BY <1>3, <3>2 DEF FindExisting, Shape, TypeOK, HistoryType
  <2>3. IndexInBounds' /\ AddingShape'
    BY <1>3, <1>a DEF FindExisting, Shape, IndexInBounds, AddingShape
  <2> QED BY <2>1, <2>2, <2>3 DEF Shape, TypeOK
<1>4. CASE FindFree \/ StampSlot
  <2>1. sock' \in Seq(Descriptors) /\ age' \in Seq(Ages) /\ Len(sock') = Len(sock) /\ Len(age') = Len(age)
    <3>1. CASE FindFree
      BY <3>1, <1>a, ExceptSeq DEF FindFree, Shape, TypeOK, TableType, IndexInBounds
    <3>2. CASE StampSlot
      BY <3>2, <1>a, ExceptSeq DEF StampSlot, Shape, TypeOK, TableType, IndexInBounds
    <3> QED BY <1>4, <3>1, <3>2
  <2>2. KernelType' /\ RecvType' /\ mpc' = mpc /\ HistoryType'
    BY <1>4 DEF FindFree, StampSlot, Shape, TypeOK, KernelType, RecvType, HistoryType
  <2>3. TableType' /\ AcceptType'
    BY <1>4, <1>a, <2>1 DEF FindFree, StampSlot, Shape, TypeOK, TableType, AcceptType, AcceptPc
  <2>4. IndexInBounds' /\ AddingShape'
    BY <1>4, <1>a, <2>1 DEF FindFree, StampSlot, Shape, IndexInBounds, AddingShape
  <2> QED BY <2>2, <2>3, <2>4 DEF Shape, TypeOK
<1>5. CASE PushBack \/ GrowCopy
  <2>1. /\ Append(sock, afd) \in Seq(Descriptors) /\ Len(Append(sock, afd)) = Len(sock) + 1
        /\ Append(age, 0) \in Seq(Ages) /\ Len(Append(age, 0)) = Len(age) + 1
    BY <1>a, AppendProperties DEF Shape, TypeOK, TableType
  <2>2. KernelType' /\ RecvType' /\ mpc' = mpc /\ HistoryType'
    BY <1>5 DEF PushBack, GrowCopy, Shape, TypeOK, KernelType, RecvType, HistoryType
  <2>3. TableType' /\ AcceptType'
    BY <1>5, <1>a, <2>1 DEF PushBack, GrowCopy, Shape, TypeOK, TableType, AcceptType, AcceptPc
  <2>4. IndexInBounds' /\ AddingShape'
    <3>1. CASE PushBack
      BY <3>1, <1>a, <2>1 DEF PushBack, Shape, IndexInBounds, AddingShape, TypeOK, RecvType
    <3>2. CASE GrowCopy
      BY <3>2, <1>a, <2>1 DEF GrowCopy, Shape, IndexInBounds, AddingShape
    <3> QED BY <1>5, <3>1, <3>2
  <2> QED BY <2>2, <2>3, <2>4 DEF Shape, TypeOK
<1>6. CASE GrowInstall
  <2>1. KernelType' /\ TableType' /\ AcceptType' /\ RecvType' /\ mpc' = mpc
    BY <1>6, EmptySeq
       DEF GrowInstall, Shape, TypeOK, KernelType, TableType, AcceptType, RecvType, AcceptPc
  <2>2. HistoryType'
    BY <1>6 DEF GrowInstall, Shape, TypeOK, HistoryType
  <2>3. IndexInBounds' /\ AddingShape'
    BY <1>6, <1>a DEF GrowInstall, Shape, IndexInBounds, AddingShape, TypeOK, RecvType
  <2> QED BY <2>1, <2>2, <2>3 DEF Shape, TypeOK
<1> QED
  BY <1>1, <1>2, <1>3, <1>4, <1>5, <1>6 DEF AcceptThread

\* ThreadRecv, ClientExit included, keeps the shape.
LEMMA RecvShape == ASSUME Shape, RecvThread PROVE Shape'
<1> USE DEF kernelVars, tableVars, acceptVars, recvVars, historyVars, NextSlot
<1>a. /\ Len(sock) \in Nat /\ Len(age) = Len(sock)
      /\ \A k \in 1..Len(sock) : sock[k] \in Descriptors
      /\ ri \in Nat /\ rn \in Nat /\ 0 \in Ages /\ Expired \in Ages
  BY LenProperties, ElementOfSeq, BoundsAssumption
     DEF Shape, TypeOK, TableType, RecvType, IndexInBounds, Ages, Expired
<1>1. CASE RecvTop \/ RoundEnd \/ SkipFreeSlot \/ VisitSlot
  <2>1. UNCHANGED <<kernelVars, tableVars, acceptVars, mpc, historyVars>>
    BY <1>1 DEF RecvTop, RoundEnd, SkipFreeSlot, VisitSlot
  <2>2. RecvType'
    BY <1>1, <1>a DEF RecvTop, RoundEnd, SkipFreeSlot, VisitSlot, Shape, TypeOK, RecvType, RecvPc,
                      IndexInBounds, Descriptors
  <2>3. IndexInBounds'
    BY <1>1, <1>a, <2>1
       DEF RecvTop, RoundEnd, SkipFreeSlot, VisitSlot, Shape, IndexInBounds, InSlot
  <2> QED
    BY <2>1, <2>2, <2>3
       DEF Shape, TypeOK, KernelType, TableType, AcceptType, HistoryType, AddingShape
<1>2. CASE RecvRequest \/ RecvNothing \/ RecvFailed \/ ExitClose \/ ExitForget
  <2>1. UNCHANGED <<tableVars, acceptVars, mpc, historyVars>>
    BY <1>2 DEF RecvRequest, RecvNothing, RecvFailed, ExitClose, ExitForget
  <2>2. KernelType' /\ RecvType'
    <3>1. CASE RecvRequest
      <4>1. PICK c \in Conns : /\ inbox[c] # <<>> /\ req' = Head(inbox[c])
                              /\ inbox' = [inbox EXCEPT ![c] = Tail(@)]
        BY <3>1 DEF RecvRequest
      <4>2. inbox[c] \in Seq(Requests)
        BY DEF Shape, TypeOK, KernelType
      <4>3. req' \in Requests /\ Tail(inbox[c]) \in Seq(Requests)
        BY <4>1, <4>2, HeadTailProperties
      <4> QED
        BY <3>1, <4>1, <4>3 DEF RecvRequest, Shape, TypeOK, KernelType, RecvType, RecvPc
    <3>2. CASE ExitClose
      BY <3>2 DEF ExitClose, Shape, TypeOK, KernelType, RecvType, RecvPc
    <3>3. CASE RecvNothing \/ RecvFailed \/ ExitForget
      BY <3>3, <1>a
         DEF RecvNothing, RecvFailed, ExitForget, Shape, TypeOK, KernelType, RecvType, RecvPc
    <3> QED BY <1>2, <3>1, <3>2, <3>3
  <2>3. IndexInBounds'
    BY <1>2, <1>a, <2>1
       DEF RecvRequest, RecvNothing, RecvFailed, ExitClose, ExitForget, Shape, IndexInBounds, InSlot
  <2> QED
    BY <2>1, <2>2, <2>3
       DEF Shape, TypeOK, KernelType, TableType, AcceptType, HistoryType, AddingShape
<1>3. CASE DoWorkForRecv \/ ExitZeroSocket \/ ExitZeroTimer
  <2>1. ri \in 1..Len(sock) /\ rn <= Len(sock)
    BY <1>3, <1>a DEF DoWorkForRecv, ExitZeroSocket, ExitZeroTimer, Shape, IndexInBounds, InSlot
  <2>2. /\ sock' \in Seq(Descriptors) /\ Len(sock') = Len(sock)
        /\ age' \in Seq(Ages) /\ Len(age') = Len(age)
    <3>1. 0 \in Descriptors /\ sock \in Seq(Descriptors) /\ age \in Seq(Ages)
      BY DEF Shape, TypeOK, TableType, Descriptors
    <3>2. CASE ExitZeroSocket
      BY <3>1, <3>2, <1>a, <2>1, ExceptSeq DEF ExitZeroSocket
    <3>3. CASE ExitZeroTimer
      BY <3>1, <3>3, <1>a, <2>1, ExceptSeq DEF ExitZeroTimer
    <3>4. CASE DoWorkForRecv
      BY <3>1, <3>4, <1>a, <2>1, ExceptSeq DEF DoWorkForRecv
    <3> QED
      BY <1>3, <3>2, <3>3, <3>4
  <2>3. UNCHANGED <<kernelVars, acceptVars, mpc>> /\ TableType'
    BY <1>3, <2>2 DEF DoWorkForRecv, ExitZeroSocket, ExitZeroTimer, Shape, TypeOK, TableType
  <2>4. RecvType'
    BY <1>3, <1>a
       DEF DoWorkForRecv, ExitZeroSocket, ExitZeroTimer, Shape, TypeOK, RecvType, RecvPc
  <2>5. HistoryType'
    <3>1. dropped' = dropped /\ torn' = torn
      BY <1>3 DEF DoWorkForRecv, ExitZeroSocket, ExitZeroTimer
    <3>2. quiet' \in [Conns -> Ages]
      BY <1>3, <1>a
         DEF DoWorkForRecv, ExitZeroSocket, ExitZeroTimer, Shape, TypeOK, HistoryType
    <3>3. clobbered' \in SUBSET Nat
      BY <1>3, <1>a
         DEF DoWorkForRecv, ExitZeroSocket, ExitZeroTimer, Shape, TypeOK, HistoryType
    <3> QED
      BY <3>1, <3>2, <3>3 DEF Shape, TypeOK, HistoryType
  <2>6. IndexInBounds'
    BY <1>3, <1>a, <2>1, <2>2
       DEF DoWorkForRecv, ExitZeroSocket, ExitZeroTimer, Shape, IndexInBounds, InSlot
  <2> QED
    BY <2>2, <2>3, <2>4, <2>5, <2>6 DEF Shape, TypeOK, KernelType, AcceptType, AddingShape
<1> QED
  BY <1>1, <1>2, <1>3 DEF RecvThread

\* The shutdown of main keeps the shape.
LEMMA MainShape == ASSUME Shape, MainThread PROVE Shape'
<1> USE DEF kernelVars, tableVars, acceptVars, recvVars, historyVars
<1>1. UNCHANGED <<owner, peer, inbox, credit, tableVars, acceptVars, recvVars, historyVars>>
  BY DEF MainThread, MainQuit, MainCloseListener, MainJoin
<1>2. backlog' \in Seq(Conns) /\ mpc' \in {"menu", "closing", "joining", "done"}
  BY EmptySeq
     DEF MainThread, MainQuit, MainCloseListener, MainJoin, Shape, TypeOK, KernelType
<1> QED
  BY <1>1, <1>2 DEF Shape, TypeOK, KernelType, TableType, AcceptType, RecvType, HistoryType,
                    IndexInBounds, AddingShape

\* The shape is an invariant of the server.
THEOREM ShapeInvariant == Spec => []Shape
<1>1. Init => Shape
  BY InitShape
<1>2. Shape /\ [Next]_vars => Shape'
  <2> SUFFICES ASSUME Shape, [Next]_vars PROVE Shape'
    OBVIOUS
  <2>1. CASE Clients
    BY <2>1, ClientsShape DEF Clients
  <2>2. CASE Tick
    BY <2>2, TickShape
  <2>3. CASE AcceptThread
    BY <2>3, AcceptShape
  <2>4. CASE RecvThread
    BY <2>4, RecvShape
  <2>5. CASE MainThread
    BY <2>5, MainShape
  <2>6. CASE UNCHANGED vars
    BY <2>6 DEF vars, kernelVars, tableVars, acceptVars, recvVars, historyVars,
                Shape, TypeOK, KernelType, TableType, AcceptType, RecvType, HistoryType,
                IndexInBounds, AddingShape
  <2> QED
    BY <2>1, <2>2, <2>3, <2>4, <2>5, <2>6 DEF Next
<1> QED
  BY <1>1, <1>2, PTL DEF Spec

\* The state is well typed in every reachable state.
THEOREM TypeCorrect == Spec => []TypeOK
BY ShapeInvariant, PTL DEF Shape

\* The sizes and indices that ThreadRecv and AddClientSocket keep across
\* steps of the other thread stay within the vector.
THEOREM BoundsCorrect == Spec => []IndexInBounds
BY ShapeInvariant, PTL DEF Shape

\* No descriptor is in two slots of s.
Distinct(s) == \A j, k \in 1..Len(s) : s[j] = s[k] /\ s[j] # 0 => j = k

\* The second inductive invariant: the table and a copy under way hold a
\* descriptor once, and the one to be added is in none of the slots that
\* AddClientSocket has looked at.
Unique ==
  /\ NoDuplicateSockets
  /\ apc = "find" => \A k \in 1..Len(sock) : k < aj => sock[k] # afd
  /\ apc = "free" => \A k \in 1..Len(sock) : sock[k] # afd
  /\ apc = "grow" => Distinct(spareSock)

\* Every step of the server keeps descriptors in one slot at most: only
\* ThreadAccept adds one, after it looked for it.
LEMMA UniqueStep == ASSUME Shape, Unique, [Next]_vars PROVE Unique'
<1> USE DEF kernelVars, tableVars, acceptVars, recvVars, historyVars
<1>a. /\ Len(sock) \in Nat /\ sock \in Seq(Descriptors) /\ aj \in Nat
      /\ apc \in {"find", "free", "grow", "stamp"} => afd # 0
      /\ afd \in Descriptors
  BY LenProperties, FdsAssumption DEF Shape, TypeOK, TableType, AcceptType, AddingShape
<1>1. CASE UNCHANGED <<sock, apc, afd, aj, spareSock>>
  BY <1>1 DEF Unique, NoDuplicateSockets, Distinct
<1>2. CASE ExitZeroSocket
  <2>1. \A k \in 1..Len(sock) : sock'[k] = sock[k] \/ sock'[k] = 0
    BY <1>2, <1>a DEF ExitZeroSocket
  <2>2. Len(sock') = Len(sock)
    BY <1>2, <1>a DEF ExitZeroSocket
  <2>3. UNCHANGED <<apc, afd, aj, spareSock>>
    BY <1>2 DEF ExitZeroSocket
  <2> QED
    BY <2>1, <2>2, <2>3, <1>a DEF Unique, NoDuplicateSockets, Distinct
<1>3. CASE AcceptTop \/ AcceptOk \/ AcceptFails \/ AcceptNonBlockFails \/ FindExisting \/ StampSlot
  <2>1. UNCHANGED <<sock, spareSock>>
    BY <1>3 DEF AcceptTop, AcceptOk, AcceptFails, AcceptNonBlockFails, FindExisting, StampSlot
  <2>2. NoDuplicateSockets'
    BY <2>1 DEF Unique, NoDuplicateSockets
  <2>3. CASE FindExisting
    BY <2>1, <2>2, <2>3, <1>a DEF FindExisting, Unique
  <2>4. CASE AcceptOk
    BY <2>1, <2>2, <2>4, <1>a DEF AcceptOk, Unique
  <2>5. CASE AcceptTop \/ AcceptFails \/ AcceptNonBlockFails \/ StampSlot
    BY <2>2, <2>5 DEF AcceptTop, AcceptFails, AcceptNonBlockFails, StampSlot, Unique
  <2> QED
    BY <1>3, <2>3, <2>4, <2>5
<1>4. CASE FindFree
  <2>1. \A k \in 1..Len(sock) : sock'[k] = sock[k] \/ (k = aj /\ sock'[k] = afd)
    BY <1>4, <1>a DEF FindFree
  <2>2. Len(sock') = Len(sock) /\ UNCHANGED <<afd, spareSock>>
    BY <1>4, <1>a DEF FindFree
  <2>3. apc' = "stamp" \/ (apc' = "free" /\ sock' = sock)
    BY <1>4 DEF FindFree
  <2>4. \A k \in 1..Len(sock) : sock[k] # afd
    BY <1>4 DEF FindFree, Unique
  <2> QED
    BY <2>1, <2>2, <2>3, <2>4 DEF Unique, NoDuplicateSockets
<1>5. CASE PushBack \/ GrowCopy
  <2>1. \A k \in 1..Len(sock) : sock[k] # afd
    BY <1>5 DEF PushBack, GrowCopy, Unique
  <2>2. /\ Len(Append(sock, afd)) = Len(sock) + 1
        /\ \A k \in 1..Len(sock) : Append(sock, afd)[k] = sock[k]
        /\ Append(sock, afd)[Len(sock) + 1] = afd
    BY <1>a, AppendProperties
  <2>3. Distinct(Append(sock, afd))
    <3> DEFINE s == Append(sock, afd)
    <3> SUFFICES ASSUME NEW j \in 1..Len(s), NEW k \in 1..Len(s), s[j] = s[k], s[j] # 0
                 PROVE j = k
      BY DEF Distinct
    <3>1. CASE j \in 1..Len(sock) /\ k \in 1..Len(sock)
      BY <3>1, <2>2 DEF Unique, NoDuplicateSockets
    <3>2. CASE j = Len(sock) + 1 \/ k = Len(sock) + 1
      BY <3>2, <2>1, <2>2, <1>a
    <3> QED
      BY <3>1, <3>2, <2>2, <1>a
  <2>4. CASE PushBack
    BY <2>3, <2>4 DEF PushBack, Unique, NoDuplicateSockets, Distinct
  <2>5. CASE GrowCopy
    BY <2>3, <2>5 DEF GrowCopy, Unique, NoDuplicateSockets
  <2> QED
    BY <1>5, <2>4, <2>5
<1>6. CASE GrowInstall
  BY <1>6 DEF GrowInstall, Unique, NoDuplicateSockets, Distinct
<1>7. Clients \/ Tick \/ MainThread \/ UNCHANGED vars => UNCHANGED <<sock, apc, afd, aj, spareSock>>
  BY DEF Clients, Connect, Hangup, SendRequest, Tick, MainThread, MainQuit, MainCloseListener,
         MainJoin, vars
<1>8. RecvThread => ExitZeroSocket \/ UNCHANGED <<sock, apc, afd, aj, spareSock>>
  BY DEF RecvThread, RecvTop, RoundEnd, SkipFreeSlot, VisitSlot, RecvRequest, RecvNothing,
         RecvFailed, DoWorkForRecv, ExitClose, ExitForget, ExitZeroTimer
<1> QED
  BY <1>1, <1>2, <1>3, <1>4, <1>5, <1>6, <1>7, <1>8 DEF Next, AcceptThread

\* A descriptor never is in two slots of g_vecClientSocket, so a client has
\* one timer and ClientExit closes what nobody else polls.
THEOREM NeverTwoSlots == Spec => []NoDuplicateSockets
<1>1. Init => Unique
  BY DEF Init, Unique, NoDuplicateSockets
<1>2. Shape /\ Unique /\ [Next]_vars => Unique'
  BY UniqueStep
<1>3. Unique => NoDuplicateSockets
  BY DEF Unique
<1> QED
  BY <1>1, <1>2, <1>3, ShapeInvariant, PTL DEF Spec

\* The descriptor has a slot, is on its way into one, or was refused.
Watched(f) ==
  \/ \E k \in 1..Len(sock) : sock[k] = f
  \/ apc \in {"find", "free", "grow"} /\ afd = f
  \/ owner[f] \in dropped

\* The third inductive invariant: every open descriptor is watched; the slot
\* ThreadRecv works on still holds the descriptor it read there; one that it
\* has closed is open again only for a connection that will be refused; and
\* a copy under way has every slot of the vector that is not free.
Attended ==
  /\ \A f \in Fds : owner[f] # NoConn => Watched(f)
  /\ rpc \in {"recv", "work", "close", "forget", "zero"} => rfd \in Fds /\ sock[ri] = rfd
  /\ rpc \in {"forget", "zero"} =>
       owner[rfd] = NoConn \/ (apc = "find" /\ afd = rfd) \/ owner[rfd] \in dropped
  /\ apc = "grow" =>
       /\ \A k \in 1..Len(sock) : sock[k] = spareSock[k] \/ sock[k] = 0
       /\ spareSock[Len(sock) + 1] = afd

\* ThreadAccept never leaves a descriptor that it does not add or refuse.
LEMMA AttendedAccept == ASSUME Shape, Unique, Attended, AcceptThread PROVE Attended'
<1> USE DEF kernelVars, tableVars, acceptVars, recvVars, historyVars
<1>a. /\ Len(sock) \in Nat /\ sock \in Seq(Descriptors) /\ aj \in Nat /\ aj' \in Nat
      /\ apc \in {"find", "free", "grow", "stamp"} => afd \in Fds
      /\ apc \in {"find", "free"} => aj >= 1
      /\ rpc \in InSlot => ri \in 1..Len(sock)
      /\ 0 \notin Fds /\ owner \in [Fds -> Conns \cup {NoConn}]
  BY LenProperties, FdsAssumption, AcceptShape
     DEF Shape, TypeOK, KernelType, TableType, AcceptType, RecvType, AddingShape, IndexInBounds
<1>b. /\ Len(Append(sock, afd)) = Len(sock) + 1 /\ Append(sock, afd)[Len(sock) + 1] = afd
      /\ \A k \in 1..Len(sock) : Append(sock, afd)[k] = sock[k]
  BY <1>a, AppendProperties DEF Shape, TypeOK, AcceptType
<1>1. CASE AcceptTop \/ AcceptFails \/ AcceptNonBlockFails \/ StampSlot
  <2>1. UNCHANGED <<owner, sock, dropped, rpc, ri, rfd, afd, spareSock>>
    BY <1>1 DEF AcceptTop, AcceptFails, AcceptNonBlockFails, StampSlot
  <2>2. /\ apc \in {"top", "accept", "stamp"} /\ apc' \notin {"find", "free", "grow"}
    BY <1>1 DEF AcceptTop, AcceptFails, AcceptNonBlockFails, StampSlot
  <2> QED
    BY <2>1, <2>2 DEF Attended, Watched
<1>2. CASE AcceptOk
  <2>1. PICK g \in Fds : /\ owner[g] = NoConn
                         /\ owner' = [owner EXCEPT ![g] = Head(backlog)]
                         /\ afd' = g
    BY <1>2 DEF AcceptOk, LowestFree, FreeFds
  <2>2. UNCHANGED <<sock, dropped, rpc, ri, rfd, spareSock>> /\ apc = "accept" /\ apc' = "find"
    BY <1>2 DEF AcceptOk
  <2>3. \A f \in Fds : f # g => owner'[f] = owner[f]
    BY <2>1, <1>a
  <2>4. \A f \in Fds : owner'[f] # NoConn => Watched(f)'
    BY <2>1, <2>2, <2>3 DEF Attended, Watched
  <2>5. rpc \in {"forget", "zero"} => owner'[rfd] = NoConn \/ afd' = rfd \/ owner'[rfd] \in dropped
    BY <2>1, <2>2, <2>3 DEF Attended
  <2> QED
    BY <2>2, <2>4, <2>5 DEF Attended
<1>3. CASE FindExisting
  <2>1. UNCHANGED <<owner, sock, rpc, ri, rfd, spareSock, afd>> /\ apc = "find"
    BY <1>3 DEF FindExisting
  <2>2. CASE apc' = "top"
    <3>1. \A c \in dropped : c \in dropped'
      BY <1>3, <2>2 DEF FindExisting
    <3>2. owner[afd] # NoConn => owner[afd] \in dropped'
      BY <1>3, <2>2 DEF FindExisting
    <3> QED
      BY <2>1, <2>2, <3>1, <3>2, <1>a DEF Attended, Watched
  <2>3. CASE apc' = "find"
    BY <1>3, <2>1, <2>3 DEF FindExisting, Attended, Watched
  <2>4. CASE apc' = "free"
    <3>1. dropped' = dropped /\ aj > Len(sock)
      BY <1>3, <2>4 DEF FindExisting
    <3>2. \A k \in 1..Len(sock) : sock[k] # afd
      BY <2>1, <3>1, <1>a DEF Unique
    <3>3. rpc \in {"forget", "zero"} => afd # rfd
      BY <3>2, <1>a DEF Attended, InSlot
    <3> QED
      BY <2>1, <2>4, <3>1, <3>3 DEF Attended, Watched
  <2> QED
    BY <1>3, <2>2, <2>3, <2>4 DEF FindExisting
<1>4. CASE FindFree \/ PushBack
  <2>1. UNCHANGED <<owner, dropped, rpc, ri, rfd, spareSock, afd>> /\ apc = "free"
    BY <1>4 DEF FindFree, PushBack
  <2>2. \A k \in 1..Len(sock) : k \in 1..Len(sock') /\ (sock'[k] = sock[k] \/ sock[k] = 0)
    <3>1. CASE FindFree
      BY <3>1, <1>a DEF FindFree
    <3>2. CASE PushBack
      BY <3>2, <1>a, <1>b DEF PushBack
    <3> QED
      BY <1>4, <3>1, <3>2
  <2>3. CASE FindFree /\ apc' = "free"
    BY <2>1, <2>3 DEF FindFree, Attended, Watched
  <2>4. CASE (FindFree /\ apc' = "stamp") \/ PushBack
    <3>1. apc' \in {"stamp", "top"} /\ \E k \in 1..Len(sock') : sock'[k] = afd
      <4>1. CASE FindFree /\ apc' = "stamp"
        BY <4>1, <1>a DEF FindFree
      <4>2. CASE PushBack
        BY <4>2, <1>a, <1>b DEF PushBack
      <4> QED
        BY <2>4, <4>1, <4>2
    <3>2. \A f \in Fds : owner'[f] # NoConn => Watched(f)'
      BY <2>1, <2>2, <3>1, <1>a DEF Attended, Watched
    <3>3. rpc \in InSlot => sock'[ri] = sock[ri] \/ sock[ri] = 0
      BY <2>2, <1>a
    <3> QED
      BY <2>1, <3>1, <3>2, <3>3, <1>a DEF Attended, InSlot
  <2> QED
    BY <1>4, <2>3, <2>4 DEF FindFree
<1>5. CASE GrowCopy
  <2>1. /\ \A k \in 1..Len(sock) : spareSock'[k] = sock[k]
        /\ spareSock'[Len(sock) + 1] = afd
    BY <1>5, <1>b DEF GrowCopy
  <2>2. UNCHANGED <<owner, sock, dropped, rpc, ri, rfd, afd>> /\ apc = "free" /\ apc' = "grow"
    BY <1>5 DEF GrowCopy
  <2> QED
    BY <2>1, <2>2 DEF Attended, Watched
<1>6. CASE GrowInstall
  <2>1. /\ UNCHANGED <<owner, dropped, rpc, ri, rfd, afd>> /\ apc = "grow" /\ apc' = "top"
        /\ sock' = spareSock /\ Len(sock') = Len(sock) + 1
    BY <1>6 DEF GrowInstall, Shape, AddingShape
  <2>2. /\ \A k \in 1..Len(sock) : k \in 1..Len(sock') /\ (sock[k] = sock'[k] \/ sock[k] = 0)
        /\ Len(sock) + 1 \in 1..Len(sock') /\ sock'[Len(sock) + 1] = afd
    BY <2>1, <1>a DEF Attended
  <2>3. \A f \in Fds : owner'[f] # NoConn => Watched(f)'
    BY <2>1, <2>2, <1>a DEF Attended, Watched
  <2>4. rpc \in InSlot => sock'[ri] = sock[ri] \/ sock[ri] = 0
    BY <2>2, <1>a
  <2> QED
    BY <2>1, <2>3, <2>4, <1>a DEF Attended, InSlot
<1> QED
  BY <1>1, <1>2, <1>3, <1>4, <1>5, <1>6 DEF AcceptThread

\* ThreadRecv takes a descriptor out of the table only after closing it.
LEMMA AttendedRecv == ASSUME Shape, Unique, Attended, RecvThread PROVE Attended'
<1> USE DEF kernelVars, tableVars, acceptVars, recvVars, historyVars, NextSlot
<1>a. /\ Len(sock) \in Nat /\ sock \in Seq(Descriptors)
      /\ \A k \in 1..Len(sock) : sock[k] \in Descriptors
      /\ ri \in Nat /\ rn \in Nat
      /\ rpc \in InSlot => ri \in 1..Len(sock)
      /\ rpc = "visit" => rn <= Len(sock) /\ ri >= 1
      /\ 0 \notin Fds /\ owner \in [Fds -> Conns \cup {NoConn}]
  BY LenProperties, FdsAssumption, ElementOfSeq
     DEF Shape, TypeOK, KernelType, TableType, RecvType, IndexInBounds
<1>1. UNCHANGED <<apc, afd, spareSock, dropped>>
  BY DEF RecvThread, RecvTop, RoundEnd, SkipFreeSlot, VisitSlot, RecvRequest, RecvNothing,
         RecvFailed, DoWorkForRecv, ExitClose, ExitForget, ExitZeroSocket, ExitZeroTimer
<1>2. CASE RecvTop \/ RoundEnd \/ SkipFreeSlot \/ RecvNothing \/ DoWorkForRecv \/ ExitZeroTimer
  <2>1. UNCHANGED <<owner, sock>> /\ rpc' \in {"top", "visit", "done"}
    BY <1>2 DEF RecvTop, RoundEnd, SkipFreeSlot, RecvNothing, DoWorkForRecv, ExitZeroTimer
  <2> QED
    BY <1>1, <2>1 DEF Attended, Watched
<1>3. CASE VisitSlot
  <2>1. UNCHANGED <<owner, sock, ri>> /\ rpc' \in {"recv", "close"} /\ rfd' = sock[ri] /\ rfd' # 0
    BY <1>3 DEF VisitSlot
  <2>2. ri \in 1..Len(sock)
    BY <1>3, <1>a DEF VisitSlot
  <2>3. rfd' \in Fds
    BY <2>1, <2>2, <1>a DEF Descriptors
  <2> QED
    BY <1>1, <2>1, <2>3 DEF Attended, Watched
<1>4. CASE RecvRequest \/ RecvFailed
  <2>1. UNCHANGED <<owner, sock, ri, rfd>> /\ rpc = "recv" /\ rpc' \in {"work", "close"}
    BY <1>4 DEF RecvRequest, RecvFailed
  <2> QED
    BY <1>1, <2>1 DEF Attended, Watched
<1>5. CASE ExitForget
  <2>1. UNCHANGED <<owner, sock, ri, rfd>> /\ rpc = "forget" /\ rpc' = "zero"
    BY <1>5 DEF ExitForget
  <2> QED
    BY <1>1, <2>1 DEF Attended, Watched
<1>6. CASE ExitClose
  <2>1. UNCHANGED <<sock, ri, rfd>> /\ rpc = "close" /\ rpc' = "forget"
    BY <1>6 DEF ExitClose
  <2>2. \A f \in Fds : owner'[f] = IF f = rfd THEN NoConn ELSE owner[f]
    BY <1>6, <2>1 DEF ExitClose, Attended
  <2>3. rfd \in Fds /\ sock[ri] = rfd
    BY <2>1 DEF Attended
  <2> QED
    BY <1>1, <2>1, <2>2, <2>3 DEF Attended, Watched
<1>7. CASE ExitZeroSocket
  <2>1. UNCHANGED <<owner, ri, rfd>> /\ rpc = "zero" /\ rpc' = "zerotimer"
    BY <1>7 DEF ExitZeroSocket
  <2>2. /\ ri \in 1..Len(sock) /\ Len(sock') = Len(sock)
        /\ \A k \in 1..Len(sock) : sock'[k] = IF k = ri THEN 0 ELSE sock[k]
    BY <1>7, <1>a, <2>1 DEF ExitZeroSocket, InSlot
  <2>3. sock[ri] = rfd /\ (owner[rfd] = NoConn \/ (apc = "find" /\ afd = rfd) \/ owner[rfd] \in dropped)
    BY <2>1 DEF Attended
  <2>4. \A f \in Fds : owner[f] # NoConn => Watched(f)'
    BY <1>1, <2>1, <2>2, <2>3 DEF Attended, Watched
  <2> QED
    BY <1>1, <2>1, <2>2, <2>4 DEF Attended
<1> QED
  BY <1>2, <1>3, <1>4, <1>5, <1>6, <1>7 DEF RecvThread

\* Clients, the clock and main do not touch descriptors or slots.
LEMMA AttendedRest ==
  ASSUME Shape, Attended, Clients \/ Tick \/ MainThread \/ UNCHANGED vars PROVE Attended'
<1>1. UNCHANGED <<owner, sock, dropped, apc, afd, spareSock, rpc, ri, rfd>>
  BY DEF Clients, Connect, Hangup, SendRequest, Tick, MainThread, MainQuit, MainCloseListener,
         MainJoin, vars, kernelVars, tableVars, acceptVars, recvVars, historyVars
<1> QED
  BY <1>1 DEF Attended, Watched

\* The three invariants hold together: what the proofs about the races of
\* the two threads start from.
TableInv == Shape /\ Unique /\ Attended

\* They hold in every reachable state.
THEOREM TableInvariant == Spec => []TableInv
<1>1. Init => Unique /\ Attended
  BY DEF Init, Unique, NoDuplicateSockets, Attended
<1>2. Shape /\ Unique /\ [Next]_vars => Unique'
  BY UniqueStep
<1>3. Shape /\ Unique /\ Attended /\ [Next]_vars => Attended'
  BY AttendedAccept, AttendedRecv, AttendedRest DEF Next
<1> QED
  BY <1>1, <1>2, <1>3, ShapeInvariant, PTL DEF Spec, TableInv

\* Every open connection is in the table, being added, or was dropped by
\* AddClientSocket: none is lost by a race of the two threads.
THEOREM NeverUnattended == Spec => []WatchedOrDropped
<1>1. TableInv => WatchedOrDropped
  BY DEF TableInv, Attended, Watched, WatchedOrDropped
<1> QED
  BY <1>1, TableInvariant, PTL
=============================================================================
