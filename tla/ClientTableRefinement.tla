----------------------- MODULE ClientTableRefinement -----------------------
(***************************************************************************)
(* ClientTable implements ConnTable, for every number of connections,      *)
(* descriptors and requests: step by step, with the descriptors that have  *)
(* a slot for "watched", the one between accept and its slot for "adding"  *)
(* and the one between close and the end of its slot for "leaving".        *)
(* Everything else that the two threads do leaves these as they are.       *)
(***************************************************************************)
EXTENDS ClientTableRaceProofs

\* What ThreadAccept writes to slots takes none from ThreadRecv.
LEMMA LeavingKept ==
  ASSUME TableInv, UNCHANGED <<rpc, ri>>,
         Len(sock) <= Len(sock'), Len(sock') \in Nat,
         \A k \in 1..Len(sock) : sock'[k] = sock[k] \/ sock[k] = 0
  PROVE  Leaving' = Leaving
<1>1. rpc \in {"forget", "zero"} => ri \in 1..Len(sock) /\ sock[ri] # 0
  BY FdsAssumption, LenProperties
     DEF TableInv, Shape, TypeOK, TableType, RecvType, IndexInBounds, InSlot, Attended
<1> QED
  BY <1>1 DEF Leaving

\* The write that gives a descriptor its slot is Add: the descriptor had
\* none, and no other one loses its slot.
LEMMA AddsSlot ==
  ASSUME TableInv, apc \in {"free", "grow"}, apc' \notin {"find", "free", "grow"},
         UNCHANGED <<owner, rpc, ri>>,
         Len(sock) <= Len(sock'), Len(sock') \in Nat, Len(sock) \in Nat,
         \A k \in 1..Len(sock) : sock'[k] = sock[k] \/ sock[k] = 0,
         \A k \in 1..Len(sock') : sock'[k] \in Fds \cup {0},
         \A k \in 1..Len(sock) : sock[k] # afd,
         \E k \in 1..Len(sock') : sock'[k] = afd
  PROVE  Table!Add
<1>1. Adding = afd /\ Adding' = 0 /\ afd \in Fds /\ 0 \notin Fds
  BY FdsAssumption DEF Adding, TableInv, Shape, AddingShape
<1>2. afd \notin Watching
  BY DEF Watching
<1>3. Watching \subseteq Watching' /\ afd \in Watching' /\ Watching' \subseteq Fds
  <2>1. Watching \subseteq Watching'
    BY DEF Watching
  <2>2. afd \in Watching' /\ Watching' \subseteq Fds
    BY <1>1 DEF Watching
  <2> QED
    BY <2>1, <2>2
<1> DEFINE back == Watching' \ {afd}
<1>4. back \in SUBSET (Fds \ {afd}) /\ Watching' = Watching \cup {afd} \cup back
  BY <1>3
<1>5. Leaving' = Leaving
  BY LeavingKept
<1> HIDE DEF back
<1> QED
  BY <1>1, <1>2, <1>4, <1>5 DEF Table!Add

\* A step that leaves the descriptors, the slots and the two halfway places
\* alone is none of ConnTable's.
LEMMA Stutters ==
  ASSUME UNCHANGED <<owner, sock>>, Adding' = Adding, Leaving' = Leaving
  PROVE  UNCHANGED Table!vars
BY DEF Table!vars, Watching

\* Every step of ThreadAccept is Accept, Refuse, Add or nothing.
LEMMA AcceptImplements ==
  ASSUME RaceInv, AcceptThread PROVE Table!Next \/ UNCHANGED Table!vars
<1> USE DEF kernelVars, tableVars, acceptVars, recvVars, historyVars
<1>a. /\ Len(sock) \in Nat /\ sock \in Seq(Descriptors) /\ aj \in Nat
      /\ \A k \in 1..Len(sock) : sock[k] \in Fds \cup {0}
      /\ apc \in {"find", "free", "grow", "stamp"} => afd \in Fds
      /\ apc \in {"find", "free"} => aj >= 1
      /\ 0 \notin Fds /\ afd \in Descriptors
  BY LenProperties, FdsAssumption, ElementOfSeq
     DEF RaceInv, TableInv, Shape, TypeOK, TableType, AcceptType, AddingShape, IndexInBounds,
         Descriptors
<1>b. UNCHANGED <<rpc, ri>>
  BY DEF AcceptThread, AcceptTop, AcceptOk, AcceptFails, AcceptNonBlockFails, FindExisting,
         FindFree, StampSlot, PushBack, GrowCopy, GrowInstall
<1>c. sock' = sock => Leaving' = Leaving
  BY <1>b DEF Leaving
<1>1. CASE AcceptTop \/ AcceptFails \/ AcceptNonBlockFails \/ StampSlot \/ GrowCopy
  <2>1. UNCHANGED <<owner, sock>> /\ Adding' = Adding
    BY <1>1 DEF AcceptTop, AcceptFails, AcceptNonBlockFails, StampSlot, GrowCopy, Adding
  <2> QED
    BY <2>1, <1>c, Stutters
<1>2. CASE AcceptOk
  <2>1. Head(backlog) \in Conns /\ ~Open(Head(backlog))
    BY <1>2, QueuedTail DEF AcceptOk, RaceInv, TableInv
  <2>2. Adding = 0 /\ Adding' = afd' /\ sock' = sock
    BY <1>2 DEF AcceptOk, Adding
  <2>3. \E f \in Fds : /\ LowestFree(f)
                      /\ owner' = [owner EXCEPT ![f] = Head(backlog)]
                      /\ Adding' = f
    BY <1>2, <2>2 DEF AcceptOk
  <2>4. Watching' = Watching
    BY <2>2 DEF Watching
  <2>5. Table!Accept(Head(backlog))
    BY <2>1, <2>2, <2>3, <2>4, <1>c
       DEF Table!Accept, Table!Open, Table!LowestFree, Table!FreeFds, Open, LowestFree, FreeFds
  <2> QED
    BY <2>1, <2>5 DEF Table!Next
<1>3. CASE FindExisting /\ apc' = "top"
  <2>1. /\ apc = "find" /\ aj \in 1..Len(sock) /\ sock[aj] = afd
        /\ UNCHANGED <<owner, sock>>
    BY <1>3, <1>a DEF FindExisting
  <2>2. Adding = afd /\ Adding' = 0 /\ afd # 0
    BY <1>3, <2>1, <1>a DEF Adding
  <2>3. Adding \in Watching /\ Watching' = Watching
    BY <2>1, <2>2 DEF Watching
  <2>4. Table!Refuse
    BY <2>1, <2>2, <2>3, <1>c DEF Table!Refuse
  <2> QED
    BY <2>4 DEF Table!Next
<1>4. CASE FindExisting /\ apc' # "top"
  <2>1. UNCHANGED <<owner, sock, afd>> /\ apc = "find" /\ apc' \in {"find", "free"}
    BY <1>4 DEF FindExisting
  <2> QED
    BY <2>1, <1>c, Stutters DEF Adding
<1>5. CASE FindFree /\ apc' = "free"
  <2>1. UNCHANGED <<owner, sock, afd>> /\ apc = "free"
    BY <1>5 DEF FindFree
  <2> QED
    BY <1>5, <2>1, <1>c, Stutters DEF Adding
<1>6. CASE FindFree /\ apc' # "free"
  <2>1. /\ apc = "free" /\ apc' = "stamp" /\ aj \in 1..Len(sock) /\ sock[aj] = 0
        /\ sock' = [sock EXCEPT ![aj] = afd] /\ UNCHANGED owner
    BY <1>6, <1>a DEF FindFree
  <2>2. Len(sock') = Len(sock) /\ \A k \in 1..Len(sock) : sock'[k] = IF k = aj THEN afd ELSE sock[k]
    BY <2>1, <1>a
  <2>3. \A k \in 1..Len(sock) : sock[k] # afd
    BY <2>1 DEF RaceInv, TableInv, Unique
  <2>4. Table!Add
    <3>1. \A k \in 1..Len(sock) : sock'[k] = sock[k] \/ sock[k] = 0
      BY <2>1, <2>2
    <3>2. \A k \in 1..Len(sock') : sock'[k] \in Fds \cup {0}
      BY <2>1, <2>2, <1>a
    <3>3. \E k \in 1..Len(sock') : sock'[k] = afd
      BY <2>1, <2>2
    <3> QED
      BY <2>1, <2>2, <2>3, <3>1, <3>2, <3>3, <1>a, <1>b, AddsSlot DEF RaceInv
  <2> QED
    BY <2>4 DEF Table!Next
<1>7. CASE PushBack
  <2>1. apc = "free" /\ apc' = "top" /\ sock' = Append(sock, afd) /\ UNCHANGED owner
    BY <1>7 DEF PushBack
  <2>2. /\ Len(sock') = Len(sock) + 1 /\ sock'[Len(sock) + 1] = afd
        /\ \A k \in 1..Len(sock) : sock'[k] = sock[k]
    BY <2>1, <1>a, AppendProperties
  <2>3. \A k \in 1..Len(sock) : sock[k] # afd
    BY <2>1 DEF RaceInv, TableInv, Unique
  <2>4. \A k \in 1..Len(sock') : k \in 1..Len(sock) \/ k = Len(sock) + 1
    BY <2>2, <1>a
  <2>5. Table!Add
    <3>1. \A k \in 1..Len(sock') : sock'[k] \in Fds \cup {0}
      BY <2>1, <2>2, <2>4, <1>a
    <3>2. Len(sock) + 1 \in 1..Len(sock')
      BY <2>2, <1>a
    <3> QED
      BY <2>1, <2>2, <2>3, <3>1, <3>2, <1>a, <1>b, AddsSlot DEF RaceInv
  <2> QED
    BY <2>5 DEF Table!Next
<1>8. CASE GrowInstall
  <2>1. apc = "grow" /\ apc' = "top" /\ sock' = spareSock /\ UNCHANGED owner
    BY <1>8 DEF GrowInstall
  <2>2. /\ Len(sock') = Len(sock) + 1 /\ sock'[Len(sock) + 1] = afd
        /\ \A k \in 1..Len(sock) : sock'[k] = sock[k] \/ sock[k] = 0
        /\ Distinct(sock')
    BY <2>1 DEF RaceInv, TableInv, Shape, AddingShape, Attended, Unique
  <2>3. \A k \in 1..Len(sock) : sock[k] # afd
    <3> SUFFICES ASSUME NEW k \in 1..Len(sock), sock[k] = afd PROVE FALSE
      OBVIOUS
    <3>1. sock'[k] = afd /\ afd # 0
      BY <2>1, <2>2, <1>a
    <3>2. k \in 1..Len(sock') /\ Len(sock) + 1 \in 1..Len(sock') /\ k # Len(sock) + 1
      BY <2>2, <1>a
    <3> QED
      BY <2>2, <3>1, <3>2 DEF Distinct
  <2>4. \A k \in 1..Len(sock') : sock'[k] \in Fds \cup {0}
    BY <2>1, ElementOfSeq DEF RaceInv, TableInv, Shape, TypeOK, AcceptType, Descriptors
  <2>5. Table!Add
    <3>1. Len(sock) + 1 \in 1..Len(sock')
      BY <2>2, <1>a
    <3> QED
      BY <2>1, <2>2, <2>3, <2>4, <3>1, <1>a, <1>b, AddsSlot DEF RaceInv
  <2> QED
    BY <2>5 DEF Table!Next
<1> QED
  BY <1>1, <1>2, <1>3, <1>4, <1>5, <1>6, <1>7, <1>8 DEF AcceptThread

\* Every step of ThreadRecv is Close, Free or nothing.
LEMMA RecvImplements ==
  ASSUME RaceInv, RecvThread PROVE Table!Next \/ UNCHANGED Table!vars
<1> USE DEF kernelVars, tableVars, acceptVars, recvVars, historyVars, NextSlot
<1>a. /\ Len(sock) \in Nat /\ sock \in Seq(Descriptors)
      /\ rpc \in InSlot => ri \in 1..Len(sock)
      /\ 0 \notin Fds /\ owner \in [Fds -> Conns \cup {NoConn}]
  BY LenProperties, FdsAssumption
     DEF RaceInv, TableInv, Shape, TypeOK, KernelType, TableType, RecvType, IndexInBounds
<1>b. UNCHANGED <<apc, afd>>
  BY DEF RecvThread, RecvTop, RoundEnd, SkipFreeSlot, VisitSlot, RecvRequest, RecvNothing,
         RecvFailed, DoWorkForRecv, ExitClose, ExitForget, ExitZeroSocket, ExitZeroTimer
<1>c. Adding' = Adding
  BY <1>b DEF Adding
<1>1. CASE ExitClose
  <2>1. UNCHANGED <<sock, ri>> /\ rpc = "close" /\ rpc' = "forget"
    BY <1>1 DEF ExitClose
  <2>2. rfd \in Fds /\ sock[ri] = rfd /\ ri \in 1..Len(sock)
    BY <2>1, <1>a DEF RaceInv, TableInv, Attended, InSlot
  <2>3. rfd \in Watching /\ Watching' = Watching
    BY <2>1, <2>2, <1>a DEF Watching
  <2>4. Leaving = 0 /\ Leaving' = rfd
    BY <2>1, <2>2 DEF Leaving
  <2>5. owner' = [owner EXCEPT ![rfd] = NoConn]
    BY <1>1, <2>2, <1>a DEF ExitClose
  <2>6. Table!Close(rfd)
    BY <2>3, <2>4, <2>5, <1>c DEF Table!Close
  <2> QED
    BY <2>2, <2>6 DEF Table!Next
<1>2. CASE ExitZeroSocket
  <2>1. UNCHANGED <<owner, ri, rfd>> /\ rpc = "zero" /\ rpc' = "zerotimer"
    BY <1>2 DEF ExitZeroSocket
  <2>2. ri \in 1..Len(sock) /\ sock[ri] = rfd /\ rfd \in Fds
    BY <2>1, <1>a DEF RaceInv, TableInv, Attended, InSlot
  <2>3. /\ Len(sock') = Len(sock)
        /\ \A k \in 1..Len(sock) : sock'[k] = IF k = ri THEN 0 ELSE sock[k]
    BY <1>2, <2>2, <1>a DEF ExitZeroSocket
  <2>4. \A k \in 1..Len(sock) : sock[k] = rfd => k = ri
    BY <2>2, <1>a DEF RaceInv, TableInv, Unique, NoDuplicateSockets
  <2>5. Watching' = Watching \ {rfd}
    BY <2>2, <2>3, <2>4 DEF Watching
  <2>6. Leaving = rfd /\ rfd # 0 /\ Leaving' = 0
    BY <2>1, <2>2, <1>a DEF Leaving
  <2>7. Table!Free
    BY <2>1, <2>5, <2>6, <1>c DEF Table!Free
  <2> QED
    BY <2>7 DEF Table!Next
<1>3. CASE ExitForget
  <2>1. UNCHANGED <<owner, sock, ri>> /\ rpc = "forget" /\ rpc' = "zero"
    BY <1>3 DEF ExitForget
  <2> QED
    BY <2>1, <1>c, Stutters DEF Leaving
<1>4. CASE /\ UNCHANGED <<owner, sock>>
           /\ rpc \notin {"forget", "zero"} /\ rpc' \notin {"forget", "zero"}
  BY <1>4, <1>c, Stutters DEF Leaving
<1> QED
  BY <1>1, <1>2, <1>3, <1>4
     DEF RecvThread, RecvTop, RoundEnd, SkipFreeSlot, VisitSlot, RecvRequest, RecvNothing,
         RecvFailed, DoWorkForRecv, ExitZeroTimer

\* The table of clients, worked on slot by slot by two threads without a
\* lock, is to the rest of the server a set of descriptors that changes by
\* the steps of ConnTable and no other.
THEOREM Refinement == Spec => ImplementsConnTable
<1>1. Init => Table!Init
  <2>1. Init => Watching = {} /\ Adding = 0 /\ Leaving = 0
    BY DEF Init, Watching, Adding, Leaving
  <2> QED
    BY <2>1 DEF Init, Table!Init
<1>2. RaceInv /\ [Next]_vars => [Table!Next]_(Table!vars)
  <2> SUFFICES ASSUME RaceInv, [Next]_vars PROVE Table!Next \/ UNCHANGED Table!vars
    OBVIOUS
  <2>1. CASE AcceptThread
    BY <2>1, AcceptImplements
  <2>2. CASE RecvThread
    BY <2>2, RecvImplements
  <2>3. CASE Clients \/ Tick \/ MainThread \/ UNCHANGED vars
    <3>1. UNCHANGED <<owner, sock, apc, afd, rpc, ri>>
      BY <2>3
         DEF Clients, Connect, Hangup, SendRequest, Tick, MainThread, MainQuit,
             MainCloseListener, MainJoin, vars, kernelVars, tableVars, acceptVars, recvVars,
             historyVars
    <3> QED
      BY <3>1, Stutters DEF Adding, Leaving
  <2> QED
    BY <2>1, <2>2, <2>3 DEF Next
<1> QED
  BY <1>1, <1>2, RaceInvariant, PTL DEF Spec, ImplementsConnTable, Table!Spec
=============================================================================
