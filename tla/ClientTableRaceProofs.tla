----------------------- MODULE ClientTableRaceProofs -----------------------
(***************************************************************************)
(* The two action properties of ClientTable, which say when the races of   *)
(* ThreadAccept and ThreadRecv hurt a client, for every number of          *)
(* connections, descriptors and requests and for every timeout: a          *)
(* connection is refused only in the window of ClientExit, and one is      *)
(* timed out early only by one of three races.  Queued is about the        *)
(* kernel, Window about descriptors that are closed and still in a slot,   *)
(* Timers about the age of a slot and the silence of its client.           *)
(***************************************************************************)
EXTENDS ClientTableProofs

\* A connection has one descriptor at most, and one that is not accepted
\* yet is in the backlog once, with no descriptor.
Queued ==
  /\ \A f, g \in Fds : owner[f] = owner[g] /\ owner[f] # NoConn => f = g
  /\ \A f \in Fds : owner[f] # NoConn => peer[owner[f]] # "new"
  /\ \A j \in 1..Len(backlog) : ~Open(backlog[j]) /\ peer[backlog[j]] # "new"
  /\ \A j, k \in 1..Len(backlog) : backlog[j] = backlog[k] => j = k

\* accept takes the head of the backlog; what is left is still queued.
LEMMA QueuedTail ==
  ASSUME Shape, Queued, backlog # <<>>
  PROVE  /\ Head(backlog) \in Conns /\ ~Open(Head(backlog)) /\ peer[Head(backlog)] # "new"
         /\ Len(Tail(backlog)) \in Nat
         /\ \A j \in 1..Len(Tail(backlog)) :
              /\ ~Open(Tail(backlog)[j]) /\ peer[Tail(backlog)[j]] # "new"
              /\ Tail(backlog)[j] # Head(backlog)
         /\ \A j, k \in 1..Len(Tail(backlog)) : Tail(backlog)[j] = Tail(backlog)[k] => j = k
<1>1. backlog \in Seq(Conns) /\ Len(backlog) \in Nat
  BY LenProperties DEF Shape, TypeOK, KernelType
<1>2. /\ Head(backlog) \in Conns /\ Len(Tail(backlog)) = Len(backlog) - 1
      /\ \A j \in 1..Len(Tail(backlog)) : Tail(backlog)[j] = backlog[j + 1]
  BY <1>1, HeadTailProperties
<1>3. Len(backlog) # 0
  BY <1>1, EmptySeq
<1>4. Head(backlog) = backlog[1]
  BY <1>1
<1>5. \A j \in 1..Len(Tail(backlog)) : j + 1 \in 1..Len(backlog) /\ j + 1 # 1
  BY <1>1, <1>2
<1> QED
  BY <1>1, <1>2, <1>3, <1>4, <1>5 DEF Queued

\* Connecting puts a new client at the end of the backlog, accept takes the
\* first one and gives it a descriptor, and close takes a descriptor away.
LEMMA QueuedStep == ASSUME Shape, Queued, [Next]_vars PROVE Queued'
<1> USE DEF kernelVars, tableVars, acceptVars, recvVars, historyVars
<1>a. /\ backlog \in Seq(Conns) /\ Len(backlog) \in Nat
      /\ owner \in [Fds -> Conns \cup {NoConn}]
      /\ peer \in [Conns -> {"new", "open", "fin"}]
      /\ NoConn \notin Conns
  BY LenProperties, ConnsAssumption DEF Shape, TypeOK, KernelType
<1>1. ASSUME NEW c \in Conns, Connect(c) PROVE Queued'
  <2>1. owner' = owner /\ backlog' = Append(backlog, c) /\ peer[c] = "new"
    BY <1>1 DEF Connect
  <2>2. peer'[c] = "open" /\ \A d \in Conns : peer[d] # "new" => peer'[d] # "new"
    BY <1>1, <1>a DEF Connect
  <2>3. /\ Len(backlog') = Len(backlog) + 1
        /\ \A j \in 1..Len(backlog) : backlog'[j] = backlog[j]
        /\ backlog'[Len(backlog) + 1] = c
    BY <2>1, <1>a, AppendProperties
  <2>4. \A j \in 1..Len(backlog) : backlog[j] \in Conns /\ backlog[j] # c
    BY <2>1, <1>a, ElementOfSeq DEF Queued
  <2>5. ~Open(c)
    BY <2>1, <1>a DEF Queued, Open
  <2>6. \A f \in Fds : owner[f] # NoConn => peer'[owner[f]] # "new"
    BY <2>2, <1>a DEF Queued
  <2>7. \A j \in 1..Len(backlog') : j \in 1..Len(backlog) \/ j = Len(backlog) + 1
    BY <2>3, <1>a
  <2>8. \A j \in 1..Len(backlog') : ~Open(backlog'[j]) /\ peer'[backlog'[j]] # "new"
    BY <2>2, <2>3, <2>4, <2>5, <2>7 DEF Queued
  <2>9. \A j, k \in 1..Len(backlog') : backlog'[j] = backlog'[k] => j = k
    BY <2>3, <2>4, <2>7 DEF Queued
  <2> QED
    BY <2>1, <2>6, <2>8, <2>9 DEF Queued, Open
<1>2. ASSUME NEW c \in Conns, Hangup(c) PROVE Queued'
  <2>1. UNCHANGED <<owner, backlog>>
    BY <1>2 DEF Hangup
  <2>2. \A d \in Conns : peer[d] # "new" => peer'[d] # "new"
    BY <1>2, <1>a DEF Hangup
  <2>3. \A j \in 1..Len(backlog) : backlog[j] \in Conns
    BY <1>a, ElementOfSeq
  <2> QED
    BY <2>1, <2>2, <2>3, <1>a DEF Queued, Open
<1>3. CASE AcceptOk
  <2>1. PICK g \in Fds : owner[g] = NoConn /\ owner' = [owner EXCEPT ![g] = Head(backlog)]
    BY <1>3 DEF AcceptOk, LowestFree, FreeFds
  <2>2. backlog # <<>> /\ backlog' = Tail(backlog) /\ peer' = peer
    BY <1>3 DEF AcceptOk
  <2>3. \A f \in Fds : owner'[f] = IF f = g THEN Head(backlog) ELSE owner[f]
    BY <2>1, <1>a
  <2>4. ~Open(Head(backlog)) /\ Head(backlog) \in Conns /\ peer[Head(backlog)] # "new"
    BY <2>2, QueuedTail
  <2>5. \A f, h \in Fds : owner'[f] = owner'[h] /\ owner'[f] # NoConn => f = h
    BY <2>3, <2>4 DEF Queued, Open
  <2>6. \A f \in Fds : owner'[f] # NoConn => peer[owner'[f]] # "new"
    BY <2>3, <2>4 DEF Queued
  <2>7. \A j \in 1..Len(Tail(backlog)) :
          ~(\E f \in Fds : owner'[f] = Tail(backlog)[j]) /\ peer[Tail(backlog)[j]] # "new"
    BY <2>2, <2>3, QueuedTail DEF Open
  <2>8. \A j, k \in 1..Len(Tail(backlog)) : Tail(backlog)[j] = Tail(backlog)[k] => j = k
    BY <2>2, QueuedTail
  <2> QED
    BY <2>2, <2>5, <2>6, <2>7, <2>8 DEF Queued, Open
<1>4. CASE AcceptNonBlockFails
  <2>1. backlog # <<>> /\ backlog' = Tail(backlog) /\ UNCHANGED <<owner, peer>>
    BY <1>4 DEF AcceptNonBlockFails
  <2> QED
    BY <2>1, QueuedTail DEF Queued, Open
<1>5. CASE ExitClose
  <2>1. UNCHANGED <<backlog, peer>>
    BY <1>5 DEF ExitClose
  <2>2. \A f \in Fds : owner'[f] = NoConn \/ owner'[f] = owner[f]
    BY <1>5 DEF ExitClose
  <2>3. \A j \in 1..Len(backlog) : backlog[j] \in Conns
    BY <1>a, ElementOfSeq
  <2> QED
    BY <2>1, <2>2, <2>3, <1>a DEF Queued, Open
<1>6. CASE MainCloseListener
  <2>1. UNCHANGED <<owner, peer>> /\ (backlog' = backlog \/ Len(backlog') = 0)
    BY <1>6, EmptySeq DEF MainCloseListener
  <2> QED
    BY <2>1 DEF Queued, Open
<1>7. CASE UNCHANGED <<backlog, owner, peer>>
  BY <1>7 DEF Queued, Open
<1>8. Tick \/ UNCHANGED vars \/ MainQuit \/ MainJoin => UNCHANGED <<backlog, owner, peer>>
  BY DEF Tick, vars, MainQuit, MainJoin
<1>9. \A c \in Conns, r \in Requests : SendRequest(c, r) => UNCHANGED <<backlog, owner, peer>>
  BY DEF SendRequest
<1>10. AcceptThread => AcceptOk \/ AcceptNonBlockFails \/ UNCHANGED <<backlog, owner, peer>>
  BY DEF AcceptThread, AcceptTop, AcceptFails, FindExisting, FindFree, StampSlot, PushBack,
         GrowCopy, GrowInstall
<1>11. RecvThread => ExitClose \/ UNCHANGED <<backlog, owner, peer>>
  BY DEF RecvThread, RecvTop, RoundEnd, SkipFreeSlot, VisitSlot, RecvRequest, RecvNothing,
         RecvFailed, DoWorkForRecv, ExitForget, ExitZeroSocket, ExitZeroTimer
<1> QED
  BY <1>1, <1>2, <1>3, <1>4, <1>5, <1>6, <1>7, <1>8, <1>9, <1>10, <1>11
     DEF Next, Clients, MainThread

\* ThreadRecv has closed the descriptor of slot k and not freed it yet.
Closing(k) == rpc \in {"forget", "zero"} /\ k = ri

\* Unless a growing push_back discarded a write, a slot with a descriptor
\* that is closed, or that AddClientSocket is about to find, is the one
\* ClientExit is about to free; what is being added is open.
Window ==
  ~torn =>
    /\ \A k \in 1..Len(sock) : sock[k] # 0 /\ owner[sock[k]] = NoConn => Closing(k)
    /\ apc = "find" => \A k \in 1..Len(sock) : sock[k] = afd => Closing(k)
    /\ apc \in {"find", "free", "grow"} => owner[afd] # NoConn

\* What ThreadAccept does to slots does not widen the window.
LEMMA WindowAccept ==
  ASSUME TableInv, Queued, Window, AcceptThread, ~torn' PROVE Window'
<1> USE DEF kernelVars, tableVars, acceptVars, recvVars, historyVars
<1>a. /\ Len(sock) \in Nat /\ sock \in Seq(Descriptors) /\ aj \in Nat
      /\ \A k \in 1..Len(sock) : sock[k] \in Descriptors
      /\ apc \in {"find", "free", "grow", "stamp"} => afd \in Fds
      /\ apc \in {"find", "free"} => aj >= 1
      /\ 0 \notin Fds /\ owner \in [Fds -> Conns \cup {NoConn}]
      /\ NoConn \notin Conns
      /\ afd \in Descriptors
  BY LenProperties, FdsAssumption, ElementOfSeq, ConnsAssumption
     DEF TableInv, Shape, TypeOK, KernelType, TableType, AcceptType, AddingShape, IndexInBounds
<1>b. /\ Len(Append(sock, afd)) = Len(sock) + 1 /\ Append(sock, afd)[Len(sock) + 1] = afd
      /\ \A k \in 1..Len(sock) : Append(sock, afd)[k] = sock[k]
  BY <1>a, AppendProperties
<1>c. UNCHANGED <<rpc, ri>> /\ ~torn
  <2>1. CASE GrowInstall
    BY <2>1 DEF GrowInstall
  <2>2. CASE ~GrowInstall
    BY <2>2 DEF AcceptThread, AcceptTop, AcceptOk, AcceptFails, AcceptNonBlockFails, FindExisting,
                FindFree, StampSlot, PushBack, GrowCopy
  <2> QED
    BY <2>1, <2>2
<1>1. CASE AcceptTop \/ AcceptFails \/ AcceptNonBlockFails \/ StampSlot
  <2>1. UNCHANGED <<owner, sock, afd>> /\ apc' \notin {"find", "free", "grow"}
    BY <1>1 DEF AcceptTop, AcceptFails, AcceptNonBlockFails, StampSlot
  <2> QED
    BY <2>1, <1>c DEF Window, Closing
<1>2. CASE AcceptOk
  <2>1. PICK g \in Fds : /\ owner[g] = NoConn
                         /\ owner' = [owner EXCEPT ![g] = Head(backlog)]
                         /\ afd' = g
    BY <1>2 DEF AcceptOk, LowestFree, FreeFds
  <2>2. \A f \in Fds : owner'[f] = IF f = g THEN Head(backlog) ELSE owner[f]
    BY <2>1, <1>a
  <2>3. sock' = sock /\ apc' = "find" /\ Head(backlog) # NoConn
    BY <1>2, <1>a, QueuedTail DEF AcceptOk, TableInv
  <2>4. \A k \in 1..Len(sock) : sock[k] # 0 /\ owner'[sock[k]] = NoConn => Closing(k)
    BY <2>2, <2>3, <1>a, <1>c DEF Window, Descriptors
  <2>5. \A k \in 1..Len(sock) : sock[k] = g => Closing(k)
    BY <2>1, <1>a, <1>c DEF Window
  <2> QED
    BY <2>1, <2>2, <2>3, <2>4, <2>5, <1>c DEF Window, Closing
<1>3. CASE FindExisting
  <2>1. UNCHANGED <<owner, sock, afd>> /\ apc = "find" /\ apc' \in {"top", "find", "free"}
    BY <1>3 DEF FindExisting
  <2> QED
    BY <2>1, <1>c DEF Window, Closing
<1>4. CASE FindFree
  <2>1. UNCHANGED <<owner, afd>> /\ apc = "free" /\ apc' \in {"free", "stamp"}
    BY <1>4 DEF FindFree
  <2>2. /\ Len(sock') = Len(sock)
        /\ \A k \in 1..Len(sock) : sock'[k] = sock[k] \/ sock'[k] = afd
    BY <1>4, <1>a DEF FindFree
  <2> QED
    BY <2>1, <2>2, <1>c DEF Window, Closing
<1>5. CASE PushBack
  <2>1. UNCHANGED <<owner, afd>> /\ apc = "free" /\ apc' = "top" /\ sock' = Append(sock, afd)
    BY <1>5 DEF PushBack
  <2>2. \A k \in 1..Len(sock') : k \in 1..Len(sock) \/ k = Len(sock) + 1
    BY <2>1, <1>a, <1>b
  <2> QED
    BY <2>1, <2>2, <1>b, <1>c DEF Window, Closing
<1>6. CASE GrowCopy
  <2>1. UNCHANGED <<owner, sock, afd>> /\ apc = "free" /\ apc' = "grow"
    BY <1>6 DEF GrowCopy
  <2> QED
    BY <2>1, <1>c DEF Window, Closing
<1>7. CASE GrowInstall
  <2>1. UNCHANGED <<owner, afd>> /\ apc = "grow" /\ apc' = "top" /\ sock' = spareSock
    BY <1>7 DEF GrowInstall
  <2>2. \A k \in 1..Len(sock) : sock[k] = spareSock[k]
    BY <1>7 DEF GrowInstall
  <2>3. Len(spareSock) = Len(sock) + 1 /\ spareSock[Len(sock) + 1] = afd
    BY <2>1 DEF TableInv, Shape, AddingShape, Attended
  <2>4. \A k \in 1..Len(sock') : k \in 1..Len(sock) \/ k = Len(sock) + 1
    BY <2>1, <2>3, <1>a
  <2> QED
    BY <2>1, <2>2, <2>3, <2>4, <1>c DEF Window, Closing
<1> QED
  BY <1>1, <1>2, <1>3, <1>4, <1>5, <1>6, <1>7 DEF AcceptThread

\* A descriptor that is being added is in no slot ThreadRecv may close.
LEMMA AddedElsewhere ==
  ASSUME TableInv, Window, ~torn, apc \in {"find", "free", "grow"}, rpc \in {"work", "close"}
  PROVE  rfd # afd
<1>a. ri \in 1..Len(sock) /\ sock[ri] = rfd /\ rfd \in Fds /\ 0 \notin Fds /\ Len(sock) \in Nat
  BY FdsAssumption, LenProperties
     DEF TableInv, Shape, TypeOK, TableType, RecvType, IndexInBounds, InSlot, Attended
<1>1. CASE apc = "find"
  BY <1>1, <1>a DEF Window, Closing
<1>2. CASE apc = "free"
  BY <1>2, <1>a DEF TableInv, Unique
<1>3. CASE apc = "grow"
  <2>1. /\ spareSock[ri] = rfd /\ spareSock[Len(sock) + 1] = afd
        /\ Len(spareSock) = Len(sock) + 1 /\ Distinct(spareSock)
    BY <1>3, <1>a DEF TableInv, Attended, Unique, Shape, AddingShape
  <2> QED
    BY <2>1, <1>a DEF Distinct
<1> QED
  BY <1>1, <1>2, <1>3

\* ThreadRecv opens the window with close and shuts it with the write of the
\* slot.
LEMMA WindowRecv == ASSUME TableInv, Window, RecvThread, ~torn' PROVE Window'
<1> USE DEF kernelVars, tableVars, acceptVars, recvVars, historyVars, NextSlot
<1>a. /\ Len(sock) \in Nat /\ sock \in Seq(Descriptors)
      /\ \A k \in 1..Len(sock) : sock[k] \in Descriptors
      /\ apc \in {"find", "free", "grow", "stamp"} => afd \in Fds
      /\ rpc \in InSlot => ri \in 1..Len(sock)
      /\ 0 \notin Fds /\ owner \in [Fds -> Conns \cup {NoConn}]
  BY LenProperties, FdsAssumption, ElementOfSeq
     DEF TableInv, Shape, TypeOK, KernelType, TableType, RecvType, AddingShape, IndexInBounds
<1>b. UNCHANGED <<apc, afd>> /\ ~torn
  BY DEF RecvThread, RecvTop, RoundEnd, SkipFreeSlot, VisitSlot, RecvRequest, RecvNothing,
         RecvFailed, DoWorkForRecv, ExitClose, ExitForget, ExitZeroSocket, ExitZeroTimer
<1>1. CASE ExitClose
  <2>1. UNCHANGED <<sock, ri, rfd>> /\ rpc = "close" /\ rpc' = "forget"
    BY <1>1 DEF ExitClose
  <2>2. /\ rfd \in Fds /\ sock[ri] = rfd /\ ri \in 1..Len(sock)
    BY <2>1, <1>a DEF TableInv, Attended, InSlot
  <2>3. \A f \in Fds : owner'[f] = IF f = rfd THEN NoConn ELSE owner[f]
    BY <1>1, <2>2 DEF ExitClose
  <2>4. \A k \in 1..Len(sock) : sock[k] # 0 /\ owner'[sock[k]] = NoConn => k = ri
    BY <2>1, <2>2, <2>3, <1>a, <1>b
       DEF Window, Closing, Descriptors, TableInv, Unique, NoDuplicateSockets
  <2>5. apc \in {"find", "free", "grow"} => owner'[afd] # NoConn
    BY <2>1, <2>3, <1>a, <1>b, AddedElsewhere DEF Window
  <2>6. apc = "find" => \A k \in 1..Len(sock) : sock[k] # afd
    BY <2>1, <1>b DEF Window, Closing
  <2> QED
    BY <2>1, <2>4, <2>5, <2>6, <1>b DEF Window, Closing
<1>2. CASE ExitZeroSocket
  <2>1. UNCHANGED <<owner, ri>> /\ rpc = "zero"
    BY <1>2 DEF ExitZeroSocket
  <2>2. /\ ri \in 1..Len(sock) /\ Len(sock') = Len(sock)
        /\ \A k \in 1..Len(sock) : sock'[k] = IF k = ri THEN 0 ELSE sock[k]
    BY <1>2, <2>1, <1>a DEF ExitZeroSocket, InSlot
  <2> QED
    BY <2>1, <2>2, <1>a, <1>b DEF Window, Closing
<1>3. CASE ExitForget
  <2>1. UNCHANGED <<owner, sock, ri>> /\ rpc = "forget" /\ rpc' = "zero"
    BY <1>3 DEF ExitForget
  <2> QED
    BY <2>1, <1>b DEF Window, Closing
<1>4. CASE /\ UNCHANGED <<owner, sock>>
           /\ rpc \notin {"forget", "zero"}
  BY <1>4, <1>b DEF Window, Closing
<1> QED
  BY <1>1, <1>2, <1>3, <1>4
     DEF RecvThread, RecvTop, RoundEnd, SkipFreeSlot, VisitSlot, RecvRequest, RecvNothing,
         RecvFailed, DoWorkForRecv, ExitZeroTimer

\* Every step of the server keeps the window as narrow as it is.
LEMMA WindowStep == ASSUME TableInv, Queued, Window, [Next]_vars PROVE Window'
<1>1. CASE torn'
  BY <1>1 DEF Window
<1>2. CASE UNCHANGED <<owner, sock, apc, afd, rpc, ri, torn>>
  BY <1>2 DEF Window, Closing
<1>3. Clients \/ Tick \/ MainThread \/ UNCHANGED vars
        => UNCHANGED <<owner, sock, apc, afd, rpc, ri, torn>>
  BY DEF Clients, Connect, Hangup, SendRequest, Tick, MainThread, MainQuit, MainCloseListener,
         MainJoin, vars, kernelVars, tableVars, acceptVars, recvVars, historyVars
<1> QED
  BY <1>1, <1>2, <1>3, WindowAccept, WindowRecv DEF Next

\* The kernel's side and the window are invariants too.
RaceInv == TableInv /\ Queued /\ Window

\* They hold in every reachable state.
THEOREM RaceInvariant == Spec => []RaceInv
<1>1. Init => Queued /\ Window
  <2>1. Init => Len(backlog) = 0 /\ Len(sock) = 0
    BY DEF Init
  <2> QED
    BY <2>1 DEF Init, Queued, Window, Open
<1>2. TableInv /\ Queued /\ [Next]_vars => Queued'
  BY QueuedStep DEF TableInv
<1>3. TableInv /\ Queued /\ Window /\ [Next]_vars => Window'
  BY WindowStep
<1> QED
  BY <1>1, <1>2, <1>3, TableInvariant, PTL DEF Spec, RaceInv

\* AddClientSocket refuses a connection only while ClientExit has closed the
\* descriptor and not freed its slot, or after a lost write.
THEOREM RefusedOnlyInWindow == Spec => DropOnlyInExitWindow
<1> DEFINE Refused ==
      apc = "find" /\ apc' = "top" => torn \/ (rpc \in {"forget", "zero"} /\ sock[ri] = afd)
<1>1. RaceInv /\ [Next]_vars => [Refused]_vars
  <2> SUFFICES ASSUME RaceInv, [Next]_vars, apc = "find", apc' = "top", ~torn
               PROVE  rpc \in {"forget", "zero"} /\ sock[ri] = afd
    OBVIOUS
  <2>1. FindExisting
    BY DEF Next, Clients, Connect, Hangup, SendRequest, Tick, AcceptThread, AcceptTop, AcceptOk,
           AcceptFails, AcceptNonBlockFails, FindFree, StampSlot, PushBack, GrowCopy, GrowInstall,
           RecvThread, RecvTop, RoundEnd, SkipFreeSlot, VisitSlot, RecvRequest, RecvNothing,
           RecvFailed, DoWorkForRecv, ExitClose, ExitForget, ExitZeroSocket, ExitZeroTimer,
           MainThread, MainQuit, MainCloseListener, MainJoin, vars, acceptVars
  <2>2. aj <= Len(sock) /\ sock[aj] = afd
    BY <2>1 DEF FindExisting
  <2>3. aj \in 1..Len(sock)
    BY <2>2, LenProperties
       DEF RaceInv, TableInv, Shape, TypeOK, TableType, AcceptType, IndexInBounds
  <2> QED
    BY <2>2, <2>3 DEF RaceInv, Window, Closing
<1> QED
  BY <1>1, RaceInvariant, PTL DEF Spec, DropOnlyInExitWindow

\* The timer of slot k counts for its client: ClientExit is not at work on
\* the slot, and neither race on the timer has happened to it.
Counts(k) ==
  /\ sock[k] # 0
  /\ ~Closing(k) /\ k \notin clobbered /\ ~(apc = "stamp" /\ aj = k)

\* No such timer is ahead of the silence of the client, and neither is the
\* timer of the client that a growing push_back appends.
Timers ==
  ~torn =>
    /\ \A k \in 1..Len(sock) :
         Counts(k) => \A c \in Conns : owner[sock[k]] = c => age[k] <= quiet[c]
    /\ apc = "grow" => \A c \in Conns : owner[afd] = c => spareAge[Len(sock) + 1] <= quiet[c]

\* The clock advances every timer and every open client's silence alike.
LEMMA TimersTick == ASSUME TableInv, Timers, Tick PROVE Timers'
<1>a. /\ UNCHANGED <<sock, owner, apc, afd, aj, rpc, ri, clobbered, torn>>
      /\ \A k \in 1..Len(age) : age'[k] = Older(age[k])
      /\ \A k \in 1..Len(spareAge) : spareAge'[k] = Older(spareAge[k])
      /\ \A c \in Conns : quiet'[c] = IF Open(c) THEN Older(quiet[c]) ELSE quiet[c]
  BY DEF Tick, kernelVars, recvVars
<1>b. /\ Len(sock) \in Nat /\ Len(age) = Len(sock) /\ \A k \in 1..Len(age) : age[k] \in Ages
      /\ \A k \in 1..Len(spareAge) : spareAge[k] \in Ages
      /\ quiet \in [Conns -> Ages] /\ owner \in [Fds -> Conns \cup {NoConn}]
      /\ \A k \in 1..Len(sock) : sock[k] \in Fds \cup {0}
      /\ apc = "grow" => afd \in Fds /\ Len(spareAge) = Len(sock) + 1
  BY LenProperties, ElementOfSeq
     DEF TableInv, Shape, TypeOK, KernelType, TableType, AcceptType, HistoryType, IndexInBounds,
         AddingShape, Descriptors
<1>c. \A a, q \in Ages : a <= q => Older(a) <= Older(q)
  BY BoundsAssumption DEF Older, Ages, Expired
<1>1. ASSUME ~torn, NEW k \in 1..Len(sock), Counts(k), NEW c \in Conns, owner[sock[k]] = c
      PROVE  age'[k] <= quiet'[c]
  <2>1. Open(c)
    BY <1>1, <1>b DEF Open, Counts
  <2> QED
    BY <2>1, <1>1, <1>a, <1>b, <1>c DEF Timers
<1>2. ASSUME ~torn, apc = "grow", NEW c \in Conns, owner[afd] = c
      PROVE  spareAge'[Len(sock) + 1] <= quiet'[c]
  <2>1. Open(c)
    BY <1>2, <1>b DEF Open
  <2>2. Len(sock) + 1 \in 1..Len(spareAge)
    BY <1>2, <1>b
  <2> QED
    BY <2>1, <2>2, <1>2, <1>a, <1>b, <1>c DEF Timers
<1> QED
  BY <1>1, <1>2, <1>a DEF Timers, Counts, Closing

\* A client's silence begins when it is accepted, before its slot has a
\* timer; the timer is 0 when it is stamped or appended.
LEMMA TimersAccept ==
  ASSUME RaceInv, Timers, AcceptThread, ~torn'
  PROVE  Timers'
<1> USE DEF kernelVars, tableVars, acceptVars, recvVars, historyVars
<1>a. /\ Len(sock) \in Nat /\ sock \in Seq(Descriptors) /\ aj \in Nat
      /\ Len(age) = Len(sock) /\ age \in Seq(Ages)
      /\ \A k \in 1..Len(sock) : sock[k] \in Fds \cup {0}
      /\ apc \in {"find", "free", "grow", "stamp"} => afd \in Fds
      /\ apc \in {"find", "free"} => aj >= 1
      /\ apc = "stamp" => aj \in 1..Len(sock)
      /\ 0 \notin Fds /\ owner \in [Fds -> Conns \cup {NoConn}]
      /\ quiet \in [Conns -> Ages] /\ afd \in Descriptors /\ 0 \in Ages
  BY LenProperties, FdsAssumption, ElementOfSeq, BoundsAssumption
     DEF RaceInv, TableInv, Shape, TypeOK, KernelType, TableType, AcceptType, HistoryType,
         AddingShape, IndexInBounds, Descriptors, Ages, Expired
<1>b. /\ Len(Append(sock, afd)) = Len(sock) + 1 /\ Append(sock, afd)[Len(sock) + 1] = afd
      /\ \A k \in 1..Len(sock) : Append(sock, afd)[k] = sock[k]
      /\ Append(age, 0)[Len(sock) + 1] = 0
      /\ \A k \in 1..Len(sock) : Append(age, 0)[k] = age[k]
  BY <1>a, AppendProperties
<1>c. UNCHANGED <<rpc, ri, clobbered>> /\ ~torn
  <2>1. CASE GrowInstall
    BY <2>1 DEF GrowInstall
  <2>2. CASE ~GrowInstall
    BY <2>2 DEF AcceptThread, AcceptTop, AcceptOk, AcceptFails, AcceptNonBlockFails, FindExisting,
                FindFree, StampSlot, PushBack, GrowCopy
  <2> QED
    BY <2>1, <2>2
<1>d. \A c \in Conns : 0 <= quiet[c]
  BY <1>a, BoundsAssumption DEF Ages, Expired
<1>1. CASE AcceptTop \/ AcceptFails \/ AcceptNonBlockFails \/ FindExisting
  <2>1. /\ UNCHANGED <<owner, sock, age, quiet, afd>>
        /\ apc \notin {"stamp", "grow"} /\ apc' \notin {"stamp", "grow"}
    BY <1>1 DEF AcceptTop, AcceptFails, AcceptNonBlockFails, FindExisting
  <2> QED
    BY <2>1, <1>c DEF Timers, Counts, Closing
<1>2. CASE AcceptOk
  <2> DEFINE d == Head(backlog)
  <2>1. PICK g \in Fds : owner[g] = NoConn /\ owner' = [owner EXCEPT ![g] = d]
    BY <1>2 DEF AcceptOk, LowestFree, FreeFds
  <2>2. ~Open(d) /\ d \in Conns
    BY <1>2, QueuedTail DEF AcceptOk, RaceInv, TableInv
  <2>3. /\ UNCHANGED <<sock, age>> /\ apc = "accept" /\ apc' = "find"
        /\ \A c \in Conns : c # d => quiet'[c] = quiet[c]
    BY <1>2, <1>a DEF AcceptOk
  <2>4. ASSUME NEW k \in 1..Len(sock), Counts(k)', NEW c \in Conns, owner'[sock[k]] = c
        PROVE  age[k] <= quiet'[c]
    <3>1. sock[k] \in Fds /\ Counts(k)
      BY <2>3, <2>4, <1>a, <1>c DEF Counts, Closing
    <3>2. owner[sock[k]] # NoConn
      BY <3>1, <1>a, <1>c DEF RaceInv, Window, Counts
    <3>3. owner[sock[k]] = c /\ c # d
      BY <3>1, <3>2, <2>1, <2>2, <2>4, <1>a DEF Open
    <3> QED
      BY <3>1, <3>3, <2>3, <1>c DEF Timers
  <2> QED
    BY <2>3, <2>4 DEF Timers
<1>3. CASE FindFree
  <2>1. UNCHANGED <<owner, age, quiet, afd>> /\ apc = "free" /\ apc' \in {"free", "stamp"}
    BY <1>3 DEF FindFree
  <2>2. /\ Len(sock') = Len(sock)
        /\ \A k \in 1..Len(sock) : sock'[k] = sock[k] \/ (k = aj /\ apc' = "stamp")
        /\ apc' = "stamp" => aj' = aj
    BY <1>3, <1>a DEF FindFree
  <2>3. ASSUME NEW k \in 1..Len(sock), Counts(k)' PROVE Counts(k) /\ sock'[k] = sock[k]
    BY <2>1, <2>2, <2>3, <1>c DEF Counts, Closing
  <2> QED
    BY <2>1, <2>2, <2>3, <1>c DEF Timers
<1>4. CASE StampSlot
  <2>1. UNCHANGED <<owner, sock, quiet, afd>> /\ apc = "stamp" /\ apc' = "top"
    BY <1>4 DEF StampSlot
  <2>2. \A k \in 1..Len(sock) : age'[k] = IF k = aj THEN 0 ELSE age[k]
    BY <1>4, <1>a DEF StampSlot
  <2>3. ASSUME NEW k \in 1..Len(sock), Counts(k)' PROVE Counts(k) \/ k = aj
    BY <2>1, <2>3, <1>c DEF Counts, Closing
  <2> QED
    BY <2>1, <2>2, <2>3, <1>c, <1>d DEF Timers
<1>5. CASE PushBack
  <2>1. /\ UNCHANGED <<owner, quiet, afd>> /\ apc = "free" /\ apc' = "top"
        /\ sock' = Append(sock, afd) /\ age' = Append(age, 0)
    BY <1>5 DEF PushBack
  <2>2. \A k \in 1..Len(sock') : k \in 1..Len(sock) \/ k = Len(sock) + 1
    BY <2>1, <1>a, <1>b
  <2>3. /\ \A k \in 1..Len(sock) : sock'[k] = sock[k] /\ age'[k] = age[k]
        /\ age'[Len(sock) + 1] = 0
    BY <2>1, <1>b
  <2>4. ASSUME NEW k \in 1..Len(sock), Counts(k)' PROVE Counts(k)
    BY <2>1, <2>3, <2>4, <1>c DEF Counts, Closing
  <2>5. ASSUME NEW k \in 1..Len(sock'), Counts(k)', NEW c \in Conns, owner[sock'[k]] = c
        PROVE  age'[k] <= quiet[c]
    <3>1. CASE k \in 1..Len(sock)
      BY <3>1, <2>3, <2>4, <2>5, <1>c DEF Timers
    <3>2. CASE k = Len(sock) + 1
      BY <3>2, <2>3, <1>d
    <3> QED
      BY <3>1, <3>2, <2>2
  <2> QED
    BY <2>1, <2>5 DEF Timers
<1>6. CASE GrowCopy
  <2>1. /\ UNCHANGED <<owner, sock, age, quiet, afd>> /\ apc = "free" /\ apc' = "grow"
        /\ spareAge' = Append(age, 0)
    BY <1>6 DEF GrowCopy
  <2> QED
    BY <2>1, <1>b, <1>c, <1>d DEF Timers, Counts, Closing
<1>7. CASE GrowInstall
  <2>1. /\ UNCHANGED <<owner, quiet, afd>> /\ apc = "grow" /\ apc' = "top"
        /\ sock' = spareSock /\ age' = spareAge
    BY <1>7 DEF GrowInstall
  <2>2. \A k \in 1..Len(sock) : sock[k] = spareSock[k] /\ age[k] = spareAge[k]
    BY <1>7 DEF GrowInstall
  <2>3. Len(spareSock) = Len(sock) + 1 /\ spareSock[Len(sock) + 1] = afd
    BY <2>1 DEF RaceInv, TableInv, Shape, AddingShape, Attended
  <2>4. \A k \in 1..Len(sock') : k \in 1..Len(sock) \/ k = Len(sock) + 1
    BY <2>1, <2>3, <1>a
  <2>5. ASSUME NEW k \in 1..Len(sock), Counts(k)' PROVE Counts(k)
    BY <2>1, <2>2, <2>5, <1>c DEF Counts, Closing
  <2> QED
    BY <2>1, <2>2, <2>3, <2>4, <2>5, <1>c DEF Timers
<1> QED
  BY <1>1, <1>2, <1>3, <1>4, <1>5, <1>6, <1>7 DEF AcceptThread

\* A keep-alive ends the silence of its client and resets the timer of the
\* client's slot; ClientExit resets the timer of a free slot, or of one
\* whose timer is still to be written, or the slot is marked.
LEMMA TimersRecv ==
  ASSUME RaceInv, Timers, RecvThread, ~torn'
  PROVE  Timers'
<1> USE DEF kernelVars, tableVars, acceptVars, recvVars, historyVars, NextSlot
<1>a. /\ Len(sock) \in Nat /\ sock \in Seq(Descriptors)
      /\ Len(age) = Len(sock) /\ age \in Seq(Ages)
      /\ \A k \in 1..Len(sock) : sock[k] \in Fds \cup {0}
      /\ apc \in {"find", "free", "grow", "stamp"} => afd \in Fds
      /\ rpc \in InSlot => ri \in 1..Len(sock)
  BY LenProperties, ElementOfSeq
     DEF RaceInv, TableInv, Shape, TypeOK, TableType, RecvType, AddingShape, IndexInBounds,
         Descriptors
<1>c. /\ 0 \notin Fds /\ owner \in [Fds -> Conns \cup {NoConn}]
      /\ quiet \in [Conns -> Ages] /\ NoConn \notin Conns
  BY FdsAssumption, ConnsAssumption
     DEF RaceInv, TableInv, Shape, TypeOK, KernelType, HistoryType
<1>b. UNCHANGED <<apc, afd, aj, spareAge, torn>> /\ ~torn
  BY DEF RecvThread, RecvTop, RoundEnd, SkipFreeSlot, VisitSlot, RecvRequest, RecvNothing,
         RecvFailed, DoWorkForRecv, ExitClose, ExitForget, ExitZeroSocket, ExitZeroTimer
<1>1. CASE DoWorkForRecv /\ req.code = "KEEP_ALIVE_REQ"
  <2>1. /\ UNCHANGED <<owner, sock>> /\ rpc = "work" /\ rpc' = "visit"
        /\ clobbered' = clobbered \ {ri} /\ age' = [age EXCEPT ![ri] = 0]
        /\ quiet' = [c \in Conns |-> IF owner[rfd] = c THEN 0 ELSE quiet[c]]
    BY <1>1 DEF DoWorkForRecv
  <2>2. rfd \in Fds /\ sock[ri] = rfd /\ ri \in 1..Len(sock)
    BY <2>1, <1>a, <1>c DEF RaceInv, TableInv, Attended, InSlot
  <2>3. \A k \in 1..Len(sock) : age'[k] = IF k = ri THEN 0 ELSE age[k]
    BY <2>1, <2>2, <1>a
  <2>4. \A c \in Conns : 0 <= quiet'[c]
    BY <2>1, <1>a, <1>c, BoundsAssumption DEF Ages, Expired
  <2>5. ASSUME NEW k \in 1..Len(sock), Counts(k)', k # ri, NEW c \in Conns, owner[sock[k]] = c
        PROVE  age'[k] <= quiet'[c]
    <3>1. Counts(k) /\ sock[k] \in Fds
      BY <2>1, <2>5, <1>a, <1>b, <1>c DEF Counts, Closing
    <3>2. sock[k] # rfd
      BY <2>2, <2>5, <3>1, <1>a, <1>c DEF RaceInv, TableInv, Unique, NoDuplicateSockets
    <3>3. owner[rfd] # c
      BY <2>2, <2>5, <3>1, <3>2, <1>a, <1>c DEF RaceInv, Queued
    <3> QED
      BY <2>1, <2>3, <2>5, <3>1, <3>3, <1>b DEF Timers
  <2>6. ASSUME apc = "grow", NEW c \in Conns, owner[afd] = c
        PROVE  spareAge[Len(sock) + 1] <= quiet'[c]
    <3>1. afd # rfd
      BY <2>1, <2>6, <1>b, AddedElsewhere DEF RaceInv
    <3>2. owner[rfd] # c
      BY <2>2, <2>6, <3>1, <1>a, <1>c DEF RaceInv, Queued
    <3> QED
      BY <2>1, <2>6, <3>2, <1>b DEF Timers
  <2> QED
    BY <2>1, <2>3, <2>4, <2>5, <2>6, <1>b DEF Timers
<1>2. CASE ExitClose
  <2>1. UNCHANGED <<sock, age, quiet, ri, clobbered>> /\ rpc = "close"
    BY <1>2 DEF ExitClose
  <2>2. \A f \in Fds : owner'[f] = owner[f] \/ owner'[f] = NoConn
    BY <1>2 DEF ExitClose
  <2>3. ASSUME NEW k \in 1..Len(sock), Counts(k)' PROVE Counts(k) /\ sock[k] \in Fds
    BY <2>1, <2>3, <1>a, <1>b, <1>c DEF Counts, Closing
  <2> QED
    BY <2>1, <2>2, <2>3, <1>a, <1>b, <1>c DEF Timers
<1>3. CASE ExitForget
  <2>1. UNCHANGED <<owner, sock, age, quiet, ri, clobbered>> /\ rpc = "forget" /\ rpc' = "zero"
    BY <1>3 DEF ExitForget
  <2> QED
    BY <2>1, <1>b DEF Timers, Counts, Closing
<1>4. CASE ExitZeroSocket
  <2>1. /\ UNCHANGED <<owner, age, quiet, ri>> /\ rpc = "zero" /\ rpc' = "zerotimer"
        /\ clobbered' = clobbered \ {ri}
    BY <1>4 DEF ExitZeroSocket
  <2>2. /\ ri \in 1..Len(sock) /\ Len(sock') = Len(sock)
        /\ \A k \in 1..Len(sock) : sock'[k] = IF k = ri THEN 0 ELSE sock[k]
    BY <1>4, <2>1, <1>a DEF ExitZeroSocket, InSlot
  <2>3. ASSUME NEW k \in 1..Len(sock), Counts(k)' PROVE Counts(k) /\ sock'[k] = sock[k]
    BY <2>1, <2>2, <2>3, <1>b DEF Counts, Closing
  <2> QED
    BY <2>1, <2>2, <2>3, <1>b DEF Timers
<1>5. CASE ExitZeroTimer
  <2>1. /\ UNCHANGED <<owner, sock, quiet>> /\ rpc = "zerotimer" /\ rpc' = "visit"
        /\ clobbered' = IF sock[ri] # 0 /\ ~(apc = "stamp" /\ aj = ri)
                        THEN clobbered \cup {ri} ELSE clobbered
    BY <1>5 DEF ExitZeroTimer
  <2>2. \A k \in 1..Len(sock) : k # ri => age'[k] = age[k]
    BY <1>5, <1>a DEF ExitZeroTimer
  <2>3. ASSUME NEW k \in 1..Len(sock), Counts(k)' PROVE Counts(k) /\ k # ri
    BY <2>1, <2>3, <1>b DEF Counts, Closing
  <2> QED
    BY <2>1, <2>2, <2>3, <1>b DEF Timers
<1>6. CASE /\ UNCHANGED <<owner, sock, age, quiet, clobbered>>
           /\ rpc \notin {"forget", "zero"}
  BY <1>6, <1>b DEF Timers, Counts, Closing
<1> QED
  BY <1>1, <1>2, <1>3, <1>4, <1>5, <1>6
     DEF RecvThread, RecvTop, RoundEnd, SkipFreeSlot, VisitSlot, RecvRequest, RecvNothing,
         RecvFailed, DoWorkForRecv

\* No step puts a timer that counts ahead of its client's silence.
LEMMA TimersStep == ASSUME RaceInv, Timers, [Next]_vars PROVE Timers'
<1>1. CASE torn'
  BY <1>1 DEF Timers
<1>2. CASE UNCHANGED <<owner, sock, age, spareAge, apc, afd, aj, rpc, ri, quiet, clobbered, torn>>
  BY <1>2 DEF Timers, Counts, Closing
<1>3. Clients \/ MainThread \/ UNCHANGED vars
        => UNCHANGED <<owner, sock, age, spareAge, apc, afd, aj, rpc, ri, quiet, clobbered, torn>>
  BY DEF Clients, Connect, Hangup, SendRequest, MainThread, MainQuit, MainCloseListener,
         MainJoin, vars, kernelVars, tableVars, acceptVars, recvVars, historyVars
<1> QED
  BY <1>1, <1>2, <1>3, TimersTick, TimersAccept, TimersRecv DEF Next, RaceInv

\* ThreadRecv times a client out for its silence only, or because of one of
\* the three races on the slot: for every WU_KEEP_ALIVE_TIMEOUT.
THEOREM TimedOutForSilence == Spec => TimeoutIsEarned
<1> DEFINE Earned ==
      rpc = "visit" /\ rpc' = "close" =>
        \/ \A c \in Conns : owner[sock[ri]] = c => quiet[c] > Timeout
        \/ apc = "stamp" /\ aj = ri
        \/ ri \in clobbered
        \/ torn
<1>1. Init => Timers
  <2>1. Init => Len(sock) = 0
    BY DEF Init
  <2> QED
    BY <2>1 DEF Init, Timers
<1>2. RaceInv /\ Timers /\ [Next]_vars => Timers'
  BY TimersStep
<1>3. RaceInv /\ Timers /\ [Next]_vars => [Earned]_vars
  <2> SUFFICES ASSUME RaceInv, Timers, [Next]_vars, rpc = "visit", rpc' = "close",
                      ~torn, ri \notin clobbered, ~(apc = "stamp" /\ aj = ri),
                      NEW c \in Conns, owner[sock[ri]] = c
               PROVE  quiet[c] > Timeout
    OBVIOUS
  <2>1. VisitSlot
    BY DEF Next, Clients, Connect, Hangup, SendRequest, Tick, AcceptThread, AcceptTop, AcceptOk,
           AcceptFails, AcceptNonBlockFails, FindExisting, FindFree, StampSlot, PushBack,
           GrowCopy, GrowInstall, RecvThread, RecvTop, RoundEnd, SkipFreeSlot, RecvRequest,
           RecvNothing, RecvFailed, DoWorkForRecv, NextSlot, ExitClose, ExitForget,
           ExitZeroSocket, ExitZeroTimer, MainThread, MainQuit, MainCloseListener, MainJoin,
           vars, recvVars
  <2>2. ri <= rn /\ sock[ri] # 0 /\ age[ri] > Timeout
    BY <2>1 DEF VisitSlot, TimedOut
  <2>3. ri \in 1..Len(sock)
    BY <2>2, LenProperties
       DEF RaceInv, TableInv, Shape, TypeOK, TableType, RecvType, IndexInBounds
  <2>4. age[ri] <= quiet[c]
    BY <2>2, <2>3 DEF Timers, Counts, Closing
  <2>5. age[ri] \in Int /\ quiet[c] \in Int /\ Timeout \in Int
    BY <2>3, ElementOfSeq, BoundsAssumption
       DEF RaceInv, TableInv, Shape, TypeOK, TableType, HistoryType, IndexInBounds, Ages, Expired
  <2> QED
    BY <2>2, <2>4, <2>5
<1> QED
  BY <1>1, <1>2, <1>3, RaceInvariant, PTL DEF Spec, TimeoutIsEarned
=============================================================================
