---------------------------- MODULE ClientTable ----------------------------
(***************************************************************************)
(* The table of connected clients of the chat server, g_vecClientSocket    *)
(* (server/server.cpp), and the threads that share it without a lock:      *)
(* ThreadAccept adds descriptors to it, ThreadRecv polls it, serves one    *)
(* request at a time and removes clients that leave or fall silent, main   *)
(* stops both.  A step is one access to a shared slot (or to the kernel):  *)
(* whatever can be observed between two steps can be observed between the  *)
(* two statements they model.                                              *)
(*                                                                         *)
(* The vector is kept as two sequences of equal length, one per field of   *)
(* ClientSocketStruct: sock (m_nClientSokcet, 0 for a free slot) and age,  *)
(* the seconds since m_LastTimer.  IsTimeOut only compares that difference *)
(* with WU_KEEP_ALIVE_TIMEOUT, so ages stop at Timeout + 1, and the value  *)
(* 0 that ClientExit and the default constructor store in m_LastTimer is   *)
(* the age Expired.                                                        *)
(***************************************************************************)
EXTENDS Integers, Sequences, FiniteSets

CONSTANTS
  Conns,        \* connections clients may open, each of them once
  Fds,          \* descriptor numbers the kernel has left for clients
  Requests,     \* requests a client may send, records with a field "code"
  MaxRequests,  \* bound on the requests one connection sends
  Timeout,      \* WU_KEEP_ALIVE_TIMEOUT
  MayLeave,     \* whether clients may close their connections
  MayQuit,      \* whether the operator may type 'q'
  NoConn        \* what a closed descriptor stands for

ASSUME ConnsAssumption == NoConn \notin Conns
ASSUME FdsAssumption == Fds \subseteq Nat \ {0} /\ IsFiniteSet(Fds)
ASSUME RequestsAssumption == \A r \in Requests : "code" \in DOMAIN r
ASSUME BoundsAssumption ==
  MaxRequests \in Nat /\ Timeout \in Nat /\ MayLeave \in BOOLEAN /\ MayQuit \in BOOLEAN

Expired == Timeout + 1
Ages == 0..Expired
Older(a) == IF a < Expired THEN a + 1 ELSE a

VARIABLES
  (* The kernel and the clients. *)
  backlog,     \* connections completed and not yet accepted, in order
  owner,       \* the connection each descriptor of the server stands for
  peer,        \* a client's end: "new", "open" or "fin" (closed by the client)
  inbox,       \* requests received by the kernel and not yet read
  credit,      \* requests the client may still send
  (* g_vecClientSocket. *)
  sock, age, cap,
  (* ThreadAccept: program counter, client_socket, loop index, and the      *)
  (* storage a growing push_back has filled and not yet installed.          *)
  apc, afd, aj, spareSock, spareAge,
  (* ThreadRecv: program counter, i, nSize, client_socket, the request. *)
  rpc, ri, rn, rfd, req,
  (* main: "menu", "closing", "joining" or "done". *)
  mpc,
  (* History, read by properties only. *)
  quiet,       \* seconds since a connection was accepted or last kept alive
  dropped,     \* connections AddClientSocket refused to add
  clobbered,   \* slots whose timer was reset after they were given away
  torn         \* a growing push_back discarded a write of ThreadRecv

kernelVars == <<backlog, owner, peer, inbox, credit>>
tableVars == <<sock, age, cap>>
acceptVars == <<apc, afd, aj, spareSock, spareAge>>
recvVars == <<rpc, ri, rn, rfd, req>>
historyVars == <<quiet, dropped, clobbered, torn>>
vars == <<kernelVars, tableVars, acceptVars, recvVars, mpc, historyVars>>

NoReq == [code |-> "NONE"]

\* g_bExit is raised by main and never lowered.
g_bExit == mpc # "menu"

Open(c) == \E f \in Fds : owner[f] = c
FreeFds == {f \in Fds : owner[f] = NoConn}
\* accept returns the lowest descriptor not in use.
LowestFree(f) == f \in FreeFds /\ \A g \in FreeFds : f <= g

\* A blocked accept keeps the listening socket alive after main closed it.
\* (An accept called after the close fails and the loop then ends: the same
\* as reading g_bExit later, so that case is AcceptTop's.)
Listening == mpc \in {"menu", "closing"} \/ apc = "accept"

Init ==
  /\ backlog = <<>>
  /\ owner = [f \in Fds |-> NoConn]
  /\ peer = [c \in Conns |-> "new"]
  /\ inbox = [c \in Conns |-> <<>>]
  /\ credit = [c \in Conns |-> MaxRequests]
  /\ sock = <<>> /\ age = <<>> /\ cap = 0
  /\ apc = "top" /\ afd = 0 /\ aj = 0 /\ spareSock = <<>> /\ spareAge = <<>>
  /\ rpc = "top" /\ ri = 0 /\ rn = 0 /\ rfd = 0 /\ req = NoReq
  /\ mpc = "menu"
  /\ quiet = [c \in Conns |-> 0]
  /\ dropped = {} /\ clobbered = {} /\ torn = FALSE

(***************************************************************************)
(* The clients and the clock.                                              *)
(***************************************************************************)
Connect(c) ==
  /\ peer[c] = "new"
  /\ Listening
  /\ peer' = [peer EXCEPT ![c] = "open"]
  /\ backlog' = Append(backlog, c)
  /\ UNCHANGED <<owner, inbox, credit, tableVars, acceptVars, recvVars, mpc, historyVars>>

\* The request is abstracted to one unit; fragments are FrameReader's subject.
SendRequest(c, r) ==
  /\ peer[c] = "open"
  /\ credit[c] > 0
  /\ inbox' = [inbox EXCEPT ![c] = Append(@, r)]
  /\ credit' = [credit EXCEPT ![c] = @ - 1]
  /\ UNCHANGED <<backlog, owner, peer, tableVars, acceptVars, recvVars, mpc, historyVars>>

Hangup(c) ==
  /\ MayLeave
  /\ peer[c] = "open"
  /\ peer' = [peer EXCEPT ![c] = "fin"]
  /\ UNCHANGED <<backlog, owner, inbox, credit, tableVars, acceptVars, recvVars, mpc, historyVars>>

\* One second passes, for every timer at once.
Tick ==
  /\ age' = [k \in 1..Len(age) |-> Older(age[k])]
  /\ spareAge' = [k \in 1..Len(spareAge) |-> Older(spareAge[k])]
  /\ quiet' = [c \in Conns |-> IF Open(c) THEN Older(quiet[c]) ELSE quiet[c]]
  /\ UNCHANGED <<kernelVars, sock, cap, apc, afd, aj, spareSock, recvVars, mpc,
                 dropped, clobbered, torn>>

(***************************************************************************)
(* ThreadAccept.                                                           *)
(***************************************************************************)
AcceptTop ==
  /\ apc = "top"
  /\ apc' = IF g_bExit THEN "done" ELSE "accept"
  /\ UNCHANGED <<kernelVars, tableVars, afd, aj, spareSock, spareAge, recvVars, mpc, historyVars>>

AcceptOk ==
  /\ apc = "accept"
  /\ backlog # <<>>
  /\ \E f \in Fds :
       /\ LowestFree(f)
       /\ owner' = [owner EXCEPT ![f] = Head(backlog)]
       /\ afd' = f
  /\ quiet' = [quiet EXCEPT ![Head(backlog)] = 0]
  /\ backlog' = Tail(backlog)
  /\ apc' = "find" /\ aj' = 1
  /\ UNCHANGED <<peer, inbox, credit, tableVars, spareSock, spareAge, recvVars, mpc,
                 dropped, clobbered, torn>>

\* Mistake: the result of accept is used without the test for -1.
AcceptFails_Unchecked ==
  /\ apc = "accept"
  /\ backlog # <<>>
  /\ FreeFds = {}
  /\ afd' = -1
  /\ apc' = "find" /\ aj' = 1
  /\ UNCHANGED <<kernelVars, tableVars, spareSock, spareAge, recvVars, mpc, historyVars>>

\* accept returns -1: no descriptor is left, the connection stays queued.
AcceptFails ==
  /\ apc = "accept"
  /\ backlog # <<>>
  /\ FreeFds = {}
  /\ apc' = "top"
  /\ UNCHANGED <<kernelVars, tableVars, afd, aj, spareSock, spareAge, recvVars, mpc, historyVars>>

\* Mistake: the thread returns instead of going on with the next connection.
AcceptNonBlockFails_Returns ==
  /\ apc = "accept"
  /\ backlog # <<>>
  /\ FreeFds # {}
  /\ backlog' = Tail(backlog)
  /\ apc' = "done"
  /\ UNCHANGED <<owner, peer, inbox, credit, tableVars, afd, aj, spareSock, spareAge,
                 recvVars, mpc, historyVars>>

\* setSocketNonBlock returns -1 and the new descriptor is closed at once.
AcceptNonBlockFails ==
  /\ apc = "accept"
  /\ backlog # <<>>
  /\ FreeFds # {}
  /\ backlog' = Tail(backlog)
  /\ apc' = "top"
  /\ UNCHANGED <<owner, peer, inbox, credit, tableVars, afd, aj, spareSock, spareAge,
                 recvVars, mpc, historyVars>>

\* Mistake: the first loop is left out.
FindExisting_NoScan ==
  /\ apc = "find"
  /\ apc' = "free" /\ aj' = 1
  /\ UNCHANGED <<kernelVars, tableVars, afd, spareSock, spareAge, recvVars, mpc, historyVars>>

\* AddClientSocket, first loop: is the descriptor in the table already?
FindExisting ==
  /\ apc = "find"
  /\ \/ /\ aj <= Len(sock) /\ sock[aj] = afd          \* "client has exist"
        /\ apc' = "top"
        /\ dropped' = dropped \cup ({owner[afd]} \ {NoConn})
        /\ UNCHANGED aj
     \/ /\ aj <= Len(sock) /\ sock[aj] # afd
        /\ aj' = aj + 1
        /\ UNCHANGED <<apc, dropped>>
     \/ /\ aj > Len(sock)
        /\ apc' = "free" /\ aj' = 1
        /\ UNCHANGED dropped
  /\ UNCHANGED <<kernelVars, tableVars, afd, spareSock, spareAge, recvVars, mpc,
                 quiet, clobbered, torn>>

\* AddClientSocket, second loop: the first free slot gets the descriptor.
FindFree ==
  /\ apc = "free"
  /\ aj <= Len(sock)
  /\ \/ /\ sock[aj] = 0
        /\ sock' = [sock EXCEPT ![aj] = afd]
        /\ apc' = "stamp"
        /\ UNCHANGED aj
     \/ /\ sock[aj] # 0
        /\ aj' = aj + 1
        /\ UNCHANGED <<sock, apc>>
  /\ UNCHANGED <<kernelVars, age, cap, afd, spareSock, spareAge, recvVars, mpc, historyVars>>

\* ... and then its timer.
StampSlot ==
  /\ apc = "stamp"
  /\ age' = [age EXCEPT ![aj] = 0]
  /\ apc' = "top"
  /\ UNCHANGED <<kernelVars, sock, cap, afd, aj, spareSock, spareAge, recvVars, mpc, historyVars>>

\* Mistake: the new client is not appended.
PushBack_Lost ==
  /\ apc = "free"
  /\ aj > Len(sock)
  /\ Len(sock) < cap
  /\ apc' = "top"
  /\ UNCHANGED <<kernelVars, tableVars, afd, aj, spareSock, spareAge, recvVars, mpc, historyVars>>

\* No slot is free: push_back within the capacity.
PushBack ==
  /\ apc = "free"
  /\ aj > Len(sock)
  /\ Len(sock) < cap
  /\ sock' = Append(sock, afd)
  /\ age' = Append(age, 0)
  /\ apc' = "top"
  /\ UNCHANGED <<kernelVars, cap, afd, aj, spareSock, spareAge, recvVars, mpc, historyVars>>

\* Mistake: the element is default-constructed, its timer is 0.
GrowCopy_NoTimer ==
  /\ apc = "free"
  /\ aj > Len(sock)
  /\ Len(sock) >= cap
  /\ spareSock' = Append(sock, afd)
  /\ spareAge' = Append(age, Expired)
  /\ apc' = "grow"
  /\ UNCHANGED <<kernelVars, tableVars, afd, aj, recvVars, mpc, historyVars>>

\* push_back beyond the capacity copies the elements to new storage ...
GrowCopy ==
  /\ apc = "free"
  /\ aj > Len(sock)
  /\ Len(sock) >= cap
  /\ spareSock' = Append(sock, afd)
  /\ spareAge' = Append(age, 0)
  /\ apc' = "grow"
  /\ UNCHANGED <<kernelVars, tableVars, afd, aj, recvVars, mpc, historyVars>>

\* ... and installs it; what ThreadRecv wrote to the old storage is lost.
GrowInstall ==
  /\ apc = "grow"
  /\ sock' = spareSock
  /\ age' = spareAge
  /\ cap' = IF cap = 0 THEN 1 ELSE 2 * cap
  /\ spareSock' = <<>> /\ spareAge' = <<>>
  /\ apc' = "top"
  /\ torn' = (torn \/ \E k \in 1..Len(sock) : sock[k] # spareSock[k] \/ age[k] # spareAge[k])
  /\ UNCHANGED <<kernelVars, afd, aj, recvVars, mpc, quiet, dropped, clobbered>>

AcceptThread ==
  \/ AcceptTop \/ AcceptOk \/ AcceptFails \/ AcceptNonBlockFails
  \/ FindExisting \/ FindFree \/ StampSlot \/ PushBack \/ GrowCopy \/ GrowInstall

(***************************************************************************)
(* ThreadRecv.                                                             *)
(***************************************************************************)
\* The slot at hand is finished with: the for loop goes on.
NextSlot == rpc' = "visit" /\ ri' = ri + 1

\* Mistake: the loop runs to i <= nSize.
RecvTop_OneTooMany ==
  /\ rpc = "top"
  /\ \/ g_bExit /\ rpc' = "done" /\ UNCHANGED <<ri, rn>>
     \/ ~g_bExit /\ rpc' = "visit" /\ ri' = 1 /\ rn' = Len(sock) + 1
  /\ UNCHANGED <<kernelVars, tableVars, acceptVars, rfd, req, mpc, historyVars>>

\* Mistake: g_bExit is not looked at.
RecvTop_Forever ==
  /\ rpc = "top"
  /\ rpc' = "visit" /\ ri' = 1 /\ rn' = Len(sock)
  /\ UNCHANGED <<kernelVars, tableVars, acceptVars, rfd, req, mpc, historyVars>>

\* g_bExit is read once per round; nSize is read once per round.
RecvTop ==
  /\ rpc = "top"
  /\ \/ g_bExit /\ rpc' = "done" /\ UNCHANGED <<ri, rn>>
     \/ ~g_bExit /\ rpc' = "visit" /\ ri' = 1 /\ rn' = Len(sock)
  /\ UNCHANGED <<kernelVars, tableVars, acceptVars, rfd, req, mpc, historyVars>>

RoundEnd ==
  /\ rpc = "visit"
  /\ ri > rn
  /\ rpc' = "top"
  /\ UNCHANGED <<kernelVars, tableVars, acceptVars, ri, rn, rfd, req, mpc, historyVars>>

\* The socket and the timer of slot i are read in this order, so a socket
\* whose timer is still to be written is seen with the timer 0.  Only this
\* thread frees a slot: reading both at the later instant loses no outcome.
SkipFreeSlot ==
  /\ rpc = "visit"
  /\ ri <= rn
  /\ sock[ri] = 0
  /\ NextSlot
  /\ UNCHANGED <<kernelVars, tableVars, acceptVars, rn, rfd, req, mpc, historyVars>>

\* Mistake: no client is ever timed out.
TimedOut_Never(k) == FALSE

TimedOut(k) == sock[k] # 0 /\ age[k] > Timeout

VisitSlot ==
  /\ rpc = "visit"
  /\ ri <= rn
  /\ sock[ri] # 0
  /\ rfd' = sock[ri]
  /\ rpc' = IF TimedOut(ri) THEN "close" ELSE "recv"
  /\ UNCHANGED <<kernelVars, tableVars, acceptVars, ri, rn, req, mpc, historyVars>>

\* RecvFromClient returns 0: a request was read.
RecvRequest ==
  /\ rpc = "recv"
  /\ \E c \in Conns :
       /\ owner[rfd] = c
       /\ inbox[c] # <<>>
       /\ req' = Head(inbox[c])
       /\ inbox' = [inbox EXCEPT ![c] = Tail(@)]
  /\ rpc' = "work"
  /\ UNCHANGED <<backlog, owner, peer, credit, tableVars, acceptVars, ri, rn, rfd, mpc, historyVars>>

\* RecvFromClient returns -2: select reports nothing to read.
RecvNothing ==
  /\ rpc = "recv"
  /\ \E c \in Conns : owner[rfd] = c /\ inbox[c] = <<>> /\ peer[c] = "open"
  /\ NextSlot
  /\ UNCHANGED <<kernelVars, tableVars, acceptVars, rn, rfd, req, mpc, historyVars>>

\* RecvFromClient returns -1: end of stream, or the descriptor is closed.
RecvFailed ==
  /\ rpc = "recv"
  /\ \/ owner[rfd] = NoConn
     \/ \E c \in Conns : owner[rfd] = c /\ inbox[c] = <<>> /\ peer[c] = "fin"
  /\ rpc' = "close"
  /\ UNCHANGED <<kernelVars, tableVars, acceptVars, ri, rn, rfd, req, mpc, historyVars>>

\* DoWorkForRecv: only KEEP_ALIVE_REQ touches the table.
DoWorkForRecv ==
  /\ rpc = "work"
  /\ IF req.code = "KEEP_ALIVE_REQ"
     THEN /\ age' = [age EXCEPT ![ri] = 0]
          /\ quiet' = [c \in Conns |-> IF owner[rfd] = c THEN 0 ELSE quiet[c]]
          /\ clobbered' = clobbered \ {ri}
     ELSE UNCHANGED <<age, quiet, clobbered>>
  /\ req' = NoReq
  /\ NextSlot
  /\ UNCHANGED <<kernelVars, sock, cap, acceptVars, rn, rfd, mpc, dropped, torn>>

\* Mistake: the descriptor is not closed.
ExitClose_Leaks ==
  /\ rpc = "close"
  /\ rpc' = "forget"
  /\ UNCHANGED <<kernelVars, tableVars, acceptVars, ri, rn, rfd, req, mpc, historyVars>>

\* ClientExit, statement by statement: close the descriptor the slot names,
ExitClose ==
  /\ rpc = "close"
  /\ owner' = [f \in Fds |-> IF f = sock[ri] THEN NoConn ELSE owner[f]]
  /\ rpc' = "forget"
  /\ UNCHANGED <<backlog, peer, inbox, credit, tableVars, acceptVars, ri, rn, rfd, req, mpc, historyVars>>

\* delete its row of online_users (a table of the data base, see OnlineUsers),
ExitForget ==
  /\ rpc = "forget"
  /\ rpc' = "zero"
  /\ UNCHANGED <<kernelVars, tableVars, acceptVars, ri, rn, rfd, req, mpc, historyVars>>

\* Mistake: only the timer of the slot is reset.
ExitZeroSocket_Kept ==
  /\ rpc = "zero"
  /\ rpc' = "zerotimer"
  /\ UNCHANGED <<kernelVars, tableVars, acceptVars, ri, rn, rfd, req, mpc, historyVars>>

\* free the slot,
ExitZeroSocket ==
  /\ rpc = "zero"
  /\ sock' = [sock EXCEPT ![ri] = 0]
  /\ clobbered' = clobbered \ {ri}
  /\ rpc' = "zerotimer"
  /\ UNCHANGED <<kernelVars, age, cap, acceptVars, ri, rn, rfd, req, mpc, quiet, dropped, torn>>

\* and reset its timer, which may be another client's by now.
ExitZeroTimer ==
  /\ rpc = "zerotimer"
  /\ age' = [age EXCEPT ![ri] = Expired]
  /\ clobbered' = IF sock[ri] # 0 /\ ~(apc = "stamp" /\ aj = ri)
                  THEN clobbered \cup {ri} ELSE clobbered
  /\ NextSlot
  /\ UNCHANGED <<kernelVars, sock, cap, acceptVars, rn, rfd, req, mpc, quiet, dropped, torn>>

RecvThread ==
  \/ RecvTop \/ RoundEnd \/ SkipFreeSlot \/ VisitSlot
  \/ RecvRequest \/ RecvNothing \/ RecvFailed \/ DoWorkForRecv
  \/ ExitClose \/ ExitForget \/ ExitZeroSocket \/ ExitZeroTimer

(***************************************************************************)
(* main: 'q' is typed, the listening socket is closed, threads are joined. *)
(***************************************************************************)
MainQuit ==
  /\ MayQuit
  /\ mpc = "menu"
  /\ mpc' = "closing"
  /\ UNCHANGED <<kernelVars, tableVars, acceptVars, recvVars, historyVars>>

\* Connections still queued are reset, unless accept keeps the socket alive.
MainCloseListener ==
  /\ mpc = "closing"
  /\ mpc' = "joining"
  /\ backlog' = IF apc = "accept" THEN backlog ELSE <<>>
  /\ UNCHANGED <<owner, peer, inbox, credit, tableVars, acceptVars, recvVars, historyVars>>

MainJoin ==
  /\ mpc = "joining"
  /\ apc = "done" /\ rpc = "done"
  /\ mpc' = "done"
  /\ UNCHANGED <<kernelVars, tableVars, acceptVars, recvVars, historyVars>>

MainThread == MainQuit \/ MainCloseListener \/ MainJoin

Clients ==
  \E c \in Conns : Connect(c) \/ Hangup(c) \/ \E r \in Requests : SendRequest(c, r)

Next == Clients \/ Tick \/ AcceptThread \/ RecvThread \/ MainThread

Spec == Init /\ [][Next]_vars

(***************************************************************************)
(* The threads loop forever and the clock runs; nothing makes a client     *)
(* act, nor the operator type 'q'.                                         *)
(***************************************************************************)
Fairness ==
  /\ WF_vars(AcceptThread)
  /\ WF_vars(RecvThread)
  /\ WF_vars(MainCloseListener \/ MainJoin)
  /\ WF_vars(Tick)

LiveSpec == Spec /\ Fairness

(***************************************************************************)
(* Properties.                                                             *)
(***************************************************************************)
AcceptPc == {"top", "accept", "find", "free", "stamp", "grow", "done"}
RecvPc == {"top", "visit", "recv", "work", "close", "forget", "zero", "zerotimer", "done"}
\* ThreadRecv is at work on slot ri.
InSlot == {"recv", "work", "close", "forget", "zero", "zerotimer"}
Descriptors == Fds \cup {0}

KernelType ==
  /\ backlog \in Seq(Conns)
  /\ owner \in [Fds -> Conns \cup {NoConn}]
  /\ peer \in [Conns -> {"new", "open", "fin"}]
  /\ inbox \in [Conns -> Seq(Requests)]
  /\ credit \in [Conns -> 0..MaxRequests]

TableType == sock \in Seq(Descriptors) /\ age \in Seq(Ages) /\ cap \in Nat

AcceptType ==
  /\ apc \in AcceptPc /\ afd \in Descriptors /\ aj \in Nat
  /\ spareSock \in Seq(Descriptors) /\ spareAge \in Seq(Ages)

RecvType ==
  /\ rpc \in RecvPc /\ ri \in Nat /\ rn \in Nat /\ rfd \in Descriptors
  /\ req \in Requests \cup {NoReq}

HistoryType ==
  /\ quiet \in [Conns -> Ages]
  /\ dropped \in SUBSET Conns /\ clobbered \in SUBSET Nat /\ torn \in BOOLEAN

\* The type of the state.
TypeOK ==
  /\ KernelType /\ TableType /\ AcceptType /\ RecvType
  /\ mpc \in {"menu", "closing", "joining", "done"}
  /\ HistoryType

\* No thread indexes the vector past its end, although ThreadRecv keeps the
\* size it read at the top of a round and ThreadAccept keeps an index while
\* the other thread works on the same vector (server.cpp:172, 211).
IndexInBounds ==
  /\ Len(age) = Len(sock)
  /\ rpc = "visit" => ri >= 1 /\ rn <= Len(sock)
  /\ rpc \in InSlot => ri \in 1..rn /\ rn <= Len(sock)
  /\ apc \in {"find", "free"} => aj >= 1
  /\ apc = "stamp" => aj \in 1..Len(sock)

\* Two slots never name the same descriptor: a client is never polled twice
\* per round, and ClientExit of one slot never closes the client of another
\* (AddClientSocket's first loop, server.cpp:213-217).
NoDuplicateSockets ==
  \A j, k \in 1..Len(sock) : sock[j] = sock[k] /\ sock[j] # 0 => j = k

\* A descriptor that is open is polled by ThreadRecv, or ThreadAccept is
\* still adding it, or AddClientSocket answered "client has exist": nothing
\* else (a lost write, a reused slot) ever leaves a connection unattended.
WatchedOrDropped ==
  \A f \in Fds :
    owner[f] # NoConn =>
      \/ \E k \in 1..Len(sock) : sock[k] = f
      \/ apc \in {"find", "free", "grow"} /\ afd = f
      \/ owner[f] \in dropped

\* AddClientSocket refuses a new connection only while ClientExit stands
\* between close and the write that frees the slot of the same descriptor,
\* or after a growing push_back has brought a freed slot back.
DropOnlyInExitWindow ==
  [][apc = "find" /\ apc' = "top" =>
       torn \/ (rpc \in {"forget", "zero"} /\ sock[ri] = afd)]_vars

\* ThreadRecv times a client out after Timeout seconds of silence, or it saw
\* a timer that one of three races left wrong: the socket of a reused slot
\* was written and its timer not yet, ClientExit reset the timer after the
\* slot was given away, or a growing push_back discarded a write.
TimeoutIsEarned ==
  [][rpc = "visit" /\ rpc' = "close" =>
       \/ \A c \in Conns : owner[sock[ri]] = c => quiet[c] > Timeout
       \/ apc = "stamp" /\ aj = ri
       \/ ri \in clobbered
       \/ torn]_vars

\* WU_KEEP_ALIVE_TIMEOUT as protocol.h states it: a client is timed out only
\* after that many seconds without a KEEP_ALIVE_REQ.
TimeoutOnlyWhenSilent ==
  [][rpc = "visit" /\ rpc' = "close" =>
       \A c \in Conns : owner[sock[ri]] = c => quiet[c] > Timeout]_vars

\* An accepted connection that was added to the table does not stay open
\* forever: once its requests have run out it is closed, by its own hangup
\* or by the keep-alive timeout.
SilentClientIsClosed ==
  \A c \in Conns :
    Open(c) /\ c \notin dropped ~> ~Open(c) \/ c \in dropped \/ g_bExit

\* A queued connection is taken off the backlog.
BacklogDrains ==
  \A c \in Conns :
    (\E k \in 1..Len(backlog) : backlog[k] = c)
      ~> (g_bExit \/ \A k \in 1..Len(backlog) : backlog[k] # c)

\* After 'q' both threads leave their loops, except that ThreadAccept stays
\* in accept for as long as nobody connects: close does not wake it.
ShutdownStopsThreads ==
  g_bExit ~> rpc = "done" /\ (apc = "done" \/ (apc = "accept" /\ backlog = <<>>))

(***************************************************************************)
(* The table implements ConnTable: a slot counts from the write of its     *)
(* socket to the write that frees it.                                      *)
(***************************************************************************)
Watching == {sock[k] : k \in 1..Len(sock)} \ {0}
Adding == IF apc \in {"find", "free", "grow"} THEN afd ELSE 0
Leaving == IF rpc \in {"forget", "zero"} THEN sock[ri] ELSE 0

Table ==
  INSTANCE ConnTable
    WITH watched <- Watching, adding <- Adding, leaving <- Leaving, SlotsReturn <- TRUE

\* Every step on the slots is a step of ConnTable or leaves it as it is: the
\* rest of the server may take the table for a set of descriptors although
\* AddClientSocket and ClientExit work on it slot by slot and concurrently.
ImplementsConnTable == Table!Spec
=============================================================================
