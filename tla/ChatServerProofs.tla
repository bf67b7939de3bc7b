-------------------------- MODULE ChatServerProofs --------------------------
(***************************************************************************)
(* What holds of the sessions of the chat server and of what it sends, for *)
(* every number of connections, descriptors, users and requests.           *)
(***************************************************************************)
EXTENDS ChatServer, SequenceTheorems, TLAPS

\* The conjuncts of TypeOK, by the part of the server that changes them.
TableType ==
  /\ owner \in [Fds -> Conns \cup {NoConn}]
  /\ watched \subseteq Fds /\ adding \in Fds \cup {0} /\ leaving \in Fds \cup {0}
RowsType == rows \subseteq [user : DB!Ids, sock : Fds]
QueueType == sendBuff \in Seq(Entries)
RecvType == todo \in Seq(Entries) /\ rpc \in {"poll", "queue", "forget", "free"}
ClientType ==
  /\ peer \in [Conns -> {"new", "open", "fin"}] /\ credit \in 0..MaxRequests
  /\ restarts \in 0..MaxRestarts
HistoryType ==
  /\ last \in [Conns -> Entries \cup {Nothing}] /\ who \in [Conns -> DB!Ids \cup {0}]
  /\ broken \subseteq Conns

\* TypeOK is the conjunction of its parts.
LEMMA TypeParts ==
  TypeOK <=> TableType /\ RowsType /\ QueueType /\ RecvType /\ ClientType /\ HistoryType
BY DEF TypeOK, TableType, RowsType, QueueType, RecvType, ClientType, HistoryType

\* A reply to a descriptor is two entries.
LEMMA ReplyType ==
  ASSUME TableType, NEW sock \in Fds, NEW code \in Codes, NEW dst \in DB!Ids \cup {0},
         NEW result \in 0..3
  PROVE  Reply(sock, code, dst, result) \in Seq(Entries)
<1> DEFINE entry(part) == [sock |-> sock, part |-> part, code |-> code, dst |-> dst,
                           result |-> result, to |-> owner[sock]]
<1>1. entry("header") \in Entries /\ entry("data") \in Entries
  BY DEF Entries, TableType
<1>2. Reply(sock, code, dst, result) = <<entry("header"), entry("data")>>
  BY DEF Reply
<1> HIDE DEF entry
<1> QED
  BY <1>1, <1>2

\* The initial state is well typed.
LEMMA InitType == Init => TypeOK
<1> SUFFICES ASSUME Init PROVE TypeOK
  OBVIOUS
<1> USE DEF Init, Table!Init, DB!Init
<1>1. TableType /\ RowsType /\ ClientType
  BY BoundsAssumption DEF TableType, RowsType, ClientType
<1>2. QueueType /\ RecvType
  BY EmptySeq DEF QueueType, RecvType
<1>3. HistoryType
  BY DEF HistoryType
<1> QED
  BY <1>1, <1>2, <1>3, TypeParts

\* The entries of a reply are taken over as ThreadRecv's next work.
LEMMA QueueReply ==
  ASSUME NEW reply \in Seq(Entries), Queue(reply)
  PROVE  RecvType'
BY DEF Queue, RecvType

\* What the rows of online_users hand out: ids and descriptors.
LEMMA RowsAnswer ==
  ASSUME RowsType, NEW f \in Fds
  PROVE  /\ DB!ListReceivers(f) \subseteq DB!Ids \cup {0}
         /\ \A user \in Users \cup {0} : \A r \in DB!TalkReceivers(f, user) :
              r[1] \in DB!Ids \cup {0} /\ r[2] \in Fds \cup {0}
<1>1. DB!ClientOfSocket(f) \subseteq DB!Ids \cup {0}
  BY DEF DB!ClientOfSocket, DB!Answers, DB!Fetch, DB!RowsOfSocket, RowsType
<1>2. \A u : DB!SocketOfUser(u) \subseteq Fds \cup {0}
  BY DEF DB!SocketOfUser, DB!Answers, DB!Fetch, DB!RowsOfUser, RowsType
<1>3. \A u \in Users \cup {0} : DB!GetUserID(u) \subseteq DB!Ids \cup {0}
  BY DEF DB!GetUserID, DB!Answers, DB!Ids
<1>4. DB!ListReceivers(f) \subseteq DB!Ids \cup {0}
  BY <1>1 DEF DB!ListReceivers
<1>5. ASSUME NEW user \in Users \cup {0}, NEW r \in DB!TalkReceivers(f, user)
      PROVE  r[1] \in DB!Ids \cup {0} /\ r[2] \in Fds \cup {0}
  <2>1. \/ r = <<0, 0>>
        \/ \E u \in DB!GetUserID(user) : \E t \in Fds \cup {0} : r = <<u, t>>
    BY <1>2, <1>5 DEF DB!TalkReceivers
  <2> QED
    BY <2>1, <1>3
<1> QED
  BY <1>4, <1>5

\* A login leaves rows of users and descriptors.
LEMMA LoginRows ==
  ASSUME RowsType, NEW f \in Fds, NEW user \in Users \cup {0},
         NEW dst \in DB!Ids \cup {0}, NEW result \in 0..3, DB!Login(f, user, dst, result)
  PROVE  RowsType'
<1>1. CASE UNCHANGED rows
  BY <1>1 DEF RowsType
<1>2. CASE dst # 0 /\ rows' = rows \cup {[user |-> dst, sock |-> f]}
  BY <1>2 DEF RowsType
<1> QED
  BY <1>1, <1>2 DEF DB!Login, DB!AddOnlineUser

\* What the clients and ThreadAccept do keeps the types.
LEMMA AcceptTypeStep ==
  ASSUME TypeOK, ThreadAccept \/ \E c \in Conns : Hangup(c)
  PROVE  TypeOK'
<1> USE DEF historyVars, recvVars, clientVars, tableVars
<1>1. TableType'
  BY TypeParts DEF ThreadAccept, Accept, AddClientSocket, Hangup, TableType,
     Table!Accept, Table!Add, Table!Refuse
<1>2. ClientType'
  BY TypeParts DEF ThreadAccept, Accept, AddClientSocket, Hangup, ClientType
<1>3. UNCHANGED <<rows, sendBuff, recvVars, historyVars>>
  BY DEF ThreadAccept, Accept, AddClientSocket, Hangup
<1> QED
  BY <1>1, <1>2, <1>3, TypeParts DEF TableType, RowsType, QueueType, RecvType, ClientType,
     HistoryType, TypeOK

\* The handlers of requests keep the types.
LEMMA ServeTypeStep == ASSUME TypeOK, NEW f \in Fds, Serve(f) PROVE TypeOK'
<1> USE DEF historyVars, recvVars, clientVars, tableVars
<1>1. Read(f)
  BY DEF Serve, KeepAlive, GetUserList, TalkWithUser, LoginReq
<1>2. TableType' /\ QueueType' /\ ClientType'
  BY <1>1, TypeParts, BoundsAssumption DEF Read, TableType, QueueType, ClientType
<1>3. <<>> \in Seq(Entries)
  BY EmptySeq
<1>4. \A u \in DB!Ids \cup {0}, s \in Fds, code \in Codes, result \in 0..3 :
        Reply(s, code, u, result) \in Seq(Entries)
  BY ReplyType, TypeParts
<1>5. RowsType' /\ RecvType' /\ who' \in [Conns -> DB!Ids \cup {0}]
  <2>1. CASE KeepAlive(f)
    <3>1. Reply(f, "KEEP_ALIVE_RSP", 0, 0) \in Seq(Entries)
      BY <1>4 DEF Codes
    <3>2. RecvType'
      BY <2>1, <3>1, QueueReply DEF KeepAlive
    <3> QED
      BY <2>1, <3>2, TypeParts DEF KeepAlive, RowsType, HistoryType
  <2>2. CASE GetUserList(f)
    <3>1. PICK u \in DB!ListReceivers(f) :
            Queue(IF u = 0 THEN <<>> ELSE Reply(f, "GET_USER_LIST_RSP", u, 0))
      BY <2>2 DEF GetUserList
    <3>2. u \in DB!Ids \cup {0}
      BY RowsAnswer, TypeParts
    <3>3. Reply(f, "GET_USER_LIST_RSP", u, 0) \in Seq(Entries)
      BY <1>4, <3>2 DEF Codes
    <3>4. RecvType'
      BY <3>1, <3>3, <1>3, QueueReply
    <3> QED
      BY <2>2, <3>4, TypeParts DEF GetUserList, RowsType, HistoryType
  <2>3. ASSUME NEW user \in Users \cup {0}, TalkWithUser(f, user)
        PROVE  RowsType' /\ RecvType' /\ who' \in [Conns -> DB!Ids \cup {0}]
    <3>1. UNCHANGED <<rows, who>>
      BY <2>3 DEF TalkWithUser
    <3> DEFINE reply(r) == IF 0 \in {r[1], r[2]} THEN <<>>
                           ELSE Reply(r[2], "TALK_WITH_USER_RSP", r[1], 0)
    <3>2. PICK r \in DB!TalkReceivers(f, user) : Queue(reply(r))
      BY <2>3 DEF TalkWithUser
    <3>3. r[1] \in DB!Ids \cup {0} /\ r[2] \in Fds \cup {0}
      BY RowsAnswer, TypeParts
    <3>4. reply(r) \in Seq(Entries)
      BY <3>3, <1>3, <1>4, SMTT(60) DEF Codes
    <3> HIDE DEF reply
    <3>5. RecvType'
      BY <3>2, <3>4, QueueReply
    <3> QED
      BY <3>1, <3>5, TypeParts DEF RowsType, HistoryType
  <2>4. ASSUME NEW user \in Users \cup {0}, LoginReq(f, user)
        PROVE  RowsType' /\ RecvType' /\ who' \in [Conns -> DB!Ids \cup {0}]
    <3>1. PICK dst \in DB!Ids \cup {0}, result \in 0..3 :
            /\ DB!Login(f, user, dst, result)
            /\ Queue(Reply(f, "LOGIN_RSP", dst, result))
            /\ who' = IF result = 0 THEN [who EXCEPT ![owner[f]] = dst] ELSE who
      BY <2>4 DEF LoginReq
    <3>2. RowsType'
      BY <3>1, LoginRows, TypeParts
    <3>3. Reply(f, "LOGIN_RSP", dst, result) \in Seq(Entries)
      BY <1>4 DEF Codes
    <3>4. RecvType'
      BY <3>1, <3>3, QueueReply
    <3> QED
      BY <3>1, <3>2, <3>4, TypeParts DEF HistoryType
  <2> QED
    BY <2>1, <2>2, <2>3, <2>4 DEF Serve
<1>6. HistoryType'
  BY <1>1, <1>5, TypeParts DEF Read, HistoryType
<1> QED
  BY <1>2, <1>5, <1>6, TypeParts DEF TypeOK, TableType, RowsType, QueueType, RecvType,
     ClientType, HistoryType

\* ThreadRecv queues only while it has an entry to queue.
Pending == rpc = "queue" => todo # <<>>

\* Every step keeps Pending.
LEMMA PendingStep == ASSUME Pending, [Next]_vars PROVE Pending'
<1> USE DEF Pending, recvVars
<1>1. ASSUME NEW reply, Queue(reply) PROVE Pending'
  BY <1>1 DEF Queue
<1>2. CASE SaveSendBuff \/ \E f \in Fds : Serve(f)
  BY <1>1, <1>2 DEF SaveSendBuff, Serve, KeepAlive, GetUserList, TalkWithUser, LoginReq
<1>3. CASE Restart \/ ExitForget \/ ExitFree \/ \E f \in Fds : ExitClose(f)
  BY <1>3 DEF Restart, ExitForget, ExitFree, ExitClose
<1>4. CASE \/ ThreadAccept \/ ThreadSend \/ UNCHANGED vars
           \/ \E c \in Conns : Hangup(c)
  BY <1>4 DEF ThreadAccept, AddClientSocket, Accept, ThreadSend, SendAll, SendShort, SendFails,
     Dequeue, Hangup, vars
<1> QED
  BY <1>2, <1>3, <1>4 DEF Next, ThreadRecv

\* What else ThreadRecv does keeps the types.
LEMMA RecvTypeStep ==
  ASSUME TypeOK, Pending,
         SaveSendBuff \/ ExitForget \/ ExitFree \/ \E f \in Fds : ExitClose(f)
  PROVE  TypeOK'
<1> USE DEF historyVars, recvVars, clientVars, tableVars
<1>1. CASE SaveSendBuff
  <2>1. Head(todo) \in Entries /\ Tail(todo) \in Seq(Entries)
    BY <1>1, HeadTailProperties, TypeParts DEF SaveSendBuff, Pending, RecvType
  <2>2. QueueType' /\ RecvType'
    BY <1>1, <2>1, AppendProperties, QueueReply, TypeParts DEF SaveSendBuff, QueueType
  <2>3. UNCHANGED <<tableVars, rows, clientVars, restarts, historyVars>>
    BY <1>1 DEF SaveSendBuff
  <2> QED
    BY <2>2, <2>3, TypeParts DEF TypeOK, TableType, RowsType, QueueType, RecvType,
       ClientType, HistoryType
<1>2. CASE ~SaveSendBuff
  <2>1. TableType'
    BY <1>2, TypeParts DEF ExitForget, ExitFree, ExitClose, TableType, Table!Close, Table!Free
  <2>2. RowsType' /\ RecvType'
    BY <1>2, TypeParts DEF ExitForget, ExitFree, ExitClose, RowsType, RecvType,
       DB!DeleteOnlineUser
  <2>3. UNCHANGED <<sendBuff, clientVars, restarts, historyVars>>
    BY <1>2 DEF ExitForget, ExitFree, ExitClose
  <2> QED
    BY <2>1, <2>2, <2>3, TypeParts DEF TypeOK, TableType, RowsType, QueueType, RecvType,
       ClientType, HistoryType
<1> QED
  BY <1>1, <1>2

\* ThreadSend keeps the types.
LEMMA SendTypeStep == ASSUME TypeOK, ThreadSend PROVE TypeOK'
<1> USE DEF recvVars, clientVars, tableVars
<1>1. Dequeue
  BY DEF ThreadSend, SendAll, SendShort, SendFails
<1>2. Entry \in Entries /\ Tail(sendBuff) \in Seq(Entries)
  BY <1>1, HeadTailProperties, TypeParts DEF Dequeue, Entry, QueueType
<1>3. last' \in [Conns -> Entries \cup {Nothing}]
  BY <1>2, TypeParts DEF ThreadSend, SendAll, SendShort, SendFails, HistoryType
<1>4. broken' \subseteq Conns
  BY TypeParts DEF ThreadSend, SendAll, SendShort, SendFails, HistoryType
<1>5. QueueType'
  BY <1>1, <1>2 DEF Dequeue, QueueType
<1>6. UNCHANGED <<tableVars, rows, recvVars, clientVars, restarts, who>>
  BY <1>1 DEF Dequeue
<1> QED
  BY <1>3, <1>4, <1>5, <1>6, TypeParts DEF TypeOK, TableType, RowsType, QueueType, RecvType,
     ClientType, HistoryType

\* A restart of the server keeps the types.
LEMMA RestartTypeStep == ASSUME TypeOK, Restart PROVE TypeOK'
<1> USE DEF historyVars
<1>1. QueueType' /\ RecvType'
  BY EmptySeq DEF Restart, QueueType, RecvType
<1>2. TableType' /\ ClientType'
  BY BoundsAssumption, TypeParts DEF Restart, TableType, ClientType
<1>3. UNCHANGED <<rows, historyVars>>
  BY DEF Restart
<1> QED
  BY <1>1, <1>2, <1>3, TypeParts DEF TypeOK, TableType, RowsType, QueueType, RecvType,
     ClientType, HistoryType

\* Every step of the server and of its clients keeps the types.
LEMMA TypeStep == ASSUME TypeOK, Pending, [Next]_vars PROVE TypeOK'
<1>1. CASE UNCHANGED vars
  BY <1>1 DEF TypeOK, vars, tableVars, recvVars, clientVars, historyVars
<1> QED
  BY <1>1, AcceptTypeStep, ServeTypeStep, RecvTypeStep, SendTypeStep, RestartTypeStep
     DEF Next, ThreadRecv

\* The state of the server is well typed in every reachable state, whatever
\* statements of the data base fail and however often the server restarts.
THEOREM TypeInvariant == Spec => [](TypeOK /\ Pending)
<1>1. Init => TypeOK /\ Pending
  BY InitType DEF Init, Pending
<1>2. TypeOK /\ Pending /\ [Next]_vars => (TypeOK /\ Pending)'
  BY TypeStep, PendingStep
<1> QED
  BY <1>1, <1>2, PTL DEF Spec

\* The type invariant by itself.
THEOREM TypeCorrect == Spec => []TypeOK
BY TypeInvariant, PTL

(***************************************************************************)
(* Descriptors: a connection has one at most, and a connection that gets   *)
(* the descriptor that ClientExit has just closed has not logged in before *)
(* the row of that descriptor is deleted, because ThreadRecv does both.    *)
(***************************************************************************)
OneDescriptor ==
  \A f, g \in Fds : owner[f] = owner[g] /\ owner[f] # NoConn => f = g

\* A client that has not connected has no descriptor and no session.
Newcomers == \A c \in Conns : peer[c] = "new" => ~Table!Open(c) /\ who[c] = 0

\* Where ThreadRecv is in ClientExit, and who may have its descriptor then.
Exiting ==
  /\ rpc = "forget" => leaving \in Fds
  /\ rpc = "forget" => owner[leaving] = NoConn \/ who[owner[leaving]] = 0

\* The inductive invariant the sessions rest on.
Descriptors == TypeOK /\ Pending /\ OneDescriptor /\ Newcomers /\ Exiting

\* The server starts with no descriptor in use.
LEMMA DescriptorsInit == Init => Descriptors
BY InitType, DescriptorsAssumption
   DEF Init, Table!Init, Table!Open, Descriptors, Pending, OneDescriptor, Newcomers, Exiting

\* A handler runs while ThreadRecv is not in ClientExit and changes who the
\* connection that sent the request is logged in as, if anything.
LEMMA ServeStep ==
  ASSUME TypeOK, NEW f \in Fds, Serve(f)
  PROVE  /\ Read(f) /\ rpc = "poll" /\ rpc' \in {"poll", "queue"}
         /\ UNCHANGED <<tableVars, peer>>
         /\ \A c \in Conns : c # owner[f] => who'[c] = who[c]
         /\ owner[f] \in Conns
<1> USE DEF HistoryType
<1>1. Read(f)
  BY DEF Serve, KeepAlive, GetUserList, TalkWithUser, LoginReq
<1>2. rpc' \in {"poll", "queue"}
  <2>1. ASSUME NEW reply, Queue(reply) PROVE rpc' \in {"poll", "queue"}
    BY <2>1 DEF Queue
  <2> QED
    BY <2>1 DEF Serve, KeepAlive, GetUserList, TalkWithUser, LoginReq
<1>3. ASSUME NEW c \in Conns, c # owner[f] PROVE who'[c] = who[c]
  BY <1>3, TypeParts DEF Serve, KeepAlive, GetUserList, TalkWithUser, LoginReq
<1> QED
  BY <1>1, <1>2, <1>3 DEF Read

\* Every step keeps the invariant on descriptors.
LEMMA DescriptorsStep == ASSUME Descriptors, [Next]_vars PROVE Descriptors'
<1> USE DEF Descriptors
<1>0. /\ TypeOK /\ TypeOK' /\ Pending'
      /\ owner \in [Fds -> Conns \cup {NoConn}] /\ peer \in [Conns -> {"new", "open", "fin"}]
      /\ who \in [Conns -> DB!Ids \cup {0}] /\ NoConn \notin Conns
  BY TypeStep, PendingStep, DescriptorsAssumption DEF TypeOK
<1>1. ASSUME NEW c \in Conns, Accept(c) PROVE OneDescriptor' /\ Newcomers' /\ Exiting'
  <2>1. PICK f \in Fds : owner[f] = NoConn /\ owner' = [owner EXCEPT ![f] = c]
    BY <1>1 DEF Accept, Table!Accept, Table!LowestFree, Table!FreeFds
  <2>2. \A g \in Fds : owner[g] # c
    BY <1>1 DEF Accept, Table!Accept, Table!Open
  <2>3. peer[c] = "new" /\ peer' = [peer EXCEPT ![c] = "open"] /\ UNCHANGED <<who, rpc, leaving>>
    BY <1>1 DEF Accept, Table!Accept, recvVars, historyVars
  <2>4. OneDescriptor'
    BY <1>0, <2>1, <2>2 DEF OneDescriptor
  <2>5. Newcomers'
    BY <1>0, <2>1, <2>3 DEF Newcomers, Table!Open
  <2>6. Exiting'
    BY <1>0, <2>1, <2>3 DEF Exiting, Newcomers
  <2> QED
    BY <2>4, <2>5, <2>6
<1>2. ASSUME NEW f \in Fds, Serve(f) PROVE OneDescriptor' /\ Newcomers' /\ Exiting'
  <2>1. UNCHANGED <<owner, peer>> /\ rpc' # "forget"
    BY <1>0, <1>2, ServeStep DEF tableVars
  <2>2. \A c \in Conns : c # owner[f] => who'[c] = who[c]
    BY <1>0, <1>2, ServeStep
  <2> QED
    BY <1>0, <2>1, <2>2 DEF OneDescriptor, Newcomers, Exiting, Table!Open
<1>3. ASSUME NEW f \in Fds, ExitClose(f) PROVE OneDescriptor' /\ Newcomers' /\ Exiting'
  <2>1. /\ owner' = [owner EXCEPT ![f] = NoConn] /\ leaving' = f
        /\ UNCHANGED <<peer, who>>
    BY <1>3 DEF ExitClose, Table!Close, clientVars, historyVars
  <2> QED
    BY <1>0, <2>1 DEF OneDescriptor, Newcomers, Exiting, Table!Open
<1>4. CASE Restart
  <2>1. owner' = [g \in Fds |-> NoConn] /\ rpc' = "poll" /\ UNCHANGED who
    BY <1>4 DEF Restart, historyVars
  <2>2. \A c \in Conns : peer'[c] = "new" => peer[c] = "new"
    BY <1>0, <1>4 DEF Restart
  <2> QED
    BY <1>0, <2>1, <2>2 DEF OneDescriptor, Newcomers, Exiting, Table!Open
<1>5. CASE \E c \in Conns : Hangup(c)
  BY <1>0, <1>5 DEF Hangup, tableVars, recvVars, historyVars, OneDescriptor, Newcomers, Exiting,
     Table!Open
<1>6. CASE ExitForget \/ ExitFree \/ SaveSendBuff
  <2>1. UNCHANGED <<owner, peer, who>> /\ rpc' # "forget"
    <3>1. CASE ExitForget
      BY <3>1 DEF ExitForget, tableVars, clientVars, historyVars
    <3>2. CASE ExitFree
      BY <3>2 DEF ExitFree, Table!Free, clientVars, historyVars
    <3>3. CASE SaveSendBuff
      BY <3>3 DEF SaveSendBuff, Queue, tableVars, clientVars, historyVars
    <3> QED
      BY <1>6, <3>1, <3>2, <3>3
  <2> QED
    BY <1>0, <2>1 DEF OneDescriptor, Newcomers, Exiting, Table!Open
<1>7. CASE AddClientSocket \/ ThreadSend \/ UNCHANGED vars
  <2>1. UNCHANGED <<owner, peer, who, rpc, leaving>>
    <3>1. CASE AddClientSocket
      BY <3>1 DEF AddClientSocket, Table!Add, Table!Refuse, recvVars, clientVars, historyVars
    <3>2. CASE ThreadSend
      BY <3>2 DEF ThreadSend, SendAll, SendShort, SendFails, Dequeue, tableVars, recvVars,
         clientVars
    <3>3. CASE UNCHANGED vars
      BY <3>3 DEF vars, tableVars, recvVars, clientVars, historyVars
    <3> QED
      BY <1>7, <3>1, <3>2, <3>3
  <2> QED
    BY <1>0, <2>1 DEF OneDescriptor, Newcomers, Exiting, Table!Open
<1> QED
  BY <1>0, <1>1, <1>2, <1>3, <1>4, <1>5, <1>6, <1>7 DEF Next, ThreadRecv, ThreadAccept

\* The invariant on descriptors holds in every reachable state.
THEOREM DescriptorsInvariant == Spec => []Descriptors
BY DescriptorsInit, DescriptorsStep, PTL DEF Spec

(***************************************************************************)
(* Sessions.                                                               *)
(***************************************************************************)
\* What a login does when no statement fails: it adds its row only if
\* neither the user nor the socket has one, and says 0 only then.
LEMMA LoginEffect ==
  ASSUME ~DbMayFail, RowsType, NEW f \in Fds, NEW user \in Users \cup {0},
         NEW dst \in DB!Ids \cup {0}, NEW result \in 0..3, DB!Login(f, user, dst, result)
  PROVE  \/ result # 0 /\ UNCHANGED rows
         \/ /\ result = 0 /\ dst # 0
            /\ rows' = rows \cup {[user |-> dst, sock |-> f]}
            /\ \A r \in rows : r.user # dst /\ r.sock # f
<1>1. CASE result # 0
  BY <1>1 DEF DB!Login, DB!AddOnlineUser
<1>2. CASE result = 0
  <2>1. FALSE \in DB!UserIsOnline(dst) /\ FALSE \in DB!SocketIsOnline(f) /\ dst # 0
    <3>1. result # 1 /\ result # 2 /\ result # 3
      BY <1>2
    <3> QED
      BY <3>1, Zenon DEF DB!Login
  <2>2. DB!RowsOfUser(dst) = {} /\ DB!RowsOfSocket(f) = {}
    <3>1. ASSUME NEW P \in BOOLEAN, FALSE \in DB!Answers({P}, FALSE) PROVE ~P
      <4>1. DB!Answers({P}, FALSE) = {P}
        BY DEF DB!Answers
      <4>2. FALSE = P
        BY <3>1, <4>1
      <4> QED
        BY <4>2, Zenon
    <3>2. FALSE \in DB!Answers({DB!RowsOfUser(dst) # {}}, FALSE)
      BY <2>1, Zenon DEF DB!UserIsOnline
    <3>3. FALSE \in DB!Answers({DB!RowsOfSocket(f) # {}}, FALSE)
      BY <2>1, Zenon DEF DB!SocketIsOnline
    <3> QED
      BY <3>1, <3>2, <3>3, Zenon
  <2>3. rows' = rows \cup {[user |-> dst, sock |-> f]}
    BY <1>2 DEF DB!Login, DB!AddOnlineUser
  <2> QED
    BY <1>2, <2>1, <2>2, <2>3 DEF DB!RowsOfUser, DB!RowsOfSocket
<1> QED
  BY <1>1, <1>2

\* Only a login and ClientExit change the rows or who is logged in.
LEMMA OtherSteps ==
  ASSUME [Next]_vars, ~ExitForget, ~\E f \in Fds, u \in Users \cup {0} : LoginReq(f, u)
  PROVE  UNCHANGED <<rows, who>>
<1>1. CASE \E f \in Fds : Serve(f)
  BY <1>1 DEF Serve, KeepAlive, GetUserList, TalkWithUser
<1>2. CASE SaveSendBuff \/ ExitFree \/ Restart \/ \E f \in Fds : ExitClose(f)
  BY <1>2 DEF SaveSendBuff, ExitFree, ExitClose, Restart, historyVars
<1>3. CASE ThreadAccept \/ \E c \in Conns : Hangup(c)
  BY <1>3 DEF ThreadAccept, Accept, AddClientSocket, Hangup, historyVars
<1>4. CASE ThreadSend
  BY <1>4 DEF ThreadSend, SendAll, SendShort, SendFails, Dequeue
<1>5. CASE UNCHANGED vars
  BY <1>5 DEF vars, historyVars
<1> QED
  BY <1>1, <1>2, <1>3, <1>4, <1>5 DEF Next, ThreadRecv

\* A step never gives a user or a socket a second row.
LEMMA OneSessionStep ==
  ASSUME ~DbMayFail, TypeOK, OneSession, [Next]_vars
  PROVE  OneSession'
<1>1. CASE rows' \subseteq rows
  BY <1>1 DEF OneSession
<1>2. CASE ExitForget
  BY <1>1, <1>2 DEF ExitForget, DB!DeleteOnlineUser
<1>3. ASSUME NEW f \in Fds, NEW u \in Users \cup {0}, LoginReq(f, u)
      PROVE  OneSession'
  <2>1. PICK dst \in DB!Ids \cup {0}, result \in 0..3 : DB!Login(f, u, dst, result)
    BY <1>3 DEF LoginReq
  <2>2. \/ rows' = rows
        \/ /\ rows' = rows \cup {[user |-> dst, sock |-> f]}
           /\ \A r \in rows : r.user # dst /\ r.sock # f
    BY <2>1, LoginEffect, TypeParts
  <2> QED
    BY <2>2 DEF OneSession
<1> QED
  BY <1>1, <1>2, <1>3, OtherSteps

\* A user is online at most once and a socket serves at most one user, also
\* when the server finds rows of an earlier run, unless a statement fails.
THEOREM OneSessionHolds == ASSUME ~DbMayFail PROVE Spec => []OneSession
<1>1. Init => OneSession
  BY DEF Init, DB!Init, OneSession
<1>2. TypeOK /\ OneSession /\ [Next]_vars => OneSession'
  BY OneSessionStep
<1> QED
  BY <1>1, <1>2, TypeCorrect, PTL DEF Spec

\* A step never leaves a row whose socket another connection has, except
\* between the close of the socket and the DELETE of its row.
LEMMA SessionIdentityStep ==
  ASSUME ~DbMayFail, MaxRestarts = 0, Descriptors, SessionIdentity, [Next]_vars
  PROVE  SessionIdentity'
<1>0. /\ TypeOK /\ owner \in [Fds -> Conns \cup {NoConn}] /\ who \in [Conns -> DB!Ids \cup {0}]
      /\ RowsType /\ \A r \in rows : r.sock \in Fds
      /\ NoConn \notin Conns
  BY TypeParts, DescriptorsAssumption DEF Descriptors, TableType, HistoryType, RowsType
<1>1. ASSUME NEW c \in Conns, Accept(c) PROVE SessionIdentity'
  <2>1. PICK f \in Fds : owner[f] = NoConn /\ owner' = [owner EXCEPT ![f] = c]
    BY <1>1 DEF Accept, Table!Accept, Table!LowestFree, Table!FreeFds
  <2>2. UNCHANGED <<rows, who, rpc, leaving>>
    BY <1>1 DEF Accept, Table!Accept, recvVars, historyVars
  <2> QED
    BY <1>0, <2>1, <2>2 DEF SessionIdentity
<1>2. ASSUME NEW f \in Fds, NEW u \in Users \cup {0}, LoginReq(f, u) PROVE SessionIdentity'
  <2>1. PICK dst \in DB!Ids \cup {0}, result \in 0..3 :
          /\ DB!Login(f, u, dst, result)
          /\ who' = IF result = 0 THEN [who EXCEPT ![owner[f]] = dst] ELSE who
    BY <1>2 DEF LoginReq
  <2>2. Read(f) /\ rpc = "poll" /\ owner' = owner /\ owner[f] \in Conns
    BY <1>2 DEF LoginReq, Read, tableVars
  <2>3. CASE result # 0
    <3>1. UNCHANGED <<rows, who>>
      BY <1>0, <2>1, <2>3, LoginEffect
    <3> QED
      BY <2>2, <3>1 DEF SessionIdentity
  <2>4. CASE result = 0
    <3>1. /\ rows' = rows \cup {[user |-> dst, sock |-> f]}
          /\ \A r \in rows : r.sock # f
      BY <1>0, <2>1, <2>4, LoginEffect
    <3>2. who' = [who EXCEPT ![owner[f]] = dst]
      BY <2>1, <2>4
    <3>3. ASSUME NEW r \in rows PROVE owner[r.sock] \in Conns /\ who'[owner[r.sock]] = r.user
      <4>1. owner[r.sock] \in Conns /\ who[owner[r.sock]] = r.user
        BY <2>2 DEF SessionIdentity
      <4>2. owner[r.sock] # owner[f]
        BY <1>0, <2>2, <3>1 DEF Descriptors, OneDescriptor
      <4> QED
        BY <1>0, <3>2, <4>1, <4>2
    <3> QED
      BY <1>0, <2>2, <3>1, <3>2, <3>3 DEF SessionIdentity
  <2> QED
    BY <2>3, <2>4
<1>3. ASSUME NEW f \in Fds, ExitClose(f) PROVE SessionIdentity'
  BY <1>0, <1>3 DEF ExitClose, Table!Close, clientVars, historyVars, SessionIdentity
<1>4. CASE ExitForget
  BY <1>0, <1>4 DEF ExitForget, DB!DeleteOnlineUser, DB!RowsOfSocket, tableVars, historyVars,
     SessionIdentity
<1>5. CASE Restart
  BY <1>0, <1>5 DEF Restart, TypeOK
<1>6. CASE \/ ExitFree \/ SaveSendBuff \/ AddClientSocket \/ \E c \in Conns : Hangup(c)
           \/ ThreadSend \/ UNCHANGED vars
           \/ \E f \in Fds : Serve(f) /\ ~\E u \in Users \cup {0} : LoginReq(f, u)
  <2>1. UNCHANGED <<owner, rows, who>> /\ (rpc = "forget" => UNCHANGED <<rpc, leaving>>)
    <3>1. CASE ExitFree \/ SaveSendBuff
      BY <3>1 DEF ExitFree, Table!Free, SaveSendBuff, tableVars, historyVars
    <3>2. CASE AddClientSocket \/ \E c \in Conns : Hangup(c)
      BY <3>2 DEF AddClientSocket, Table!Add, Table!Refuse, Hangup, tableVars, recvVars,
         historyVars
    <3>3. CASE ThreadSend
      BY <3>3 DEF ThreadSend, SendAll, SendShort, SendFails, Dequeue, tableVars, recvVars
    <3>4. CASE UNCHANGED vars
      BY <3>4 DEF vars, tableVars, recvVars, historyVars
    <3>5. CASE \E f \in Fds : Serve(f) /\ ~\E u \in Users \cup {0} : LoginReq(f, u)
      BY <3>5 DEF Serve, KeepAlive, GetUserList, TalkWithUser, Read, tableVars
    <3> QED
      BY <1>6, <3>1, <3>2, <3>3, <3>4, <3>5
  <2> QED
    BY <2>1 DEF SessionIdentity
<1> QED
  BY <1>1, <1>2, <1>3, <1>4, <1>5, <1>6 DEF Next, ThreadAccept, ThreadRecv

\* While the server runs and no statement fails, a row of online_users is
\* the session of the connection that has its socket, although the number is
\* free for another one before ClientExit deletes the row.
THEOREM SessionIdentityHolds ==
  ASSUME ~DbMayFail, MaxRestarts = 0 PROVE Spec => []SessionIdentity
<1>1. Init => SessionIdentity
  BY DEF Init, DB!Init, SessionIdentity
<1>2. Descriptors /\ SessionIdentity /\ [Next]_vars => SessionIdentity'
  BY SessionIdentityStep
<1> QED
  BY <1>1, <1>2, DescriptorsInvariant, PTL DEF Spec

\* A login that is answered 0 has added its row, whatever statements failed.
LEMMA LoginListed ==
  ASSUME NEW f \in Fds, NEW user \in Users \cup {0},
         NEW dst \in DB!Ids \cup {0}, NEW result \in 0..3, DB!Login(f, user, dst, result)
  PROVE  /\ rows \subseteq rows'
         /\ result = 0 => [user |-> dst, sock |-> f] \in rows'
<1>1. result = 0 => rows' = rows \cup {[user |-> dst, sock |-> f]}
  BY DEF DB!Login, DB!AddOnlineUser
<1>2. UNCHANGED rows \/ rows' = rows \cup {[user |-> dst, sock |-> f]}
  BY DEF DB!Login, DB!AddOnlineUser
<1> QED
  BY <1>1, <1>2

\* A step never takes the row of a connection that is logged in and open.
LEMMA SessionIsListedStep ==
  ASSUME Descriptors, SessionIsListed, [Next]_vars
  PROVE  SessionIsListed'
<1> DEFINE Listed(c) == \E r \in rows : r.user = who[c] /\ owner[r.sock] = c
<1>0. /\ TypeOK /\ owner \in [Fds -> Conns \cup {NoConn}] /\ who \in [Conns -> DB!Ids \cup {0}]
      /\ \A r \in rows : r.sock \in Fds
      /\ NoConn \notin Conns
      /\ \A c \in Conns : Table!Open(c) /\ who[c] # 0 => Listed(c)
  BY TypeParts, DescriptorsAssumption
     DEF Descriptors, TableType, HistoryType, RowsType, SessionIsListed
<1>1. ASSUME NEW c \in Conns, Accept(c) PROVE SessionIsListed'
  <2>1. PICK f \in Fds : owner[f] = NoConn /\ owner' = [owner EXCEPT ![f] = c]
    BY <1>1 DEF Accept, Table!Accept, Table!LowestFree, Table!FreeFds
  <2>2. UNCHANGED <<rows, who>> /\ who[c] = 0
    BY <1>1 DEF Accept, historyVars, Descriptors, Newcomers
  <2>3. ASSUME NEW d \in Conns, Table!Open(d)', who'[d] # 0 PROVE Listed(d)'
    <3>1. d # c /\ Table!Open(d)
      BY <1>0, <2>1, <2>2, <2>3 DEF Table!Open
    <3> QED
      BY <1>0, <2>1, <2>2, <2>3, <3>1
  <2> QED
    BY <2>3 DEF SessionIsListed
<1>2. ASSUME NEW f \in Fds, NEW u \in Users \cup {0}, LoginReq(f, u) PROVE SessionIsListed'
  <2>1. PICK dst \in DB!Ids \cup {0}, result \in 0..3 :
          /\ DB!Login(f, u, dst, result)
          /\ who' = IF result = 0 THEN [who EXCEPT ![owner[f]] = dst] ELSE who
    BY <1>2 DEF LoginReq
  <2>2. owner' = owner /\ owner[f] \in Conns
    BY <1>2 DEF LoginReq, Read, tableVars
  <2>3. rows \subseteq rows' /\ (result = 0 => [user |-> dst, sock |-> f] \in rows')
    BY <2>1, LoginListed
  <2>4. ASSUME NEW d \in Conns, Table!Open(d)', who'[d] # 0 PROVE Listed(d)'
    <3>1. CASE result = 0 /\ d = owner[f]
      <4>1. who'[d] = dst
        BY <1>0, <2>1, <3>1
      <4> QED
        BY <2>2, <2>3, <3>1, <4>1
    <3>2. CASE ~(result = 0 /\ d = owner[f])
      <4>1. who'[d] = who[d] /\ Table!Open(d)
        BY <1>0, <2>1, <2>2, <2>4, <3>2 DEF Table!Open
      <4> QED
        BY <1>0, <2>2, <2>3, <2>4, <4>1
    <3> QED
      BY <3>1, <3>2
  <2> QED
    BY <2>4 DEF SessionIsListed
<1>3. ASSUME NEW f \in Fds, ExitClose(f) PROVE SessionIsListed'
  <2>1. owner' = [owner EXCEPT ![f] = NoConn] /\ UNCHANGED <<rows, who>>
    BY <1>3 DEF ExitClose, Table!Close, historyVars
  <2>2. ASSUME NEW d \in Conns, Table!Open(d)', who'[d] # 0 PROVE Listed(d)'
    <3>1. PICK g \in Fds : g # f /\ owner[g] = d
      BY <1>0, <2>1, <2>2 DEF Table!Open
    <3>2. PICK r \in rows : r.user = who[d] /\ owner[r.sock] = d
      BY <1>0, <2>1, <2>2, <3>1 DEF Table!Open
    <3>3. r.sock = g
      BY <1>0, <3>1, <3>2 DEF Descriptors, OneDescriptor
    <3> QED
      BY <1>0, <2>1, <3>1, <3>2, <3>3
  <2> QED
    BY <2>2 DEF SessionIsListed
<1>4. CASE ExitForget
  <2>1. /\ UNCHANGED <<owner, who>> /\ leaving \in Fds
        /\ owner[leaving] = NoConn \/ who[owner[leaving]] = 0
        /\ rows \ DB!RowsOfSocket(leaving) \subseteq rows'
    BY <1>4 DEF ExitForget, DB!DeleteOnlineUser, tableVars, historyVars, Descriptors, Exiting
  <2>2. ASSUME NEW d \in Conns, Table!Open(d)', who'[d] # 0 PROVE Listed(d)'
    <3>1. PICK r \in rows : r.user = who[d] /\ owner[r.sock] = d
      BY <1>0, <2>1, <2>2 DEF Table!Open
    <3>2. r.sock # leaving
      BY <1>0, <2>1, <2>2, <3>1
    <3> QED
      BY <2>1, <3>1, <3>2 DEF DB!RowsOfSocket
  <2> QED
    BY <2>2 DEF SessionIsListed
<1>5. CASE Restart
  <2>1. \A d \in Conns : ~Table!Open(d)'
    BY <1>0, <1>5 DEF Restart, Table!Open
  <2> QED
    BY <2>1 DEF SessionIsListed
<1>6. CASE \/ ExitFree \/ SaveSendBuff \/ AddClientSocket \/ \E c \in Conns : Hangup(c)
           \/ ThreadSend \/ UNCHANGED vars
           \/ \E f \in Fds : Serve(f) /\ ~\E u \in Users \cup {0} : LoginReq(f, u)
  <2>1. UNCHANGED <<owner, rows, who>>
    <3>1. CASE ExitFree \/ SaveSendBuff
      BY <3>1 DEF ExitFree, Table!Free, SaveSendBuff, tableVars, historyVars
    <3>2. CASE AddClientSocket \/ \E c \in Conns : Hangup(c)
      BY <3>2 DEF AddClientSocket, Table!Add, Table!Refuse, Hangup, tableVars, historyVars
    <3>3. CASE ThreadSend
      BY <3>3 DEF ThreadSend, SendAll, SendShort, SendFails, Dequeue, tableVars
    <3>4. CASE UNCHANGED vars
      BY <3>4 DEF vars, tableVars, historyVars
    <3>5. CASE \E f \in Fds : Serve(f) /\ ~\E u \in Users \cup {0} : LoginReq(f, u)
      BY <3>5 DEF Serve, KeepAlive, GetUserList, TalkWithUser, Read, tableVars
    <3> QED
      BY <1>6, <3>1, <3>2, <3>3, <3>4, <3>5
  <2> QED
    BY <2>1 DEF SessionIsListed, Table!Open
<1> QED
  BY <1>1, <1>2, <1>3, <1>4, <1>5, <1>6 DEF Next, ThreadAccept, ThreadRecv

\* A client that was told it is logged in can be found in online_users as
\* long as its connection is open, whatever statements fail, descriptors are
\* reused and restarts happen.
THEOREM SessionIsListedHolds == Spec => []SessionIsListed
<1>1. Init => SessionIsListed
  BY DescriptorsAssumption DEF Init, Table!Init, Table!Open, SessionIsListed
<1>2. Descriptors /\ SessionIsListed /\ [Next]_vars => SessionIsListed'
  BY SessionIsListedStep
<1> QED
  BY <1>1, <1>2, DescriptorsInvariant, PTL DEF Spec

(***************************************************************************)
(* Deliveries.  An entry of the queue knows its receiver by a descriptor   *)
(* only; what it was made for stays true of it: the connection it was made *)
(* for has that descriptor or none, and is logged in as the user that the  *)
(* entry names.                                                            *)
(***************************************************************************)
ForUsers == {"GET_USER_LIST_RSP", "TALK_WITH_USER_RSP"}

\* The user an entry names is that of the connection it was made for.
Named(e) ==
  /\ e.to \in Conns /\ peer[e.to] # "new"
  /\ e.code \in ForUsers => e.dst # 0 /\ e.dst = who[e.to]

\* An entry that is queued, and one that was received by connection c.
Addressed(e) == Named(e) /\ (owner[e.sock] = e.to \/ ~Table!Open(e.to))
Received(c, e) == e = Nothing \/ (Named(e) /\ (e.to = c \/ ~Table!Open(e.to)))

Deliveries ==
  /\ \A k \in 1..Len(sendBuff) : Addressed(sendBuff[k])
  /\ \A k \in 1..Len(todo) : Addressed(todo[k])
  /\ \A c \in Conns : Received(c, last[c])

\* What holds of the sessions when no statement fails and nothing restarts.
Sessions == Descriptors /\ SessionIdentity /\ SessionIsListed

\* The inductive invariant on deliveries.
Delivered == Sessions /\ Deliveries

\* The types that the steps below use.
LEMMA SessionTypes ==
  ASSUME Sessions
  PROVE  /\ TypeOK /\ RowsType /\ OneDescriptor /\ Pending
         /\ owner \in [Fds -> Conns \cup {NoConn}] /\ peer \in [Conns -> {"new", "open", "fin"}]
         /\ who \in [Conns -> DB!Ids \cup {0}] /\ NoConn \notin Conns
         /\ sendBuff \in Seq(Entries) /\ todo \in Seq(Entries)
         /\ last \in [Conns -> Entries \cup {Nothing}]
         /\ \A r \in rows : r.sock \in Fds
BY TypeParts, DescriptorsAssumption
   DEF Sessions, Descriptors, TypeOK, TableType, HistoryType, RowsType

\* A connection that is logged in stays so: a second login is answered 3.
LEMMA WhoKept ==
  ASSUME ~DbMayFail, Sessions, [Next]_vars, NEW c \in Conns, who[c] # 0
  PROVE  who'[c] = who[c]
<1>0. TypeOK /\ RowsType
  BY SessionTypes
<1>1. ASSUME NEW f \in Fds, NEW u \in Users \cup {0}, LoginReq(f, u) PROVE who'[c] = who[c]
  <2>1. PICK dst \in DB!Ids \cup {0}, result \in 0..3 :
          /\ DB!Login(f, u, dst, result)
          /\ who' = IF result = 0 THEN [who EXCEPT ![owner[f]] = dst] ELSE who
    BY <1>1 DEF LoginReq
  <2>2. owner[f] \in Conns
    BY <1>1 DEF LoginReq, Read
  <2>3. CASE result = 0 /\ owner[f] = c
    <3>1. \A r \in rows : r.sock # f
      BY <1>0, <2>1, <2>3, LoginEffect
    <3>2. PICK r \in rows : owner[r.sock] = c
      BY <2>3 DEF Sessions, SessionIsListed, Table!Open
    <3>3. r.sock = f
      BY <2>2, <2>3, <3>2, SessionTypes DEF OneDescriptor
    <3> QED
      BY <3>1, <3>3
  <2>4. CASE ~(result = 0 /\ owner[f] = c)
    BY <2>1, <2>4, SessionTypes
  <2> QED
    BY <2>3, <2>4
<1>2. CASE ExitForget
  BY <1>2 DEF ExitForget, historyVars
<1> QED
  BY <1>1, <1>2, OtherSteps

\* How the table changes: a connection that has come and has no descriptor
\* never gets one again, and one that loses its descriptor has none.
LEMMA TableKept ==
  ASSUME MaxRestarts = 0, Sessions, [Next]_vars
  PROVE  /\ \A c \in Conns : peer[c] # "new" => peer'[c] # "new"
         /\ \A c \in Conns : peer[c] # "new" /\ ~Table!Open(c) => ~Table!Open(c)'
         /\ \A c \in Conns, s \in Fds : owner[s] = c => owner'[s] = c \/ ~Table!Open(c)'
<1> DEFINE Kept == /\ \A c \in Conns : peer[c] # "new" => peer'[c] # "new"
                   /\ \A c \in Conns : peer[c] # "new" /\ ~Table!Open(c) => ~Table!Open(c)'
                   /\ \A c \in Conns, s \in Fds :
                        owner[s] = c => owner'[s] = c \/ ~Table!Open(c)'
<1>0. /\ owner \in [Fds -> Conns \cup {NoConn}] /\ peer \in [Conns -> {"new", "open", "fin"}]
      /\ NoConn \notin Conns /\ TypeOK /\ OneDescriptor
  BY SessionTypes
<1>1. ASSUME NEW c \in Conns, Accept(c) PROVE Kept
  <2>1. PICK f \in Fds : owner[f] = NoConn /\ owner' = [owner EXCEPT ![f] = c]
    BY <1>1 DEF Accept, Table!Accept, Table!LowestFree, Table!FreeFds
  <2>2. peer[c] = "new" /\ peer' = [peer EXCEPT ![c] = "open"]
    BY <1>1 DEF Accept
  <2> QED
    BY <1>0, <2>1, <2>2 DEF Table!Open
<1>2. ASSUME NEW f \in Fds, ExitClose(f) PROVE Kept
  <2>1. owner' = [owner EXCEPT ![f] = NoConn] /\ UNCHANGED peer
    BY <1>2 DEF ExitClose, Table!Close, clientVars
  <2>2. \A c \in Conns : owner[f] = c => ~Table!Open(c)'
    BY <1>0, <2>1 DEF Table!Open, OneDescriptor
  <2> QED
    BY <1>0, <2>1, <2>2 DEF Table!Open
<1>3. CASE Restart
  BY <1>0, <1>3 DEF Restart, TypeOK
<1>4. ASSUME NEW c \in Conns, Hangup(c) PROVE Kept
  BY <1>0, <1>4 DEF Hangup, tableVars, Table!Open
<1>5. CASE \/ AddClientSocket \/ ThreadSend \/ UNCHANGED vars \/ SaveSendBuff \/ ExitForget
           \/ ExitFree \/ \E f \in Fds : Serve(f)
  <2>1. UNCHANGED <<owner, peer>>
    <3>1. CASE AddClientSocket \/ ThreadSend \/ UNCHANGED vars
      BY <3>1 DEF AddClientSocket, Table!Add, Table!Refuse, ThreadSend, SendAll, SendShort,
         SendFails, Dequeue, tableVars, clientVars, vars
    <3>2. CASE SaveSendBuff \/ ExitForget \/ ExitFree
      BY <3>2 DEF SaveSendBuff, ExitForget, ExitFree, Table!Free, tableVars, clientVars
    <3>3. CASE \E f \in Fds : Serve(f)
      BY <1>0, <3>3, ServeStep DEF tableVars
    <3> QED
      BY <1>5, <3>1, <3>2, <3>3
  <2> QED
    BY <2>1 DEF Table!Open
<1> QED
  BY <1>1, <1>2, <1>3, <1>4, <1>5 DEF Next, ThreadAccept, ThreadRecv

\* An entry is addressed after a step as it was before, queued or received.
LEMMA AddressedKept ==
  ASSUME ~DbMayFail, MaxRestarts = 0, Sessions, [Next]_vars
  PROVE  /\ \A e \in Entries : Addressed(e) => Addressed(e)'
         /\ \A c \in Conns, e \in Entries \cup {Nothing} : Received(c, e) => Received(c, e)'
<1>1. ASSUME NEW e, Named(e) PROVE Named(e)'
  BY <1>1, TableKept, WhoKept DEF Named
<1>2. ASSUME NEW e \in Entries, Addressed(e) PROVE Addressed(e)'
  <2>1. Named(e)' /\ Named(e)
    BY <1>1, <1>2 DEF Addressed
  <2>2. e.sock \in Fds /\ e.to \in Conns /\ peer[e.to] # "new"
    BY <1>2, <2>1 DEF Entries, Named
  <2>3. owner'[e.sock] = e.to \/ ~Table!Open(e.to)'
    BY <1>2, <2>2, TableKept DEF Addressed
  <2> QED
    BY <2>1, <2>3 DEF Addressed
<1>3. ASSUME NEW c \in Conns, NEW e, Received(c, e) PROVE Received(c, e)'
  <2>1. CASE e = Nothing
    BY <2>1 DEF Received
  <2>2. CASE e # Nothing
    <3>1. Named(e) /\ Named(e)' /\ (e.to = c \/ ~Table!Open(e.to))
      BY <1>1, <1>3, <2>2 DEF Received
    <3>2. e.to = c \/ ~Table!Open(e.to)'
      BY <3>1, TableKept DEF Named
    <3> QED
      BY <3>1, <3>2 DEF Received
  <2> QED
    BY <2>1, <2>2
<1> QED
  BY <1>2, <1>3

\* A reply that names the user of the connection it is made for is addressed.
LEMMA ReplyAddressed ==
  ASSUME Sessions, NEW s \in Fds, owner[s] \in Conns, NEW code \in Codes,
         NEW dst \in DB!Ids \cup {0}, NEW result \in 0..3,
         code \in ForUsers => dst # 0 /\ dst = who[owner[s]]
  PROVE  \A k \in 1..Len(Reply(s, code, dst, result)) :
           /\ Reply(s, code, dst, result)[k] \in Entries
           /\ Addressed(Reply(s, code, dst, result)[k])
<1> DEFINE entry(part) == [sock |-> s, part |-> part, code |-> code, dst |-> dst,
                           result |-> result, to |-> owner[s]]
<1>1. peer[owner[s]] # "new"
  BY DEF Sessions, Descriptors, Newcomers, Table!Open
<1>2. \A part \in {"header", "data"} : entry(part) \in Entries /\ Addressed(entry(part))
  BY <1>1 DEF Entries, Addressed, Named
<1>3. Reply(s, code, dst, result) = <<entry("header"), entry("data")>>
  BY DEF Reply
<1> HIDE DEF entry
<1> QED
  BY <1>2, <1>3

\* The entries that ThreadRecv takes up are addressed.
LEMMA ServeAddressed ==
  ASSUME ~DbMayFail, Sessions, NEW f \in Fds, Serve(f)
  PROVE  /\ todo' \in Seq(Entries)
         /\ \A k \in 1..Len(todo') : todo'[k] \in Entries /\ Addressed(todo'[k])
<1> DEFINE Good(reply) == /\ reply \in Seq(Entries)
                          /\ \A k \in 1..Len(reply) : reply[k] \in Entries /\ Addressed(reply[k])
<1>0. /\ TypeOK /\ TableType /\ RowsType /\ rpc = "poll" /\ owner[f] \in Conns
      /\ \A r \in rows : r.sock \in Fds
  BY SessionTypes, ServeStep, TypeParts
<1>1. Good(<<>>)
  BY EmptySeq
<1>2. ASSUME NEW reply, Good(reply), Queue(reply)
      PROVE  Good(todo')
  BY <1>2 DEF Queue
<1>3. ASSUME NEW s \in Fds, owner[s] \in Conns, NEW code \in Codes,
             NEW dst \in DB!Ids \cup {0}, NEW result \in 0..3,
             code \in ForUsers => dst # 0 /\ dst = who[owner[s]]
      PROVE  Good(Reply(s, code, dst, result))
  BY <1>0, <1>3, ReplyType, ReplyAddressed
<1>4. \A r \in rows : owner[r.sock] \in Conns /\ who[owner[r.sock]] = r.user /\ r.user \in DB!Ids
  BY <1>0 DEF Sessions, SessionIdentity, RowsType
<1>5. CASE KeepAlive(f)
  <2>1. Good(Reply(f, "KEEP_ALIVE_RSP", 0, 0))
    BY <1>0, <1>3 DEF Codes, ForUsers
  <2>2. Queue(Reply(f, "KEEP_ALIVE_RSP", 0, 0))
    BY <1>5 DEF KeepAlive
  <2> QED
    BY <1>2, <2>1, <2>2
<1>6. CASE GetUserList(f)
  <2>1. PICK u \in DB!ListReceivers(f) :
          Queue(IF u = 0 THEN <<>> ELSE Reply(f, "GET_USER_LIST_RSP", u, 0))
    BY <1>6 DEF GetUserList
  <2>2. CASE u = 0
    BY <1>1, <1>2, <2>1, <2>2
  <2>3. CASE u # 0
    <3>1. \E r \in rows : r.sock = f /\ r.user = u
      <4>1. u \in DB!ClientOfSocket(f)
        BY <2>3 DEF DB!ListReceivers
      <4>2. u \in {r.user : r \in DB!RowsOfSocket(f)}
        BY <2>3, <4>1 DEF DB!ClientOfSocket, DB!Answers, DB!Fetch
      <4> QED
        BY <4>2 DEF DB!RowsOfSocket
    <3>2. u = who[owner[f]] /\ u \in DB!Ids \cup {0}
      BY <1>4, <3>1
    <3>3. Good(Reply(f, "GET_USER_LIST_RSP", u, 0))
      <4> HIDE DEF Good
      <4> QED
        BY <1>0, <1>3, <2>3, <3>2 DEF Codes
    <3>4. Queue(Reply(f, "GET_USER_LIST_RSP", u, 0))
      BY <2>1, <2>3
    <3> QED
      BY <1>2, <3>3, <3>4
  <2> QED
    BY <2>2, <2>3
<1>7. ASSUME NEW user \in Users \cup {0}, TalkWithUser(f, user) PROVE Good(todo')
  <2>1. PICK p \in DB!TalkReceivers(f, user) :
          Queue(IF 0 \in {p[1], p[2]} THEN <<>> ELSE Reply(p[2], "TALK_WITH_USER_RSP", p[1], 0))
    BY <1>7 DEF TalkWithUser
  <2>2. CASE 0 \in {p[1], p[2]}
    BY <1>1, <1>2, <2>1, <2>2
  <2>3. CASE 0 \notin {p[1], p[2]}
    <3>1. \E r \in rows : r.sock = p[2] /\ r.user = p[1]
      <4>1. PICK u \in DB!GetUserID(user) :
              \E t \in (IF u = 0 THEN {0} ELSE DB!SocketOfUser(u)) : p = <<u, t>>
        BY <2>3 DEF DB!TalkReceivers
      <4>2. PICK t \in DB!SocketOfUser(u) : p = <<u, t>> /\ t # 0
        BY <2>3, <4>1
      <4>3. t \in {r.sock : r \in DB!RowsOfUser(u)}
        BY <4>2 DEF DB!SocketOfUser, DB!Answers, DB!Fetch
      <4> QED
        BY <4>2, <4>3 DEF DB!RowsOfUser
    <3>2. Good(Reply(p[2], "TALK_WITH_USER_RSP", p[1], 0))
      BY <1>0, <1>3, <1>4, <2>3, <3>1 DEF Codes
    <3>3. Queue(Reply(p[2], "TALK_WITH_USER_RSP", p[1], 0))
      BY <2>1, <2>3
    <3> QED
      BY <1>2, <3>2, <3>3
  <2> QED
    BY <2>2, <2>3
<1>8. ASSUME NEW user \in Users \cup {0}, LoginReq(f, user) PROVE Good(todo')
  <2>1. PICK dst \in DB!Ids \cup {0}, result \in 0..3 : Queue(Reply(f, "LOGIN_RSP", dst, result))
    BY <1>8 DEF LoginReq
  <2>2. Good(Reply(f, "LOGIN_RSP", dst, result))
    BY <1>0, <1>3 DEF Codes, ForUsers
  <2> QED
    BY <1>2, <2>1, <2>2
<1> QED
  BY <1>5, <1>6, <1>7, <1>8 DEF Serve

\* The elements of the queues after an entry is moved or sent.
LEMMA QueueElements ==
  ASSUME NEW S, NEW q \in Seq(S), NEW x \in S
  PROVE  /\ \A k \in 1..Len(Append(q, x)) :
              Append(q, x)[k] = x \/ \E j \in 1..Len(q) : Append(q, x)[k] = q[j]
         /\ q # <<>> => /\ Head(q) = q[1] /\ 1 \in 1..Len(q)
                        /\ \A k \in 1..Len(Tail(q)) :
                             k + 1 \in 1..Len(q) /\ Tail(q)[k] = q[k + 1]
BY AppendProperties, HeadTailProperties

\* Every step keeps what the entries were made for.
LEMMA DeliveriesStep ==
  ASSUME ~DbMayFail, MaxRestarts = 0, Delivered, [Next]_vars
  PROVE  Deliveries'
<1> USE DEF Delivered
<1>0. /\ TypeOK /\ TypeOK' /\ Pending
      /\ sendBuff \in Seq(Entries) /\ todo \in Seq(Entries)
      /\ last \in [Conns -> Entries \cup {Nothing}]
      /\ sendBuff' \in Seq(Entries) /\ todo' \in Seq(Entries)
  BY SessionTypes, TypeStep DEF TypeOK
<1> DEFINE AllQueued == \A k \in 1..Len(sendBuff) : Addressed(sendBuff[k])
           AllTodo == \A k \in 1..Len(todo) : Addressed(todo[k])
           AllLast == \A c \in Conns : Received(c, last[c])
<1>1. /\ \A k \in 1..Len(sendBuff) : sendBuff[k] \in Entries /\ Addressed(sendBuff[k])
      /\ \A k \in 1..Len(todo) : todo[k] \in Entries /\ Addressed(todo[k])
      /\ \A c \in Conns : last[c] \in Entries \cup {Nothing} /\ Received(c, last[c])
  BY <1>0, ElementOfSeq DEF Deliveries
<1>2. /\ \A e \in Entries : Addressed(e) => Addressed(e)'
      /\ \A c \in Conns, e \in Entries \cup {Nothing} : Received(c, e) => Received(c, e)'
  BY AddressedKept
<1>3. UNCHANGED last => AllLast'
  BY <1>1, <1>2 DEF Received, Addressed, Named
<1>4. ASSUME \A k \in 1..Len(sendBuff') : sendBuff'[k] \in Entries /\ Addressed(sendBuff'[k])
      PROVE  AllQueued'
  BY <1>2, <1>4 DEF Addressed, Named
<1>5. ASSUME \A k \in 1..Len(todo') : todo'[k] \in Entries /\ Addressed(todo'[k])
      PROVE  AllTodo'
  BY <1>2, <1>5 DEF Addressed, Named
<1>6. ASSUME NEW f \in Fds, Serve(f) PROVE Deliveries'
  <2>1. UNCHANGED <<sendBuff, last>>
    BY <1>0, <1>6, ServeStep DEF Read
  <2>2. \A k \in 1..Len(todo') : todo'[k] \in Entries /\ Addressed(todo'[k])
    BY <1>6, ServeAddressed
  <2>3. AllQueued'
    BY <1>1, <1>4, <2>1
  <2> QED
    BY <1>3, <1>5, <2>1, <2>2, <2>3 DEF Deliveries
<1>7. CASE SaveSendBuff
  <2>1. /\ UNCHANGED last /\ todo # <<>>
        /\ sendBuff' = Append(sendBuff, Head(todo)) /\ todo' = Tail(todo)
    BY <1>0, <1>7 DEF SaveSendBuff, Queue, Pending, historyVars
  <2>2. Head(todo) \in Entries /\ Addressed(Head(todo))
    BY <1>0, <1>1, <2>1, QueueElements
  <2>3. \A k \in 1..Len(sendBuff') : sendBuff'[k] \in Entries /\ Addressed(sendBuff'[k])
    BY <1>0, <1>1, <2>1, <2>2, QueueElements
  <2>4. \A k \in 1..Len(todo') : todo'[k] \in Entries /\ Addressed(todo'[k])
    BY <1>0, <1>1, <2>1, QueueElements
  <2> QED
    BY <1>3, <1>4, <1>5, <2>1, <2>3, <2>4 DEF Deliveries
<1>8. CASE ThreadSend
  <2>1. /\ UNCHANGED todo /\ sendBuff # <<>> /\ sendBuff' = Tail(sendBuff)
        /\ \/ UNCHANGED last
           \/ Receiver \in Conns /\ last' = [last EXCEPT ![Receiver] = Entry]
    BY <1>8 DEF ThreadSend, SendAll, SendShort, SendFails, Dequeue, recvVars
  <2>2. Entry \in Entries /\ Addressed(Entry)
    BY <1>0, <1>1, <2>1, QueueElements DEF Entry
  <2>3. \A k \in 1..Len(sendBuff') : sendBuff'[k] \in Entries /\ Addressed(sendBuff'[k])
    BY <1>0, <1>1, <2>1, QueueElements
  <2>4. \A k \in 1..Len(todo') : todo'[k] \in Entries /\ Addressed(todo'[k])
    BY <1>1, <2>1
  <2>5. CASE Receiver \in Conns /\ last' = [last EXCEPT ![Receiver] = Entry]
    <3>1. Received(Receiver, Entry)
      BY <2>2, <2>5 DEF Received, Addressed, Named, Receiver, Table!Open
    <3>2. \A c \in Conns : last'[c] \in Entries \cup {Nothing} /\ Received(c, last'[c])
      BY <1>0, <1>1, <2>2, <2>5, <3>1
    <3>3. AllLast'
      BY <1>2, <3>2 DEF Received, Addressed, Named
    <3> QED
      BY <1>4, <1>5, <2>3, <2>4, <3>3 DEF Deliveries
  <2> QED
    BY <1>3, <1>4, <1>5, <2>1, <2>3, <2>4, <2>5 DEF Deliveries
<1>9. CASE \/ ThreadAccept \/ ExitForget \/ ExitFree \/ UNCHANGED vars
           \/ \E f \in Fds : ExitClose(f)
           \/ \E c \in Conns : Hangup(c)
  <2>1. UNCHANGED <<sendBuff, todo, last>>
    BY <1>9 DEF ThreadAccept, Accept, AddClientSocket, ExitForget, ExitFree, ExitClose, Hangup,
       vars, recvVars, historyVars
  <2> QED
    BY <1>1, <1>3, <1>4, <1>5, <2>1 DEF Deliveries
<1>10. ~Restart
  BY <1>0 DEF Restart, TypeOK
<1> QED
  BY <1>6, <1>7, <1>8, <1>9, <1>10 DEF Next, ThreadRecv

\* While no statement fails and the server runs, the invariant on deliveries
\* holds in every reachable state.
THEOREM DeliveredInvariant ==
  ASSUME ~DbMayFail, MaxRestarts = 0 PROVE Spec => []Delivered
<1>1. Init => Deliveries
  BY DEF Init, Deliveries, Received
<1>2. Delivered /\ [Next]_vars => Deliveries'
  BY DeliveriesStep
<1>3. Spec => []Sessions
  BY DescriptorsInvariant, SessionIdentityHolds, SessionIsListedHolds, PTL DEF Sessions
<1> QED
  BY <1>1, <1>2, <1>3, PTL DEF Spec, Delivered

\* What a client receives was made for it, or for a connection that had its
\* descriptor before and is closed.
THEOREM MisdeliveredOnlyAfterReuseHolds ==
  ASSUME ~DbMayFail, MaxRestarts = 0 PROVE Spec => []MisdeliveredOnlyAfterReuse
<1>1. Delivered => MisdeliveredOnlyAfterReuse
  BY DEF Delivered, Deliveries, Received, MisdeliveredOnlyAfterReuse
<1> QED
  BY <1>1, DeliveredInvariant, PTL

\* A message or a list that reaches the connection it was made for names the
\* user of that connection, however long it was queued.
THEOREM DestinationIsUserHolds ==
  ASSUME ~DbMayFail, MaxRestarts = 0 PROVE Spec => []DestinationIsUser
<1>1. Delivered => DestinationIsUser
  BY DEF Delivered, Deliveries, Received, Named, ForUsers, DestinationIsUser
<1> QED
  BY <1>1, DeliveredInvariant, PTL

(***************************************************************************)
(* Answers to a login.                                                     *)
(***************************************************************************)
\* What a login answers when no statement fails, by the rows it has seen.
LEMMA LoginResult ==
  ASSUME ~DbMayFail, NEW f \in Fds, NEW user \in Users \cup {0},
         NEW dst \in DB!Ids \cup {0}, NEW result \in 0..3, DB!Login(f, user, dst, result)
  PROVE  /\ dst = user
         /\ result = 2 => \E r \in rows : r.user = dst
         /\ result = 3 => \E r \in rows : r.sock = f
<1>1. dst = user
  BY DEF DB!Login, DB!GetUserID, DB!Answers
<1>2. ASSUME NEW P \in BOOLEAN, TRUE \in DB!Answers({P}, FALSE) PROVE P
  <2>1. DB!Answers({P}, FALSE) = {P}
    BY DEF DB!Answers
  <2> QED
    BY <1>2, <2>1, Zenon
<1>3. ASSUME result = 2 PROVE \E r \in rows : r.user = dst
  <2>1. TRUE \in DB!UserIsOnline(dst)
    <3>1. result # 0 /\ result # 1 /\ result # 3
      BY <1>3
    <3>2. \A added \in BOOLEAN : result # IF added THEN 0 ELSE 3
      BY <1>3
    <3> QED
      BY <3>1, <3>2, Zenon DEF DB!Login
  <2>2. DB!RowsOfUser(dst) # {}
    BY <1>2, <2>1, Zenon DEF DB!UserIsOnline
  <2> QED
    BY <2>2 DEF DB!RowsOfUser
<1>4. ASSUME result = 3 PROVE \E r \in rows : r.sock = f
  <2>1. TRUE \in DB!SocketIsOnline(f)
    <3>1. result # 0 /\ result # 1 /\ result # 2
      BY <1>4
    <3>2. \A added \in BOOLEAN : DB!AddOnlineUser(f, dst, added) => added
      BY DEF DB!AddOnlineUser
    <3>3. \A added \in BOOLEAN : added => result # IF added THEN 0 ELSE 3
      BY <1>4
    <3> QED
      BY <3>1, <3>2, <3>3, Zenon DEF DB!Login
  <2>2. DB!RowsOfSocket(f) # {}
    BY <1>2, <2>1, Zenon DEF DB!SocketIsOnline
  <2> QED
    BY <2>2 DEF DB!RowsOfSocket
<1> QED
  BY <1>1, <1>3, <1>4

\* The answer to a login tells the truth about sessions.
LEMMA LoginAnswersTrueStep ==
  ASSUME ~DbMayFail, Sessions, NEW f \in Fds, NEW user \in Users \cup {0}, LoginReq(f, user)
  PROVE  LET rsp == todo'[1] IN
         /\ rsp.result = 0 => rsp.dst \in Users /\ \A c \in Conns : ~Session(c, rsp.dst)
         /\ rsp.result = 2 => \E c \in Conns : Session(c, rsp.dst)
         /\ rsp.result = 3 => who[rsp.to] # 0
<1>1. PICK dst \in DB!Ids \cup {0}, result \in 0..3 :
        DB!Login(f, user, dst, result) /\ Queue(Reply(f, "LOGIN_RSP", dst, result))
  BY DEF LoginReq
<1>2. /\ todo'[1].result = result /\ todo'[1].dst = dst /\ todo'[1].to = owner[f]
  BY <1>1 DEF Queue, Reply
<1>3. rpc = "poll" /\ owner[f] \in Conns
  BY DEF LoginReq, Read
<1>4. \A r \in rows : r.sock \in Fds /\ owner[r.sock] \in Conns /\ who[owner[r.sock]] = r.user
  BY <1>3, SessionTypes DEF Sessions, SessionIdentity
<1>5. \A r \in rows : r.user # 0
  BY SessionTypes, UsersAssumption DEF RowsType, DB!Ids
<1>6. ASSUME result = 0 PROVE dst \in Users /\ \A c \in Conns : ~Session(c, dst)
  <2>1. dst # 0 /\ \A r \in rows : r.user # dst
    BY <1>1, <1>6, LoginEffect, SessionTypes
  <2>2. dst \in Users
    BY <1>1, <2>1, LoginResult
  <2> QED
    BY <2>1, <2>2 DEF Session, Sessions, SessionIsListed
<1>7. ASSUME result = 2 PROVE \E c \in Conns : Session(c, dst)
  <2>1. PICK r \in rows : r.user = dst
    BY <1>1, <1>7, LoginResult
  <2> QED
    BY <1>4, <2>1 DEF Session, Table!Open
<1>8. ASSUME result = 3 PROVE who[owner[f]] # 0
  <2>1. PICK r \in rows : r.sock = f
    BY <1>1, <1>8, LoginResult
  <2> QED
    BY <1>4, <1>5, <2>1
<1> QED
  BY <1>2, <1>6, <1>7, <1>8

\* When no statement fails, a login is answered 0 only if the user has no
\* session, 2 only if it has one and 3 only if this connection is logged in.
THEOREM LoginAnswersTrueHolds ==
  ASSUME ~DbMayFail, MaxRestarts = 0 PROVE Spec => LoginAnswersTrue
<1> DEFINE Login == rpc = "poll" /\ rpc' = "queue" /\ todo'[1].code = "LOGIN_RSP"
           Truthful ==
             LET rsp == todo'[1] IN
             /\ rsp.result = 0 => rsp.dst \in Users /\ \A c \in Conns : ~Session(c, rsp.dst)
             /\ rsp.result = 2 => \E c \in Conns : Session(c, rsp.dst)
             /\ rsp.result = 3 => who[rsp.to] # 0
<1>1. ASSUME Sessions, [Next]_vars, Login
      PROVE  \E f \in Fds, user \in Users \cup {0} : LoginReq(f, user)
  <2>1. ASSUME NEW f \in Fds, KeepAlive(f) \/ GetUserList(f) PROVE FALSE
    <3>1. \A s, u : /\ Reply(s, "KEEP_ALIVE_RSP", u, 0)[1].code = "KEEP_ALIVE_RSP"
                    /\ Reply(s, "GET_USER_LIST_RSP", u, 0)[1].code = "GET_USER_LIST_RSP"
      BY DEF Reply
    <3> QED
      BY <1>1, <2>1, <3>1 DEF KeepAlive, GetUserList, Queue
  <2>2. ASSUME NEW f \in Fds, NEW u \in Users \cup {0}, TalkWithUser(f, u) PROVE FALSE
    <3>1. \A s, d : Reply(s, "TALK_WITH_USER_RSP", d, 0)[1].code = "TALK_WITH_USER_RSP"
      BY DEF Reply
    <3> QED
      BY <1>1, <2>2, <3>1 DEF TalkWithUser, Queue
  <2>3. ~ThreadAccept /\ ~ThreadSend /\ ~Restart /\ ~UNCHANGED vars /\ ~\E c \in Conns : Hangup(c)
    BY <1>1 DEF ThreadAccept, Accept, AddClientSocket, ThreadSend, SendAll, SendShort,
       SendFails, Dequeue, Restart, Hangup, vars, recvVars
  <2>4. ~SaveSendBuff /\ ~ExitForget /\ ~ExitFree /\ ~\E f \in Fds : ExitClose(f)
    BY <1>1 DEF SaveSendBuff, ExitForget, ExitFree, ExitClose
  <2> QED
    BY <1>1, <2>1, <2>2, <2>3, <2>4 DEF Next, ThreadRecv, Serve
<1>2. Sessions /\ [Next]_vars => [Login => Truthful]_vars
  BY <1>1, LoginAnswersTrueStep
<1> HIDE DEF Login, Truthful
<1>3. Spec => []Sessions
  BY DescriptorsInvariant, SessionIdentityHolds, SessionIsListedHolds, PTL DEF Sessions
<1>4. Spec => [][Login => Truthful]_vars
  BY <1>2, <1>3, PTL DEF Spec
<1> QED
  BY <1>4 DEF LoginAnswersTrue, Login, Truthful

(***************************************************************************)
(* Framing.  The entries that ThreadSend still has to send and ThreadRecv  *)
(* has still to queue are one queue of replies.  A client that has         *)
(* received a header has its data at the head of that queue, unless an     *)
(* entry for it was lost.                                                  *)
(***************************************************************************)
Queued == sendBuff \o todo
Twin(e) == [e EXCEPT !.part = "data"]

\* A header is followed by its data, and data follows a header.
Paired(q) ==
  \A k \in 1..Len(q) :
    IF q[k].part = "header" THEN k < Len(q) /\ q[k + 1] = Twin(q[k])
                            ELSE k > 1 => q[k - 1].part = "header"

\* Connection c has descriptor s, receives, and has missed nothing so far.
Live(c, s) == c \notin broken /\ peer[c] = "open" /\ owner[s] = c

Waiting == rpc # "queue" => todo = <<>>
Known == \A k \in 1..Len(Queued) : Queued[k].to \in Conns => peer[Queued[k].to] # "new"
Fresh == \A c \in Conns : peer[c] = "new" => last[c] = Nothing
Placed ==
  \A c \in Conns : last[c].part = "header" /\ c \notin broken /\ Table!Open(c) =>
    owner[last[c].sock] = c
Expecting ==
  \A c \in Conns : last[c].part = "header" /\ Live(c, last[c].sock) =>
    Queued # <<>> /\ Queued[1] = Twin(last[c])
Following ==
  \A c \in Conns :
    Queued # <<>> /\ Queued[1].part = "data" /\ Queued[1].to = c /\ Live(c, Queued[1].sock) =>
      last[c].part = "header"

Framing == Waiting /\ Paired(Queued) /\ Known /\ Fresh /\ Placed /\ Expecting /\ Following

\* The inductive invariant on framing.
Framed == Descriptors /\ Framing

\* The types that the steps below use.
LEMMA FramedTypes ==
  ASSUME Descriptors
  PROVE  /\ TypeOK /\ TableType /\ OneDescriptor /\ Pending
         /\ owner \in [Fds -> Conns \cup {NoConn}] /\ peer \in [Conns -> {"new", "open", "fin"}]
         /\ NoConn \notin Conns /\ broken \subseteq Conns
         /\ sendBuff \in Seq(Entries) /\ todo \in Seq(Entries) /\ Queued \in Seq(Entries)
         /\ last \in [Conns -> Entries \cup {Nothing}]
BY TypeParts, DescriptorsAssumption, ConcatProperties
   DEF Descriptors, TypeOK, TableType, HistoryType, Queued

\* The data of a header differs from it in nothing else.
LEMMA TwinFields ==
  ASSUME NEW e \in Entries
  PROVE  /\ Twin(e) \in Entries /\ Twin(e).part = "data"
         /\ Twin(e).to = e.to /\ Twin(e).sock = e.sock
BY DEF Twin, Entries

\* Nothing is no header.
LEMMA HeaderIsEntry ==
  ASSUME Descriptors, NEW c \in Conns, last[c].part = "header"
  PROVE  last[c] \in Entries
BY FramedTypes DEF Nothing

\* A queue from which the first element is taken, or to whose first part the
\* first element of the second is moved.
LEMMA ConcatMoves ==
  ASSUME NEW S, NEW s \in Seq(S), NEW t \in Seq(S)
  PROVE  /\ s # <<>> => /\ Tail(s) \o t = Tail(s \o t)
                        /\ s \o t # <<>> /\ (s \o t)[1] = Head(s)
         /\ t # <<>> => Append(s, Head(t)) \o Tail(t) = s \o t
<1>1. ASSUME s # <<>>
      PROVE  Tail(s) \o t = Tail(s \o t) /\ s \o t # <<>> /\ (s \o t)[1] = Head(s)
  <2>1. /\ s \o t \in Seq(S) /\ Len(s \o t) = Len(s) + Len(t)
        /\ \A k \in 1..(Len(s) + Len(t)) :
             (s \o t)[k] = IF k <= Len(s) THEN s[k] ELSE t[k - Len(s)]
    BY ConcatProperties
  <2>2. /\ Len(s) \in Nat \ {0} /\ Len(t) \in Nat /\ Head(s) = s[1]
        /\ Tail(s) \in Seq(S) /\ Len(Tail(s)) = Len(s) - 1
        /\ \A k \in 1..Len(Tail(s)) : Tail(s)[k] = s[k + 1]
    BY <1>1, EmptySeq, LenProperties, HeadTailProperties
  <2>3. s \o t # <<>> /\ (s \o t)[1] = Head(s)
    BY <2>1, <2>2, EmptySeq
  <2>4. /\ Tail(s \o t) \in Seq(S) /\ Len(Tail(s \o t)) = Len(s) + Len(t) - 1
        /\ \A k \in 1..(Len(s) + Len(t) - 1) : Tail(s \o t)[k] = (s \o t)[k + 1]
    BY <2>1, <2>3, HeadTailProperties
  <2>5. /\ Tail(s) \o t \in Seq(S) /\ Len(Tail(s) \o t) = Len(s) - 1 + Len(t)
        /\ \A k \in 1..(Len(s) - 1 + Len(t)) :
             (Tail(s) \o t)[k] = IF k <= Len(s) - 1 THEN Tail(s)[k] ELSE t[k - (Len(s) - 1)]
    BY <2>2, ConcatProperties
  <2>6. \A k \in 1..(Len(s) - 1 + Len(t)) : (Tail(s) \o t)[k] = Tail(s \o t)[k]
    BY <2>1, <2>2, <2>4, <2>5
  <2>7. Len(Tail(s) \o t) = Len(Tail(s \o t))
    BY <2>2, <2>4, <2>5
  <2>8. Tail(s) \o t = Tail(s \o t)
    BY <2>2, <2>4, <2>5, <2>6, <2>7, SeqEqual
  <2> QED
    BY <2>3, <2>8
<1>2. ASSUME t # <<>> PROVE Append(s, Head(t)) \o Tail(t) = s \o t
  <2>1. Head(t) \in S /\ Tail(t) \in Seq(S) /\ t = <<Head(t)>> \o Tail(t)
    BY <1>2, HeadTailProperties
  <2>2. Append(s, Head(t)) = s \o <<Head(t)>> /\ <<Head(t)>> \in Seq(S)
    BY <2>1, AppendIsConcat
  <2>3. (s \o <<Head(t)>>) \o Tail(t) = s \o (<<Head(t)>> \o Tail(t))
    BY <2>1, <2>2, ConcatAssociative
  <2> QED
    BY <2>1, <2>2, <2>3
<1> QED
  BY <1>1, <1>2

\* How the table changes for a connection that has come: it gets no other
\* descriptor, and keeps the one it has unless it is closed.
LEMMA TableSteps ==
  ASSUME Descriptors, [Next]_vars, NEW c \in Conns, peer[c] # "new"
  PROVE  /\ peer'[c] # "new" /\ (peer'[c] = "open" => peer[c] = "open")
         /\ \A s \in Fds : owner'[s] = c => owner[s] = c
         /\ \A s \in Fds : owner[s] = c /\ Table!Open(c)' => owner'[s] = c
         /\ Table!Open(c)' => Table!Open(c)
<1> DEFINE Kept == /\ peer'[c] # "new" /\ (peer'[c] = "open" => peer[c] = "open")
                   /\ \A s \in Fds : owner'[s] = c => owner[s] = c
                   /\ \A s \in Fds : owner[s] = c /\ Table!Open(c)' => owner'[s] = c
                   /\ Table!Open(c)' => Table!Open(c)
<1>0. /\ owner \in [Fds -> Conns \cup {NoConn}] /\ peer \in [Conns -> {"new", "open", "fin"}]
      /\ NoConn \notin Conns /\ TypeOK /\ OneDescriptor
  BY FramedTypes
<1>1. ASSUME NEW d \in Conns, Accept(d) PROVE Kept
  <2>1. PICK f \in Fds : owner[f] = NoConn /\ owner' = [owner EXCEPT ![f] = d]
    BY <1>1 DEF Accept, Table!Accept, Table!LowestFree, Table!FreeFds
  <2>2. peer[d] = "new" /\ peer' = [peer EXCEPT ![d] = "open"]
    BY <1>1 DEF Accept
  <2> QED
    BY <1>0, <2>1, <2>2 DEF Table!Open
<1>2. ASSUME NEW f \in Fds, ExitClose(f) PROVE Kept
  <2>1. owner' = [owner EXCEPT ![f] = NoConn] /\ UNCHANGED peer
    BY <1>2 DEF ExitClose, Table!Close, clientVars
  <2>2. owner[f] = c => ~Table!Open(c)'
    BY <1>0, <2>1 DEF Table!Open, OneDescriptor
  <2> QED
    BY <1>0, <2>1, <2>2 DEF Table!Open
<1>3. CASE Restart
  <2>1. owner' = [f \in Fds |-> NoConn] /\ peer'[c] = "fin"
    BY <1>3 DEF Restart
  <2> QED
    BY <1>0, <2>1 DEF Table!Open
<1>4. ASSUME NEW d \in Conns, Hangup(d) PROVE Kept
  BY <1>0, <1>4 DEF Hangup, tableVars, Table!Open
<1>5. CASE \/ AddClientSocket \/ ThreadSend \/ UNCHANGED vars \/ SaveSendBuff \/ ExitForget
           \/ ExitFree \/ \E f \in Fds : Serve(f)
  <2>1. UNCHANGED <<owner, peer>>
    <3>1. CASE AddClientSocket \/ ThreadSend \/ UNCHANGED vars
      BY <3>1 DEF AddClientSocket, Table!Add, Table!Refuse, ThreadSend, SendAll, SendShort,
         SendFails, Dequeue, tableVars, clientVars, vars
    <3>2. CASE SaveSendBuff \/ ExitForget \/ ExitFree
      BY <3>2 DEF SaveSendBuff, ExitForget, ExitFree, Table!Free, tableVars, clientVars
    <3>3. CASE \E f \in Fds : Serve(f)
      BY <1>0, <3>3, ServeStep DEF tableVars
    <3> QED
      BY <1>5, <3>1, <3>2, <3>3
  <2> QED
    BY <2>1 DEF Table!Open
<1> QED
  BY <1>1, <1>2, <1>3, <1>4, <1>5 DEF Next, ThreadAccept, ThreadRecv

\* What a handler queues is nothing, or a header and its data.
LEMMA ServeReplies ==
  ASSUME Descriptors, NEW f \in Fds, Serve(f)
  PROVE  \/ todo' = <<>>
         \/ \E e \in Entries : /\ todo' = <<e, Twin(e)>> /\ e.part = "header"
                               /\ e.to \in Conns => peer[e.to] # "new"
<1>1. todo' = <<>> \/ \E s, code, dst, result : todo' = Reply(s, code, dst, result)
  BY DEF Serve, KeepAlive, GetUserList, TalkWithUser, LoginReq, Queue
<1>2. ASSUME NEW s, NEW code, NEW dst, NEW result, todo' = Reply(s, code, dst, result)
      PROVE  \E e \in Entries : /\ todo' = <<e, Twin(e)>> /\ e.part = "header"
                                /\ e.to \in Conns => peer[e.to] # "new"
  <2> DEFINE entry(part) == [sock |-> s, part |-> part, code |-> code, dst |-> dst,
                             result |-> result, to |-> owner[s]]
  <2>1. todo' = <<entry("header"), entry("data")>>
    BY <1>2 DEF Reply
  <2>2. todo' \in Seq(Entries)
    BY ServeTypeStep, FramedTypes DEF TypeOK
  <2>3. entry("header") \in Entries
    <3>1. Len(todo') = 2 /\ todo'[1] = entry("header")
      BY <2>1
    <3>2. todo'[1] \in Entries
      <4> HIDE DEF entry
      <4> QED
        BY <2>2, <3>1, ElementOfSeq
    <3> QED
      BY <3>1, <3>2
  <2>4. entry("data") = Twin(entry("header")) /\ entry("header").part = "header"
    BY DEF Twin
  <2>5. s \in Fds
    BY <2>3 DEF Entries
  <2>6. entry("header").to \in Conns => peer[entry("header").to] # "new"
    BY <2>5 DEF Descriptors, Newcomers, Table!Open
  <2> QED
    BY <2>1, <2>3, <2>4, <2>6
<1> QED
  BY <1>1, <1>2

\* The queue is left alone, grows by a reply, loses its first element to
\* ThreadSend, or is lost with the server.
LEMMA QueuedStep ==
  ASSUME Descriptors, Waiting, [Next]_vars
  PROVE  /\ Waiting'
         /\ \/ Queued' = Queued /\ UNCHANGED <<last, broken>>
            \/ /\ UNCHANGED <<last, broken, peer>>
               /\ \E e \in Entries :
                    /\ Queued' = Queued \o <<e, Twin(e)>> /\ e.part = "header"
                    /\ e.to \in Conns => peer[e.to] # "new"
            \/ /\ ThreadSend /\ UNCHANGED <<owner, peer>> /\ Queued # <<>>
               /\ Queued' = Tail(Queued) /\ Entry = Queued[1]
            \/ /\ UNCHANGED <<last, broken>> /\ Queued' = <<>>
               /\ \A c \in Conns : peer'[c] # "open"
<1> USE DEF Waiting
<1>0. sendBuff \in Seq(Entries) /\ todo \in Seq(Entries) /\ TypeOK /\ Pending
  BY FramedTypes
<1>1. ASSUME NEW reply, Queue(reply) PROVE Waiting'
  BY <1>1 DEF Queue
<1>2. ASSUME NEW f \in Fds, Serve(f)
      PROVE  /\ Waiting' /\ UNCHANGED <<last, broken, peer>>
             /\ \/ Queued' = Queued
                \/ \E e \in Entries :
                     /\ Queued' = Queued \o <<e, Twin(e)>> /\ e.part = "header"
                     /\ e.to \in Conns => peer[e.to] # "new"
  <2>1. Waiting'
    BY <1>1, <1>2 DEF Serve, KeepAlive, GetUserList, TalkWithUser, LoginReq
  <2>2. UNCHANGED <<last, broken, peer, sendBuff>> /\ todo = <<>>
    BY <1>0, <1>2, ServeStep DEF Read
  <2>3. Queued = sendBuff
    BY <1>0, <2>2, ConcatEmptySeq DEF Queued
  <2>4. Queued' = Queued \o todo'
    BY <2>2, <2>3 DEF Queued
  <2>5. CASE todo' = <<>>
    BY <1>0, <2>1, <2>2, <2>3, <2>4, <2>5, ConcatEmptySeq
  <2>6. CASE todo' # <<>>
    BY <1>2, <2>1, <2>2, <2>4, <2>6, ServeReplies
  <2> QED
    BY <2>5, <2>6
<1>3. CASE SaveSendBuff
  <2>1. /\ UNCHANGED <<last, broken>> /\ todo # <<>>
        /\ sendBuff' = Append(sendBuff, Head(todo)) /\ todo' = Tail(todo)
    BY <1>0, <1>3 DEF SaveSendBuff, Queue, Pending, historyVars
  <2>2. Queued' = Queued
    BY <1>0, <2>1, ConcatMoves DEF Queued
  <2> QED
    BY <1>1, <1>3, <2>1, <2>2 DEF SaveSendBuff
<1>4. CASE ThreadSend
  <2>1. /\ UNCHANGED <<todo, rpc, owner, peer>> /\ sendBuff # <<>> /\ sendBuff' = Tail(sendBuff)
    BY <1>4 DEF ThreadSend, SendAll, SendShort, SendFails, Dequeue, recvVars, tableVars,
       clientVars
  <2>2. Queued # <<>> /\ Queued' = Tail(Queued) /\ Entry = Queued[1]
    BY <1>0, <2>1, ConcatMoves DEF Queued, Entry
  <2> QED
    BY <1>4, <2>1, <2>2
<1>5. CASE Restart
  <2>1. UNCHANGED <<last, broken>> /\ Waiting' /\ \A c \in Conns : peer'[c] # "open"
    BY <1>5 DEF Restart, historyVars
  <2>2. sendBuff' = <<>> /\ todo' = <<>> /\ <<>> \in Seq(Entries)
    BY <1>5, EmptySeq DEF Restart
  <2>3. Queued' = <<>>
    BY <2>2, ConcatEmptySeq DEF Queued
  <2> QED
    BY <2>1, <2>3
<1>6. CASE \/ ThreadAccept \/ ExitForget \/ ExitFree \/ UNCHANGED vars
           \/ \E f \in Fds : ExitClose(f)
           \/ \E c \in Conns : Hangup(c)
  <2>1. UNCHANGED <<sendBuff, todo, last, broken>> /\ Waiting'
    BY <1>6 DEF ThreadAccept, Accept, AddClientSocket, ExitForget, ExitFree, ExitClose, Hangup,
       vars, recvVars, historyVars
  <2> QED
    BY <2>1 DEF Queued
<1> QED
  BY <1>2, <1>3, <1>4, <1>5, <1>6 DEF Next, ThreadRecv

\* How a queue of replies changes: it stays paired, and its first element is
\* the one it was, the second before, or a header.
LEMMA PairedKept ==
  ASSUME NEW q \in Seq(Entries), Paired(q)
  PROVE  /\ q # <<>> => /\ Paired(Tail(q))
                        /\ Tail(q) # <<>> => 2 \in 1..Len(q) /\ Tail(q)[1] = q[2]
                        /\ \A k \in 1..Len(Tail(q)) : \E j \in 1..Len(q) : Tail(q)[k] = q[j]
         /\ \A e \in Entries : e.part = "header" =>
              /\ Paired(q \o <<e, Twin(e)>>)
              /\ q \o <<e, Twin(e)>> # <<>>
              /\ (q \o <<e, Twin(e)>>)[1] = IF q = <<>> THEN e ELSE q[1]
              /\ \A k \in 1..Len(q \o <<e, Twin(e)>>) :
                   \/ (q \o <<e, Twin(e)>>)[k] \in {e, Twin(e)}
                   \/ \E j \in 1..Len(q) : (q \o <<e, Twin(e)>>)[k] = q[j]
<1>0. Len(q) \in Nat /\ (q = <<>> <=> Len(q) = 0) /\ \A k \in 1..Len(q) : q[k] \in Entries
  BY LenProperties, EmptySeq, ElementOfSeq
<1>1. ASSUME q # <<>>
      PROVE  /\ Paired(Tail(q))
             /\ Tail(q) # <<>> => 2 \in 1..Len(q) /\ Tail(q)[1] = q[2]
             /\ \A k \in 1..Len(Tail(q)) : \E j \in 1..Len(q) : Tail(q)[k] = q[j]
  <2>1. /\ Tail(q) \in Seq(Entries) /\ Len(Tail(q)) = Len(q) - 1
        /\ \A k \in 1..Len(Tail(q)) : Tail(q)[k] = q[k + 1]
    BY <1>1, HeadTailProperties
  <2>2. Tail(q) # <<>> => 2 \in 1..Len(q) /\ Tail(q)[1] = q[2]
    BY <1>0, <2>1, EmptySeq
  <2>3. \A k \in 1..Len(Tail(q)) : k + 1 \in 1..Len(q) /\ Tail(q)[k] = q[k + 1]
    BY <1>0, <2>1
  <2>4. Paired(Tail(q))
    BY <1>0, <2>1, <2>3 DEF Paired
  <2> QED
    BY <2>2, <2>3, <2>4
<1>2. ASSUME NEW e \in Entries, e.part = "header"
      PROVE  /\ Paired(q \o <<e, Twin(e)>>)
             /\ q \o <<e, Twin(e)>> # <<>>
             /\ (q \o <<e, Twin(e)>>)[1] = IF q = <<>> THEN e ELSE q[1]
             /\ \A k \in 1..Len(q \o <<e, Twin(e)>>) :
                  \/ (q \o <<e, Twin(e)>>)[k] \in {e, Twin(e)}
                  \/ \E j \in 1..Len(q) : (q \o <<e, Twin(e)>>)[k] = q[j]
  <2> DEFINE r == <<e, Twin(e)>>
             p == q \o r
  <2>1. r \in Seq(Entries) /\ Len(r) = 2 /\ r[1] = e /\ r[2] = Twin(e) /\ Twin(e).part = "data"
    BY TwinFields
  <2> HIDE DEF r
  <2>2. /\ p \in Seq(Entries) /\ Len(p) = Len(q) + 2
        /\ \A k \in 1..(Len(q) + 2) : p[k] = IF k <= Len(q) THEN q[k] ELSE r[k - Len(q)]
    <3>1. /\ q \o r \in Seq(Entries) /\ Len(q \o r) = Len(q) + Len(r)
          /\ \A k \in 1..(Len(q) + Len(r)) :
               (q \o r)[k] = IF k <= Len(q) THEN q[k] ELSE r[k - Len(q)]
      BY <2>1, ConcatProperties
    <3> QED
      BY <2>1, <3>1
  <2> HIDE DEF p
  <2>3. /\ \A k \in 1..Len(q) : k \in 1..Len(p) /\ p[k] = q[k]
        /\ p[Len(q) + 1] = e /\ p[Len(q) + 2] = Twin(e)
        /\ \A k \in 1..Len(p) : k \in 1..Len(q) \/ k = Len(q) + 1 \/ k = Len(q) + 2
    BY <1>0, <2>1, <2>2
  <2>4. Paired(p)
    <3> SUFFICES ASSUME NEW k \in 1..Len(p)
                 PROVE  IF p[k].part = "header" THEN k < Len(p) /\ p[k + 1] = Twin(p[k])
                                                ELSE k > 1 => p[k - 1].part = "header"
      BY DEF Paired
    <3>1. CASE k \in 1..Len(q)
      <4>1. p[k] = q[k] /\ k < Len(p)
        BY <1>0, <2>2, <2>3, <3>1
      <4>2. CASE q[k].part = "header"
        BY <1>0, <2>3, <3>1, <4>1, <4>2 DEF Paired
      <4>3. CASE q[k].part # "header"
        BY <1>0, <2>3, <3>1, <4>1, <4>3 DEF Paired
      <4> QED
        BY <4>2, <4>3
    <3>2. CASE k = Len(q) + 1
      BY <1>0, <1>2, <2>2, <2>3, <3>2
    <3>3. CASE k = Len(q) + 2
      BY <1>0, <1>2, <2>1, <2>2, <2>3, <3>3
    <3> QED
      BY <2>3, <3>1, <3>2, <3>3
  <2>5. p # <<>> /\ p[1] = IF q = <<>> THEN e ELSE q[1]
    BY <1>0, <2>2, <2>3, EmptySeq
  <2>6. \A k \in 1..Len(p) : p[k] \in {e, Twin(e)} \/ \E j \in 1..Len(q) : p[k] = q[j]
    BY <2>3
  <2> QED
    BY <2>4, <2>5, <2>6 DEF p, r
<1> QED
  BY <1>1, <1>2

\* Every step keeps the shape of the queue, and that its entries are for
\* clients that have come; a client that has not has received nothing.
LEMMA PairedStep ==
  ASSUME Framed, [Next]_vars
  PROVE  Waiting' /\ Paired(Queued') /\ Known' /\ Fresh'
<1> USE DEF Framed, Framing
<1>0. /\ Queued \in Seq(Entries) /\ broken \subseteq Conns
      /\ peer \in [Conns -> {"new", "open", "fin"}]
      /\ last \in [Conns -> Entries \cup {Nothing}]
  BY FramedTypes
<1>1. \A c \in Conns : peer[c] # "new" => peer'[c] # "new"
  BY TableSteps
<1>2. ASSUME \A k \in 1..Len(Queued') :
               Queued'[k].to \in Conns => peer[Queued'[k].to] # "new"
      PROVE  Known'
  BY <1>1, <1>2 DEF Known
<1>3. ASSUME Queued' = Queued PROVE Paired(Queued') /\ Known'
  BY <1>2, <1>3 DEF Known
<1>4. ASSUME NEW e \in Entries, Queued' = Queued \o <<e, Twin(e)>>, e.part = "header",
             e.to \in Conns => peer[e.to] # "new"
      PROVE  Paired(Queued') /\ Known'
  <2>1. Paired(Queued')
    BY <1>0, <1>4, PairedKept
  <2>2. \A k \in 1..Len(Queued') :
          Queued'[k] \in {e, Twin(e)} \/ \E j \in 1..Len(Queued) : Queued'[k] = Queued[j]
    BY <1>0, <1>4, PairedKept
  <2>3. Twin(e).to = e.to
    BY TwinFields
  <2> QED
    BY <1>2, <1>4, <2>1, <2>2, <2>3 DEF Known
<1>5. ASSUME Queued # <<>>, Queued' = Tail(Queued) PROVE Paired(Queued') /\ Known'
  <2>1. Paired(Queued')
    BY <1>0, <1>5, PairedKept
  <2>2. \A k \in 1..Len(Queued') : \E j \in 1..Len(Queued) : Queued'[k] = Queued[j]
    BY <1>0, <1>5, PairedKept
  <2> QED
    BY <1>2, <2>1, <2>2 DEF Known
<1>6. ASSUME Queued' = <<>> PROVE Paired(Queued') /\ Known'
  BY <1>6 DEF Known, Paired
<1>7. Fresh'
  <2> SUFFICES ASSUME NEW c \in Conns, peer'[c] = "new" PROVE last'[c] = Nothing
    BY DEF Fresh
  <2>1. peer[c] = "new" /\ last[c] = Nothing
    BY <1>1 DEF Fresh
  <2>2. CASE UNCHANGED last
    BY <2>1, <2>2
  <2>3. CASE ThreadSend
    BY <1>0, <2>1, <2>3 DEF ThreadSend, SendAll, SendShort, SendFails
  <2> QED
    BY <2>2, <2>3, QueuedStep
<1>8. Waiting'
  BY QueuedStep
<1> QED
  BY <1>3, <1>4, <1>5, <1>6, <1>7, <1>8, QueuedStep

\* While nothing is sent, a connection has what it had, or has just come.
LEMMA QuietStep ==
  ASSUME Framed, [Next]_vars, UNCHANGED <<last, broken>>,
         \/ Queued' = Queued
         \/ \E e \in Entries :
              /\ Queued' = Queued \o <<e, Twin(e)>> /\ e.part = "header"
              /\ e.to \in Conns => peer[e.to] # "new"
         \/ \A c \in Conns : peer'[c] # "open"
  PROVE  Placed' /\ Expecting' /\ Following'
<1> USE DEF Framed, Framing
<1>0. Queued \in Seq(Entries)
  BY FramedTypes
<1>1. ASSUME NEW c \in Conns, last[c].part = "header"
      PROVE  peer[c] # "new" /\ last[c] \in Entries /\ last[c].sock \in Fds
  <2>1. last[c] \in Entries
    BY <1>1, HeaderIsEntry
  <2> QED
    BY <1>1, <2>1 DEF Fresh, Nothing, Entries
<1>2. Placed'
  BY <1>1, TableSteps DEF Placed
<1>3. ASSUME NEW c \in Conns, NEW s \in Fds, peer[c] # "new",
             c \notin broken', peer'[c] = "open", owner'[s] = c
      PROVE  Live(c, s)
  BY <1>3, TableSteps DEF Live
<1>4. ASSUME NEW c \in Conns, peer'[c] = "open"
      PROVE  /\ Queued # <<>> => Queued' # <<>> /\ Queued'[1] = Queued[1]
             /\ Queued = <<>> /\ Queued' # <<>> => Queued'[1].part = "header"
  <2>1. ASSUME NEW e \in Entries, Queued' = Queued \o <<e, Twin(e)>>, e.part = "header"
        PROVE  Queued' # <<>> /\ Queued'[1] = IF Queued = <<>> THEN e ELSE Queued[1]
    BY <1>0, <2>1, PairedKept
  <2> QED
    BY <1>4, <2>1
<1>5. Expecting'
  <2> SUFFICES ASSUME NEW c \in Conns, last'[c].part = "header",
                      c \notin broken', peer'[c] = "open", owner'[last'[c].sock] = c
               PROVE  Queued' # <<>> /\ Queued'[1] = Twin(last'[c])
    BY DEF Expecting, Live, Twin
  <2>1. last'[c] = last[c] /\ peer[c] # "new" /\ last[c].sock \in Fds
    BY <1>1
  <2>2. Live(c, last[c].sock)
    BY <1>3, <2>1
  <2> QED
    BY <1>4, <2>1, <2>2 DEF Expecting
<1>6. Following'
  <2> SUFFICES ASSUME NEW c \in Conns, Queued' # <<>>, Queued'[1].part = "data",
                      Queued'[1].to = c,
                      c \notin broken', peer'[c] = "open", owner'[Queued'[1].sock] = c
               PROVE  last'[c].part = "header"
    BY DEF Following, Live
  <2>2. Queued # <<>>
    BY <1>4
  <2>3. Queued'[1] = Queued[1] /\ 1 \in 1..Len(Queued) /\ Queued[1] \in Entries
    BY <1>0, <1>4, <2>2, EmptySeq, ElementOfSeq
  <2>4. peer[c] # "new" /\ Queued[1].sock \in Fds
    BY <2>3 DEF Known, Entries
  <2>5. Live(c, Queued[1].sock)
    BY <1>3, <2>3, <2>4
  <2> QED
    BY <2>2, <2>3, <2>5 DEF Following
<1> QED
  BY <1>2, <1>5, <1>6

\* What ThreadSend sends, loses or fails to send leaves the others as they
\* were, and the receiver with the data of its header next.
LEMMA SendStep ==
  ASSUME Framed, ThreadSend, UNCHANGED <<owner, peer>>, Queued # <<>>,
         Queued' = Tail(Queued), Entry = Queued[1]
  PROVE  Placed' /\ Expecting' /\ Following'
<1> USE DEF Framed, Framing
<1>0. /\ Queued \in Seq(Entries) /\ last \in [Conns -> Entries \cup {Nothing}]
      /\ broken \subseteq Conns
  BY FramedTypes
<1>1. /\ 1 \in 1..Len(Queued) /\ Entry \in Entries
      /\ Queued' # <<>> => 2 \in 1..Len(Queued) /\ Queued'[1] = Queued[2]
  BY <1>0, EmptySeq, ElementOfSeq, PairedKept
<1>2. Queued' # <<>> /\ Queued'[1].part = "data" =>
        Entry.part = "header" /\ Queued'[1] = Twin(Entry)
  BY <1>1 DEF Paired
<1>3. Entry.part = "header" => Queued' # <<>> /\ Queued'[1] = Twin(Entry)
  <2> SUFFICES ASSUME Entry.part = "header" PROVE Queued' # <<>> /\ Queued'[1] = Twin(Entry)
    OBVIOUS
  <2>1. 1 < Len(Queued) /\ Queued[2] = Twin(Entry)
    BY <1>1 DEF Paired
  <2>2. Len(Queued') = Len(Queued) - 1
    BY <1>0, HeadTailProperties
  <2>3. Queued' # <<>>
    <3>1. Len(Queued) \in Nat /\ Len(Queued') # 0
      BY <1>0, <2>1, <2>2, LenProperties
    <3> QED
      BY <3>1
  <2> QED
    BY <1>1, <2>1, <2>3
<1>4. /\ Twin(Entry).to = Entry.to /\ Twin(Entry).sock = Entry.sock
      /\ Twin(Entry).part = "data"
  BY <1>1, TwinFields
<1>5. ASSUME NEW c \in Conns, c \notin broken'
      PROVE  /\ c \notin broken
             /\ \/ last'[c] = last[c]
                \/ last'[c] = Entry /\ Receiver = c /\ owner[Entry.sock] = c
             /\ owner[Entry.sock] = c /\ peer[c] = "open" => last'[c] = Entry
  BY <1>0, <1>5 DEF ThreadSend, SendAll, SendShort, SendFails, Receiver
<1>6. Placed'
  <2> SUFFICES ASSUME NEW c \in Conns, last'[c].part = "header", c \notin broken',
                      Table!Open(c)'
               PROVE  owner'[last'[c].sock] = c
    BY DEF Placed
  <2>1. Table!Open(c)
    BY DEF Table!Open
  <2> QED
    BY <1>5, <2>1 DEF Placed
<1>7. Expecting'
  <2> SUFFICES ASSUME NEW c \in Conns, last'[c].part = "header",
                      c \notin broken', peer'[c] = "open", owner'[last'[c].sock] = c
               PROVE  Queued' # <<>> /\ Queued'[1] = Twin(last'[c])
    BY DEF Expecting, Live, Twin
  <2>1. CASE last'[c] = Entry
    BY <1>3, <2>1
  <2>2. CASE last'[c] # Entry
    <3>1. last'[c] = last[c] /\ Live(c, last[c].sock)
      BY <1>5, <2>2 DEF Live
    <3>2. Entry = Twin(last[c]) /\ last[c] \in Entries
      BY <3>1, HeaderIsEntry DEF Expecting
    <3>3. owner[Entry.sock] = c
      BY <3>1, <3>2, TwinFields
    <3> QED
      BY <1>5, <2>2, <3>3
  <2> QED
    BY <2>1, <2>2
<1>8. Following'
  <2> SUFFICES ASSUME NEW c \in Conns, Queued' # <<>>, Queued'[1].part = "data",
                      Queued'[1].to = c,
                      c \notin broken', peer'[c] = "open", owner'[Queued'[1].sock] = c
               PROVE  last'[c].part = "header"
    BY DEF Following, Live
  <2> QED
    BY <1>2, <1>4, <1>5
<1> QED
  BY <1>6, <1>7, <1>8

\* Every step keeps the invariant on framing.
LEMMA FramingStep == ASSUME Framed, [Next]_vars PROVE Framing'
<1>1. Waiting' /\ Paired(Queued') /\ Known' /\ Fresh'
  BY PairedStep
<1>2. Placed' /\ Expecting' /\ Following'
  <2>1. Descriptors /\ Waiting
    BY DEF Framed, Framing
  <2> QED
    BY <2>1, QueuedStep, QuietStep, SendStep
<1>3. Paired(Queued)'
  BY <1>1 DEF Paired, Twin
<1> QED
  BY <1>1, <1>2, <1>3 DEF Framing

\* A send to a client that has missed nothing alternates.
LEMMA FramedUnlessBrokenStep ==
  ASSUME Framed, [Next]_vars
  PROVE  SendAll /\ Receiver \notin broken' =>
           IF last[Receiver].part = "header"
           THEN Entry = [last[Receiver] EXCEPT !.part = "data"]
           ELSE Entry.part = "header"
<1> USE DEF Framed, Framing
<1> SUFFICES ASSUME SendAll, Receiver \notin broken'
             PROVE  IF last[Receiver].part = "header" THEN Entry = Twin(last[Receiver])
                                                      ELSE Entry.part = "header"
  BY DEF Twin
<1>0. /\ sendBuff \in Seq(Entries) /\ todo \in Seq(Entries) /\ Queued \in Seq(Entries)
      /\ sendBuff # <<>>
  BY FramedTypes DEF SendAll, Dequeue
<1>1. Queued # <<>> /\ Entry = Queued[1] /\ Entry \in Entries
  BY <1>0, ConcatMoves, HeadTailProperties DEF Queued, Entry
<1>2. /\ Receiver \in Conns /\ Entry.to = Receiver /\ Receiver \notin broken
      /\ owner[Entry.sock] = Receiver /\ peer[Receiver] = "open"
  BY DEF SendAll, Receiver
<1>3. Entry.sock \in Fds
  BY <1>1 DEF Entries
<1>4. CASE last[Receiver].part = "header"
  <2>1. owner[last[Receiver].sock] = Receiver
    BY <1>2, <1>3, <1>4 DEF Placed, Table!Open
  <2> QED
    BY <1>1, <1>2, <1>4, <2>1 DEF Expecting, Live
<1>5. CASE last[Receiver].part # "header"
  <2>1. Entry.part \in {"header", "data"}
    BY <1>1 DEF Entries
  <2> QED
    BY <1>1, <1>2, <1>5, <2>1 DEF Following, Live
<1> QED
  BY <1>4, <1>5

\* The invariant on framing holds in every reachable state.
THEOREM FramedInvariant == Spec => []Framed
<1>1. Init => Framing
  <2> SUFFICES ASSUME Init PROVE Framing
    OBVIOUS
  <2>1. Queued = <<>>
    BY ConcatEmptySeq, EmptySeq DEF Init, Queued
  <2>2. \A c \in Conns : last[c] = Nothing
    BY DEF Init
  <2> QED
    BY <2>1, <2>2 DEF Init, Framing, Waiting, Paired, Known, Fresh, Placed, Expecting,
       Following, Nothing
<1>2. Framed /\ [Next]_vars => Framing'
  BY FramingStep
<1> QED
  BY <1>1, <1>2, DescriptorsInvariant, PTL DEF Spec, Framed

\* A client receives headers and their data in turn, unless an entry for it
\* was lost or it received another client's: with failing statements, reuse
\* of descriptors and restarts.
THEOREM FramedUnlessBrokenHolds == Spec => FramedUnlessBroken
<1>1. Framed /\ [Next]_vars =>
        (SendAll /\ Receiver \notin broken' =>
           IF last[Receiver].part = "header"
           THEN Entry = [last[Receiver] EXCEPT !.part = "data"]
           ELSE Entry.part = "header")
  BY FramedUnlessBrokenStep
<1> QED
  BY <1>1, FramedInvariant, PTL DEF Spec, FramedUnlessBroken
=============================================================================
