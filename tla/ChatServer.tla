---------------------------- MODULE ChatServer -----------------------------
(***************************************************************************)
(* The chat server as a whole: the table of clients (ConnTable), the data  *)
(* base of users that are online (OnlineUsers), the request handlers of    *)
(* server/NetWork.cpp and the queue of outgoing packets they share with    *)
(* ThreadSend.  Everything inside the server knows a client by the number  *)
(* of its descriptor; the questions asked here are whether that number     *)
(* still means the same client when it is used.                            *)
(*                                                                         *)
(* A request is taken from the client when ThreadRecv reads it: nothing    *)
(* looks at it before.  ThreadRecv polls the slots in turn; here it may    *)
(* turn to any of them.  A reply is two entries of the queue, its header   *)
(* and its data, as SaveSendBuff is called for each.                       *)
(***************************************************************************)
EXTENDS Integers, Sequences

CONSTANTS
  Conns, Fds, NoConn, SlotsReturn,  \* as in ConnTable
  Users, ErrorId, DbMayFail,        \* as in OnlineUsers
  MaxRequests,  \* bound on the requests clients send, all together
  MayTalk,      \* whether clients send anything but logins
  MaxRestarts   \* bound on the times the server stops and is started again

ASSUME DescriptorsAssumption ==
  NoConn \notin Conns /\ Fds \subseteq Nat \ {0} /\ SlotsReturn \in BOOLEAN

ASSUME UsersAssumption ==
  /\ Users \subseteq Nat \ {0} /\ ErrorId \in Nat \ (Users \cup {0})
  /\ DbMayFail \in BOOLEAN

ASSUME BoundsAssumption ==
  /\ MaxRequests \in Nat /\ MayTalk \in BOOLEAN /\ MaxRestarts \in Nat

VARIABLES
  owner, watched, adding, leaving,   \* ConnTable
  rows,        \* OnlineUsers
  sendBuff,    \* m_vecSendBuff: records [sock, part, code, dst, result, to]
  rpc, todo,   \* ThreadRecv: where it is, the entries it has still to queue
  peer,        \* a client's end: "new", "open" or "fin"
  credit,      \* requests the clients may still send
  restarts,    \* times the server was started again
  (* History, read by properties only. *)
  last,        \* the last entry each client has received
  who,         \* the id each connection was told it is logged in as, or 0
  broken       \* connections that missed an entry or got one of another

tableVars == <<owner, watched, adding, leaving>>
recvVars == <<rpc, todo>>
clientVars == <<peer, credit>>
historyVars == <<last, who, broken>>
vars == <<tableVars, rows, sendBuff, recvVars, clientVars, restarts, historyVars>>

Table == INSTANCE ConnTable
DB == INSTANCE OnlineUsers

\* Mistake: a reply is queued with its data before its header.
Reply_DataFirst(sock, code, dst, result) ==
  LET entry(part) == [sock |-> sock, part |-> part, code |-> code, dst |-> dst,
                      result |-> result, to |-> owner[sock]]
  IN <<entry("data"), entry("header")>>

\* The two entries of a reply.  "to" is the connection that the descriptor
\* stands for when the reply is made; the server does not know it.
Reply(sock, code, dst, result) ==
  LET entry(part) == [sock |-> sock, part |-> part, code |-> code, dst |-> dst,
                      result |-> result, to |-> owner[sock]]
  IN <<entry("header"), entry("data")>>

Nothing == [part |-> "data"]

Init ==
  /\ Table!Init /\ DB!Init
  /\ sendBuff = <<>>
  /\ rpc = "poll" /\ todo = <<>>
  /\ peer = [c \in Conns |-> "new"]
  /\ credit = MaxRequests
  /\ restarts = 0
  /\ last = [c \in Conns |-> Nothing]
  /\ who = [c \in Conns |-> 0]
  /\ broken = {}

(***************************************************************************)
(* ThreadAccept and the clients' ends of the connections.                  *)
(***************************************************************************)
Accept(c) ==
  /\ peer[c] = "new"
  /\ Table!Accept(c)
  /\ peer' = [peer EXCEPT ![c] = "open"]
  /\ UNCHANGED <<rows, sendBuff, recvVars, credit, restarts, historyVars>>

AddClientSocket ==
  /\ Table!Add \/ Table!Refuse
  /\ UNCHANGED <<rows, sendBuff, recvVars, clientVars, restarts, historyVars>>

Hangup(c) ==
  /\ peer[c] = "open"
  /\ peer' = [peer EXCEPT ![c] = "fin"]
  /\ UNCHANGED <<tableVars, rows, sendBuff, recvVars, credit, restarts, historyVars>>

(***************************************************************************)
(* ThreadRecv: one request of the client whose slot it polls.              *)
(***************************************************************************)
\* A request of the connection of descriptor f is read.
Read(f) ==
  /\ rpc = "poll"
  /\ f \in watched
  /\ owner[f] \in Conns
  /\ credit > 0
  /\ credit' = credit - 1
  /\ UNCHANGED <<tableVars, sendBuff, peer, restarts, last, broken>>

\* The handler has made this reply and goes on to queue it.
Queue(reply) == todo' = reply /\ rpc' = IF reply = <<>> THEN "poll" ELSE "queue"

\* Keep_Alive_Req_Function answers to the source id of the request, the
\* address of a machine and no id of a user: 0 here.
KeepAlive(f) ==
  /\ MayTalk
  /\ Read(f)
  /\ Queue(Reply(f, "KEEP_ALIVE_RSP", 0, 0))
  /\ UNCHANGED <<rows, who>>

\* user is 0 when no row of users has the name and password.
LoginReq(f, user) ==
  /\ Read(f)
  /\ \E dst \in DB!Ids \cup {0}, result \in 0..3 :
       /\ DB!Login(f, user, dst, result)
       /\ Queue(Reply(f, "LOGIN_RSP", dst, result))
       /\ who' = IF result = 0 THEN [who EXCEPT ![owner[f]] = dst] ELSE who

GetUserList(f) ==
  /\ MayTalk
  /\ Read(f)
  /\ \E u \in DB!ListReceivers(f) :
       Queue(IF u = 0 THEN <<>> ELSE Reply(f, "GET_USER_LIST_RSP", u, 0))
  /\ UNCHANGED <<rows, who>>

\* The message goes to the socket of the row of the user it names.
TalkWithUser(f, user) ==
  /\ MayTalk
  /\ Read(f)
  /\ \E receiver \in DB!TalkReceivers(f, user) :
       Queue(IF 0 \in {receiver[1], receiver[2]} THEN <<>>
             ELSE Reply(receiver[2], "TALK_WITH_USER_RSP", receiver[1], 0))
  /\ UNCHANGED <<rows, who>>

SaveSendBuff ==
  /\ rpc = "queue"
  /\ sendBuff' = Append(sendBuff, Head(todo))
  /\ Queue(Tail(todo))
  /\ UNCHANGED <<tableVars, rows, clientVars, restarts, historyVars>>

(***************************************************************************)
(* ThreadRecv: ClientExit, because the client has gone or has timed out.   *)
(***************************************************************************)
ExitClose(f) ==
  /\ rpc = "poll"
  /\ Table!Close(f)
  /\ rpc' = "forget"
  /\ UNCHANGED <<rows, sendBuff, todo, clientVars, restarts, historyVars>>

\* Mistake: the slot is zeroed before the row of its socket is deleted.
ExitForget_SlotZeroed ==
  /\ rpc = "forget"
  /\ DB!DeleteOnlineUser(0)
  /\ rpc' = "free"
  /\ UNCHANGED <<tableVars, sendBuff, todo, clientVars, restarts, historyVars>>

ExitForget ==
  /\ rpc = "forget"
  /\ DB!DeleteOnlineUser(leaving)
  /\ rpc' = "free"
  /\ UNCHANGED <<tableVars, sendBuff, todo, clientVars, restarts, historyVars>>

\* Mistake: ThreadRecv returns where it should go on with the next slot.
ExitFree_Returns ==
  /\ rpc = "free"
  /\ Table!Free
  /\ rpc' = "done"
  /\ UNCHANGED <<rows, sendBuff, todo, clientVars, restarts, historyVars>>

ExitFree ==
  /\ rpc = "free"
  /\ Table!Free
  /\ rpc' = "poll"
  /\ UNCHANGED <<rows, sendBuff, todo, clientVars, restarts, historyVars>>

(***************************************************************************)
(* ThreadSend: Net_Send of the first entry, which is then removed whatever *)
(* came of it.                                                             *)
(***************************************************************************)
Entry == Head(sendBuff)

\* Mistake: the socket is that of the last entry.
Receiver_OfLast == owner[sendBuff[Len(sendBuff)].sock]

Receiver == owner[Entry.sock]

\* Mistake: an entry is sent and never removed.
Dequeue_Kept ==
  /\ sendBuff # <<>>
  /\ UNCHANGED <<sendBuff, tableVars, rows, recvVars, clientVars, restarts, who>>

\* The first entry leaves the queue; nothing else happens in the server.
Dequeue ==
  /\ sendBuff # <<>>
  /\ sendBuff' = Tail(sendBuff)
  /\ UNCHANGED <<tableVars, rows, recvVars, clientVars, restarts, who>>

SendAll ==
  /\ Dequeue
  /\ Receiver \in Conns /\ peer[Receiver] = "open"
  /\ last' = [last EXCEPT ![Receiver] = Entry]
  /\ broken' = IF Entry.to = Receiver THEN broken ELSE broken \cup {Receiver}

\* select says the socket is not writable, or send takes a part of the data:
\* neither is tried again.
SendShort ==
  /\ Dequeue
  /\ Receiver \in Conns /\ peer[Receiver] = "open"
  /\ broken' = broken \cup {Receiver}
  /\ UNCHANGED last

\* The descriptor is closed, or the client has gone: nothing is received.
SendFails ==
  /\ Dequeue
  /\ Receiver \in Conns => peer[Receiver] = "fin"
  /\ UNCHANGED <<last, broken>>

(***************************************************************************)
(* The server stops, by 'q' or by the SIGPIPE of a send to a client that   *)
(* has gone, and is started again; the data base keeps its rows.           *)
(***************************************************************************)
Restart ==
  /\ restarts < MaxRestarts
  /\ restarts' = restarts + 1
  /\ owner' = [f \in Fds |-> NoConn]
  /\ watched' = {} /\ adding' = 0 /\ leaving' = 0
  /\ sendBuff' = <<>>
  /\ rpc' = "poll" /\ todo' = <<>>
  /\ peer' = [c \in Conns |-> IF peer[c] = "new" THEN "new" ELSE "fin"]
  /\ UNCHANGED <<rows, credit, historyVars>>

ThreadAccept == AddClientSocket \/ \E c \in Conns : Accept(c)

Serve(f) ==
  \/ KeepAlive(f) \/ GetUserList(f)
  \/ \E u \in Users \cup {0} : LoginReq(f, u) \/ TalkWithUser(f, u)

ThreadRecv ==
  \/ SaveSendBuff \/ ExitForget \/ ExitFree
  \/ \E f \in Fds : Serve(f) \/ ExitClose(f)

ThreadSend == SendAll \/ SendShort \/ SendFails

Next ==
  \/ ThreadAccept \/ ThreadRecv \/ ThreadSend \/ Restart
  \/ \E c \in Conns : Hangup(c)

Spec == Init /\ [][Next]_vars

(***************************************************************************)
(* The threads run, the loop of ThreadRecv comes to every slot and finds   *)
(* there that a client has gone; a SendAll is never due rather than a      *)
(* SendShort.  Nothing makes a client act.                                 *)
(***************************************************************************)
Gone(f) == owner[f] \notin {c \in Conns : peer[c] = "open"}

Fairness ==
  /\ WF_vars(AddClientSocket)
  /\ WF_vars(SaveSendBuff \/ ExitForget \/ ExitFree)
  /\ \A f \in Fds : WF_vars(Gone(f) /\ ExitClose(f))
  /\ WF_vars(ThreadSend)

LiveSpec == Spec /\ Fairness

(***************************************************************************)
(* Properties.                                                             *)
(***************************************************************************)
Codes == {"KEEP_ALIVE_RSP", "LOGIN_RSP", "GET_USER_LIST_RSP", "TALK_WITH_USER_RSP"}
Entries ==
  [sock : Fds, part : {"header", "data"}, code : Codes, dst : DB!Ids \cup {0},
   result : 0..3, to : Conns \cup {NoConn}]

\* The type of the state.
TypeOK ==
  /\ owner \in [Fds -> Conns \cup {NoConn}]
  /\ watched \subseteq Fds /\ adding \in Fds \cup {0} /\ leaving \in Fds \cup {0}
  /\ rows \subseteq [user : DB!Ids, sock : Fds]
  /\ sendBuff \in Seq(Entries) /\ todo \in Seq(Entries)
  /\ rpc \in {"poll", "queue", "forget", "free"}
  /\ peer \in [Conns -> {"new", "open", "fin"}] /\ credit \in 0..MaxRequests
  /\ restarts \in 0..MaxRestarts
  /\ last \in [Conns -> Entries \cup {Nothing}] /\ who \in [Conns -> DB!Ids \cup {0}]
  /\ broken \subseteq Conns

Session(c, u) == Table!Open(c) /\ who[c] = u

\* A row of online_users names the socket of the connection that logged in
\* as its user, although the number is free for another connection as soon
\* as ClientExit has closed it and the row is deleted only after that.
SessionIdentity ==
  \A r \in rows :
    \/ owner[r.sock] \in Conns /\ who[owner[r.sock]] = r.user
    \/ rpc = "forget" /\ leaving = r.sock

\* A connection that was told it is logged in is in online_users as that
\* user until it is closed, whatever statement fails and whoever had its
\* descriptor before.
SessionIsListed ==
  \A c \in Conns : Table!Open(c) /\ who[c] # 0 =>
    \E r \in rows : r.user = who[c] /\ owner[r.sock] = c

\* A user is online at most once, and at most one user per socket.
OneSession ==
  \A r, q \in rows : r.user = q.user \/ r.sock = q.sock => r = q

\* The LOGIN_RSP tells the truth: 0 when the user has no other session, 2
\* when it has one, 3 when this connection has.
LoginAnswersTrue ==
  [][rpc = "poll" /\ rpc' = "queue" /\ todo'[1].code = "LOGIN_RSP" =>
       LET rsp == todo'[1] IN
       /\ rsp.result = 0 => rsp.dst \in Users /\ \A c \in Conns : ~Session(c, rsp.dst)
       /\ rsp.result = 2 => \E c \in Conns : Session(c, rsp.dst)
       /\ rsp.result = 3 => who[rsp.to] # 0]_vars

\* What a client receives is what was meant for it, except that a reply to a
\* client that has gone may reach the next client with the same descriptor.
MisdeliveredOnlyAfterReuse ==
  \A c \in Conns : last[c] = Nothing \/ last[c].to = c \/ ~Table!Open(last[c].to)

\* A message or a list that reaches the connection it was queued for reaches
\* the user it was sent to.
DestinationIsUser ==
  \A c \in Conns :
    last[c] # Nothing /\ last[c].to = c
      /\ last[c].code \in {"GET_USER_LIST_RSP", "TALK_WITH_USER_RSP"}
      => last[c].dst = who[c]

\* A client receives headers and their data in turn, unless an entry for it
\* was lost or it received another client's.
FramedUnlessBroken ==
  [][SendAll /\ Receiver \notin broken' =>
       IF last[Receiver].part = "header"
       THEN Entry = [last[Receiver] EXCEPT !.part = "data"]
       ELSE Entry.part = "header"]_vars

\* protocol.h of ucResult, "0 - success; 1 - username or password error":
\* nobody logs in without the name and the password of a user.
SuccessMeansUser == \A c \in Conns : who[c] \in Users \cup {0}

\* protocol.h of ucResult, "2 - user has login".
HasLoginMeansSession ==
  [][rpc = "poll" /\ rpc' = "queue" /\ todo'[1].code = "LOGIN_RSP" /\ todo'[1].result = 2 =>
       \E c \in Conns : Session(c, todo'[1].dst)]_vars

\* A user whose client has gone does not stay online.
SessionsEnd ==
  \A c \in Conns :
    Table!Open(c) /\ peer[c] = "fin" /\ who[c] # 0
      ~> \A r \in rows : r.user = who[c] => owner[r.sock] \in Conns \ {c}

\* What is queued is sent or given up.
QueueDrains == sendBuff # <<>> ~> sendBuff = <<>>
=============================================================================
