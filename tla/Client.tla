------------------------------ MODULE Client -------------------------------
(***************************************************************************)
(* The console client (clientsocket/): main with its menu, threadRecv and  *)
(* threadSendHeart, and what they share: the socket, g_bExit, g_usAliveSeq *)
(* and g_szUserName.  The server appears as the one connection it has with *)
(* this client: what it reads from it, what it answers, and the timer it   *)
(* closes it by.                                                           *)
(*                                                                         *)
(* A packet is one element of a queue, except that Keep_Alive_Req_Function *)
(* sends header and data apart.  What FrameReader shows of packets in      *)
(* pieces is here a reply that is cut, after which threadRecv may end.     *)
(***************************************************************************)
EXTENDS Integers, Sequences

CONSTANTS
  Users,        \* the users, by their names
  Every,        \* seconds after which a keep-alive is due (3)
  MaxSleep,     \* ticks of the clock that Sleep(1000) lasts at most
  Delay,        \* ticks from a send to the server's reading of it, at most
  Timeout,      \* WU_KEEP_ALIVE_TIMEOUT (10)
  SeqMax,       \* the 10000 that g_usAliveSeq is compared with
  Word,         \* one more than the largest unsigned short (65536)
  Window,       \* replies that the buffer of the server's socket holds
  MaxRequests   \* bound on the choices from the menu

ASSUME TimingAssumption ==
  /\ Every \in Nat /\ MaxSleep \in Nat \ {0} /\ Delay \in Nat /\ Timeout \in Nat
  /\ Every + MaxSleep + Delay <= Timeout

ASSUME ClientAssumption ==
  /\ Users \subseteq Nat \ {0}
  /\ SeqMax \in Nat /\ Word \in Nat /\ SeqMax + 1 < Word
  /\ Window \in Nat /\ MaxRequests \in Nat

VARIABLES
  pc,         \* where each thread is
  exit,       \* g_bExit
  sock,       \* the client's socket: "open" or "closed"
  aliveSeq,   \* g_usAliveSeq
  reg,        \* the value of it that each thread is about to increment
  name,       \* g_szUserName, 0 for ""
  beat,       \* llTimeNow - llLastTime of threadSendHeart
  slept,      \* ticks since it went to sleep
  requests,   \* choices that may still be made
  shown,      \* vecUserList: the users printed as online
  up,         \* sent to the server: records [kind, seq, user, wait]
  down,       \* sent to the client: records [kind, whole, json]
  link,       \* "open"; "fin": the server has closed; "poked": the client
              \* has sent something since; "rst": and was answered so
  age,        \* CurTimer - m_LastTimer of the server
  session,    \* the user of the client's row in online_users, or 0
  (* History of the connection, read by properties only. *)
  seqRead,    \* the keep-alive the server has read last, -1 before the first
  refused,    \* a login was refused
  cut         \* a reply did not reach the client whole

threadVars == <<pc, exit, sock>>
seqVars == <<aliveSeq, reg>>
clockVars == <<beat, slept, age>>
menuVars == <<name, requests>>
serverVars == <<session, seqRead, refused, cut>>
vars == <<threadVars, seqVars, clockVars, menuVars, shown, up, down, link, serverVars>>

Threads == {"main", "recv", "heart"}

Init ==
  /\ pc = [t \in Threads |-> IF t = "main" THEN "menu" ELSE "top"]
  /\ exit = FALSE /\ sock = "open"
  /\ aliveSeq = 0 /\ reg = [t \in Threads |-> 0]
  /\ name = 0 /\ requests = MaxRequests
  /\ beat = 0 /\ slept = 0 /\ age = 0
  /\ shown = {} /\ up = <<>> /\ down = <<>> /\ link = "open"
  /\ session = 0 /\ seqRead = -1 /\ refused = FALSE /\ cut = FALSE

Goto(t, label) == pc' = [pc EXCEPT ![t] = label]

\* Net_Send of the client: what comes of it is not looked at.
Net_Send(kind, seq, user) ==
  IF sock = "open" /\ link = "open"
  THEN /\ up' = Append(up, [kind |-> kind, seq |-> seq, user |-> user, wait |-> 0])
       /\ UNCHANGED link
  ELSE /\ link' = IF sock = "open" /\ link = "fin" THEN "poked" ELSE link
       /\ UNCHANGED up

(***************************************************************************)
(* The sequence number of keep-alives, of whichever thread has sent one.   *)
(***************************************************************************)
CheckSeq(t) ==
  /\ pc[t] = "check"
  /\ Goto(t, IF aliveSeq > SeqMax THEN "reset" ELSE "load")
  /\ UNCHANGED <<exit, sock, seqVars, clockVars, menuVars, shown, up, down, link, serverVars>>

ResetSeq(t) ==
  /\ pc[t] = "reset"
  /\ aliveSeq' = 0
  /\ Goto(t, "load")
  /\ UNCHANGED <<exit, sock, reg, clockVars, menuVars, shown, up, down, link, serverVars>>

LoadSeq(t) ==
  /\ pc[t] = "load"
  /\ reg' = [reg EXCEPT ![t] = aliveSeq]
  /\ Goto(t, "store")
  /\ UNCHANGED <<exit, sock, aliveSeq, clockVars, menuVars, shown, up, down, link, serverVars>>

\* Mistake: the counter is wider than the field of the packet.
StoreSeq_Wide(t) ==
  /\ pc[t] = "store"
  /\ aliveSeq' = reg[t] + 1 /\ reg' = [reg EXCEPT ![t] = 0]
  /\ Goto(t, IF t = "heart" THEN "sleep" ELSE "top")
  /\ slept' = IF t = "heart" THEN 0 ELSE slept
  /\ UNCHANGED <<exit, sock, beat, age, menuVars, shown, up, down, link, serverVars>>

\* An unsigned short.  threadRecv goes on with its loop, threadSendHeart
\* sleeps.
StoreSeq(t) ==
  /\ pc[t] = "store"
  /\ aliveSeq' = (reg[t] + 1) % Word /\ reg' = [reg EXCEPT ![t] = 0]
  /\ Goto(t, IF t = "heart" THEN "sleep" ELSE "top")
  /\ slept' = IF t = "heart" THEN 0 ELSE slept
  /\ UNCHANGED <<exit, sock, beat, age, menuVars, shown, up, down, link, serverVars>>

BumpSeq(t) == CheckSeq(t) \/ ResetSeq(t) \/ LoadSeq(t) \/ StoreSeq(t)

(***************************************************************************)
(* threadSendHeart.                                                        *)
(***************************************************************************)
\* Mistake: only a reset of the connection ends the thread.
HeartEnds_OnReset ==
  /\ pc["heart"] = "top" /\ link = "rst"
  /\ Goto("heart", "done")
  /\ UNCHANGED <<exit, sock, seqVars, clockVars, menuVars, shown, up, down, link, serverVars>>

HeartEnds ==
  /\ pc["heart"] = "top" /\ exit
  /\ Goto("heart", "done")
  /\ UNCHANGED <<exit, sock, seqVars, clockVars, menuVars, shown, up, down, link, serverVars>>

\* Keep_Alive_Req_Function_CP: one send.
HeartBeats ==
  /\ pc["heart"] = "top" /\ ~exit /\ beat > Every
  /\ Net_Send("KEEP_ALIVE_REQ", aliveSeq, 0)
  /\ beat' = 0
  /\ Goto("heart", "check")
  /\ UNCHANGED <<exit, sock, seqVars, slept, age, menuVars, shown, down, serverVars>>

HeartRests ==
  /\ pc["heart"] = "top" /\ ~exit /\ beat <= Every
  /\ Goto("heart", "sleep")
  /\ slept' = 0
  /\ UNCHANGED <<exit, sock, seqVars, beat, age, menuVars, shown, up, down, link, serverVars>>

HeartWakes ==
  /\ pc["heart"] = "sleep" /\ slept > 0
  /\ Goto("heart", "top")
  /\ UNCHANGED <<exit, sock, seqVars, clockVars, menuVars, shown, up, down, link, serverVars>>

Heart == HeartEnds \/ HeartBeats \/ HeartRests \/ HeartWakes \/ BumpSeq("heart")

(***************************************************************************)
(* threadRecv.                                                             *)
(***************************************************************************)
RecvTop ==
  /\ pc["recv"] = "top"
  /\ Goto("recv", IF exit THEN "done" ELSE "recv")
  /\ shown' = {}
  /\ UNCHANGED <<exit, sock, seqVars, clockVars, menuVars, up, down, link, serverVars>>

\* Mistake: after an error of recv the thread goes on.
RecvFails_GoesOn ==
  /\ pc["recv"] = "recv" /\ (sock = "closed" \/ link = "rst")
  /\ Goto("recv", "top")
  /\ UNCHANGED <<exit, sock, seqVars, clockVars, menuVars, shown, up, down, link, serverVars>>

\* closesocket of another thread ends a recv that waits.
RecvFails ==
  /\ pc["recv"] = "recv" /\ (sock = "closed" \/ link = "rst")
  /\ Goto("recv", "done")
  /\ UNCHANGED <<exit, sock, seqVars, clockVars, menuVars, shown, up, down, link, serverVars>>

\* Mistake: a boolean of cJSON is compared as a truth value.
GetItemBool_Truth(v) == IF v = "cJSON_True" THEN 1 ELSE 0

\* "0:true,-1:false".
GetItemBool(v) == IF v = "cJSON_True" THEN 0 ELSE -1

\* Who is online by the text of a list.
GetUserListJasonData(json) ==
  {item.UserName : item \in {q \in json : GetItemBool(q.IsOnline) = 0}}

\* The list is printed; the other *_Rsp_Functions print what they got.
GetUserList_Rsp_Function(rsp) ==
  IF rsp.whole /\ rsp.kind = "GET_USER_LIST_RSP" THEN GetUserListJasonData(rsp.json) ELSE shown

\* Mistake: a packet that arrived whole ends the thread.
RecvPacket_EndsOnList ==
  /\ pc["recv"] = "recv" /\ sock = "open" /\ link # "rst" /\ down # <<>>
  /\ Goto("recv", IF Head(down).whole /\ Head(down).json = {} THEN "top" ELSE "done")
  /\ shown' = GetUserList_Rsp_Function(Head(down))
  /\ down' = Tail(down)
  /\ UNCHANGED <<exit, sock, seqVars, clockVars, menuVars, up, link, serverVars>>

\* Mistake: an answer advances the sequence number, too.
RecvPacket_Bumps ==
  /\ pc["recv"] = "recv" /\ sock = "open" /\ link # "rst" /\ down # <<>>
  /\ Goto("recv", "check")
  /\ down' = Tail(down)
  /\ UNCHANGED <<exit, sock, seqVars, clockVars, menuVars, shown, up, link, serverVars>>

\* A reply that was cut is dropped or ends the thread.
RecvPacket ==
  /\ pc["recv"] = "recv" /\ sock = "open" /\ link # "rst" /\ down # <<>>
  /\ \E label \in {"top", "done"} :
       /\ label = "done" => ~Head(down).whole
       /\ Goto("recv", label)
  /\ shown' = GetUserList_Rsp_Function(Head(down))
  /\ down' = Tail(down)
  /\ UNCHANGED <<exit, sock, seqVars, clockVars, menuVars, up, link, serverVars>>

\* Mistake: Net_Receive returns 0 when nothing arrives in time, as that of
\* the server does.
RecvNothing_Timeout ==
  /\ pc["recv"] = "recv" /\ sock = "open" /\ link # "rst" /\ down = <<>>
  /\ Net_Send("header", 0, 0)
  /\ Goto("recv", "body")
  /\ UNCHANGED <<exit, sock, seqVars, clockVars, menuVars, shown, down, serverVars>>

\* recv returns 0: Keep_Alive_Req_Function sends its header ...
RecvNothing ==
  /\ pc["recv"] = "recv" /\ sock = "open" /\ link \in {"fin", "poked"} /\ down = <<>>
  /\ Net_Send("header", 0, 0)
  /\ Goto("recv", "body")
  /\ UNCHANGED <<exit, sock, seqVars, clockVars, menuVars, shown, down, serverVars>>

\* ... and its data.
SendBody ==
  /\ pc["recv"] = "body"
  /\ Net_Send("body", aliveSeq, 0)
  /\ Goto("recv", "check")
  /\ UNCHANGED <<exit, sock, seqVars, clockVars, menuVars, shown, down, serverVars>>

Receiver == RecvTop \/ RecvFails \/ RecvPacket \/ RecvNothing \/ SendBody \/ BumpSeq("recv")

(***************************************************************************)
(* main: the menu (operation) and stop.                                    *)
(***************************************************************************)
Choose ==
  /\ pc["main"] = "menu" /\ requests > 0
  /\ requests' = requests - 1
  /\ UNCHANGED <<threadVars, seqVars, clockVars, shown, down, serverVars>>

\* Mistake: the name is read into a buffer of the function.
Login_NameNotKept(u) ==
  /\ Choose
  /\ Net_Send("LOGIN_REQ", 0, u)
  /\ UNCHANGED name

\* The name is read into g_szUserName before anything is sent.
Login(u) ==
  /\ Choose
  /\ name' = u
  /\ Net_Send("LOGIN_REQ", 0, u)

GetUserList == Choose /\ Net_Send("GET_USER_LIST_REQ", 0, 0) /\ UNCHANGED name

\* szFromUser is g_szUserName.
TalkWithUser == Choose /\ Net_Send("TALK_WITH_USER_REQ", 0, name) /\ UNCHANGED name

Exit ==
  /\ pc["main"] = "menu"
  /\ exit' = TRUE
  /\ Goto("main", "close")
  /\ UNCHANGED <<sock, seqVars, clockVars, menuVars, shown, up, down, link, serverVars>>

CloseSocket ==
  /\ pc["main"] = "close"
  /\ sock' = "closed"
  /\ Goto("main", "join recv")
  /\ UNCHANGED <<exit, seqVars, clockVars, menuVars, shown, up, down, link, serverVars>>

Join ==
  /\ \/ pc["main"] = "join recv" /\ pc["recv"] = "done" /\ Goto("main", "join heart")
     \/ pc["main"] = "join heart" /\ pc["heart"] = "done" /\ Goto("main", "done")
  /\ UNCHANGED <<exit, sock, seqVars, clockVars, menuVars, shown, up, down, link, serverVars>>

Main == (\E u \in Users : Login(u)) \/ GetUserList \/ TalkWithUser \/ Exit

Stop == CloseSocket \/ Join

(***************************************************************************)
(* The server, for this connection.                                        *)
(***************************************************************************)
\* The text of a list.
SetUserListJasonData(online) ==
  {[UserName |-> u, IsOnline |-> IF u \in online THEN "cJSON_True" ELSE "cJSON_False"]
     : u \in Users}

\* A reply is sent, in part or not at all: Net_Send does not wait for room.
Reply(kind, json) ==
  \/ /\ Len(down) < Window
     /\ down' = Append(down, [kind |-> kind, whole |-> TRUE, json |-> json])
     /\ UNCHANGED cut
  \/ /\ Len(down) < Window
     /\ down' = Append(down, [kind |-> kind, whole |-> FALSE, json |-> {}])
     /\ cut' = TRUE
  \/ UNCHANGED down /\ cut' = TRUE

\* The server reads a packet of the client.
Take(kind) ==
  /\ link = "open" /\ up # <<>> /\ Head(up).kind = kind
  /\ up' = Tail(up)
  /\ UNCHANGED <<threadVars, seqVars, beat, slept, menuVars, shown, link>>

\* Mistake: the timer is left alone.
ServeKeepAlive_NoTimer ==
  /\ Take("KEEP_ALIVE_REQ")
  /\ seqRead' = Head(up).seq
  /\ Reply("KEEP_ALIVE_RSP", {})
  /\ UNCHANGED <<age, session, refused>>

ServeKeepAlive ==
  /\ Take("KEEP_ALIVE_REQ")
  /\ age' = 0 /\ seqRead' = Head(up).seq
  /\ Reply("KEEP_ALIVE_RSP", {})
  /\ UNCHANGED <<session, refused>>

\* Refused for the password, or because the user or the socket is online.
ServeLogin ==
  /\ Take("LOGIN_REQ")
  /\ \/ session = 0 /\ session' = Head(up).user /\ UNCHANGED refused
     \/ refused' = TRUE /\ UNCHANGED session
  /\ Reply("LOGIN_RSP", {})
  /\ UNCHANGED <<age, seqRead>>

\* The others that are online may be any.
ServeUserList ==
  /\ Take("GET_USER_LIST_REQ")
  /\ \/ /\ session # 0
        /\ \E others \in SUBSET Users :
             Reply("GET_USER_LIST_RSP", SetUserListJasonData(others \cup {session}))
     \/ session = 0 /\ UNCHANGED <<down, cut>>
  /\ UNCHANGED <<age, session, seqRead, refused>>

\* szFromUser is handed on to another client as it is.
ServeTalk == Take("TALK_WITH_USER_REQ") /\ UNCHANGED <<down, age, serverVars>>

Serve == ServeKeepAlive \/ ServeLogin \/ ServeUserList \/ ServeTalk

\* ClientExit; close with something unread resets the connection.
ServerCloses ==
  /\ link = "open"
  /\ link' = IF up = <<>> THEN "fin" ELSE "rst"
  /\ up' = <<>> /\ session' = 0 /\ age' = 0
  /\ seqRead' = -1 /\ refused' = FALSE /\ cut' = FALSE
  /\ UNCHANGED <<threadVars, seqVars, beat, slept, menuVars, shown, down>>

TimeOut == age > Timeout /\ ServerCloses
ClientLeft == sock = "closed" /\ up = <<>> /\ ServerCloses

\* The server ends, or RecvFromClient fails.
ServerFails == ServerCloses

Reset ==
  /\ link = "poked"
  /\ link' = "rst"
  /\ UNCHANGED <<threadVars, seqVars, clockVars, menuVars, shown, up, down, serverVars>>

(***************************************************************************)
(* A second passes.  The heart's thread wakes in time and what was sent is *)
(* read in time.                                                           *)
(***************************************************************************)
Lesser(m, n) == IF m < n THEN m ELSE n

Tick ==
  /\ pc["heart"] \in {"sleep", "done"}
  /\ pc["heart"] = "sleep" => slept < MaxSleep
  /\ \A k \in 1..Len(up) : up[k].wait < Delay
  /\ IF pc["heart"] = "sleep" THEN beat' = beat + 1 /\ slept' = slept + 1
                              ELSE UNCHANGED <<beat, slept>>
  /\ age' = IF link = "open" THEN Lesser(age + 1, Timeout + 1) ELSE age
  /\ up' = [k \in 1..Len(up) |-> [up[k] EXCEPT !.wait = @ + 1]]
  /\ UNCHANGED <<threadVars, seqVars, menuVars, shown, down, link, serverVars>>

Next ==
  \/ Heart \/ Receiver \/ Main \/ Stop
  \/ Serve \/ TimeOut \/ ClientLeft \/ ServerFails \/ Reset \/ Tick

Spec == Init /\ [][Next]_vars

\* The threads and the server run and the clock goes on; nothing makes the
\* user choose or the server fail.
Fairness ==
  /\ WF_vars(Heart) /\ WF_vars(Receiver) /\ WF_vars(Stop)
  /\ WF_vars(Serve \/ TimeOut \/ ClientLeft) /\ WF_vars(Reset) /\ WF_vars(Tick)

LiveSpec == Spec /\ Fairness

(***************************************************************************)
(* Properties.                                                             *)
(***************************************************************************)
Kinds == {"KEEP_ALIVE_REQ", "LOGIN_REQ", "GET_USER_LIST_REQ", "TALK_WITH_USER_REQ",
          "header", "body"}
Codes == {"KEEP_ALIVE_RSP", "LOGIN_RSP", "GET_USER_LIST_RSP"}
Json == SUBSET [UserName : Users, IsOnline : {"cJSON_True", "cJSON_False"}]
Labels == {"menu", "close", "join recv", "join heart", "top", "recv", "body", "sleep",
           "check", "reset", "load", "store", "done"}
Sending == {"check", "reset", "load", "store"}
Packets == [kind : Kinds, seq : 0..(Word - 1), user : Users \cup {0}, wait : Nat]
Replies == [kind : Codes, whole : BOOLEAN, json : Json]

\* The type of the state.
TypeOK ==
  /\ pc \in [Threads -> Labels]
  /\ pc["main"] \in {"menu", "close", "join recv", "join heart", "done"}
  /\ pc["recv"] \in {"top", "recv", "body", "done"} \cup Sending
  /\ pc["heart"] \in {"top", "sleep", "done"} \cup Sending
  /\ exit \in BOOLEAN /\ sock \in {"open", "closed"}
  /\ aliveSeq \in 0..(Word - 1) /\ reg \in [Threads -> 0..(Word - 1)]
  /\ name \in Users \cup {0} /\ requests \in 0..MaxRequests /\ shown \subseteq Users
  /\ beat \in Nat /\ slept \in Nat /\ age \in Nat
  /\ up \in Seq(Packets) /\ down \in Seq(Replies)
  /\ link \in {"open", "fin", "poked", "rst"}
  /\ session \in Users \cup {0} /\ seqRead \in -1..(Word - 1)
  /\ refused \in BOOLEAN /\ cut \in BOOLEAN

\* The server does not time out a client that is not stopping, as long as a
\* thread that sleeps a second wakes in time and a packet is read in time:
\* 3 seconds, at most 2 ticks of sleep and 5 of delay are 10.
NotTimedOut == link = "open" /\ ~exit => age <= Timeout

\* While the server keeps the connection, its client receives, unless a
\* reply did not arrive whole: then threadRecv may have ended, and
\* threadSendHeart keeps the connection all the same.
DeafOnlyAfterCut == link = "open" /\ ~exit /\ pc["recv"] = "done" => cut

\* What the server reads is in whole packets: threadRecv sends the header
\* and the data of a keep-alive apart, but only when the server has closed,
\* so that no packet of another thread comes between them.
NoPiecesSent == \A k \in 1..Len(up) : up[k].kind \notin {"header", "body"}

\* Although two threads check, reset and increment the sequence number
\* without a lock, the server reads one after the other.
NextSeq(n) == IF n > SeqMax THEN 1 ELSE n + 1
AliveSeqConsecutive ==
  [][ServeKeepAlive => seqRead' = NextSeq(seqRead)]_vars

\* A message names as its sender the user who is logged in, unless a login
\* of this client was refused: g_szUserName is then the name that was.
SenderIsSession ==
  [][ServeTalk /\ session # 0 => Head(up).user = session \/ refused]_vars

\* The list that a client prints has its own user online.
ListShowsSelf == shown # {} /\ link = "open" => session \in shown

\* stop returns: both threads end, whatever they wait for.
StopEnds == exit ~> pc["main"] = "done"

\* When the server has closed, threadRecv ends, although it takes a recv of
\* 0 for a pause and sends keep-alives in a loop.
ClosedEndsReceiver == link # "open" ~> pc["recv"] = "done"
=============================================================================
