---------------------------- MODULE OnlineUsers ----------------------------
(***************************************************************************)
(* The table online_users of the data base and the statements the server   *)
(* runs on it (server/mysql.cpp), as Login_Req_Function, ClientExit,       *)
(* GetUserList_Req_Function and TalkWithUser_Req_Function combine them     *)
(* (server/NetWork.cpp).  Only ThreadRecv uses the data base, so a handler *)
(* reads and writes the table in one step; each of its statements may fail *)
(* by itself when DbMayFail.                                               *)
(*                                                                         *)
(* Nothing reads the key of a row nor the number of equal rows, and the    *)
(* SELECTs that fetch one row do not say which: the rows are a set.  Users *)
(* are the ids of the table users; the id of a row may also be ErrorId,    *)
(* the -1 that mysql_GetUserID returns for a statement that failed and     *)
(* that Login_Req_Function takes for a user.                               *)
(***************************************************************************)
EXTENDS Integers

CONSTANTS
  Users,      \* the ids of the rows of users
  Fds,        \* the descriptors a client may have
  ErrorId,    \* (unsigned long long)-1
  DbMayFail   \* whether a statement may fail

VARIABLE
  rows        \* online_users: records [user, sock]

Ids == Users \cup {ErrorId}

RowsOfUser(u) == {r \in rows : r.user = u}
RowsOfSocket(s) == {r \in rows : r.sock = s}

\* What a statement answers: a result, or onError when it may fail.
Answers(results, onError) == results \cup (IF DbMayFail THEN {onError} ELSE {})

\* A column of the row that a SELECT fetches, 0 when it finds none.
Fetch(column) == IF column = {} THEN {0} ELSE column

\* mysql_GetUserID; user is the id of the row that matches, 0 if none does.
GetUserID(user) == Answers({user}, ErrorId)

\* Mistake: the overload for a socket is called with the id of the user.
UserIsOnline_BySocket(u) == Answers({RowsOfSocket(u) # {}}, FALSE)

\* UserIsOnline for a user and for a socket: a failing SELECT counts -1 rows.
UserIsOnline(u) == Answers({RowsOfUser(u) # {}}, FALSE)
SocketIsOnline(s) == Answers({RowsOfSocket(s) # {}}, FALSE)

\* mysql_SelectClientIDBySocketID.
ClientOfSocket(s) == Answers(Fetch({r.user : r \in RowsOfSocket(s)}), 0)

\* Mistake: the SELECT of the socket has no WHERE.
SocketOfUser_AnyRow(u) == Answers(Fetch({r.sock : r \in rows}), 0)

\* The second statement of mysql_SelectUserIDAndSocketID.
SocketOfUser(u) == Answers(Fetch({r.sock : r \in RowsOfUser(u)}), 0)

Init == rows = {}

\* Mistake: the -1 of an INSERT that failed counts as added.
AddOnlineUser_AnyResult(s, u, added) ==
  /\ added
  /\ \/ rows' = rows \cup {[user |-> u, sock |-> s]}
     \/ DbMayFail /\ UNCHANGED rows

\* mysql_AddOnlineUser.
AddOnlineUser(s, u, added) ==
  \/ added /\ rows' = rows \cup {[user |-> u, sock |-> s]}
  \/ ~added /\ DbMayFail /\ UNCHANGED rows

\* Mistake: the login does not ask whether the user is online.
Login_NoUserCheck(s, user, dst, result) ==
  /\ dst \in GetUserID(user)
  /\ \/ dst = 0 /\ result = 1 /\ UNCHANGED rows
     \/ dst # 0 /\ TRUE \in SocketIsOnline(s) /\ result = 3 /\ UNCHANGED rows
     \/ /\ dst # 0 /\ FALSE \in SocketIsOnline(s)
        /\ result = 0 /\ AddOnlineUser(s, dst, TRUE)

\* Login_Req_Function up to its response: dst and result of the LOGIN_RSP.
Login(s, user, dst, result) ==
  /\ dst \in GetUserID(user)
  /\ \/ /\ dst = 0
        /\ result = 1 /\ UNCHANGED rows
     \/ /\ dst # 0 /\ TRUE \in UserIsOnline(dst)
        /\ result = 2 /\ UNCHANGED rows
     \/ /\ dst # 0 /\ FALSE \in UserIsOnline(dst) /\ TRUE \in SocketIsOnline(s)
        /\ result = 3 /\ UNCHANGED rows
     \/ /\ dst # 0 /\ FALSE \in UserIsOnline(dst) /\ FALSE \in SocketIsOnline(s)
        /\ \E added \in BOOLEAN :
             AddOnlineUser(s, dst, added) /\ result = IF added THEN 0 ELSE 3

\* mysql_DeleteOnlineUser, which ClientExit calls for its descriptor.
DeleteOnlineUser(s) ==
  \/ rows' = rows \ RowsOfSocket(s)
  \/ DbMayFail /\ UNCHANGED rows

\* GetUserList_Req_Function: the user the list is sent to, 0 for no answer.
ListReceivers(s) ==
  UNION {IF online THEN ClientOfSocket(s) ELSE {0} : online \in SocketIsOnline(s)}

\* TalkWithUser_Req_Function: the id and the socket a message goes to; one
\* of them is 0 when nothing is sent.
TalkReceivers(s, user) ==
  LET sockets(u) == IF u = 0 THEN {0} ELSE SocketOfUser(u)
      receivers == UNION {{<<u, t>> : t \in sockets(u)} : u \in GetUserID(user)}
  IN UNION {IF online THEN receivers ELSE {<<0, 0>>} : online \in SocketIsOnline(s)}
=============================================================================
