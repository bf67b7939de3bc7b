----------------------------- MODULE ConnTable -----------------------------
(***************************************************************************)
(* What the table of clients of the chat server promises to the rest of    *)
(* the server: which connection each descriptor stands for, which          *)
(* descriptors ThreadRecv polls, and the two places where a descriptor is  *)
(* half way, between accept and its slot and between close and the end of  *)
(* its slot.  ClientTable implements it slot by slot; ChatServer builds on *)
(* it.                                                                     *)
(***************************************************************************)
EXTENDS Naturals

CONSTANTS
  Conns, Fds, NoConn,  \* as in ClientTable
  SlotsReturn          \* whether a growing vector may bring freed slots back

VARIABLES
  owner,    \* the connection each descriptor stands for
  watched,  \* the descriptors that have a slot
  adding,   \* the descriptor ThreadAccept is about to add, or 0
  leaving   \* the descriptor ThreadRecv closed and still has in a slot, or 0

vars == <<owner, watched, adding, leaving>>

Init ==
  /\ owner = [f \in Fds |-> NoConn]
  /\ watched = {}
  /\ adding = 0
  /\ leaving = 0

Open(c) == \E f \in Fds : owner[f] = c
FreeFds == {f \in Fds : owner[f] = NoConn}
LowestFree(f) == f \in FreeFds /\ \A g \in FreeFds : f <= g

\* accept returns: the lowest free descriptor stands for the connection.
Accept(c) ==
  /\ adding = 0
  /\ ~Open(c)
  /\ \E f \in Fds :
       /\ LowestFree(f)
       /\ owner' = [owner EXCEPT ![f] = c]
       /\ adding' = f
  /\ UNCHANGED <<watched, leaving>>

\* "client has exist": the descriptor still has the slot of its last owner.
Refuse ==
  /\ adding \in watched
  /\ adding' = 0
  /\ UNCHANGED <<owner, watched, leaving>>

\* The descriptor gets a slot.  If the vector had to grow, descriptors that
\* ThreadRecv removed meanwhile may come back: closed, or refused since.
Add ==
  /\ adding \in Fds \ watched
  /\ \E back \in SUBSET (IF SlotsReturn THEN Fds \ {adding} ELSE {}) :
       watched' = watched \cup {adding} \cup back
  /\ adding' = 0
  /\ UNCHANGED <<owner, leaving>>

\* ClientExit up to the close.
Close(f) ==
  /\ leaving = 0
  /\ f \in watched
  /\ owner' = [owner EXCEPT ![f] = NoConn]
  /\ leaving' = f
  /\ UNCHANGED <<watched, adding>>

\* ClientExit frees the slot.
Free ==
  /\ leaving # 0
  /\ watched' = watched \ {leaving}
  /\ leaving' = 0
  /\ UNCHANGED <<owner, adding>>

Next ==
  \/ \E c \in Conns : Accept(c)
  \/ Refuse \/ Add \/ Free
  \/ \E f \in Fds : Close(f)

Spec == Init /\ [][Next]_vars
=============================================================================
