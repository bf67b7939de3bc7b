-------------------------- MODULE MCClientTable --------------------------
(***************************************************************************)
(* Instances of ClientTable for TLC.                                       *)
(***************************************************************************)
EXTENDS ClientTable, TLC

\* One request that feeds the keep-alive timer and one that does not.
MCRequests == {[code |-> "KEEP_ALIVE_REQ"], [code |-> "GET_USER_LIST_REQ"]}
MCKeepAlive == {[code |-> "KEEP_ALIVE_REQ"]}

MCSymmetry == Permutations(Conns)
=============================================================================
