---------------------------- MODULE MCTcpClient ----------------------------
(***************************************************************************)
(* A client that makes a few calls, one after the other, to a peer that    *)
(* answers with one of the replies a Redis Sentinel gives.                 *)
(***************************************************************************)
EXTENDS TcpClient, MCReplies

\* An error line, a bulk string and a reply of two slaves.
MCMixed == {Error, Info, OneSlave}

\* The answer to "sentinel slaves" of a master that has two.
MCTwoSlaves == {TwoSlaves}
=============================================================================
