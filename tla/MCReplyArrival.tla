--------------------------- MODULE MCReplyArrival ---------------------------
(***************************************************************************)
(* Every kind of reply, byte by byte.                                      *)
(***************************************************************************)
EXTENDS ReplyArrival, MCReplies

MCAllReplies == {Error, Info, NoSlave, OneSlave, TwoSlaves, ThreeSlaves,
                 FlatArray, NilBulk, Mixed, Deep, Sparse}
=============================================================================
