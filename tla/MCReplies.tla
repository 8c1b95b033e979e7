----------------------------- MODULE MCReplies -----------------------------
(***************************************************************************)
(* Small RESP replies for the runs: one of each kind a Redis Sentinel may  *)
(* answer, given by their lines and laid out from offset 0.                *)
(***************************************************************************)
EXTENDS Integers, Sequences, SequencesExt

LOCAL Hdr(flag, num, width) == [flag |-> flag, num |-> num, width |-> width]

LineItem(flag) == <<Hdr(flag, 0, 5)>>                       \* +PONG, -ERR x
Bulk(k) == <<Hdr("$", k, 4), Hdr("data", 0, k + 2)>>
Nil == <<Hdr("$", -1, 5)>>
Array(k) == <<Hdr("*", k, 4)>>
BigArray(k) == <<Hdr("*", k, 5)>>                           \* two digits

WidthOf(lines) == FoldSeq(LAMBDA l, acc : acc + l.width, 0, lines)

\* The reply made of these lines.
Lay(lines) ==
  [size  |-> WidthOf(lines),
   lines |-> {[at    |-> WidthOf(SubSeq(lines, 1, i - 1)),
               flag  |-> lines[i].flag,
               num   |-> lines[i].num,
               width |-> lines[i].width] : i \in DOMAIN lines}]

\* One slave of the answer to "sentinel slaves": a field and its value.
LOCAL Slave == BigArray(2) \o Bulk(1) \o Bulk(1)

Error == Lay(LineItem("-"))                     \* -ERR No such master
Info == Lay(Bulk(9))                            \* the answer to "info"
NoSlave == Lay(Array(0))
OneSlave == Lay(Array(1) \o Slave)
TwoSlaves == Lay(Array(2) \o Slave \o Slave)
ThreeSlaves == Lay(Array(3) \o Slave \o Slave \o Slave)
FlatArray == Lay(Array(3) \o Bulk(2) \o LineItem(":") \o Bulk(0))
NilBulk == Lay(Nil)

\* Arrays among other elements, in one another, empty and with a nil.
Mixed == Lay(Array(3) \o Bulk(1) \o Array(2) \o Bulk(0) \o Bulk(1) \o LineItem(":"))
Deep == Lay(Array(2) \o Array(1) \o Array(2) \o Bulk(1) \o LineItem("+") \o Bulk(0))
Sparse == Lay(Array(3) \o Array(0) \o Array(2) \o Nil \o Bulk(1) \o Array(0))
=============================================================================
