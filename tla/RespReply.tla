----------------------------- MODULE RespReply -----------------------------
(***************************************************************************)
(* hiRedisRespUtils.cpp and EventTcpClient::checkReadDataCompleted: does   *)
(* the part of a RESP reply that has arrived look like all of it?          *)
(*                                                                         *)
(* A reply is its size in bytes and the set of its lines.  A line is the   *)
(* offset of its first byte, its flag character ("data" for the body of a  *)
(* bulk string), the number behind the flag and its width in bytes, the    *)
(* CRLF included.  What the lines say is left out.                         *)
(***************************************************************************)
EXTENDS Integers

FlagSize == 1       \* HI_REDIS_RESP_FLAG_SIZE
SplitSize == 2      \* HI_REDIS_RESP_SPLIT_SIZE

LineFlags == {"+", "-", ":"}

\* What processItem comes to: it returns, and the caller's loop goes on at
\* offset next; it throws HiRedisException ("short"); or substr throws
\* std::out_of_range ("range").
Parsed(next) == [st |-> "ok", next |-> next]
Short == [st |-> "short", next |-> 0]
OutOfRange == [st |-> "range", next |-> 0]

\* The line is there up to and with its CRLF.
Terminated(line, n) == line.at + line.width <= n

\* +, - and : lines.
ProcessLineItem(line, n) ==
  IF Terminated(line, n) THEN Parsed(line.at + line.width) ELSE Short

\* Slips of processBulkItem: > for >=, and a body that is not waited for.
BulkItemTooLong(line, n) ==
  LET body == line.at + line.width
      need == line.num + SplitSize
  IN  IF Terminated(line, n) /\ body + need < n THEN Parsed(body + need) ELSE Short

BulkItemWithoutBody(line, n) ==
  IF Terminated(line, n)
    THEN Parsed(line.at + line.width + line.num + SplitSize)
    ELSE Short

\* $ header and body.  A nil bulk string ($-1) has no body, yet one byte of
\* body is asked for: -1 + 2.
ProcessBulkItem(line, n) ==
  LET body == line.at + line.width
      need == line.num + SplitSize
  IN  IF Terminated(line, n) /\ body + need <= n
        THEN Parsed(body + need)
        ELSE Short

\* An array: its elements, the items behind the header, are gone through, and
\* only the header is reported to the caller.  One whose header is cut is returned
\* as an empty array.
ProcessMultiBulkItem(line, n, items) ==
  LET body == line.at + line.width
      elements == items[body][line.num]
  IN  IF ~Terminated(line, n) THEN Parsed(line.at + FlagSize + SplitSize)
      ELSE IF line.num <= 0 \/ elements.st = "ok" THEN Parsed(body)
      ELSE elements

\* The item that starts at offset p when n bytes of the reply have arrived.
ItemAt(reply, n, p, items) ==
  LET lines == {l \in reply.lines : l.at = p /\ p < n}
      line == CHOOSE l \in lines : TRUE
  IN  IF lines = {} THEN Short
      ELSE CASE line.flag \in LineFlags -> ProcessLineItem(line, n)
             [] line.flag = "$"         -> ProcessBulkItem(line, n)
             [] line.flag = "*"         -> ProcessMultiBulkItem(line, n, items)
             [] OTHER                   -> Short

\* The loop over the elements of an array, as a function of how many are left: one
\* begins where the one before it says, which for a nested array is behind its
\* header, never behind its elements.
ItemsFrom(reply, n, p, items) ==
  LET item == ItemAt(reply, n, p, items)
  IN  [k \in Nat |-> IF k = 0 THEN Parsed(p)
                     ELSE IF p > n THEN OutOfRange
                     ELSE IF item.st # "ok" THEN item
                     ELSE items[item.next][k - 1]]

\* items[p][k]: k items one after the other, the first at offset p.
ProcessItems(reply, n) ==
  LET items[p \in Nat] == ItemsFrom(reply, n, p, items)
  IN  items

\* A reply is one item.
ProcessItem(reply, n) == ProcessItems(reply, n)[0][1]

\* Only HiRedisException means "not completed": any other exception, and any
\* return, counts as the whole reply.
CheckReadDataCompleted(reply, n) == ProcessItem(reply, n).st # "short"

\* The lengths at which reading stops.
CompleteAt(reply) == {n \in 1..reply.size : CheckReadDataCompleted(reply, n)}

\* The replies that are taken for complete exactly when they are.
Exact(reply) == CompleteAt(reply) = {reply.size}
=============================================================================
