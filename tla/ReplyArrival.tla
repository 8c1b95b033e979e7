---------------------------- MODULE ReplyArrival ----------------------------
(***************************************************************************)
(* The bytes of one reply arrive one by one and the completeness test of   *)
(* RespReply is asked about every prefix: where it is right, where it is   *)
(* early, and that it is never late.                                       *)
(***************************************************************************)
EXTENDS RespReply, FiniteSets

CONSTANT Replies

-----------------------------------------------------------------------------
(* Replies.                                                                *)

\* The units of a reply: a line, a bulk string with its body, an array's header.
Units(r) == {l \in r.lines : l.flag # "data"}

Arrays(r) == {l \in Units(r) : l.flag = "*"}

\* Where a unit ends.
After(l) == l.at + l.width + IF l.flag = "$" /\ l.num >= 0 THEN l.num + SplitSize ELSE 0

\* The units from offset p on.
From(r, p) == {l \in Units(r) : p <= l.at}

\* The arrays inside the reply.
Nested(r) == {l \in Arrays(r) : 0 < l.at}

\* f is the first of them.
IsFirstNested(r, f) == f \in Nested(r) /\ \A m \in Nested(r) : f.at <= m.at

\* Lines as the protocol has them.
Line(l) ==
  /\ l.flag \in LineFlags \cup {"$", "*", "data"}
  /\ {l.at, l.width} \subseteq Nat /\ l.num \in Int
  /\ l.flag # "data" => l.width > FlagSize + 1
  /\ l.flag = "$" => l.num >= -1

\* Units come one behind the other, from the first byte to the last.
Laid(r) ==
  /\ \A l, m \in r.lines : l.at = m.at => l = m
  /\ \E l \in Units(r) : l.at = 0
  /\ \A l, m \in Units(r) : l.at < m.at => After(l) <= m.at
  /\ \A l \in Units(r) : After(l) < r.size => \E m \in Units(r) : m.at = After(l)
  /\ \A l \in Units(r) : After(l) <= r.size
  /\ \E l \in Units(r) : After(l) = r.size

\* Arrays have as many elements as they announce.  Of that: there are as many units
\* behind a header, and no other unless arrays are nested; the first nested one
\* is among the elements of the outer one; a reply that is no array is one unit.
Counted(r) ==
  /\ \A l \in Arrays(r) : l.num <= Cardinality(From(r, After(l)))
  /\ \A l \in Units(r) : l.at = 0 =>
       IF l.flag # "*" \/ l.num <= 0
         THEN Units(r) = {l}
         ELSE /\ Nested(r) = {} => l.num = Cardinality(From(r, After(l)))
              /\ \A f \in Nested(r) : IsFirstNested(r, f) =>
                   l.num > Cardinality({m \in From(r, After(l)) : m.at < f.at})

\* A reply of the protocol (this asks less than its grammar does).
WellFormed(r) ==
  /\ r.size \in Nat
  /\ IsFiniteSet(r.lines)
  /\ \A l \in r.lines : Line(l)
  /\ Laid(r)
  /\ Counted(r)

ASSUME ReplyArrivalAssumption == \A r \in Replies : WellFormed(r)

-----------------------------------------------------------------------------
(* Arrival.                                                                *)

VARIABLES reply,        \* the reply on its way
          n             \* how many of its bytes have arrived

Init == reply \in Replies /\ n = 0

Arrive == /\ n < reply.size
          /\ n' = n + 1
          /\ UNCHANGED reply

Next == Arrive

Spec == Init /\ [][Next]_<<reply, n>>

-----------------------------------------------------------------------------
(* Correctness.                                                            *)

HasNil(r) == \E l \in r.lines : l.flag = "$" /\ l.num < 0

\* The header of an array has begun to arrive and lacks its CRLF.
HeaderCut == \E l \in Arrays(reply) : l.at < n /\ ~Terminated(l, n)

\* The units from offset p on that are there.
Arrived(p) == {l \in From(reply, p) : After(l) <= n}

\* The first nested array is there: its header and as many units behind it as it
\* has elements.
FirstInnerArrayWhole ==
  \E f \in Nested(reply) :
    /\ IsFirstNested(reply, f)
    /\ Terminated(f, n)
    /\ f.num <= Cardinality(Arrived(After(f)))

\* A reply that is all there is never waited for: reading stops at its last
\* byte at the latest, whatever its structure (nil bulk strings excepted: the
\* body asked for is one byte too long, processBulkItem line 47).
EntireReplyIsComplete ==
  n = reply.size /\ ~HasNil(reply) => CheckReadDataCompleted(reply, n)

\* The test is early in two situations only, both about arrays: a header cut
\* before its CRLF (processMultiBulkItem returns instead of throwing), and
\* nested arrays, where the outer array's next element is looked for inside the
\* first nested one (line 79 advances past the header of a nested array only), so
\* that this has to be there, whatever else the reply has.
EarlyOnlyInArrays ==
  n > 0 /\ n < reply.size /\ CheckReadDataCompleted(reply, n) =>
    HeaderCut \/ FirstInnerArrayWhole
=============================================================================
