---------------------------- MODULE ReaderProofs ----------------------------
(***************************************************************************)
(* The two readers: the completeness test, which reads a reply as far as   *)
(* it is there, for every well-formed reply; and pharseReq, which reads a  *)
(* request in query form, for every text.  Both are recursive functions:   *)
(* that they exist, and what they come to, are inductions, on the bytes    *)
(* behind an offset and on the characters in front of one.                 *)
(***************************************************************************)
EXTENDS ReplyArrival, ParamTyping, FiniteSetTheorems, SequenceLemmas

-----------------------------------------------------------------------------
(* Replies.                                                                *)

\* The invariant: the reply is one of Replies, and so many of its bytes are there.
IInv == WellFormed(reply) /\ n \in 0..reply.size

Items == ProcessItems(reply, n)
Item(p) == ItemAt(reply, n, p, Items)

\* A unit begins at p, or the reply ends there.
Begins(p) == p = reply.size \/ \E l \in Units(reply) : l.at = p

-----------------------------------------------------------------------------
(* Units.                                                                  *)

\* What is known of a unit alone.
LEMMA UnitType ==
  ASSUME IInv, NEW l \in Units(reply)
  PROVE  /\ l \in reply.lines /\ l.flag \in LineFlags \cup {"$", "*"}
         /\ l.at \in Nat /\ l.width \in Nat /\ l.width > 2 /\ l.num \in Int
         /\ l.flag = "$" => l.num >= -1
         /\ After(l) \in Nat /\ l.at + l.width <= After(l) /\ l.at + 2 < After(l)
         /\ l.flag = "$" /\ l.num >= 0 => After(l) = l.at + l.width + (l.num + 2)
         /\ ~(l.flag = "$" /\ l.num >= 0) => After(l) = l.at + l.width
<1>1. l \in reply.lines /\ l.flag # "data" /\ Line(l)
  BY DEF IInv, WellFormed, Units
<1>2. /\ l.flag \in LineFlags \cup {"$", "*"}
      /\ l.at \in Nat /\ l.width \in Nat /\ l.width > 2 /\ l.num \in Int
      /\ l.flag = "$" => l.num >= -1
  BY <1>1 DEF Line, FlagSize
<1>. QED BY <1>1, <1>2 DEF After, SplitSize

\* Where a unit ends, the next one begins; it is within the reply.
LEMMA UnitEnds ==
  ASSUME IInv, NEW l \in Units(reply)
  PROVE  Begins(After(l)) /\ After(l) <= reply.size /\ l.at < reply.size
<1>1. /\ After(l) < reply.size => \E m \in Units(reply) : m.at = After(l)
      /\ After(l) <= reply.size
  BY DEF IInv, WellFormed, Laid
<1>2. l.at \in Nat /\ After(l) \in Nat /\ l.at < After(l) /\ reply.size \in Nat
  BY UnitType DEF IInv, WellFormed
<1>. QED BY <1>1, <1>2 DEF Begins

\* A line is known by its offset, and no unit begins inside another.
LEMMA UnitOrder ==
  ASSUME IInv, NEW l \in Units(reply)
  PROVE  /\ \A m \in reply.lines : m.at = l.at => m = l
         /\ \A m \in Units(reply) : l.at < m.at => After(l) <= m.at
         /\ \A m \in Units(reply) : l.at <= m.at /\ m # l => After(l) <= m.at
<1>1. l \in reply.lines
  BY UnitType
<1>2. /\ \A m \in reply.lines : m.at = l.at => m = l
      /\ \A m \in Units(reply) : l.at < m.at => After(l) <= m.at
  BY <1>1 DEF IInv, WellFormed, Laid
<1>3. ASSUME NEW m \in Units(reply), l.at <= m.at, m # l
      PROVE  After(l) <= m.at
  <2>1. m \in reply.lines /\ m.at \in Nat /\ l.at \in Nat
    BY UnitType
  <2>. QED BY <1>2, <1>3, <2>1
<1>. QED BY <1>2, <1>3

\* The units from an offset on are finitely many; the first of them and the others.
LEMMA FromFinite ==
  ASSUME IInv, NEW p \in Nat
  PROVE  /\ IsFiniteSet(From(reply, p)) /\ Cardinality(From(reply, p)) \in Nat
         /\ \A S : S \subseteq From(reply, p) =>
              /\ IsFiniteSet(S) /\ Cardinality(S) \in Nat
              /\ Cardinality(S) <= Cardinality(From(reply, p))
              /\ Cardinality(From(reply, p)) <= Cardinality(S) => S = From(reply, p)
<1>1. IsFiniteSet(reply.lines)
  BY DEF IInv, WellFormed
<1>2. From(reply, p) \in SUBSET reply.lines
  BY DEF From, Units
<1>3. IsFiniteSet(From(reply, p))
  BY <1>1, <1>2, FS_Subset
<1>4. Cardinality(From(reply, p)) \in Nat
  BY <1>3, FS_CardinalityType
<1>5. ASSUME NEW S, S \subseteq From(reply, p)
      PROVE  /\ IsFiniteSet(S) /\ Cardinality(S) \in Nat
             /\ Cardinality(S) <= Cardinality(From(reply, p))
             /\ Cardinality(From(reply, p)) <= Cardinality(S) => S = From(reply, p)
  <2>1. S \in SUBSET From(reply, p)
    BY <1>5
  <2>2. /\ IsFiniteSet(S) /\ Cardinality(S) <= Cardinality(From(reply, p))
        /\ Cardinality(From(reply, p)) = Cardinality(S) => From(reply, p) = S
    BY <1>3, <2>1, FS_Subset
  <2>3. Cardinality(S) \in Nat
    BY <2>2, FS_CardinalityType
  <2>. QED BY <1>4, <2>2, <2>3
<1>. QED BY <1>3, <1>4, <1>5

\* One unit, and the units from its end on.
LEMMA FromUnit ==
  ASSUME IInv, NEW l \in Units(reply)
  PROVE  /\ l \in From(reply, l.at) /\ l \notin From(reply, After(l))
         /\ From(reply, l.at) = From(reply, After(l)) \cup {l}
         /\ Cardinality(From(reply, l.at)) = Cardinality(From(reply, After(l))) + 1
<1>1. l.at \in Nat /\ After(l) \in Nat /\ l.at < After(l)
  BY UnitType
<1>2. \A m \in Units(reply) : m.at \in Nat
  BY UnitType
<1>3. \A m \in Units(reply) : l.at <= m.at /\ m # l => After(l) <= m.at
  BY UnitOrder
<1>4. l \in From(reply, l.at) /\ l \notin From(reply, After(l))
  BY <1>1 DEF From
<1>5. From(reply, l.at) = From(reply, After(l)) \cup {l}
  BY <1>1, <1>2, <1>3 DEF From
<1>6. Cardinality(From(reply, After(l)) \cup {l}) = Cardinality(From(reply, After(l))) + 1
  BY <1>1, <1>4, FromFinite, FS_AddElement
<1>. QED BY <1>4, <1>5, <1>6

\* The first unit, and the one that ends the reply.
LEMMA FirstAndLast ==
  ASSUME IInv
  PROVE  /\ \E l \in Units(reply) : l.at = 0
         /\ \E l \in Units(reply) : After(l) = reply.size
BY DEF IInv, WellFormed, Laid

-----------------------------------------------------------------------------
(* The test is a function.                                                 *)

\* One step of the recursion looks at later offsets only.
LEMMA ItemOnward ==
  ASSUME IInv, NEW p \in Nat, NEW f
  PROVE  LET item == ItemAt(reply, n, p, f)
         IN  item.st = "ok" => item.next \in Nat /\ p < item.next
<1>. DEFINE lines == {l \in reply.lines : l.at = p /\ p < n}
            line == CHOOSE l \in lines : TRUE
            item == ItemAt(reply, n, p, f)
<1>1. CASE lines = {}
  <2>1. item = Short
    BY <1>1 DEF ItemAt
  <2>. QED BY <2>1 DEF Short
<1>2. CASE lines # {}
  <2>1. line \in reply.lines /\ line.at = p /\ Line(line)
    BY <1>2 DEF IInv, WellFormed
  <2>2. /\ line.width \in Nat /\ line.num \in Int
        /\ line.flag # "data" => line.width > 2
        /\ line.flag = "$" => line.num >= -1
    BY <2>1 DEF Line, FlagSize
  <2>. HIDE DEF line
  <2>3. CASE line.flag \in LineFlags
    <3>1. item = ProcessLineItem(line, n)
      BY <1>2, <2>3 DEF ItemAt, LineFlags, line
    <3>2. line.width > 2
      BY <2>2, <2>3 DEF LineFlags
    <3>. QED BY <2>1, <2>2, <3>1, <3>2 DEF ProcessLineItem, Parsed, Short
  <2>4. CASE line.flag = "$"
    <3>1. item = ProcessBulkItem(line, n)
      BY <1>2, <2>4 DEF ItemAt, LineFlags, line
    <3>. QED BY <2>1, <2>2, <2>4, <3>1 DEF ProcessBulkItem, Parsed, Short, SplitSize
  <2>5. CASE line.flag = "*"
    <3>1. item = ProcessMultiBulkItem(line, n, f)
      BY <1>2, <2>5 DEF ItemAt, LineFlags, line
    <3>. QED BY <2>1, <2>2, <2>5, <3>1 DEF ProcessMultiBulkItem, Parsed, FlagSize, SplitSize
  <2>6. CASE line.flag \notin LineFlags \cup {"$", "*"}
    <3>1. item = Short
      BY <1>2, <2>6 DEF ItemAt, line
    <3>. QED BY <3>1 DEF Short
  <2>. QED BY <2>3, <2>4, <2>5, <2>6
<1>. QED BY <1>1, <1>2

LEMMA ItemsAgree ==
  ASSUME IInv, NEW p \in Nat, NEW f, NEW g, \A q \in Nat : p < q => f[q] = g[q]
  PROVE  /\ ItemAt(reply, n, p, f) = ItemAt(reply, n, p, g)
         /\ ItemsFrom(reply, n, p, f) = ItemsFrom(reply, n, p, g)
<1>. DEFINE lines == {l \in reply.lines : l.at = p /\ p < n}
            line == CHOOSE l \in lines : TRUE
<1>1. ASSUME lines # {} PROVE ItemAt(reply, n, p, f) = ItemAt(reply, n, p, g)
  <2>1. line \in reply.lines /\ line.at = p /\ Line(line)
    BY <1>1 DEF IInv, WellFormed
  <2>2. ASSUME line.flag # "*", NEW h
        PROVE  ItemAt(reply, n, p, h) = IF line.flag \in LineFlags THEN ProcessLineItem(line, n)
                                        ELSE IF line.flag = "$" THEN ProcessBulkItem(line, n)
                                        ELSE Short
    <3>. HIDE DEF line
    <3>1. CASE line.flag \in LineFlags
      BY <1>1, <3>1 DEF ItemAt, LineFlags, line
    <3>2. CASE line.flag = "$"
      BY <1>1, <3>2 DEF ItemAt, LineFlags, line
    <3>3. CASE line.flag \notin LineFlags \cup {"$", "*"}
      BY <1>1, <3>3 DEF ItemAt, line
    <3>. QED BY <2>2, <3>1, <3>2, <3>3
  <2>3. CASE line.flag = "*"
    <3>1. line.at + line.width \in Nat /\ p < line.at + line.width
      BY <2>1, <2>3 DEF Line, FlagSize
    <3>2. f[line.at + line.width] = g[line.at + line.width]
      BY <3>1
    <3>3. ProcessMultiBulkItem(line, n, f) = ProcessMultiBulkItem(line, n, g)
      BY <3>2 DEF ProcessMultiBulkItem
    <3>. QED BY <2>3, <3>3 DEF ItemAt, LineFlags
  <2>. QED
    <3>. HIDE DEF line
    <3>. QED BY <2>2, <2>3
<1>2. ItemAt(reply, n, p, f) = ItemAt(reply, n, p, g)
  <2>1. CASE lines = {}
    BY <2>1 DEF ItemAt
  <2>. QED BY <1>1, <2>1
<1>3. ItemsFrom(reply, n, p, f) = ItemsFrom(reply, n, p, g)
  <2>. DEFINE item == ItemAt(reply, n, p, f)
  <2>1. item.st = "ok" => f[item.next] = g[item.next]
    BY ItemOnward
  <2>2. item = ItemAt(reply, n, p, g)
    BY <1>2
  <2>. HIDE DEF item
  <2>3. \A k \in Nat : item.st = "ok" => f[item.next][k - 1] = g[item.next][k - 1]
    BY <2>1
  <2>4. ItemsFrom(reply, n, p, f) =
          [k \in Nat |-> IF k = 0 THEN Parsed(p) ELSE IF p > n THEN OutOfRange
                         ELSE IF item.st # "ok" THEN item ELSE f[item.next][k - 1]]
    BY DEF ItemsFrom, item
  <2>5. ItemsFrom(reply, n, p, g) =
          [k \in Nat |-> IF k = 0 THEN Parsed(p) ELSE IF p > n THEN OutOfRange
                         ELSE IF item.st # "ok" THEN item ELSE g[item.next][k - 1]]
    BY <2>2 DEF ItemsFrom
  <2>. QED BY <2>3, <2>4, <2>5
<1>. QED BY <1>2, <1>3

\* f satisfies the equation from offset a on.
Solves(f, a) == \A p \in Nat : a <= p => f[p] = ItemsFrom(reply, n, p, f)

LEMMA SolvedBehind ==
  ASSUME IInv
  PROVE  \E f : Solves(f, n + 1)
<1>. DEFINE f == [p \in Nat |-> [k \in Nat |-> IF k = 0 THEN Parsed(p) ELSE OutOfRange]]
<1>1. n \in Nat
  BY DEF IInv, WellFormed
<1>2. ASSUME NEW p \in Nat, n + 1 <= p PROVE f[p] = ItemsFrom(reply, n, p, f)
  <2>1. p > n
    BY <1>1, <1>2
  <2>. HIDE DEF f
  <2>2. ItemsFrom(reply, n, p, f) = [k \in Nat |-> IF k = 0 THEN Parsed(p) ELSE OutOfRange]
    BY <2>1 DEF ItemsFrom
  <2>. QED BY <2>2 DEF f
<1>. HIDE DEF f
<1>. QED BY <1>2 DEF Solves

LEMMA SolvedBefore ==
  ASSUME IInv, NEW a \in Nat, NEW f, Solves(f, a + 1)
  PROVE  \E g : Solves(g, a)
<1>. DEFINE g == [p \in Nat |-> IF p = a THEN ItemsFrom(reply, n, a, f) ELSE f[p]]
<1>1. \A q \in Nat : a < q => f[q] = g[q]
  OBVIOUS
<1>2. g[a] = ItemsFrom(reply, n, a, f)
  OBVIOUS
<1>. HIDE DEF g
<1>3. ASSUME NEW p \in Nat, a <= p PROVE g[p] = ItemsFrom(reply, n, p, g)
  <2>1. \A q \in Nat : p < q => f[q] = g[q]
    BY <1>1, <1>3
  <2>2. ItemsFrom(reply, n, p, f) = ItemsFrom(reply, n, p, g)
    BY <2>1, ItemsAgree
  <2>3. CASE p = a
    BY <1>2, <2>2, <2>3
  <2>4. CASE a + 1 <= p
    <3>1. f[p] = ItemsFrom(reply, n, p, f)
      BY <2>4 DEF Solves
    <3>2. f[p] = g[p]
      BY <1>1, <2>4
    <3>. QED BY <2>2, <3>1, <3>2
  <2>. QED BY <1>3, <2>3, <2>4
<1>. QED BY <1>3 DEF Solves

LEMMA Solved ==
  ASSUME IInv
  PROVE  \E f : Solves(f, 0)
<1>. DEFINE S == {d \in Nat : d <= n + 1 => \E f : Solves(f, n + 1 - d)}
<1>1. n \in Nat
  BY DEF IInv, WellFormed
<1>2. 0 \in S
  BY <1>1, SolvedBehind
<1>3. ASSUME NEW d \in Nat, d \in S PROVE d + 1 \in S
  <2>1. CASE d + 1 > n + 1
    BY <1>1, <2>1
  <2>2. CASE d + 1 <= n + 1
    <3>1. PICK f : Solves(f, n + 1 - d)
      BY <1>1, <1>3, <2>2
    <3>2. PICK a \in Nat : a = n + 1 - (d + 1) /\ n + 1 - d = a + 1
      BY <1>1, <2>2
    <3>3. Solves(f, a + 1)
      BY <3>1, <3>2
    <3>4. \E g : Solves(g, a)
      BY <3>3, SolvedBefore
    <3>. QED BY <3>2, <3>4
  <2>. QED BY <1>1, <2>1, <2>2
<1>4. Nat \subseteq S
  <2>. HIDE DEF S
  <2>. QED BY <1>2, <1>3, SetInduction
<1>5. n + 1 \in S
  BY <1>1, <1>4
<1>6. n + 1 - (n + 1) = 0 /\ n + 1 <= n + 1
  BY <1>1
<1>. QED BY <1>1, <1>5, <1>6

\* The recursion has a solution, and what is defined by it satisfies its equation.
LEMMA ItemsSolve ==
  ASSUME IInv
  PROVE  Items = [p \in Nat |-> ItemsFrom(reply, n, p, Items)]
<1>1. PICK f : Solves(f, 0)
  BY Solved
<1>. DEFINE g == [p \in Nat |-> f[p]]
<1>2. ASSUME NEW p \in Nat PROVE g[p] = ItemsFrom(reply, n, p, g)
  <2>1. f[p] = ItemsFrom(reply, n, p, f)
    BY <1>1 DEF Solves
  <2>2. \A q \in Nat : p < q => f[q] = g[q]
    OBVIOUS
  <2>. HIDE DEF g
  <2>3. ItemsFrom(reply, n, p, f) = ItemsFrom(reply, n, p, g)
    BY <2>2, ItemsAgree
  <2>. QED BY <2>1, <2>3 DEF g
<1>3. g = [p \in Nat |-> ItemsFrom(reply, n, p, g)]
  <2>. DEFINE h == [p \in Nat |-> ItemsFrom(reply, n, p, g)]
  <2>1. g = [p \in Nat |-> g[p]]
    OBVIOUS
  <2>. HIDE DEF g
  <2>. QED BY <1>2, <2>1
<1>4. Items = CHOOSE h : h = [p \in Nat |-> ItemsFrom(reply, n, p, h)]
  BY DEF Items, ProcessItems
<1>. HIDE DEF g
<1>. QED BY <1>3, <1>4

-----------------------------------------------------------------------------
(* What the items are.                                                     *)

\* k items from offset p on.
LEMMA ItemsAre ==
  ASSUME IInv, NEW p \in Nat, NEW k \in Nat
  PROVE  Items[p][k] = IF k = 0 THEN Parsed(p)
                       ELSE IF p > n THEN OutOfRange
                       ELSE IF Item(p).st # "ok" THEN Item(p)
                       ELSE Items[Item(p).next][k - 1]
<1>1. Items[p] = ItemsFrom(reply, n, p, Items)
  <2>. DEFINE I == Items
  <2>1. I = [q \in Nat |-> ItemsFrom(reply, n, q, I)]
    BY ItemsSolve
  <2>. HIDE DEF I
  <2>2. I[p] = ItemsFrom(reply, n, p, I)
    BY <2>1
  <2>. QED BY <2>2 DEF I
<1>. QED BY <1>1 DEF ItemsFrom, Item

LEMMA NoneLeft ==
  ASSUME IInv, NEW p \in Nat
  PROVE  Items[p][0].st = "ok"
<1>1. Items[p][0] = Parsed(p)
  BY ItemsAre
<1>. QED BY <1>1 DEF Parsed

\* Where no unit begins, or nothing has arrived, there is not enough data.
LEMMA NoItem ==
  ASSUME IInv, NEW p \in Nat, n <= p \/ \A l \in Units(reply) : l.at # p
  PROVE  Item(p) = Short
<1>. DEFINE lines == {l \in reply.lines : l.at = p /\ p < n}
            line == CHOOSE l \in lines : TRUE
<1>1. n \in Nat
  BY DEF IInv, WellFormed
<1>2. CASE lines = {}
  BY <1>2 DEF Item, ItemAt
<1>3. CASE lines # {}
  <2>1. line \in reply.lines /\ line.at = p /\ p < n
    BY <1>3
  <2>. HIDE DEF line
  <2>2. line.flag = "data"
    BY <1>1, <2>1 DEF Units
  <2>. QED BY <1>3, <2>2 DEF Item, ItemAt, LineFlags, line
<1>. QED BY <1>2, <1>3

\* The item at a unit that has begun to arrive.
LEMMA UnitItem ==
  ASSUME IInv, NEW l \in Units(reply), l.at < n
  PROVE  /\ l.flag \in LineFlags => Item(l.at) = ProcessLineItem(l, n)
         /\ l.flag = "$" => Item(l.at) = ProcessBulkItem(l, n)
         /\ l.flag = "*" => Item(l.at) = ProcessMultiBulkItem(l, n, Items)
<1>1. {x \in reply.lines : x.at = l.at /\ l.at < n} = {l}
  BY UnitOrder, UnitType
<1>2. (CHOOSE x \in {l} : TRUE) = l
  OBVIOUS
<1>3. CASE l.flag \in LineFlags
  BY <1>1, <1>2, <1>3 DEF Item, ItemAt, LineFlags
<1>4. CASE l.flag = "$"
  BY <1>1, <1>2, <1>4 DEF Item, ItemAt, LineFlags
<1>5. CASE l.flag = "*"
  BY <1>1, <1>2, <1>5 DEF Item, ItemAt, LineFlags
<1>. QED BY <1>3, <1>4, <1>5 DEF LineFlags

-----------------------------------------------------------------------------
(* The whole reply.                                                        *)

\* When all has arrived and nothing is nil, a unit is passed if its elements are.
LEMMA WholeUnit ==
  ASSUME IInv, n = reply.size, ~HasNil(reply), NEW l \in Units(reply),
         l.flag = "*" => l.num <= 0 \/ Items[After(l)][l.num].st = "ok"
  PROVE  Item(l.at) = Parsed(After(l))
<1>1. /\ l.flag \in LineFlags \cup {"$", "*"} /\ l \in reply.lines
      /\ l.at \in Nat /\ l.width \in Nat /\ l.num \in Int
      /\ After(l) \in Nat /\ l.at + l.width <= After(l)
      /\ l.flag = "$" /\ l.num >= 0 => After(l) = l.at + l.width + (l.num + 2)
      /\ ~(l.flag = "$" /\ l.num >= 0) => After(l) = l.at + l.width
  BY UnitType
<1>2. After(l) <= n /\ l.at < n /\ n \in Nat
  BY UnitEnds DEF IInv, WellFormed
<1>3. Terminated(l, n)
  BY <1>1, <1>2 DEF Terminated
<1>4. CASE l.flag \in LineFlags
  <2>1. After(l) = l.at + l.width
    BY <1>1, <1>4 DEF LineFlags
  <2>. QED BY <1>2, <1>3, <1>4, <2>1, UnitItem DEF ProcessLineItem
<1>5. CASE l.flag = "$"
  <2>1. l.num >= 0
    BY <1>1, <1>5 DEF HasNil
  <2>2. After(l) = l.at + l.width + (l.num + SplitSize)
    BY <1>1, <1>5, <2>1 DEF SplitSize
  <2>. QED BY <1>2, <1>3, <1>5, <2>2, UnitItem DEF ProcessBulkItem
<1>6. CASE l.flag = "*"
  <2>1. After(l) = l.at + l.width
    BY <1>1, <1>6
  <2>. QED BY <1>2, <1>3, <1>6, <2>1, UnitItem DEF ProcessMultiBulkItem
<1>. QED BY <1>1, <1>4, <1>5, <1>6

\* As many items are passed as there are units.
LEMMA AllPassed ==
  ASSUME IInv, n = reply.size, ~HasNil(reply)
  PROVE  \A p \in Nat : Begins(p) /\ p <= n =>
           \A k \in Nat : k <= Cardinality(From(reply, p)) => Items[p][k].st = "ok"
<1>. DEFINE Passed(p) == \A k \in Nat : k <= Cardinality(From(reply, p)) => Items[p][k].st = "ok"
            S == {d \in Nat : \A p \in Nat : Begins(p) /\ p <= n /\ n <= p + d => Passed(p)}
<1>1. n \in Nat
  BY DEF IInv, WellFormed
<1>2. \A p \in Nat : Items[p][0].st = "ok"
  BY NoneLeft
<1>3. Passed(n)
  <2>1. From(reply, n) = {}
    <3>1. \A l \in Units(reply) : l.at < n /\ l.at \in Nat
      BY UnitEnds, UnitType
    <3>. QED BY <1>1, <3>1 DEF From
  <2>2. Cardinality(From(reply, n)) = 0
    BY <2>1, FS_EmptySet
  <2>. QED BY <1>1, <1>2, <2>2
<1>4. 0 \in S
  <2>1. \A p \in Nat : p <= n /\ n <= p + 0 => p = n
    BY <1>1
  <2>. HIDE DEF Passed
  <2>. QED BY <1>3, <2>1
<1>5. ASSUME NEW d \in Nat, d \in S PROVE d + 1 \in S
  <2>. SUFFICES ASSUME NEW p \in Nat, Begins(p), p <= n, n <= p + (d + 1), NEW k \in Nat,
                       k <= Cardinality(From(reply, p))
                PROVE  Items[p][k].st = "ok"
    OBVIOUS
  <2>1. \A q \in Nat : Begins(q) /\ q <= n /\ p < q => Passed(q)
    <3>1. \A q \in Nat : p < q => n <= q + d
      BY <1>1
    <3>. HIDE DEF Passed
    <3>. QED BY <1>5, <3>1
  <2>2. CASE k = 0
    BY <1>2, <2>2
  <2>3. CASE p = n
    BY <1>3, <2>3
  <2>4. CASE k # 0 /\ p # n
    <3>1. PICK l \in Units(reply) : l.at = p
      BY <2>4 DEF Begins
    <3>2. After(l) \in Nat /\ p < After(l) /\ After(l) <= n /\ Begins(After(l)) /\ l.num \in Int
      BY <3>1, UnitType, UnitEnds
    <3>3. Passed(After(l))
      <4>. HIDE DEF Passed
      <4>. QED BY <2>1, <3>2
    <3>4. /\ Cardinality(From(reply, After(l))) \in Nat
          /\ Cardinality(From(reply, p)) = Cardinality(From(reply, After(l))) + 1
      BY <3>1, <3>2, FromFinite, FromUnit
    <3>5. l.flag = "*" => l.num <= 0 \/ Items[After(l)][l.num].st = "ok"
      <4>1. l.flag = "*" => l.num <= Cardinality(From(reply, After(l)))
        BY DEF IInv, WellFormed, Counted, Arrays
      <4>. QED BY <3>2, <3>3, <4>1
    <3>6. Item(p) = Parsed(After(l))
      BY <3>1, <3>5, WholeUnit
    <3>7. Items[p][k] = Items[After(l)][k - 1]
      <4>1. Item(p).st = "ok" /\ Item(p).next = After(l)
        BY <3>6 DEF Parsed
      <4>2. Items[p][k] = IF k = 0 THEN Parsed(p)
                          ELSE IF p > n THEN OutOfRange
                          ELSE IF Item(p).st # "ok" THEN Item(p)
                          ELSE Items[Item(p).next][k - 1]
        BY ItemsAre
      <4>3. ~(p > n)
        BY <1>1
      <4>. QED BY <2>4, <4>1, <4>2, <4>3
    <3>8. k - 1 \in Nat /\ k - 1 <= Cardinality(From(reply, After(l)))
      BY <2>4, <3>4
    <3>. QED BY <3>3, <3>7, <3>8
  <2>. QED BY <2>2, <2>3, <2>4
<1>6. Nat \subseteq S
  <2>. HIDE DEF S
  <2>. QED BY <1>4, <1>5, SetInduction
<1>. SUFFICES ASSUME NEW p \in Nat, Begins(p), p <= n PROVE Passed(p)
  OBVIOUS
<1>7. n <= p + n
  BY <1>1
<1>8. n \in S
  <2>. HIDE DEF S
  <2>. QED BY <1>1, <1>6
<1>. HIDE DEF Passed
<1>. QED BY <1>7, <1>8

LEMMA EntireComplete == IInv => EntireReplyIsComplete
<1>. SUFFICES ASSUME IInv, n = reply.size, ~HasNil(reply) PROVE CheckReadDataCompleted(reply, n)
  BY DEF EntireReplyIsComplete
<1>1. PICK l \in Units(reply) : l.at = 0
  BY FirstAndLast
<1>2. Begins(0) /\ 0 <= n
  BY <1>1 DEF Begins, IInv, WellFormed
<1>3. /\ Cardinality(From(reply, After(l))) \in Nat
      /\ Cardinality(From(reply, 0)) = Cardinality(From(reply, After(l))) + 1
  BY <1>1, UnitType, FromFinite, FromUnit
<1>4. Items[0][1].st = "ok"
  BY <1>2, <1>3, AllPassed
<1>. QED BY <1>4 DEF CheckReadDataCompleted, ProcessItem, Items

-----------------------------------------------------------------------------
(* Early.                                                                  *)

\* What a pass over k items from p on says when no header is cut: substr does not
\* throw; and if all were there, as many units have arrived.
PassSays(p, k) ==
  /\ Items[p][k].st \in {"ok", "short"}
  /\ Items[p][k].st = "ok" => IF Begins(p) THEN k <= Cardinality(Arrived(p)) ELSE k = 0

\* One unit that has begun to arrive, if its elements say so.
LEMMA UnitSays ==
  ASSUME IInv, ~HeaderCut, NEW l \in Units(reply), l.at < n,
         l.flag = "*" /\ l.num > 0 /\ After(l) <= n => PassSays(After(l), l.num)
  PROVE  /\ Item(l.at).st \in {"ok", "short"}
         /\ Item(l.at).st = "ok" =>
              /\ After(l) <= n
              /\ Item(l.at).next \in Nat /\ l.at < Item(l.at).next /\ Item(l.at).next <= n
              /\ Item(l.at).next # After(l) => ~Begins(Item(l.at).next)
              /\ l.flag = "*" => /\ Item(l.at).next = After(l)
                                 /\ l.num > 0 => Items[After(l)][l.num].st = "ok"
<1>1. /\ l.flag \in LineFlags \cup {"$", "*"}
      /\ l.at \in Nat /\ l.width \in Nat /\ l.width > 2 /\ l.num \in Int
      /\ l.flag = "$" => l.num >= -1
      /\ After(l) \in Nat /\ l.at + l.width <= After(l)
      /\ l.flag = "$" /\ l.num >= 0 => After(l) = l.at + l.width + (l.num + 2)
      /\ ~(l.flag = "$" /\ l.num >= 0) => After(l) = l.at + l.width
  BY UnitType
<1>2. n \in Nat
  BY DEF IInv, WellFormed
<1>. DEFINE item == Item(l.at)
<1>3. CASE l.flag \in LineFlags
  <2>1. After(l) = l.at + l.width /\ l.flag # "*"
    BY <1>1, <1>3 DEF LineFlags
  <2>2. item = IF After(l) <= n THEN [st |-> "ok", next |-> After(l)] ELSE [st |-> "short", next |-> 0]
    BY <1>3, <2>1, UnitItem DEF ProcessLineItem, Terminated, Parsed, Short
  <2>. HIDE DEF item
  <2>. QED
    <3>1. item.st \in {"ok", "short"} /\ (item.st = "ok" => After(l) <= n /\ item.next = After(l))
      BY <2>2
    <3>. QED BY <1>1, <2>1, <3>1 DEF item
<1>4. CASE l.flag = "$" /\ l.num >= 0
  <2>1. After(l) = l.at + l.width + (l.num + SplitSize)
    BY <1>1, <1>4 DEF SplitSize
  <2>2. item.st \in {"ok", "short"} /\ (item.st = "ok" => After(l) <= n /\ item.next = After(l))
    <3>1. item = ProcessBulkItem(l, n)
      BY <1>4, UnitItem
    <3>. HIDE DEF item
    <3>. QED BY <2>1, <3>1 DEF ProcessBulkItem, Parsed, Short
  <2>. HIDE DEF item
  <2>. QED BY <1>1, <1>4, <2>2 DEF item
<1>5. CASE l.flag = "$" /\ l.num < 0
  \* A nil: the next item is looked for one byte too far.
  <2>1. After(l) = l.at + l.width /\ l.num + SplitSize = 1
    BY <1>1, <1>5 DEF SplitSize
  <2>2. item.st \in {"ok", "short"} /\ (item.st = "ok" => After(l) + 1 <= n /\ item.next = After(l) + 1)
    <3>1. item = ProcessBulkItem(l, n)
      BY <1>5, UnitItem
    <3>. HIDE DEF item
    <3>. QED BY <1>1, <1>2, <2>1, <3>1 DEF ProcessBulkItem, Parsed, Short
  <2>3. After(l) + 1 <= n => ~Begins(After(l) + 1)
    <3>1. SUFFICES ASSUME After(l) + 1 <= n, Begins(After(l) + 1) PROVE FALSE
      OBVIOUS
    <3>2. n <= reply.size /\ reply.size \in Nat
      BY DEF IInv, WellFormed
    <3>3. PICK m \in Units(reply) : m.at = After(l)
      BY <1>1, <1>2, <3>1, <3>2, UnitEnds DEF Begins
    <3>4. m.at + 2 < After(m) /\ After(m) <= reply.size /\ After(m) \in Nat
      BY UnitType, UnitEnds
    <3>5. PICK u \in Units(reply) : u.at = After(l) + 1
      BY <1>1, <3>1, <3>2, <3>3, <3>4 DEF Begins
    <3>6. After(m) <= u.at
      BY <1>1, <3>3, <3>5, UnitOrder
    <3>. QED BY <1>1, <3>3, <3>4, <3>5, <3>6
  <2>. HIDE DEF item
  <2>. QED BY <1>1, <1>2, <1>5, <2>2, <2>3 DEF item
<1>6. CASE l.flag = "*"
  <2>1. After(l) = l.at + l.width
    BY <1>1, <1>6
  <2>2. Terminated(l, n)
    BY <1>6 DEF HeaderCut, Arrays
  <2>3. After(l) <= n
    BY <2>1, <2>2 DEF Terminated
  <2>4. item = IF l.num <= 0 \/ Items[After(l)][l.num].st = "ok" THEN Parsed(After(l))
               ELSE Items[After(l)][l.num]
    BY <1>6, <2>1, <2>2, UnitItem DEF ProcessMultiBulkItem
  <2>5. l.num > 0 => Items[After(l)][l.num].st \in {"ok", "short"}
    BY <1>6, <2>3 DEF PassSays
  <2>. HIDE DEF item
  <2>6. CASE l.num <= 0 \/ Items[After(l)][l.num].st = "ok"
    <3>1. item.st = "ok" /\ item.next = After(l)
      BY <2>4, <2>6 DEF Parsed
    <3>. QED BY <1>1, <2>3, <2>6, <3>1 DEF item
  <2>7. CASE l.num > 0 /\ Items[After(l)][l.num].st # "ok"
    <3>1. item = Items[After(l)][l.num]
      BY <1>1, <2>4, <2>7
    <3>. QED BY <2>5, <2>7, <3>1 DEF item
  <2>. QED BY <1>1, <2>6, <2>7
<1>. HIDE DEF item
<1>. QED BY <1>1, <1>3, <1>4, <1>5, <1>6

\* One unit more has arrived.
LEMMA ArrivedUnit ==
  ASSUME IInv, NEW l \in Units(reply), After(l) <= n
  PROVE  /\ Cardinality(Arrived(After(l))) \in Nat
         /\ Cardinality(Arrived(l.at)) = Cardinality(Arrived(After(l))) + 1
<1>1. Arrived(After(l)) \subseteq From(reply, After(l)) /\ After(l) \in Nat
  BY UnitType DEF Arrived
<1>2. IsFiniteSet(Arrived(After(l))) /\ Cardinality(Arrived(After(l))) \in Nat
  BY <1>1, FromFinite
<1>3. Arrived(l.at) = Arrived(After(l)) \cup {l} /\ l \notin Arrived(After(l))
  BY FromUnit DEF Arrived
<1>. QED BY <1>2, <1>3, FS_AddElement

LEMMA PassesSay ==
  ASSUME IInv, ~HeaderCut
  PROVE  \A p \in Nat : p <= n => \A k \in Nat : PassSays(p, k)
<1>. DEFINE S == {d \in Nat : \A p \in Nat : p <= n /\ n <= p + d => \A k \in Nat : PassSays(p, k)}
<1>1. n \in Nat
  BY DEF IInv, WellFormed
<1>2. ASSUME NEW p \in Nat PROVE PassSays(p, 0)
  <2>1. Items[p][0].st = "ok"
    BY NoneLeft
  <2>2. Cardinality(Arrived(p)) >= 0
    <3>1. Arrived(p) \subseteq From(reply, p)
      BY DEF Arrived
    <3>. QED BY <3>1, FromFinite
  <2>. QED BY <2>1, <2>2 DEF PassSays
<1>3. ASSUME NEW p \in Nat, p <= n, n <= p \/ \A l \in Units(reply) : l.at # p,
             NEW k \in Nat, k # 0
      PROVE  PassSays(p, k)
  <2>1. Item(p) = [st |-> "short", next |-> 0]
    BY <1>3, NoItem DEF Short
  <2>2. Items[p][k] = IF k = 0 THEN Parsed(p)
                      ELSE IF p > n THEN OutOfRange
                      ELSE IF Item(p).st # "ok" THEN Item(p)
                      ELSE Items[Item(p).next][k - 1]
    BY ItemsAre
  <2>3. Items[p][k].st = "short"
    BY <1>1, <1>3, <2>1, <2>2
  <2>. QED BY <2>3 DEF PassSays
<1>4. 0 \in S
  <2>. SUFFICES ASSUME NEW p \in Nat, p <= n, n <= p + 0, NEW k \in Nat PROVE PassSays(p, k)
    OBVIOUS
  <2>. QED BY <1>1, <1>2, <1>3
<1>5. ASSUME NEW d \in Nat, d \in S PROVE d + 1 \in S
  <2>. SUFFICES ASSUME NEW p \in Nat, p <= n, n <= p + (d + 1), NEW k \in Nat PROVE PassSays(p, k)
    OBVIOUS
  <2>1. \A q \in Nat : q <= n /\ p < q => \A j \in Nat : PassSays(q, j)
    <3>1. \A q \in Nat : p < q => n <= q + d
      BY <1>1
    <3>. QED BY <1>5, <3>1
  <2>. HIDE DEF S
  <2>2. CASE k = 0
    BY <1>2, <2>2
  <2>3. CASE k # 0 /\ (n <= p \/ \A l \in Units(reply) : l.at # p)
    BY <1>3, <2>3
  <2>4. CASE k # 0 /\ p < n /\ \E l \in Units(reply) : l.at = p
    <3>1. PICK l \in Units(reply) : l.at = p
      BY <2>4
    <3>2. After(l) \in Nat /\ p < After(l) /\ Begins(p) /\ Begins(After(l)) /\ l.num \in Int
      BY <3>1, UnitType, UnitEnds DEF Begins
    <3>3. l.flag = "*" /\ l.num > 0 /\ After(l) <= n => PassSays(After(l), l.num)
      BY <2>1, <3>2
    <3>4. /\ Item(p).st \in {"ok", "short"}
          /\ Item(p).st = "ok" =>
               /\ After(l) <= n
               /\ Item(p).next \in Nat /\ p < Item(p).next /\ Item(p).next <= n
               /\ Item(p).next # After(l) => ~Begins(Item(p).next)
      BY <2>4, <3>1, <3>3, UnitSays
    <3>5. Items[p][k] = IF k = 0 THEN Parsed(p)
                        ELSE IF p > n THEN OutOfRange
                        ELSE IF Item(p).st # "ok" THEN Item(p)
                        ELSE Items[Item(p).next][k - 1]
      BY ItemsAre
    <3>6. CASE Item(p).st # "ok"
      <4>1. Items[p][k] = Item(p)
        BY <1>1, <2>4, <3>5, <3>6
      <4>. QED BY <3>4, <3>6, <4>1 DEF PassSays
    <3>7. CASE Item(p).st = "ok"
      <4>1. Items[p][k] = Items[Item(p).next][k - 1] /\ k - 1 \in Nat
        BY <1>1, <2>4, <3>5, <3>7
      <4>2. PassSays(Item(p).next, k - 1)
        BY <2>1, <3>4, <3>7, <4>1
      <4>3. /\ Cardinality(Arrived(After(l))) \in Nat
            /\ Cardinality(Arrived(p)) = Cardinality(Arrived(After(l))) + 1
        BY <3>1, <3>4, <3>7, ArrivedUnit
      <4>4. Items[p][k].st = "ok" => k <= Cardinality(Arrived(p))
        <5>1. CASE Item(p).next = After(l)
          BY <3>2, <4>1, <4>2, <4>3, <5>1 DEF PassSays
        <5>2. CASE Item(p).next # After(l)
          BY <3>4, <3>7, <4>1, <4>2, <4>3, <5>2 DEF PassSays
        <5>. QED BY <5>1, <5>2
      <4>. QED BY <3>2, <4>1, <4>2, <4>4 DEF PassSays
    <3>. QED BY <3>6, <3>7
  <2>. QED BY <1>1, <2>2, <2>3, <2>4
<1>6. Nat \subseteq S
  <2>. HIDE DEF S
  <2>. QED BY <1>4, <1>5, SetInduction
<1>. SUFFICES ASSUME NEW p \in Nat, p <= n, NEW k \in Nat PROVE PassSays(p, k)
  OBVIOUS
<1>7. n <= p + n
  BY <1>1
<1>8. n \in S
  <2>. HIDE DEF S
  <2>. QED BY <1>1, <1>6
<1>. QED BY <1>7, <1>8

\* The units from p on, up to the first nested array.
Between(p, f) == {m \in From(reply, p) : m.at < f.at}

\* A pass that gets as far as the first nested array goes through its elements.
LEMMA FirstNestedPassed ==
  ASSUME IInv, ~HeaderCut, NEW f \in Nested(reply), IsFirstNested(reply, f)
  PROVE  \A p \in Nat : 0 < p /\ p <= n /\ p <= f.at /\ Begins(p) =>
           \A k \in Nat : k > Cardinality(Between(p, f)) /\ Items[p][k].st = "ok" =>
             f.at < n /\ Item(f.at).st = "ok"
<1>. DEFINE Passed(p) == \A k \in Nat : k > Cardinality(Between(p, f)) /\ Items[p][k].st = "ok" =>
                           f.at < n /\ Item(f.at).st = "ok"
            S == {d \in Nat : \A p \in Nat : 0 < p /\ p <= n /\ n <= p + d /\ p <= f.at /\ Begins(p) => Passed(p)}
<1>1. n \in Nat
  BY DEF IInv, WellFormed
<1>2. f \in Units(reply) /\ f.at \in Nat
  BY UnitType DEF Nested, Arrays
<1>3. ASSUME NEW p \in Nat, 0 < p, p <= n, p <= f.at, Begins(p), NEW k \in Nat,
             k > Cardinality(Between(p, f)), Items[p][k].st = "ok",
             \A q \in Nat : p < q /\ q <= n /\ q <= f.at /\ Begins(q) => Passed(q)
      PROVE  f.at < n /\ Item(f.at).st = "ok"
  <2>1. IsFiniteSet(Between(p, f)) /\ Cardinality(Between(p, f)) \in Nat
    <3>1. Between(p, f) \subseteq From(reply, p)
      BY DEF Between
    <3>. QED BY <3>1, FromFinite
  <2>2. k # 0 /\ k - 1 \in Nat
    BY <1>3, <2>1
  <2>3. Items[p][k] = IF k = 0 THEN Parsed(p)
                      ELSE IF p > n THEN OutOfRange
                      ELSE IF Item(p).st # "ok" THEN Item(p)
                      ELSE Items[Item(p).next][k - 1]
    BY ItemsAre
  <2>4. Item(p).st = "ok" /\ Items[p][k] = Items[Item(p).next][k - 1]
    BY <1>1, <1>3, <2>2, <2>3
  <2>5. p < n
    <3>1. CASE n <= p
      <4>1. Item(p).st = "short"
        BY <3>1, NoItem DEF Short
      <4>. QED BY <2>4, <4>1
    <3>. QED BY <1>1, <3>1
  <2>6. CASE p = f.at
    BY <2>4, <2>5, <2>6
  <2>7. CASE p < f.at
    <3>1. PICK l \in Units(reply) : l.at = p
      <4>1. f.at < reply.size /\ reply.size \in Nat
        BY <1>2, UnitEnds DEF IInv, WellFormed
      <4>. QED BY <1>2, <1>3, <2>7, <4>1 DEF Begins
    <3>2. /\ After(l) \in Nat /\ p < After(l) /\ Begins(After(l)) /\ l.num \in Int
          /\ After(l) <= f.at
      BY <1>2, <2>7, <3>1, UnitType, UnitEnds, UnitOrder
    <3>3. l.flag # "*"
      <4>1. l \notin Nested(reply)
        BY <1>2, <2>7, <3>1 DEF IsFirstNested
      <4>. QED BY <1>3, <3>1, <4>1 DEF Nested, Arrays
    <3>4. /\ After(l) <= n
          /\ Item(p).next \in Nat /\ p < Item(p).next /\ Item(p).next <= n
          /\ Item(p).next # After(l) => ~Begins(Item(p).next)
      BY <2>4, <2>5, <3>1, <3>3, UnitSays
    <3>5. Between(p, f) = Between(After(l), f) \cup {l} /\ l \notin Between(After(l), f)
      BY <2>7, <3>1, FromUnit DEF Between
    <3>6. IsFiniteSet(Between(After(l), f)) /\ Cardinality(Between(After(l), f)) \in Nat
      <4>1. Between(After(l), f) \subseteq From(reply, After(l))
        BY DEF Between
      <4>. QED BY <3>2, <4>1, FromFinite
    <3>7. Cardinality(Between(p, f)) = Cardinality(Between(After(l), f)) + 1
      BY <3>5, <3>6, FS_AddElement
    <3>8. CASE Item(p).next = After(l)
      <4>1. Passed(After(l))
        <5>. HIDE DEF Passed
        <5>. QED BY <1>3, <3>2, <3>4
      <4>2. k - 1 > Cardinality(Between(After(l), f)) /\ Items[After(l)][k - 1].st = "ok"
        BY <1>3, <2>2, <2>4, <3>6, <3>7, <3>8
      <4>. QED BY <2>2, <4>1, <4>2
    <3>9. CASE Item(p).next # After(l)
      <4>1. PassSays(Item(p).next, k - 1)
        BY <2>2, <3>4, PassesSay
      <4>2. k - 1 = 0
        BY <1>3, <2>4, <3>4, <3>9, <4>1 DEF PassSays
      <4>. QED BY <1>3, <3>6, <3>7, <4>2
    <3>. QED BY <3>8, <3>9
  <2>. QED BY <1>2, <1>3, <2>6, <2>7
<1>4. 0 \in S
  <2>. SUFFICES ASSUME NEW p \in Nat, 0 < p, p <= n, n <= p + 0, p <= f.at, Begins(p) PROVE Passed(p)
    OBVIOUS
  <2>1. \A q \in Nat : ~(p < q /\ q <= n)
    BY <1>1
  <2>. QED BY <1>3, <2>1
<1>5. ASSUME NEW d \in Nat, d \in S PROVE d + 1 \in S
  <2>. SUFFICES ASSUME NEW p \in Nat, 0 < p, p <= n, n <= p + (d + 1), p <= f.at, Begins(p)
                PROVE  Passed(p)
    OBVIOUS
  <2>1. \A q \in Nat : p < q => 0 < q /\ n <= q + d
    BY <1>1
  <2>2. \A q \in Nat : p < q /\ q <= n /\ q <= f.at /\ Begins(q) => Passed(q)
    <3>. HIDE DEF Passed
    <3>. QED BY <1>5, <2>1
  <2>. QED BY <1>3, <2>2
<1>6. Nat \subseteq S
  <2>. HIDE DEF S
  <2>. QED BY <1>4, <1>5, SetInduction
<1>. SUFFICES ASSUME NEW p \in Nat, 0 < p, p <= n, p <= f.at, Begins(p) PROVE Passed(p)
  OBVIOUS
<1>7. n <= p + n
  BY <1>1
<1>8. n \in S
  <2>. HIDE DEF S
  <2>. QED BY <1>1, <1>6
<1>. HIDE DEF Passed
<1>. QED BY <1>7, <1>8

\* A reply with a nested array has a first one.
LEMMA FirstNested ==
  ASSUME IInv, Nested(reply) # {}
  PROVE  \E f \in Nested(reply) : IsFirstNested(reply, f)
<1>. DEFINE S == {d \in Nat : \A m \in Nested(reply) : m.at <= d => \E f \in Nested(reply) : IsFirstNested(reply, f)}
<1>1. \A m \in Nested(reply) : m.at \in Nat
  BY UnitType DEF Nested, Arrays
<1>2. 0 \in S
  BY <1>1 DEF IsFirstNested
<1>3. ASSUME NEW d \in Nat, d \in S PROVE d + 1 \in S
  <2>. SUFFICES ASSUME NEW m \in Nested(reply), m.at <= d + 1
                PROVE  \E f \in Nested(reply) : IsFirstNested(reply, f)
    OBVIOUS
  <2>1. CASE \E l \in Nested(reply) : l.at < m.at
    <3>1. PICK l \in Nested(reply) : l.at < m.at
      BY <2>1
    <3>2. l.at <= d
      BY <1>1, <3>1
    <3>. QED BY <1>3, <3>2
  <2>2. CASE \A l \in Nested(reply) : ~(l.at < m.at)
    <3>1. \A l \in Nested(reply) : m.at <= l.at
      BY <1>1, <2>2
    <3>. QED BY <3>1 DEF IsFirstNested
  <2>. QED BY <2>1, <2>2
<1>4. Nat \subseteq S
  <2>. HIDE DEF S
  <2>. QED BY <1>2, <1>3, SetInduction
<1>5. PICK m : m \in Nested(reply)
  OBVIOUS
<1>6. m.at \in S /\ m.at <= m.at
  <2>. HIDE DEF S
  <2>. QED BY <1>1, <1>4, <1>5
<1>. QED BY <1>5, <1>6

LEMMA EarlyInArrays == IInv => EarlyOnlyInArrays
<1>. SUFFICES ASSUME IInv, n > 0, n < reply.size, CheckReadDataCompleted(reply, n), ~HeaderCut
              PROVE  FirstInnerArrayWhole
  BY DEF EarlyOnlyInArrays
<1>1. n \in Nat /\ reply.size \in Nat
  BY DEF IInv, WellFormed
<1>2. PICK t \in Units(reply) : t.at = 0
  BY FirstAndLast
<1>3. PICK z \in Units(reply) : After(z) = reply.size
  BY FirstAndLast
<1>4. After(t) \in Nat /\ 0 < After(t) /\ Begins(After(t)) /\ t.num \in Int
  BY <1>2, UnitType, UnitEnds
<1>5. /\ Item(0).st = "ok"
      /\ After(t) <= n
      /\ t.flag = "*" /\ t.num > 0 => Items[After(t)][t.num].st = "ok"
  <2>1. Items[0][1].st # "short"
    BY DEF CheckReadDataCompleted, ProcessItem, Items
  <2>2. PassSays(0, 1)
    BY <1>1, PassesSay
  <2>3. Items[0][1].st = "ok"
    BY <2>1, <2>2 DEF PassSays
  <2>4. Items[0][1] = IF 1 = 0 THEN Parsed(0)
                      ELSE IF 0 > n THEN OutOfRange
                      ELSE IF Item(0).st # "ok" THEN Item(0)
                      ELSE Items[Item(0).next][1 - 1]
    BY ItemsAre
  <2>5. Item(0).st = "ok"
    BY <1>1, <2>3, <2>4
  <2>6. t.flag = "*" /\ t.num > 0 /\ After(t) <= n => PassSays(After(t), t.num)
    BY <1>4, PassesSay
  <2>. QED BY <1>2, <2>5, <2>6, UnitSays
<1>6. z # t
  BY <1>1, <1>3, <1>5
<1>7. /\ t.flag = "*" /\ t.num > 0
      /\ Nested(reply) = {} => t.num = Cardinality(From(reply, After(t)))
      /\ \A f \in Nested(reply) : IsFirstNested(reply, f) =>
           t.num > Cardinality(Between(After(t), f))
  <2>1. IF t.flag # "*" \/ t.num <= 0
          THEN Units(reply) = {t}
          ELSE /\ Nested(reply) = {} => t.num = Cardinality(From(reply, After(t)))
               /\ \A f \in Nested(reply) : IsFirstNested(reply, f) =>
                    t.num > Cardinality({m \in From(reply, After(t)) : m.at < f.at})
    BY <1>2 DEF IInv, WellFormed, Counted
  <2>2. ~(t.flag # "*" \/ t.num <= 0)
    BY <1>6, <2>1
  <2>. QED BY <1>4, <2>1, <2>2 DEF Between
<1>8. t.num \in Nat /\ Items[After(t)][t.num].st = "ok"
  BY <1>4, <1>5, <1>7
\* Without nested arrays, all has arrived.
<1>9. Nested(reply) # {}
  <2>. SUFFICES ASSUME Nested(reply) = {} PROVE FALSE
    OBVIOUS
  <2>1. t.num <= Cardinality(Arrived(After(t)))
    BY <1>4, <1>5, <1>8, PassesSay DEF PassSays
  <2>2. Arrived(After(t)) \subseteq From(reply, After(t))
    BY DEF Arrived
  <2>3. Arrived(After(t)) = From(reply, After(t))
    BY <1>4, <1>7, <2>1, <2>2, FromFinite
  <2>4. z \in From(reply, After(t))
    <3>1. z.at \in Nat
      BY UnitType
    <3>2. After(t) <= z.at
      BY <1>2, <1>6, <3>1, UnitOrder
    <3>. QED BY <3>2 DEF From
  <2>. QED BY <1>1, <1>3, <2>3, <2>4 DEF Arrived
<1>10. PICK f \in Nested(reply) : IsFirstNested(reply, f)
  BY <1>9, FirstNested
<1>11. /\ f \in Units(reply) /\ f.flag = "*" /\ 0 < f.at /\ f.at \in Nat /\ f.num \in Int
       /\ After(f) \in Nat
  BY UnitType DEF Nested, Arrays
<1>12. After(t) <= f.at
  BY <1>2, <1>11, UnitOrder
<1>13. f.at < n /\ Item(f.at).st = "ok"
  BY <1>4, <1>5, <1>7, <1>8, <1>10, <1>12, FirstNestedPassed
<1>14. Terminated(f, n)
  BY <1>11, <1>13 DEF HeaderCut, Arrays
<1>15. /\ After(f) <= n
       /\ f.num > 0 => Items[After(f)][f.num].st = "ok"
  <2>1. f.flag = "*" /\ f.num > 0 /\ After(f) <= n => PassSays(After(f), f.num)
    BY <1>11, PassesSay
  <2>. QED BY <1>11, <1>13, <2>1, UnitSays
<1>16. f.num <= Cardinality(Arrived(After(f)))
  <2>1. Cardinality(Arrived(After(f))) \in Nat
    <3>1. Arrived(After(f)) \subseteq From(reply, After(f))
      BY DEF Arrived
    <3>. QED BY <1>11, <3>1, FromFinite
  <2>2. CASE f.num <= 0
    BY <1>11, <2>1, <2>2
  <2>3. CASE f.num > 0
    <3>1. PassSays(After(f), f.num) /\ Begins(After(f))
      BY <1>11, <1>15, <2>3, PassesSay, UnitEnds
    <3>. QED BY <1>15, <2>3, <3>1 DEF PassSays
  <2>. QED BY <1>11, <2>2, <2>3
<1>. QED BY <1>10, <1>14, <1>16 DEF FirstInnerArrayWhole

-----------------------------------------------------------------------------
(* Theorems.                                                               *)

LEMMA Arriving == Spec => []IInv
<1>1. Init => IInv
  BY ReplyArrivalAssumption DEF Init, IInv, WellFormed
<1>2. IInv /\ [Next]_<<reply, n>> => IInv'
  <2>. SUFFICES ASSUME IInv, [Next]_<<reply, n>> PROVE IInv'
    OBVIOUS
  <2>1. reply' = reply /\ (n' = n \/ (n < reply.size /\ n' = n + 1))
    BY DEF Next, Arrive
  <2>2. reply.size \in Nat /\ n \in 0..reply.size /\ WellFormed(reply)
    BY DEF IInv, WellFormed
  <2>3. n' \in 0..reply.size
    BY <2>1, <2>2
  <2>4. WellFormed(reply')
    BY <2>1, <2>2
  <2>. QED BY <2>1, <2>3, <2>4 DEF IInv
<1>. QED BY <1>1, <1>2, PTL DEF Spec

\* The completeness test is never late, for any well-formed reply without nil.
THEOREM NeverLate == Spec => []EntireReplyIsComplete
BY Arriving, EntireComplete, PTL

\* The completeness test is early in the two known situations only, for any
\* well-formed reply.
THEOREM EarlyExplained == Spec => []EarlyOnlyInArrays
BY Arriving, EarlyInArrays, PTL

-----------------------------------------------------------------------------
(* What is typed.  While pharseReq goes through the text, a name and a value *)
(* are stretches of it.                                                      *)

\* The stretch of the text from a to b.
Stretch(a, b) == SubSeq(text, a, b)

\* A flag at b, its name and a blank.
Named(b, name) ==
  /\ b \in 1..Len(text) /\ IsFlag(text, b)
  /\ name \in Seq(Chars) /\ b + Len(name) + 1 <= Len(text)
  /\ Stretch(b + 1, b + Len(name)) = name
  /\ text[b + Len(name) + 1] = Blank

\* Where the name and the value collected up to i stand.
Standing(s, i) ==
  \/ s.flag = 0 /\ s.ss = <<>> /\ s.key = <<>>
  \/ /\ s.flag = 1 /\ i \in 1..Len(text)
     /\ text[i] = Blank => s.ss = <<>>
     /\ \E b \in 1..i : /\ Named(b, s.key) /\ b + Len(s.key) + 1 <= i
                        /\ s.ss = Stretch(b + Len(s.key) + 2, i)
  \/ /\ s.flag = 2 /\ i \in 1..Len(text)
     /\ text[i] # Blank
     /\ \E a \in 1..i : /\ IsFlag(text, a)
                        /\ s.ss = Stretch(a + 1, i)
                        /\ \/ s.key = <<>>
                           \/ \E b \in 1..i : Named(b, s.key) /\ b + Len(s.key) + 2 = a

\* The parameters found so far follow their names.
AllFollow(info) == \A p \in DOMAIN info : Follows(p, info[p])

Collected(s, i) ==
  /\ s \in [flag : 0..2, ss : Seq(Chars), key : Seq(Chars), info : {s.info}]
  /\ AllFollow(s.info)
  /\ i < Len(text) => Standing(s, i)

Typed == text \in Seq(Chars)

\* A stretch and its length.
LEMMA StretchIs ==
  ASSUME Typed, NEW a \in Nat, NEW b \in Nat, 0 < a, a <= b + 1, b <= Len(text)
  PROVE  /\ Stretch(a, b) \in Seq(Chars) /\ Len(Stretch(a, b)) = b + 1 - a
         /\ a = b + 1 => Stretch(a, b) = <<>>
<1>1. Len(text) \in Nat /\ \A i \in 1..Len(text) : text[i] \in Chars
  BY DEF Typed
<1>2. SubSeq(text, a, b) \in Seq(Chars) /\ Len(SubSeq(text, a, b)) = b + 1 - a
  BY <1>1
<1>3. a = b + 1 => SubSeq(text, a, b) = <<>>
  BY SubSeqEmpty
<1>. QED BY <1>2, <1>3 DEF Stretch

\* One character.
LEMMA StretchOne ==
  ASSUME Typed, NEW a \in Nat, 0 < a, a <= Len(text)
  PROVE  Stretch(a, a) = <<text[a]>>
<1>1. text[a] \in Chars /\ \A i \in a..a : text[i] \in Chars
  BY DEF Typed
<1>2. \A i \in 1..(a - a + 1) : SubSeq(text, a, a)[i] = text[a + i - 1]
  BY ONLY <1>1, a \in Int, SubSeqProperties
<1>3. 1 \in 1..(a - a + 1) /\ a + 1 - 1 = a
  OBVIOUS
<1>4. Stretch(a, a)[1] = text[a]
  BY <1>2, <1>3 DEF Stretch
<1>5. Stretch(a, a) \in Seq(Chars) /\ Len(Stretch(a, a)) = 1
  <2>1. Stretch(a, a) \in Seq(Chars) /\ Len(Stretch(a, a)) = a + 1 - a
    <3>1. a <= a + 1
      OBVIOUS
    <3>. QED BY <3>1, StretchIs
  <2>2. a + 1 - a = 1
    OBVIOUS
  <2>. QED BY <2>1, <2>2
<1>. QED BY ONLY <1>1, <1>4, <1>5

\* One character more.
LEMMA StretchGrows ==
  ASSUME Typed, NEW a \in Nat, NEW b \in Nat, NEW e \in Nat, 0 < a, a <= b, b <= Len(text), b = e + 1
  PROVE  Append(Stretch(a, e), text[b]) = Stretch(a, b)
<1>1. a \in 1..Len(text) /\ b \in a..Len(text) /\ text \in Seq(Chars)
  BY DEF Typed
<1>2. SubSeq(text, a, b) = SubSeq(text, a, b - 1) \o <<text[b]>>
  BY ONLY <1>1, SubSeqRecursiveSecond
<1>3. b - 1 = e
  OBVIOUS
<1>4. Stretch(a, e) \in Seq(Chars) /\ text[b] \in Chars
  <2>1. a <= e + 1 /\ e <= Len(text) /\ text[b] \in Chars
    BY DEF Typed
  <2>. QED BY <2>1, StretchIs
<1>5. \A s \in Seq(Chars) : \A x \in Chars : Append(s, x) = s \o <<x>>
  OBVIOUS
<1>. QED BY <1>2, <1>3, <1>4, <1>5 DEF Stretch

\* Two stretches, one behind the other.
LEMMA StretchJoins ==
  ASSUME Typed, NEW a \in Nat, NEW b \in Nat, NEW c \in Nat, NEW d \in Nat,
         0 < a, a <= d, d = b + 1, b <= c, c <= Len(text)
  PROVE  Stretch(a, b) \o Stretch(d, c) = Stretch(a, c)
<1>1. a \in 1..(Len(text) + 1) /\ b \in (a - 1)..Len(text) /\ c \in b..Len(text) /\ text \in Seq(Chars)
  BY DEF Typed
<1>2. SubSeq(text, a, b) \o SubSeq(text, b + 1, c) = SubSeq(text, a, c)
  BY ONLY <1>1, ConcatAdjacentSubSeq
<1>. QED BY <1>2 DEF Stretch

\* A name behind its flag, with the blank.
LEMMA NameBlank ==
  ASSUME Typed, NEW b, NEW name, Named(b, name)
  PROVE  SubSeq(text, b + 1, b + 1 + Len(name \o <<Blank>>) - 1) = name \o <<Blank>>
<1>1. /\ b \in Nat /\ 0 < b /\ Len(name) \in Nat /\ Len(text) \in Nat
      /\ b + Len(name) + 1 <= Len(text) /\ name \in Seq(Chars)
      /\ Stretch(b + 1, b + Len(name)) = name /\ text[b + Len(name) + 1] = Blank
  BY DEF Named, Typed
<1>2. PICK x \in Nat : x = b + 1
  BY <1>1
<1>3. PICK y \in Nat : y = b + Len(name)
  BY <1>1
<1>4. PICK z \in Nat : z = b + Len(name) + 1
  BY <1>1
<1>5. Stretch(x, y) \o Stretch(z, z) = Stretch(x, z) /\ Stretch(z, z) = <<text[z]>>
  <2>1. /\ 0 < x /\ x <= y + 1 /\ y <= Len(text) /\ y <= z /\ z <= Len(text) /\ z = y + 1
        /\ 0 < z /\ z <= z + 1
    BY <1>1, <1>2, <1>3, <1>4
  <2>2. Stretch(z, z) = <<text[z]>>
    BY ONLY Typed, z \in Nat, <2>1, StretchOne
  <2>3. Stretch(x, y) \o Stretch(z, z) = Stretch(x, z)
    BY ONLY Typed, x \in Nat, y \in Nat, z \in Nat, <2>1, StretchJoins, ZenonT(40)
  <2>. QED BY <2>2, <2>3
<1>6. Stretch(x, z) = name \o <<Blank>>
  BY <1>1, <1>2, <1>3, <1>4, <1>5
<1>7. Len(name \o <<Blank>>) = Len(name) + 1
  BY <1>1
<1>8. x + (Len(name) + 1) - 1 = z
  BY <1>1, <1>2, <1>4
<1>. QED BY <1>2, <1>6, <1>7, <1>8 DEF Stretch

\* A value that stands behind its name and ends with its word or with the text.
LEMMA ValueFollows ==
  ASSUME Typed, NEW b, NEW name \in DOMAIN Param, Named(b, name),
         NEW v \in Nat, v = b + Len(name) + 2,
         NEW c \in Nat, v <= c + 1, c <= Len(text), c = Len(text) \/ text[c + 1] = Blank
  PROVE  Follows(Param[name], Stretch(v, c))
<1>1. /\ b \in Nat /\ 0 < b /\ Len(name) \in Nat /\ Len(text) \in Nat /\ IsFlag(text, b)
      /\ b \in DOMAIN text
  BY DEF Named, Typed
<1>. DEFINE word == Stretch(v, c)
<1>2. Len(word) = c + 1 - v
  <2>1. 0 < v
    BY <1>1
  <2>. QED BY <2>1, StretchIs
<1>3. v + Len(word) - 1 = c /\ v + Len(word) = c + 1
  BY <1>1, <1>2
<1>4. SubSeq(text, v, v + Len(word) - 1) = word
  BY <1>3 DEF Stretch
<1>5. v + Len(word) = Len(text) + 1 \/ text[v + Len(word)] = Blank
  BY <1>3
<1>6. SubSeq(text, b + 1, b + 1 + Len(name \o <<Blank>>) - 1) = name \o <<Blank>>
  BY NameBlank
<1>. HIDE DEF word
<1>. QED BY <1>1, <1>4, <1>5, <1>6 DEF Follows, word

\* The last word, behind a dash that is dropped.
LEMMA DashedFollows ==
  ASSUME Typed, NEW b, NEW name \in DOMAIN Param, Named(b, name), NEW a \in 1..Len(text),
         a = b + Len(name) + 2, IsFlag(text, a), NEW d \in Nat, d = a + 1,
         NEW c \in Nat, c = Len(text)
  PROVE  Follows(Param[name], Stretch(d, c))
<1>1. /\ b \in Nat /\ 0 < b /\ Len(name) \in Nat /\ Len(text) \in Nat /\ IsFlag(text, b)
      /\ b \in DOMAIN text /\ a \in Nat /\ 0 < a
  BY DEF Named, Typed
<1>. DEFINE word == Stretch(d, c)
            dashed == <<"-">> \o word
<1>2. word \in Seq(Chars) /\ Len(word) = c + 1 - d
  <2>1. 0 < d /\ d <= c + 1 /\ c <= Len(text)
    BY <1>1
  <2>. QED BY <2>1, StretchIs
<1>3. dashed = Stretch(a, c)
  <2>0. 0 < a /\ a <= d /\ a <= Len(text) /\ a <= c /\ c <= Len(text)
    BY <1>1
  <2>3. Stretch(a, a) = <<text[a]>>
    BY <1>1, <2>0, StretchOne
  <2>1. Stretch(a, a) \o Stretch(d, c) = Stretch(a, c)
    BY ONLY Typed, a \in Nat, c \in Nat, d \in Nat, d = a + 1, <2>0, StretchJoins, ZenonT(40)
  <2>2. text[a] = "-"
    BY DEF IsFlag
  <2>. QED BY <2>1, <2>2, <2>3
<1>4. Len(dashed) = c + 1 - a
  <2>1. Len(Stretch(a, c)) = c + 1 - a
    <3>1. 0 < a /\ a <= c + 1 /\ c <= Len(text)
      BY <1>1
    <3>. QED BY ONLY <1>1, <3>1, c \in Nat, Typed, StretchIs
  <2>. HIDE DEF dashed
  <2>. QED BY <1>3, <2>1
<1>. HIDE DEF dashed
<1>5. a + Len(dashed) - 1 = Len(text) /\ a + 1 + Len(word) = Len(text) + 1
  BY <1>1, <1>2, <1>4
<1>6. SubSeq(text, a, a + Len(dashed) - 1) = dashed
  BY <1>3, <1>5 DEF Stretch
<1>7. SubSeq(text, b + 1, b + 1 + Len(name \o <<Blank>>) - 1) = name \o <<Blank>>
  BY NameBlank
<1>. HIDE DEF word
<1>. QED BY <1>1, <1>5, <1>6, <1>7 DEF Follows, word, dashed

-----------------------------------------------------------------------------
(* One character after the other.                                          *)

\* No parameter has an empty name.
LEMMA NoEmptyName == <<>> \notin DOMAIN Param
BY ParamTextAssumption

\* What Settle makes of a parameter: nothing, or one that follows its name.
LEMMA Settled ==
  ASSUME NEW s, s \in [flag : 0..2, ss : Seq(Chars), key : Seq(Chars), info : {s.info}],
         AllFollow(s.info), s.key \in DOMAIN Param => Follows(Param[s.key], s.ss)
  PROVE  /\ Settle(s).flag = 0 /\ Settle(s).ss = <<>> /\ Settle(s).key = <<>>
         /\ Settle(s) \in [flag : 0..2, ss : Seq(Chars), key : Seq(Chars), info : {Settle(s).info}]
         /\ AllFollow(Settle(s).info)
<1>. DEFINE info == IF s.key \in DOMAIN Param THEN Put(s.info, Param[s.key], s.ss) ELSE s.info
<1>1. Settle(s) = [flag |-> 0, ss |-> <<>>, key |-> <<>>, info |-> info]
  BY DEF Settle
<1>2. AllFollow(info)
  <2>1. CASE s.key \notin DOMAIN Param
    BY <2>1
  <2>2. CASE s.key \in DOMAIN Param
    <3>. DEFINE p == Param[s.key]
    <3>1. info = [x \in DOMAIN s.info \cup {p} |-> IF x = p THEN s.ss ELSE s.info[x]]
      BY <2>2 DEF Put
    <3>. HIDE DEF info
    <3>2. ASSUME NEW x \in DOMAIN info PROVE Follows(x, info[x])
      <4>1. CASE x = p
        BY <2>2, <3>1, <4>1
      <4>2. CASE x # p
        BY <3>1, <3>2, <4>2 DEF AllFollow
      <4>. QED BY <4>1, <4>2
    <3>. QED BY <3>2 DEF AllFollow
  <2>. QED BY <2>1, <2>2
<1>. HIDE DEF info
<1>3. <<>> \in Seq(Chars)
  OBVIOUS
<1>. QED BY <1>1, <1>2, <1>3

\* Something else collected.
LEMMA OtherSs ==
  ASSUME NEW s, s = [flag |-> s.flag, ss |-> s.ss, key |-> s.key, info |-> s.info], NEW x
  PROVE  [s EXCEPT !.ss = x] = [flag |-> s.flag, ss |-> x, key |-> s.key, info |-> s.info]
OBVIOUS

\* A character goes on with what has been collected, and settles only what stands
\* behind its name.
LEMMA LookCollects ==
  ASSUME Typed, NEW i \in 1..Len(text), NEW s, Collected(s, i - 1)
  PROVE  Collected(Look(text, s, i), i)
<1>. DEFINE t == Look(text, s, i)
<1>0. /\ i \in Nat /\ 0 < i /\ i <= Len(text) /\ Len(text) \in Nat /\ text[i] \in Chars
      /\ i - 1 < Len(text)
  BY DEF Typed
<1>1. /\ s \in [flag : 0..2, ss : Seq(Chars), key : Seq(Chars), info : {s.info}]
      /\ AllFollow(s.info) /\ Standing(s, i - 1)
  BY <1>0 DEF Collected
<1>2. s.flag \in 0..2 /\ s.ss \in Seq(Chars) /\ s.key \in Seq(Chars)
  BY <1>1
<1>9. s = [flag |-> s.flag, ss |-> s.ss, key |-> s.key, info |-> s.info]
  BY <1>1
\* A dash that begins a flag.
<1>3. CASE IsFlag(text, i)
  <2>1. t = [flag |-> 2, ss |-> s.ss, key |-> s.key, info |-> s.info]
    <3>0. text[i] # Blank
      BY <1>3 DEF IsFlag, Blank
    <3>1. t = [s EXCEPT !.flag = 2]
      BY ONLY <1>3, <3>0 DEF Look
    <3>2. [s EXCEPT !.flag = 2]
            = [flag |-> 2, ss |-> s.ss, key |-> s.key, info |-> s.info]
      BY <1>9
    <3>. QED BY ONLY <3>1, <3>2
  <2>2. text[i] = "-" /\ text[i] # Blank
    BY <1>3 DEF IsFlag, Blank
  <2>3. Stretch(i + 1, i) = <<>>
    BY <1>0, StretchIs
  <2>4. CASE s.flag = 0
    <3>1. s.ss = <<>> /\ s.key = <<>>
      BY <1>1, <2>4 DEF Standing
    <3>2. Standing(t, i)
      BY <1>0, <1>3, <2>1, <2>2, <2>3, <3>1 DEF Standing
    <3>. QED BY <1>1, <1>2, <2>1, <3>2 DEF Collected
  <2>5. CASE s.flag # 0
    <3>1. i - 1 \in 1..Len(text)
      BY <1>1, <2>5 DEF Standing
    <3>2. text[i - 1] = Blank
      BY <1>3, <3>1 DEF IsFlag
    <3>3. s.flag = 1 /\ s.ss = <<>>
      BY <1>1, <2>5, <3>2 DEF Standing
    <3>4. PICK b \in 1..(i - 1) : /\ Named(b, s.key) /\ b + Len(s.key) + 1 <= i - 1
                                  /\ s.ss = Stretch(b + Len(s.key) + 2, i - 1)
      BY <1>1, <3>3 DEF Standing
    <3>5. b + Len(s.key) + 2 = i
      <4>1. PICK v \in Nat : v = b + Len(s.key) + 2
        BY <1>2
      <4>2. PICK e \in Nat : e = i - 1
        BY <1>0
      <4>3. 0 < v /\ v <= e + 1 /\ e <= Len(text)
        BY <1>0, <1>2, <3>4, <4>1, <4>2
      <4>4. Len(Stretch(v, e)) = e + 1 - v
        BY <4>3, StretchIs
      <4>5. Len(Stretch(v, e)) = 0
        BY <3>3, <3>4, <4>1, <4>2
      <4>6. e + 1 - v = 0
        BY <4>4, <4>5
      <4>. QED BY ONLY <1>0, <4>1, <4>2, <4>6
    <3>6. b \in 1..i
      BY <1>0, <3>4
    <3>7. Standing(t, i)
      BY <1>0, <1>3, <2>1, <2>2, <2>3, <3>3, <3>4, <3>5, <3>6 DEF Standing
    <3>. QED BY <1>1, <1>2, <2>1, <3>7 DEF Collected
  <2>. QED BY <2>4, <2>5
\* The last character.
<1>4. CASE ~IsFlag(text, i) /\ i = Len(text)
  <2>. DEFINE r == [flag |-> s.flag, ss |-> Append(s.ss, text[i]), key |-> s.key, info |-> s.info]
  <2>1. t = Settle(r)
    <3>1. t = Settle([s EXCEPT !.ss = Append(@, text[i])])
      BY <1>4 DEF Look
    <3>2. [s EXCEPT !.ss = Append(@, text[i])] = r
      BY ONLY <1>9, OtherSs
    <3>. QED BY <3>1, <3>2
  <2>2. /\ r \in [flag : 0..2, ss : Seq(Chars), key : Seq(Chars), info : {r.info}]
        /\ r.info = s.info /\ r.key = s.key /\ r.ss = Append(s.ss, text[i])
    BY <1>0, <1>2
  <2>. HIDE DEF r
  <2>3. r.key \in DOMAIN Param => Follows(Param[r.key], r.ss)
    <3>. SUFFICES ASSUME s.key \in DOMAIN Param PROVE Follows(Param[s.key], Append(s.ss, text[i]))
      BY <2>2
    <3>1. s.key # <<>>
      BY NoEmptyName
    <3>2. PICK e \in Nat : i = e + 1 /\ e = i - 1
      BY <1>0
    <3>3. CASE s.flag = 1
      <4>1. PICK b \in 1..(i - 1) : /\ Named(b, s.key) /\ b + Len(s.key) + 1 <= i - 1
                                    /\ s.ss = Stretch(b + Len(s.key) + 2, i - 1)
        BY <1>1, <3>3 DEF Standing
      <4>2. PICK v \in Nat : v = b + Len(s.key) + 2
        BY <1>2
      <4>3. 0 < v /\ v <= i /\ v <= i + 1
        BY <1>0, <1>2, <4>1, <4>2
      <4>4. Append(Stretch(v, e), text[i]) = Stretch(v, i)
        BY <1>0, <3>2, <4>3, StretchGrows
      <4>5. Follows(Param[s.key], Stretch(v, i))
        BY <1>0, <1>4, <4>1, <4>2, <4>3, ValueFollows
      <4>. QED BY <3>2, <4>1, <4>2, <4>4, <4>5
    <3>4. CASE s.flag = 2
      <4>1. PICK a \in 1..(i - 1), b \in 1..(i - 1) :
              /\ IsFlag(text, a) /\ s.ss = Stretch(a + 1, i - 1)
              /\ Named(b, s.key) /\ b + Len(s.key) + 2 = a
        BY <1>1, <3>1, <3>4 DEF Standing
      <4>2. PICK d \in Nat : d = a + 1
        OBVIOUS
      <4>3. 0 < d /\ d <= i /\ a \in 1..Len(text)
        BY <1>0, <4>1, <4>2
      <4>4. Append(Stretch(d, e), text[i]) = Stretch(d, i)
        BY <1>0, <3>2, <4>3, StretchGrows
      <4>5. Follows(Param[s.key], Stretch(d, i))
        BY <1>0, <1>4, <4>1, <4>2, <4>3, DashedFollows
      <4>. QED BY <3>2, <4>1, <4>2, <4>4, <4>5
    <3>. QED BY <1>1, <3>1, <3>3, <3>4 DEF Standing
  <2>4. AllFollow(r.info)
    BY <1>1, <2>2
  <2>5. /\ t \in [flag : 0..2, ss : Seq(Chars), key : Seq(Chars), info : {t.info}]
        /\ AllFollow(t.info)
    BY <2>1, <2>2, <2>3, <2>4, Settled
  <2>. QED BY <1>0, <1>4, <2>5 DEF Collected
\* A blank behind a value.
<1>5. CASE ~IsFlag(text, i) /\ i < Len(text) /\ text[i] = Blank /\ s.flag = 1
  <2>1. t = Settle(s)
    BY <1>5 DEF Look
  <2>2. s.key \in DOMAIN Param => Follows(Param[s.key], s.ss)
    <3>. SUFFICES ASSUME s.key \in DOMAIN Param PROVE Follows(Param[s.key], s.ss)
      OBVIOUS
    <3>1. PICK b \in 1..(i - 1) : /\ Named(b, s.key) /\ b + Len(s.key) + 1 <= i - 1
                                  /\ s.ss = Stretch(b + Len(s.key) + 2, i - 1)
      BY <1>1, <1>5 DEF Standing
    <3>2. PICK v \in Nat : v = b + Len(s.key) + 2
      BY <1>2
    <3>3. PICK e \in Nat : i = e + 1 /\ e = i - 1
      BY <1>0
    <3>4. v <= e + 1 /\ e <= Len(text) /\ text[e + 1] = Blank
      BY <1>0, <1>2, <1>5, <3>1, <3>2, <3>3
    <3>5. Follows(Param[s.key], Stretch(v, e))
      BY <3>1, <3>2, <3>4, ValueFollows
    <3>. QED BY <3>1, <3>2, <3>3, <3>5
  <2>3. /\ t.flag = 0 /\ t.ss = <<>> /\ t.key = <<>>
        /\ t \in [flag : 0..2, ss : Seq(Chars), key : Seq(Chars), info : {t.info}]
        /\ AllFollow(t.info)
    BY <1>1, <2>1, <2>2, Settled
  <2>. QED BY <2>3 DEF Collected, Standing
\* A blank behind a name.
<1>6. CASE ~IsFlag(text, i) /\ i < Len(text) /\ text[i] = Blank /\ s.flag = 2
  <2>1. t = [flag |-> 1, ss |-> <<>>, key |-> s.ss, info |-> s.info]
    BY <1>6 DEF Look
  <2>2. PICK a \in 1..(i - 1) : IsFlag(text, a) /\ s.ss = Stretch(a + 1, i - 1)
    BY <1>1, <1>6 DEF Standing
  <2>3. PICK d \in Nat : d = a + 1
    OBVIOUS
  <2>4. PICK e \in Nat : i = e + 1 /\ e = i - 1
    BY <1>0
  <2>5. a + Len(s.ss) + 1 = i
    <3>1. 0 < d /\ d <= e + 1 /\ e <= Len(text)
      BY <1>0, <2>3, <2>4
    <3>2. Len(Stretch(d, e)) = e + 1 - d
      BY <3>1, StretchIs
    <3>. QED BY <2>2, <2>3, <2>4, <3>1, <3>2
  <2>6. Named(a, s.ss)
    <3>1. a + Len(s.ss) = i - 1 /\ a \in 1..Len(text)
      BY <1>0, <1>2, <2>2, <2>5
    <3>. QED BY <1>0, <1>2, <1>6, <2>2, <2>5, <3>1 DEF Named
  <2>7. Stretch(a + Len(s.ss) + 2, i) = <<>>
    <3>1. a + Len(s.ss) + 2 = i + 1
      BY <1>0, <1>2, <2>5
    <3>2. Stretch(i + 1, i) = <<>>
      BY <1>0, StretchIs
    <3>. QED BY <3>1, <3>2
  <2>8. a \in 1..i /\ a + Len(s.ss) + 1 <= i /\ i \in 1..Len(text)
    BY <1>0, <2>2, <2>5
  <2>9. Standing(t, i)
    BY <2>1, <2>6, <2>7, <2>8 DEF Standing
  <2>10. <<>> \in Seq(Chars)
    OBVIOUS
  <2>. QED BY <1>1, <1>2, <2>1, <2>9, <2>10 DEF Collected
\* A character of a name or of a value.
<1>7. CASE ~IsFlag(text, i) /\ i < Len(text) /\ text[i] # Blank /\ s.flag # 0
  <2>1. t = [flag |-> s.flag, ss |-> Append(s.ss, text[i]), key |-> s.key, info |-> s.info]
    <3>1. t = [s EXCEPT !.ss = Append(@, text[i])]
      BY <1>7 DEF Look
    <3>2. [s EXCEPT !.ss = Append(@, text[i])]
            = [flag |-> s.flag, ss |-> Append(s.ss, text[i]), key |-> s.key, info |-> s.info]
      BY ONLY <1>9, OtherSs
    <3>. QED BY ONLY <3>1, <3>2
  <2>2. PICK e \in Nat : i = e + 1 /\ e = i - 1
    BY <1>0
  <2>3. i \in 1..Len(text)
    OBVIOUS
  <2>6. /\ t \in [flag : 0..2, ss : Seq(Chars), key : Seq(Chars), info : {t.info}]
        /\ AllFollow(t.info)
    <3>1. Append(s.ss, text[i]) \in Seq(Chars)
      BY <1>0, <1>2
    <3>2. t.info = s.info
      BY <2>1
    <3>. QED BY <1>1, <1>2, <2>1, <3>1, <3>2
  <2>4. CASE s.flag = 1
    <3>1. PICK b \in 1..(i - 1) : /\ Named(b, s.key) /\ b + Len(s.key) + 1 <= i - 1
                                  /\ s.ss = Stretch(b + Len(s.key) + 2, i - 1)
      BY <1>1, <2>4 DEF Standing
    <3>2. PICK v \in Nat : v = b + Len(s.key) + 2
      BY <1>2
    <3>3. 0 < v /\ v <= i /\ b \in 1..i /\ b + Len(s.key) + 1 <= i
      BY <1>0, <1>2, <3>1, <3>2
    <3>4. Append(Stretch(v, e), text[i]) = Stretch(v, i)
      BY <1>0, <2>2, <3>3, StretchGrows
    <3>5. t.ss = Stretch(b + Len(t.key) + 2, i)
      BY <2>1, <2>2, <3>1, <3>2, <3>4
    <3>6. t.flag = 1 /\ t.key = s.key
      BY <2>1, <2>4
    <3>7. Standing(t, i)
      <4>. HIDE DEF t
      <4>. QED BY <1>7, <2>3, <3>1, <3>3, <3>5, <3>6 DEF Standing
    <3>. QED BY ONLY <2>6, <3>7 DEF Collected
  <2>5. CASE s.flag = 2
    <3>1. PICK a \in 1..(i - 1) :
            /\ IsFlag(text, a) /\ s.ss = Stretch(a + 1, i - 1)
            /\ \/ s.key = <<>>
               \/ \E b \in 1..(i - 1) : Named(b, s.key) /\ b + Len(s.key) + 2 = a
      BY <1>1, <2>5 DEF Standing
    <3>2. PICK d \in Nat : d = a + 1
      OBVIOUS
    <3>3. 0 < d /\ d <= i /\ a \in 1..i
      BY <1>0, <3>1, <3>2
    <3>4. Append(Stretch(d, e), text[i]) = Stretch(d, i)
      BY <1>0, <2>2, <3>3, StretchGrows
    <3>5. t.ss = Stretch(a + 1, i)
      BY <2>1, <2>2, <3>1, <3>2, <3>4
    <3>6. t.flag = 2 /\ t.key = s.key
      BY <2>1, <2>5
    <3>7. \/ t.key = <<>>
          \/ \E b \in 1..i : Named(b, t.key) /\ b + Len(t.key) + 2 = a
      BY <1>0, <3>1, <3>6
    <3>8. Standing(t, i)
      <4>. HIDE DEF t
      <4>. QED BY <1>7, <2>3, <3>1, <3>3, <3>5, <3>6, <3>7 DEF Standing
    <3>. QED BY ONLY <2>6, <3>8 DEF Collected
  <2>. QED BY <1>2, <1>7, <2>4, <2>5
\* A character in front of the first flag.
<1>8. CASE ~IsFlag(text, i) /\ i < Len(text) /\ s.flag = 0
  <2>1. t = s
    BY <1>8 DEF Look
  <2>. QED BY <1>1, <1>8, <2>1 DEF Collected, Standing
<1>10. (s.flag = 0 \/ s.flag = 1 \/ s.flag = 2) /\ (i = Len(text) \/ i < Len(text))
  BY <1>0, <1>2
<1>. QED BY ONLY <1>3, <1>4, <1>5, <1>6, <1>7, <1>8, <1>10

-----------------------------------------------------------------------------
(* The whole text.                                                         *)

Start == [flag |-> 0, ss |-> <<>>, key |-> <<>>, info |-> <<>>]

\* f is what has been collected at each character up to m.
Reads(f, m) == f[0] = Start /\ \A i \in 1..m : f[i] = Look(text, f[i - 1], i)

LEMMA ReadExists ==
  ASSUME NEW m \in Nat
  PROVE  \E f : Reads(f, m)
<1>. DEFINE N == {k \in Nat : \E f : Reads(f, k)}
<1>1. 0 \in N
  <2>. DEFINE f == [i \in 0..0 |-> Start]
  <2>1. Reads(f, 0)
    BY DEF Reads
  <2>. QED BY <2>1
<1>2. ASSUME NEW k \in Nat, k \in N PROVE k + 1 \in N
  <2>1. PICK f : Reads(f, k)
    BY <1>2
  <2>. DEFINE g == [i \in 0..(k + 1) |-> IF i = k + 1 THEN Look(text, f[k], k + 1) ELSE f[i]]
  <2>2. g[0] = Start
    BY <2>1 DEF Reads
  <2>3. ASSUME NEW i \in 1..(k + 1) PROVE g[i] = Look(text, g[i - 1], i)
    <3>0. i \in 0..(k + 1) /\ i - 1 \in 0..(k + 1) /\ i - 1 # k + 1
      OBVIOUS
    <3>1. g[i - 1] = f[i - 1]
      BY <3>0
    <3>2. CASE i = k + 1
      <4>1. g[i] = Look(text, f[k], k + 1) /\ i - 1 = k
        BY <3>0, <3>2
      <4>. HIDE DEF g
      <4>. QED BY <3>1, <3>2, <4>1
    <3>3. CASE i # k + 1
      <4>1. g[i] = f[i] /\ i \in 1..k
        BY <3>0, <3>3
      <4>2. f[i] = Look(text, f[i - 1], i)
        BY <2>1, <4>1 DEF Reads
      <4>. HIDE DEF g
      <4>. QED BY <3>1, <4>1, <4>2
    <3>. QED BY <3>2, <3>3
  <2>. HIDE DEF g
  <2>4. Reads(g, k + 1)
    BY <2>2, <2>3 DEF Reads
  <2>. QED BY <2>4
<1>. HIDE DEF N
<1>3. Nat \subseteq N
  BY <1>1, <1>2, SetInduction
<1>4. m \in N
  BY <1>3
<1>. QED BY <1>4 DEF N

\* pharseReq returns the parameters collected at the last character.
LEMMA ReadIsCollected ==
  ASSUME Typed
  PROVE  \E f : Reads(f, Len(text)) /\ PharseReq(text) = f[Len(text)].info
<1>. DEFINE Step(f, i) == IF i = 0 THEN Start ELSE Look(text, f[i - 1], i)
            c == CHOOSE f : f = [i \in 0..Len(text) |-> Step(f, i)]
<1>0. Len(text) \in Nat
  BY DEF Typed
<1>1. PICK f : Reads(f, Len(text))
  BY <1>0, ReadExists
<1>. DEFINE g == [i \in 0..Len(text) |-> f[i]]
<1>2. ASSUME NEW i \in 0..Len(text) PROVE g[i] = Step(g, i)
  <2>1. CASE i = 0
    BY <1>1, <2>1 DEF Reads
  <2>2. CASE i # 0
    <3>1. i \in 1..Len(text) /\ i - 1 \in 0..Len(text)
      BY <1>0, <2>2
    <3>2. f[i] = Look(text, f[i - 1], i)
      BY <1>1, <3>1 DEF Reads
    <3>3. g[i] = f[i] /\ g[i - 1] = f[i - 1]
      BY <3>1
    <3>. HIDE DEF g
    <3>. QED BY <2>2, <3>2, <3>3
  <2>. QED BY <2>1, <2>2
<1>3. g = [i \in 0..Len(text) |-> Step(g, i)]
  <2>1. g = [i \in 0..Len(text) |-> g[i]]
    OBVIOUS
  <2>. HIDE DEF g, Step
  <2>. QED BY <1>2, <2>1
<1>. HIDE DEF g
<1>4. c = [i \in 0..Len(text) |-> Step(c, i)]
  <2>. HIDE DEF Step
  <2>. QED BY <1>3
<1>5. PharseReq(text) = c[Len(text)].info
  BY DEF PharseReq, Start
<1>. HIDE DEF c
<1>6. Reads(c, Len(text))
  <2>1. c[0] = Start
    <3>1. 0 \in 0..Len(text)
      BY <1>0
    <3>. QED BY <1>4, <3>1
  <2>2. ASSUME NEW i \in 1..Len(text) PROVE c[i] = Look(text, c[i - 1], i)
    <3>1. i \in 0..Len(text) /\ i # 0
      BY <1>0
    <3>2. c[i] = Step(c, i)
      <4>. HIDE DEF Step
      <4>. QED BY <1>4, <3>1
    <3>. QED BY <3>1, <3>2
  <2>. QED BY <2>1, <2>2 DEF Reads
<1>. QED BY <1>5, <1>6

\* What is collected at each character.
LEMMA ReadCollects ==
  ASSUME Typed, NEW f, Reads(f, Len(text))
  PROVE  Collected(f[Len(text)], Len(text))
<1>. DEFINE N == {k \in Nat : k <= Len(text) => Collected(f[k], k)}
<1>0. Len(text) \in Nat
  BY DEF Typed
<1>1. 0 \in N
  <2>1. f[0] = Start
    BY DEF Reads
  <2>2. <<>> \in Seq(Chars) /\ DOMAIN <<>> = {}
    OBVIOUS
  <2>3. AllFollow(<<>>)
    BY <2>2 DEF AllFollow
  <2>4. Collected(Start, 0)
    BY <2>2, <2>3 DEF Collected, Standing, Start
  <2>. QED BY <2>1, <2>4
<1>2. ASSUME NEW k \in Nat, k \in N PROVE k + 1 \in N
  <2>. SUFFICES ASSUME k + 1 <= Len(text) PROVE Collected(f[k + 1], k + 1)
    OBVIOUS
  <2>1. PICK i \in 1..Len(text) : i = k + 1 /\ i - 1 = k
    BY <1>0
  <2>2. Collected(f[i - 1], i - 1)
    BY <1>0, <1>2, <2>1
  <2>3. f[i] = Look(text, f[i - 1], i)
    BY DEF Reads
  <2>4. Collected(Look(text, f[i - 1], i), i)
    BY <2>2, LookCollects
  <2>. QED BY <2>1, <2>3, <2>4
<1>. HIDE DEF N
<1>3. Nat \subseteq N
  BY <1>1, <1>2, SetInduction
<1>4. Len(text) \in N
  BY <1>0, <1>3
<1>. QED BY <1>0, <1>4 DEF N

\* Only characters are typed.
LEMMA TypedHolds == TypingSpec => []Typed
<1>1. TypingInit => Typed
  BY DEF TypingInit, Typed
<1>2. Typed /\ [TypingNext]_<<pairs, text>> => Typed'
  BY DEF Typed, TypingNext, Add, Type
<1>. QED BY <1>1, <1>2, PTL DEF TypingSpec

\* pharseReq: whatever is typed, a value given to a parameter stands behind that
\* parameter's name and one blank, and ends with its word or with the text; only the
\* last word can have lost a dash in front.
THEOREM NothingAstray == TypingSpec => []ValueFollowsName
<1>1. Typed => ValueFollowsName
  <2>. SUFFICES ASSUME Typed PROVE ValueFollowsName
    OBVIOUS
  <2>1. PICK f : Reads(f, Len(text)) /\ PharseReq(text) = f[Len(text)].info
    BY ReadIsCollected
  <2>2. AllFollow(f[Len(text)].info)
    BY <2>1, ReadCollects DEF Collected
  <2>3. AllFollow(PharseReq(text))
    BY <2>1, <2>2
  <2>. QED BY <2>3 DEF AllFollow, ValueFollowsName
<1>. QED BY <1>1, TypedHolds, PTL
=============================================================================
