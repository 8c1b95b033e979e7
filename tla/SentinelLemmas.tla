--------------------------- MODULE SentinelLemmas ---------------------------
(***************************************************************************)
(* What the operators of Sentinel return, for answers cut anywhere: the    *)
(* lists the parsers make are lists of the deployment that answered.       *)
(***************************************************************************)
EXTENDS LogicEntrance, SequenceLemmas

-----------------------------------------------------------------------------
(* Those.                                                                  *)

\* One element more.
LEMMA ThoseAppend ==
  ASSUME NEW X, NEW s \in Seq(X), NEW x \in X, NEW S
  PROVE  Those(Append(s, x), S) = Those(s, S) \o (IF x \in S THEN <<x>> ELSE <<>>)
<1>. DEFINE Bits(u) == [i \in DOMAIN u |-> IF u[i] \in S THEN <<u[i]>> ELSE <<>>]
           bit == IF x \in S THEN <<x>> ELSE <<>>
<1>1. Bits(s) \in Seq(Seq(X)) /\ bit \in Seq(X) /\ Len(Bits(s)) = Len(s)
  <2>1. \A y \in X : <<y>> \in Seq(X)
    OBVIOUS
  <2>2. DOMAIN s = 1..Len(s) /\ \A i \in 1..Len(s) : s[i] \in X
    OBVIOUS
  <2>3. \A i \in 1..Len(s) : (IF s[i] \in S THEN <<s[i]>> ELSE <<>>) \in Seq(X)
    BY <2>1, <2>2
  <2>4. bit \in Seq(X)
    BY <2>1
  <2>. QED BY <2>2, <2>3, <2>4
<1>2. Bits(Append(s, x)) = Append(Bits(s), bit)
  <2>. DEFINE t == Append(s, x)
  <2>1. /\ t \in Seq(X) /\ Len(t) = Len(s) + 1 /\ t[Len(s) + 1] = x
        /\ \A i \in 1..Len(s) : t[i] = s[i]
    OBVIOUS
  <2>. HIDE DEF t
  <2>2. /\ Len(Bits(t)) = Len(s) + 1 /\ Bits(t) \in Seq(Seq(X))
        /\ \A i \in 1..Len(t) : Bits(t)[i] = IF t[i] \in S THEN <<t[i]>> ELSE <<>>
    BY <2>1
  <2>3. \A i \in 1..Len(s) : Bits(s)[i] = IF s[i] \in S THEN <<s[i]>> ELSE <<>>
    OBVIOUS
  <2>4. Bits(t)[Len(s) + 1] = bit
    BY <2>1, <2>2
  <2>5. \A i \in 1..Len(s) : Bits(t)[i] = Bits(s)[i]
    BY <2>1, <2>2, <2>3
  <2>. HIDE DEF Bits, bit
  <2>. QED BY <1>1, <2>2, <2>4, <2>5 DEF t
<1>. HIDE DEF Bits, bit
<1>3. FlattenSeq(Append(Bits(s), bit)) = FlattenSeq(Bits(s)) \o bit
  BY <1>1, FlattenAppend
<1>4. Those(s, S) = FlattenSeq(Bits(s)) /\ Those(Append(s, x), S) = FlattenSeq(Bits(Append(s, x)))
  BY DEF Those, Bits
<1>. QED BY <1>2, <1>3, <1>4 DEF bit

\* t is what Those(s, S) should be: elements of both, in the order of s, its
\* first element where s comes to S first, and nothing left out.
Picked(t, s, S, X) ==
  /\ t \in Seq(X \cap S) /\ Len(t) <= Len(s)
  /\ \A i \in 1..Len(s) : s[i] \in S => \E j \in 1..Len(t) : t[j] = s[i]
  /\ \A j \in 1..Len(t) : \E i \in 1..Len(s) : t[j] = s[i]
  /\ t # <<>> => \E i \in 1..Len(s) : /\ t[1] = s[i]
                                      /\ \A k \in 1..(i - 1) : s[k] \notin S

\* Those is what Picked says, for every list: picking the elements of S out of
\* a list keeps its order, its first such element and all of them.
LEMMA ThosePicked ==
  ASSUME NEW X, NEW s \in Seq(X), NEW S
  PROVE  Picked(Those(s, S), s, S, X)
<1>. DEFINE T == {u \in Seq(X) : Picked(Those(u, S), u, S, X)}
<1>1. <<>> \in T
  <2>1. Those(<<>>, S) = <<>>
    <3>1. [i \in DOMAIN <<>> |-> IF <<>>[i] \in S THEN <<(<<>>[i])>> ELSE <<>>] = <<>>
      OBVIOUS
    <3>. QED BY <3>1, FlattenEmpty DEF Those
  <2>2. Picked(<<>>, <<>>, S, X)
    BY DEF Picked
  <2>. QED BY <2>1, <2>2
<1>2. ASSUME NEW u \in Seq(X), NEW x \in X, u \in T PROVE Append(u, x) \in T
  <2>. DEFINE w == Append(u, x)
  <2>0. /\ w \in Seq(X) /\ Len(w) = Len(u) + 1 /\ w[Len(u) + 1] = x /\ Len(u) \in Nat
        /\ \A i \in 1..Len(u) : w[i] = u[i]
    OBVIOUS
  <2>1. ASSUME NEW t, Picked(t, u, S, X), x \notin S
        PROVE  Picked(t, w, S, X)
    <3>. HIDE DEF w
    <3>1. \A i \in 1..Len(w) : w[i] \in S => \E j \in 1..Len(t) : t[j] = w[i]
      <4>. SUFFICES ASSUME NEW i \in 1..Len(w), w[i] \in S
                    PROVE  \E j \in 1..Len(t) : t[j] = w[i]
        OBVIOUS
      <4>1. i \in 1..Len(u)
        BY <2>0, <2>1
      <4>. QED BY <2>0, <2>1, <4>1 DEF Picked
    <3>2. \A j \in 1..Len(t) : \E i \in 1..Len(w) : t[j] = w[i]
      <4>. SUFFICES ASSUME NEW j \in 1..Len(t) PROVE \E i \in 1..Len(w) : t[j] = w[i]
        OBVIOUS
      <4>1. PICK i \in 1..Len(u) : t[j] = u[i]
        BY <2>1 DEF Picked
      <4>. QED BY <2>0, <4>1
    <3>3. ASSUME t # <<>>
          PROVE  \E i \in 1..Len(w) : t[1] = w[i] /\ \A k \in 1..(i - 1) : w[k] \notin S
      <4>1. PICK i \in 1..Len(u) : t[1] = u[i] /\ \A k \in 1..(i - 1) : u[k] \notin S
        BY <2>1, <3>3 DEF Picked
      <4>. QED BY <2>0, <4>1
    <3>4. Len(t) <= Len(w) /\ t \in Seq(X \cap S)
      BY <2>0, <2>1 DEF Picked
    <3>. QED BY <3>1, <3>2, <3>3, <3>4 DEF Picked
  <2>2. ASSUME NEW t, Picked(t, u, S, X), x \in S
        PROVE  Picked(Append(t, x), w, S, X)
    <3>. HIDE DEF w
    <3>. DEFINE r == Append(t, x)
    <3>1. t \in Seq(X \cap S) /\ x \in X \cap S
      BY <2>2 DEF Picked
    <3>2. /\ r \in Seq(X \cap S) /\ Len(r) = Len(t) + 1 /\ r[Len(t) + 1] = x /\ Len(t) \in Nat
          /\ \A i \in 1..Len(t) : r[i] = t[i]
      BY <3>1
    <3>. HIDE DEF r
    <3>3. \A i \in 1..Len(w) : w[i] \in S => \E j \in 1..Len(r) : r[j] = w[i]
      <4>. SUFFICES ASSUME NEW i \in 1..Len(w), w[i] \in S
                    PROVE  \E j \in 1..Len(r) : r[j] = w[i]
        OBVIOUS
      <4>1. CASE i = Len(w)
        BY <2>0, <3>2, <4>1
      <4>2. CASE i # Len(w)
        <5>1. i \in 1..Len(u)
          BY <2>0, <4>2
        <5>2. PICK j \in 1..Len(t) : t[j] = u[i]
          BY <2>0, <2>2, <5>1 DEF Picked
        <5>. QED BY <2>0, <3>2, <5>1, <5>2
      <4>. QED BY <4>1, <4>2
    <3>4. \A j \in 1..Len(r) : \E i \in 1..Len(w) : r[j] = w[i]
      <4>. SUFFICES ASSUME NEW j \in 1..Len(r) PROVE \E i \in 1..Len(w) : r[j] = w[i]
        OBVIOUS
      <4>1. CASE j = Len(r)
        BY <2>0, <3>2, <4>1
      <4>2. CASE j # Len(r)
        <5>1. j \in 1..Len(t)
          BY <3>2, <4>2
        <5>2. PICK i \in 1..Len(u) : t[j] = u[i]
          BY <2>2, <5>1 DEF Picked
        <5>. QED BY <2>0, <3>2, <5>1, <5>2
      <4>. QED BY <4>1, <4>2
    <3>5. \E i \in 1..Len(w) : r[1] = w[i] /\ \A k \in 1..(i - 1) : w[k] \notin S
      <4>1. CASE t = <<>>
        <5>1. r[1] = w[Len(w)]
          BY <2>0, <3>2, <4>1
        <5>2. ASSUME NEW k \in 1..(Len(w) - 1) PROVE w[k] \notin S
          BY <2>0, <2>2, <4>1 DEF Picked
        <5>. QED BY <2>0, <5>1, <5>2
      <4>2. CASE t # <<>>
        <5>1. PICK i \in 1..Len(u) : t[1] = u[i] /\ \A k \in 1..(i - 1) : u[k] \notin S
          BY <2>2, <4>2 DEF Picked
        <5>2. r[1] = t[1]
          BY <3>1, <3>2, <4>2
        <5>. QED BY <2>0, <5>1, <5>2
      <4>. QED BY <4>1, <4>2
    <3>6. Len(r) <= Len(w)
      BY <2>0, <2>2, <3>2 DEF Picked
    <3>. QED BY <3>2, <3>3, <3>4, <3>5, <3>6 DEF Picked, r
  <2>. DEFINE t == Those(u, S)
  <2>3. Picked(t, u, S, X) /\ t \in Seq(X)
    BY <1>2 DEF Picked
  <2>4. Those(w, S) = t \o (IF x \in S THEN <<x>> ELSE <<>>)
    BY ThoseAppend
  <2>. HIDE DEF t, w
  <2>5. CASE x \in S
    <3>1. t \o <<x>> = Append(t, x)
      BY <2>3
    <3>. QED BY <2>0, <2>2, <2>3, <2>4, <2>5, <3>1 DEF w
  <2>6. CASE x \notin S
    <3>1. t \o <<>> = t
      BY <2>3
    <3>. QED BY <2>0, <2>1, <2>3, <2>4, <2>6, <3>1 DEF w
  <2>. QED BY <2>5, <2>6
<1>. HIDE DEF T
<1>3. Seq(X) \subseteq T
  BY <1>1, <1>2, AppendInduction
<1>. QED BY <1>3 DEF T

-----------------------------------------------------------------------------
(* ByName and GetRedisByType.                                              *)

\* The place of the first instance of pool p in a list.
FirstAt(list, p, i) ==
  /\ i \in 1..Len(list) /\ list[i].name = p
  /\ \A k \in 1..(i - 1) : list[k].name # p

\* ByName has an entry for every pool of the list, which begins with the first
\* instance of the pool.
LEMMA ByNameIs ==
  ASSUME NEW list \in Seq(RedisInfo)
  PROVE  /\ DOMAIN ByName(list) = {list[i].name : i \in DOMAIN list}
         /\ \A p \in DOMAIN ByName(list) :
              /\ p \in PoolNames
              /\ ByName(list)[p] \in Seq(RedisInfo) \ {<<>>}
              /\ \E i \in 1..Len(list) : FirstAt(list, p, i) /\ ByName(list)[p][1] = list[i]
<1>1. DOMAIN ByName(list) = {list[i].name : i \in DOMAIN list}
  BY DEF ByName
<1>2. ASSUME NEW p \in DOMAIN ByName(list)
      PROVE  /\ p \in PoolNames
             /\ ByName(list)[p] \in Seq(RedisInfo) \ {<<>>}
             /\ \E i \in 1..Len(list) : FirstAt(list, p, i) /\ ByName(list)[p][1] = list[i]
  <2>. DEFINE S == {info \in ToSet(list) : info.name = p}
             t == Those(list, S)
  <2>1. ByName(list)[p] = t
    BY <1>1 DEF ByName
  <2>2. \A i \in 1..Len(list) : list[i] \in S <=> list[i].name = p
    BY DEF ToSet
  <2>3. Picked(t, list, S, RedisInfo)
    BY ThosePicked
  <2>4. PICK i \in 1..Len(list) : list[i].name = p
    BY <1>1
  <2>5. p \in PoolNames
    <3>1. list[i] \in RedisInfo
      OBVIOUS
    <3>. QED BY <2>4, <3>1 DEF RedisInfo
  <2>. HIDE DEF t, S
  <2>6. t # <<>>
    BY <2>2, <2>3, <2>4 DEF Picked
  <2>7. PICK k \in 1..Len(list) : t[1] = list[k] /\ \A j \in 1..(k - 1) : list[j] \notin S
    BY <2>3, <2>6 DEF Picked
  <2>8. t \in Seq(RedisInfo) /\ t \in Seq(RedisInfo \cap S)
    BY <2>3 DEF Picked
  <2>9. t[1] \in S
    BY <2>6, <2>8
  <2>10. FirstAt(list, p, k)
    BY <2>2, <2>7, <2>9 DEF FirstAt
  <2>. QED BY <2>1, <2>5, <2>6, <2>7, <2>8, <2>10
<1>. QED BY <1>1, <1>2

\* The pools getRedisByType finds among those named.
Known(list, poolName) ==
  Those(IF poolName = <<>> THEN Pools ELSE poolName, {list[i].name : i \in DOMAIN list})

\* getRedisByType returns the first instance of each pool it finds.
LEMMA GetRedisByTypeIs ==
  ASSUME NEW list \in Seq(RedisInfo), NEW poolName, poolName \in Seq(ToSet(poolName))
  PROVE  LET found == GetRedisByType(ByName(list), poolName)
             known == Known(list, poolName)
         IN  /\ found \in Seq(RedisInfo)
             /\ Len(found) = Len(known) /\ Len(known) \in Nat
             /\ \A j \in 1..Len(known) :
                  /\ known[j] \in PoolNames
                  /\ \E i \in 1..Len(list) : FirstAt(list, known[j], i) /\ found[j] = list[i]
<1>. DEFINE known == Known(list, poolName)
           found == GetRedisByType(ByName(list), poolName)
           wanted == IF poolName = <<>> THEN Pools ELSE poolName
           S == {list[i].name : i \in DOMAIN list}
           X == ToSet(wanted)
<1>1. wanted \in Seq(X)
  <2>1. Pools \in Seq(ToSet(Pools))
    BY SentinelAssumption DEF ToSet, PoolNames
  <2>. QED BY <2>1
<1>2. Picked(known, wanted, S, X)
  BY <1>1, ThosePicked DEF Known
<1>3. known \in Seq(X \cap S) /\ known \in Seq(S)
  BY <1>2 DEF Picked
<1>4. DOMAIN ByName(list) = S
  BY ByNameIs
<1>5. found = [j \in DOMAIN known |-> ByName(list)[known[j]][1]]
  BY <1>4 DEF GetRedisByType, Known
<1>. HIDE DEF known, found, S
<1>6. ASSUME NEW j \in 1..Len(known)
      PROVE  /\ known[j] \in PoolNames
             /\ \E i \in 1..Len(list) : FirstAt(list, known[j], i) /\ found[j] = list[i]
  <2>1. known[j] \in S
    BY <1>3
  <2>2. /\ known[j] \in PoolNames
        /\ \E i \in 1..Len(list) : /\ FirstAt(list, known[j], i)
                                   /\ ByName(list)[known[j]][1] = list[i]
    BY <1>4, <2>1, ByNameIs
  <2>3. found[j] = ByName(list)[known[j]][1]
    BY <1>3, <1>5
  <2>. QED BY <2>2, <2>3
<1>7. \A j \in 1..Len(known) : found[j] \in RedisInfo
  <2>1. \A i \in 1..Len(list) : list[i] \in RedisInfo
    OBVIOUS
  <2>. QED BY <1>6, <2>1
<1>8. found \in Seq(RedisInfo) /\ Len(found) = Len(known) /\ Len(known) \in Nat
  <2>1. Len(known) \in Nat /\ DOMAIN known = 1..Len(known)
    BY <1>3
  <2>2. DOMAIN found = 1..Len(known)
    BY <1>5, <2>1
  <2>3. found = [j \in 1..Len(known) |-> found[j]]
    BY <1>5, <2>2
  <2>. QED BY <1>7, <2>1, <2>3
<1>. QED BY <1>6, <1>8 DEF known, found

-----------------------------------------------------------------------------
(* GetMaster.                                                              *)

\* What the lines of the answer to "info" are.
LEMMA InfoAnswerIs ==
  ASSUME NEW v \in Views
  PROVE  LET c == InfoAnswer(v)
             n == Len(v.order)
         IN  /\ n \in Nat /\ c \in Seq(ToSet(c)) /\ Len(c) = n + 2
             /\ c[1] = [cell |-> "other"]
             /\ c[2] = [cell |-> "sentinel_masters", num |-> n]
             /\ \A i \in 1..n :
                  c[i + 2] = [cell |-> "master", index |-> i - 1, name |-> v.order[i],
                              addr |-> v.master[v.order[i]]]
<1>. DEFINE n == Len(v.order)
           head == <<[cell |-> "other"], [cell |-> "sentinel_masters", num |-> n]>>
           Line(i) == [cell |-> "master", index |-> i - 1, name |-> v.order[i],
                       addr |-> v.master[v.order[i]]]
           lines == [i \in DOMAIN v.order |-> Line(i)]
           c == InfoAnswer(v)
           X == ToSet(head) \cup ToSet(lines)
<1>1. v.order \in Seq(PoolNames)
  BY LogicEntranceAssumption DEF Views
<1>2. n \in Nat /\ DOMAIN v.order = 1..n
  BY <1>1
<1>3. head \in Seq(X) /\ Len(head) = 2
  BY DEF ToSet
<1>4. lines \in Seq(X) /\ Len(lines) = n /\ \A i \in 1..n : lines[i] = Line(i)
  BY <1>2 DEF ToSet
<1>5. c = head \o lines
  BY DEF InfoAnswer
<1>. HIDE DEF c, lines, X
<1>6. head[1] = [cell |-> "other"] /\ head[2] = [cell |-> "sentinel_masters", num |-> n]
  OBVIOUS
<1>. HIDE DEF head
<1>7. /\ c \in Seq(X) /\ Len(c) = 2 + n
      /\ \A i \in 1..2 : c[i] = head[i]
      /\ \A i \in 1..n : c[2 + i] = lines[i]
  <2>1. head \in Seq(X)
    BY <1>3
  <2>2. lines \in Seq(X)
    BY <1>4
  <2>3. /\ head \o lines \in Seq(X) /\ Len(head \o lines) = Len(head) + Len(lines)
        /\ \A i \in 1..Len(head) : (head \o lines)[i] = head[i]
        /\ \A i \in 1..Len(lines) : (head \o lines)[Len(head) + i] = lines[i]
    BY ONLY <2>1, <2>2, ConcatAt
  <2>. QED BY <1>3, <1>4, <1>5, <2>3
<1>8. c \in Seq(ToSet(c))
  BY <1>7 DEF ToSet
<1>. HIDE DEF n, Line
<1>9. \A i \in 1..n : i + 2 = 2 + i
  BY <1>2
<1>10. \A i \in 1..n : c[i + 2] = Line(i)
  BY <1>4, <1>7, <1>9
<1>11. Len(c) = n + 2 /\ c[1] = head[1] /\ c[2] = head[2]
  BY <1>2, <1>7
<1>. QED BY <1>2, <1>6, <1>8, <1>10, <1>11, Zenon DEF n, Line, c

\* Every list of the masters of a deployment is one of instances.
LEMMA ListingIs ==
  ASSUME NEW v \in Views
  PROVE  /\ Len(v.order) \in Nat /\ DOMAIN Listing(v) = 1..Len(v.order)
         /\ \A i \in 1..Len(v.order) :
              /\ v.order[i] \in PoolNames
              /\ Listing(v)[i] = [name |-> v.order[i], addr |-> v.master[v.order[i]]]
         /\ (\A i \in 1..Len(v.order) : v.master[v.order[i]] \in IPv4)
              => Listing(v) \in Seq(RedisInfo) /\ Len(Listing(v)) = Len(v.order)
<1>1. v.order \in Seq(PoolNames)
  BY LogicEntranceAssumption DEF Views
<1>2. Len(v.order) \in Nat /\ DOMAIN v.order = 1..Len(v.order)
  BY <1>1
<1>3. Listing(v) = [i \in 1..Len(v.order) |->
                      [name |-> v.order[i], addr |-> v.master[v.order[i]]]]
  BY <1>2 DEF Listing
<1>4. \A i \in 1..Len(v.order) : v.order[i] \in PoolNames
  BY <1>1
<1>5. ASSUME \A i \in 1..Len(v.order) : v.master[v.order[i]] \in IPv4
      PROVE  Listing(v) \in Seq(RedisInfo) /\ Len(Listing(v)) = Len(v.order)
  <2>1. \A i \in 1..Len(v.order) :
          [name |-> v.order[i], addr |-> v.master[v.order[i]]] \in RedisInfo
    BY <1>4, <1>5 DEF RedisInfo
  <2>. QED BY <1>2, <1>3, <2>1
<1>. QED BY <1>2, <1>3, <1>4, <1>5

\* Of an answer to "info" that may be cut, getMaster makes the whole list or
\* none; without a cut and an IPv6 address it makes the list.
LEMMA GetMasterIs ==
  ASSUME NEW v \in Views, NEW k \in 0..Len(InfoAnswer(v))
  PROVE  LET got == GetMaster(SubSeq(InfoAnswer(v), 1, k))
             whole == \A i \in 1..Len(v.order) : v.master[v.order[i]] \in IPv4
         IN  /\ \/ got \in [set : BOOLEAN, list : {<<>>}]
                \/ got = [set |-> TRUE, list |-> Listing(v)] /\ whole
             /\ k = Len(InfoAnswer(v)) /\ whole
                  => got = [set |-> TRUE, list |-> Listing(v)]
<1>. DEFINE c == InfoAnswer(v)
           n == Len(v.order)
           cells == SubSeq(c, 1, k)
           whole == \A i \in 1..n : v.master[v.order[i]] \in IPv4
           got == GetMaster(cells)
<1>1. /\ n \in Nat /\ c \in Seq(ToSet(c)) /\ Len(c) = n + 2
      /\ c[1] = [cell |-> "other"]
      /\ c[2] = [cell |-> "sentinel_masters", num |-> n]
      /\ \A i \in 1..n :
           c[i + 2] = [cell |-> "master", index |-> i - 1, name |-> v.order[i],
                       addr |-> v.master[v.order[i]]]
  BY InfoAnswerIs, Zenon
<1>2. /\ c[1].cell = "other" /\ c[2].cell = "sentinel_masters" /\ c[2].num = n
      /\ \A i \in 1..n : /\ c[i + 2].cell = "master" /\ c[i + 2].index = i - 1
                         /\ c[i + 2].name = v.order[i]
                         /\ c[i + 2].addr = v.master[v.order[i]]
  <2>. HIDE DEF n, c
  <2>1. c[1].cell = "other"
    BY <1>1
  <2>2. c[2].cell = "sentinel_masters" /\ c[2].num = n
    BY <1>1
  <2>3. ASSUME NEW i \in 1..n
        PROVE  /\ c[i + 2].cell = "master" /\ c[i + 2].index = i - 1
               /\ c[i + 2].name = v.order[i]
               /\ c[i + 2].addr = v.master[v.order[i]]
    <3>1. c[i + 2] = [cell |-> "master", index |-> i - 1, name |-> v.order[i],
                      addr |-> v.master[v.order[i]]]
      BY <1>1
    <3>. QED BY ONLY <3>1
  <2>. QED BY <2>1, <2>2, <2>3
<1>3. k \in 0..(n + 2)
  BY <1>1
<1>4. /\ Len(cells) = k /\ DOMAIN cells = 1..k
      /\ \A i \in 1..k : cells[i] = c[i]
  <2>. HIDE DEF c, n
  <2>. QED BY <1>1, <1>3
<1>. DEFINE info == ParseRedisInfo(cells)
           masterNums == IF info.nums = {} THEN 0 ELSE CHOOSE num \in info.nums : TRUE
           Line(i) == CHOOSE l \in info.masters : l.index = i - 1
           masterList == [i \in 1..masterNums |-> [name |-> Line(i).name, addr |-> Line(i).addr]]
           Missing == \E i \in 1..masterNums : \A l \in info.masters : l.index # i - 1
           allIPv4 == \A i \in 1..masterNums : masterList[i].addr \in IPv4
<1>5. got = IF cells = <<>> \/ Missing
            THEN [set |-> FALSE, list |-> <<>>]
            ELSE [set |-> TRUE, list |-> IF allIPv4 THEN masterList ELSE <<>>]
  BY DEF GetMaster
<1>6. /\ info.nums = {l.num : l \in {l \in ToSet(cells) : l.cell = "sentinel_masters"}}
      /\ info.masters = {l \in ToSet(cells) : l.cell = "master"}
  BY DEF ParseRedisInfo
<1>7. ToSet(cells) = {c[i] : i \in 1..k}
  <2>. HIDE DEF c, cells
  <2>. QED BY <1>4 DEF ToSet
<1>. HIDE DEF c, cells, n, info
<1>8. info.masters = {c[i + 2] : i \in 1..(k - 2)}
  <2>1. ASSUME NEW i \in 1..k, c[i].cell = "master"
        PROVE  i - 2 \in 1..(k - 2) /\ i = (i - 2) + 2
    <3>1. i # 1 /\ i # 2
      BY <1>2, <2>1
    <3>. QED BY <1>3, <3>1
  <2>2. ASSUME NEW i \in 1..(k - 2)
        PROVE  i + 2 \in 1..k /\ c[i + 2].cell = "master"
    <3>1. i \in 1..n
      BY <1>1, <1>3
    <3>. QED BY <1>2, <1>3, <3>1
  <2>. QED BY <1>6, <1>7, <2>1, <2>2
<1>9. CASE k = 0
  <2>1. cells = <<>>
    BY <1>1, <1>9 DEF cells
  <2>2. k # Len(c)
    BY <1>1, <1>9
  <2>. HIDE DEF got, Missing, allIPv4, masterList
  <2>3. got = [set |-> FALSE, list |-> <<>>]
    BY <1>5, <2>1
  <2>4. got \in [set : BOOLEAN, list : {<<>>}]
    BY <2>3
  <2>. QED BY <2>2, <2>4 DEF c, got, cells
<1>10. CASE k = 1
  <2>1. info.nums = {} /\ info.masters = {}
    BY <1>2, <1>6, <1>7, <1>10
  <2>2. masterNums = 0
    BY <2>1
  <2>. HIDE DEF masterNums
  <2>3. masterList = <<>>
    BY <2>2
  <2>4. ~Missing /\ allIPv4
    BY <2>2
  <2>5. cells # <<>>
    BY <1>4, <1>10
  <2>. HIDE DEF got, Missing, allIPv4, masterList
  <2>6. got = [set |-> TRUE, list |-> <<>>]
    BY <1>5, <2>3, <2>4, <2>5
  <2>7. got \in [set : BOOLEAN, list : {<<>>}]
    BY <2>6
  <2>8. k # Len(c)
    BY <1>1, <1>10
  <2>. QED BY <2>7, <2>8 DEF c, got, cells
<1>11. CASE k \in 2..(n + 2)
  <2>1. info.nums = {n}
    <3>1. \A i \in 1..k : c[i].cell = "sentinel_masters" <=> i = 2
      <4>. SUFFICES ASSUME NEW i \in 1..k PROVE c[i].cell = "sentinel_masters" <=> i = 2
        OBVIOUS
      <4>1. CASE i = 1
        BY <1>2, <4>1
      <4>2. CASE i = 2
        BY <1>2, <4>2
      <4>3. CASE i > 2
        <5>1. i - 2 \in 1..n /\ (i - 2) + 2 = i
          BY <1>1, <1>11, <4>3
        <5>2. c[i].cell = "master"
          BY <1>2, <5>1
        <5>. QED BY <4>3, <5>2
      <4>. QED BY <4>1, <4>2, <4>3
    <3>2. 2 \in 1..k
      BY <1>11
    <3>3. {l \in ToSet(cells) : l.cell = "sentinel_masters"} = {c[2]}
      BY <1>7, <3>1, <3>2
    <3>. QED BY <1>2, <1>6, <3>3
  <2>2. masterNums = n
    BY <2>1
  <2>. HIDE DEF masterNums
  <2>3. cells # <<>>
    BY <1>4, <1>11
  <2>4. CASE k < n + 2
    <3>1. k - 1 \in 1..n
      BY <1>1, <1>11, <2>4
    <3>2. ASSUME NEW l \in info.masters PROVE l.index # (k - 1) - 1
      <4>1. PICK i \in 1..(k - 2) : l = c[i + 2]
        BY <1>8
      <4>2. i \in 1..n
        BY <1>1, <1>11, <4>1
      <4>3. l.index = i - 1
        BY <1>2, <4>1, <4>2
      <4>. QED BY <1>1, <1>11, <4>1, <4>3
    <3>3. Missing
      BY <2>2, <3>1, <3>2
    <3>4. k # Len(c)
      BY <1>1, <2>4
    <3>. HIDE DEF got, Missing, allIPv4, masterList
    <3>5. got = [set |-> FALSE, list |-> <<>>]
      BY <1>5, <3>3
    <3>6. got \in [set : BOOLEAN, list : {<<>>}]
      BY <3>5
    <3>. QED BY <3>4, <3>6 DEF c, got, cells
  <2>5. CASE k = n + 2
    <3>1. info.masters = {c[i + 2] : i \in 1..n}
      <4>1. k - 2 = n
        BY <1>1, <2>5
      <4>. QED BY <1>8, <4>1
    <3>2. ASSUME NEW i \in 1..n
          PROVE  Line(i) = c[i + 2] /\ \E l \in info.masters : l.index = i - 1
      <4>1. c[i + 2] \in info.masters /\ c[i + 2].index = i - 1
        BY <1>2, <3>1
      <4>2. ASSUME NEW l \in info.masters, l.index = i - 1 PROVE l = c[i + 2]
        <5>1. PICK j \in 1..n : l = c[j + 2]
          BY <3>1
        <5>2. j - 1 = i - 1
          BY <1>2, <4>2, <5>1
        <5>3. j = i
          BY <1>1, <5>2
        <5>. QED BY <5>1, <5>3
      <4>. QED BY <4>1, <4>2
    <3>3. ~Missing
      BY <2>2, <3>2
    <3>. HIDE DEF Line
    <3>4. masterList = Listing(v)
      <4>1. DOMAIN Listing(v) = 1..n /\ \A i \in 1..n :
              Listing(v)[i] = [name |-> v.order[i], addr |-> v.master[v.order[i]]]
        BY ListingIs DEF n
      <4>2. Listing(v) = [i \in 1..n |-> Listing(v)[i]]
        BY <4>1 DEF Listing
      <4>3. \A i \in 1..n : masterList[i] = Listing(v)[i]
        BY <1>2, <2>2, <3>2, <4>1
      <4>. QED BY <2>2, <4>2, <4>3
    <3>5. allIPv4 <=> whole
      <4>1. \A i \in 1..n : masterList[i].addr = v.master[v.order[i]]
        BY <1>2, <2>2, <3>2
      <4>. HIDE DEF masterList
      <4>. QED BY <2>2, <4>1
    <3>. HIDE DEF got, Missing, allIPv4, masterList
    <3>6. got = [set |-> TRUE, list |-> IF whole THEN Listing(v) ELSE <<>>]
      BY <1>5, <2>3, <3>3, <3>4, <3>5
    <3>. HIDE DEF whole
    <3>7. CASE whole
      <4>1. got = [set |-> TRUE, list |-> Listing(v)]
        BY <3>6, <3>7
      <4>. QED BY <3>7, <4>1 DEF c, got, cells, whole, n
    <3>8. CASE ~whole
      <4>1. got = [set |-> TRUE, list |-> <<>>]
        BY <3>6, <3>8
      <4>2. got \in [set : BOOLEAN, list : {<<>>}]
        BY <4>1
      <4>. QED BY <3>8, <4>2 DEF c, got, cells, whole, n
    <3>. QED BY <3>7, <3>8
  <2>. QED BY <1>1, <1>11, <2>4, <2>5
<1>. QED BY <1>1, <1>3, <1>9, <1>10, <1>11

-----------------------------------------------------------------------------
(* ParseSlaveInfo.                                                         *)

\* The slaves a peer may list.
Slaves == [addr : Addrs, flags : {"slave", "s_down"}]

\* The fields of a slave that the first r of its five cells hold.
Keys(r) ==
  IF r <= 1 THEN {}
  ELSE IF r = 2 THEN {"name"}
  ELSE IF r = 3 THEN {"name", "ip"}
  ELSE IF r = 4 THEN {"name", "ip", "port"}
  ELSE {"name", "ip", "port", "flags"}

\* The map made of them.
Fields(slave, r) == [key \in Keys(r) |-> IF key = "flags" THEN slave.flags ELSE slave.addr]

\* The maps of the first n slaves.
Maps(slaves, n) == [t \in 1..n |-> Fields(slaves[t], 5)]

\* The scan at the r-th cell of slave j; before the first slave j is 0.
ScanAt(slaves, j, r) ==
  [slaveNums |-> Len(slaves), list |-> Maps(slaves, j - 1),
   single |-> IF j = 0 THEN <<>> ELSE Fields(slaves[j], r)]

\* One more cell of a slave adds one more field to its map.
LEMMA FieldsStep ==
  ASSUME NEW slave, NEW r \in 1..4
  PROVE  LET c == SlaveCells(slave)[r + 1]
         IN  /\ c.cell = "field"
             /\ Fields(slave, r + 1)
                  = [key \in Keys(r) \cup {c.key} |->
                       IF key = c.key THEN c.value ELSE Fields(slave, r)[key]]
<1>1. CASE r = 1
  BY <1>1 DEF SlaveCells, Fields, Keys
<1>2. CASE r = 2
  BY <1>2 DEF SlaveCells, Fields, Keys
<1>3. CASE r = 3
  BY <1>3 DEF SlaveCells, Fields, Keys
<1>4. CASE r = 4
  BY <1>4 DEF SlaveCells, Fields, Keys
<1>. QED BY <1>1, <1>2, <1>3, <1>4

\* A field of slave j.
LEMMA ScanField ==
  ASSUME NEW slaves \in Seq(Slaves), NEW j \in 1..Len(slaves), NEW r \in 1..4
  PROVE  ScanCell(ScanAt(slaves, j, r), SlaveCells(slaves[j])[r + 1])
           = ScanAt(slaves, j, r + 1)
<1>. DEFINE c == SlaveCells(slaves[j])[r + 1]
           f == Fields(slaves[j], r)
           l == Maps(slaves, j - 1)
<1>1. c.cell = "field" /\ Fields(slaves[j], r + 1)
        = [key \in Keys(r) \cup {c.key} |-> IF key = c.key THEN c.value ELSE f[key]]
  BY FieldsStep
<1>2. DOMAIN f = Keys(r)
  BY DEF Fields
<1>3. ScanAt(slaves, j, r) = [slaveNums |-> Len(slaves), list |-> l, single |-> f]
  BY DEF ScanAt
<1>4. ScanAt(slaves, j, r + 1)
        = [slaveNums |-> Len(slaves), list |-> l, single |-> Fields(slaves[j], r + 1)]
  BY DEF ScanAt
<1>. HIDE DEF c, f, l
<1>5. ScanCell([slaveNums |-> Len(slaves), list |-> l, single |-> f], c)
        = [slaveNums |-> Len(slaves), list |-> l,
           single |-> [key \in DOMAIN f \cup {c.key} |->
                         IF key = c.key THEN c.value ELSE f[key]]]
  BY <1>1 DEF ScanCell
<1>. QED BY <1>1, <1>2, <1>3, <1>4, <1>5 DEF c

\* The header of slave j + 1.
LEMMA ScanHeader ==
  ASSUME NEW slaves \in Seq(Slaves), NEW j \in 0..(Len(slaves) - 1)
  PROVE  ScanCell(ScanAt(slaves, j, 5), SlaveCells(slaves[j + 1])[1])
           = ScanAt(slaves, j + 1, 1)
<1>. DEFINE c == SlaveCells(slaves[j + 1])[1]
           l == Maps(slaves, j - 1)
           n == Len(slaves)
<1>1. c.cell = "array"
  BY DEF SlaveCells
<1>2. Fields(slaves[j + 1], 1) = <<>>
  BY DEF Fields, Keys
<1>3. ScanAt(slaves, j + 1, 1)
        = [slaveNums |-> n, list |-> Maps(slaves, j), single |-> <<>>]
  BY <1>2 DEF ScanAt
<1>. HIDE DEF c, n
<1>4. CASE j = 0
  <2>1. l = <<>> /\ Maps(slaves, j) = <<>>
    BY <1>4 DEF Maps
  <2>2. ScanAt(slaves, j, 5) = [slaveNums |-> n, list |-> <<>>, single |-> <<>>]
    BY <1>4, <2>1 DEF ScanAt, n
  <2>3. ScanCell([slaveNums |-> n, list |-> <<>>, single |-> <<>>], c)
          = [slaveNums |-> n, list |-> <<>>, single |-> <<>>]
    BY <1>1 DEF ScanCell
  <2>. QED BY <1>3, <2>1, <2>2, <2>3 DEF c
<1>5. CASE j # 0
  <2>. DEFINE f == Fields(slaves[j], 5)
  <2>1. DOMAIN f # {}
    BY DEF Fields, Keys
  <2>2. ScanAt(slaves, j, 5) = [slaveNums |-> n, list |-> l, single |-> f]
    BY <1>5 DEF ScanAt, n
  <2>3. Append(l, f) = Maps(slaves, j)
    <3>. DEFINE X == {Fields(slaves[t], 5) : t \in 1..n}
    <3>1. j \in 1..n /\ j - 1 \in Nat
      BY <1>5 DEF n
    <3>2. \A t \in 1..j : t \in 1..n
      BY <3>1 DEF n
    <3>7. ASSUME NEW k \in 0..j PROVE Maps(slaves, k) \in Seq(X) /\ Len(Maps(slaves, k)) = k
      <4>. DEFINE row(t) == Fields(slaves[t], 5)
      <4>1. k \in Nat /\ \A t \in 1..k : row(t) \in X
        BY <3>1, <3>2
      <4>2. Maps(slaves, k) = [t \in 1..k |-> row(t)]
        BY DEF Maps
      <4>. HIDE DEF X, row
      <4>. QED BY ONLY <4>1, <4>2
    <3>8. f \in X
      BY <3>1
    <3>3. l \in Seq(X) /\ Len(l) = j - 1 /\ f \in X
      <4>1. j - 1 \in 0..j
        BY <3>1
      <4>. HIDE DEF X
      <4>. QED BY <3>7, <3>8, <4>1
    <3>4. Maps(slaves, j) \in Seq(X) /\ Len(Maps(slaves, j)) = j
      <4>1. j \in 0..j
        BY <3>1
      <4>. HIDE DEF X
      <4>. QED BY <3>7, <4>1
    <3>5. \A t \in 1..(j - 1) : l[t] = Maps(slaves, j)[t]
      BY <3>1 DEF Maps
    <3>6. Maps(slaves, j)[j] = f
      BY <3>1 DEF Maps
    <3>. HIDE DEF l, f, X
    <3>. QED BY <3>1, <3>3, <3>4, <3>5, <3>6
  <2>. HIDE DEF l, f
  <2>4. ScanCell([slaveNums |-> n, list |-> l, single |-> f], c)
          = [slaveNums |-> n, list |-> Append(l, f), single |-> <<>>]
    BY <1>1, <2>1 DEF ScanCell
  <2>. QED BY <1>3, <2>2, <2>3, <2>4 DEF c
<1>. QED BY <1>4, <1>5

\* The cells of the answer for a pool that is monitored.
LEMMA SlavesAnswerIs ==
  ASSUME NEW v \in Views, NEW p \in ToSet(v.order)
  PROVE  LET c == SlavesAnswer(v, p)
             slaves == v.slaves[p]
         IN  /\ p \in PoolNames /\ slaves \in Seq(Slaves) /\ c \in Seq(ToSet(c))
             /\ Len(c) = 5 * Len(slaves) + 1
             /\ c[1] = [cell |-> "count", num |-> Len(slaves)]
             /\ \A j \in 1..Len(slaves) : \A r \in 1..5 :
                  c[1 + (5 * (j - 1) + r)] = SlaveCells(slaves[j])[r]
<1>. DEFINE slaves == v.slaves[p]
           c == SlavesAnswer(v, p)
           head == <<[cell |-> "count", num |-> Len(slaves)]>>
           X == ToSet(head) \cup UNION {ToSet(SlaveCells(x)) : x \in Slaves}
           S == {x \in Seq(X) : Len(x) = 5}
           blocks == [i \in DOMAIN slaves |-> SlaveCells(slaves[i])]
           rest == FlattenSeq(blocks)
<1>1. p \in PoolNames /\ slaves \in Seq(Slaves)
  <2>1. v.order \in Seq(PoolNames)
    BY LogicEntranceAssumption DEF Views
  <2>2. p \in PoolNames
    BY <2>1 DEF ToSet
  <2>. QED BY <2>2 DEF Views, Slaves
<1>2. c = head \o rest
  BY DEF SlavesAnswer
<1>3. \A x \in Slaves : SlaveCells(x) \in S
  <2>. SUFFICES ASSUME NEW x \in Slaves PROVE SlaveCells(x) \in S
    OBVIOUS
  <2>1. SlaveCells(x) \in Seq(ToSet(SlaveCells(x))) /\ Len(SlaveCells(x)) = 5
    BY DEF SlaveCells, ToSet
  <2>2. ToSet(SlaveCells(x)) \subseteq X
    OBVIOUS
  <2>. HIDE DEF X
  <2>3. SlaveCells(x) \in Seq(X)
    BY ONLY <2>1, <2>2, SeqMonotone
  <2>. QED BY <2>1, <2>3
<1>4. head \in Seq(X) /\ Len(head) = 1 /\ head[1] = [cell |-> "count", num |-> Len(slaves)]
  <2>1. head[1] \in X
    BY DEF ToSet
  <2>. HIDE DEF X
  <2>. QED BY <2>1
<1>. HIDE DEF head, X, c, slaves
<1>5. blocks \in Seq(S) /\ Len(blocks) = Len(slaves)
      /\ \A j \in 1..Len(slaves) : blocks[j] = SlaveCells(slaves[j])
  <2>1. DOMAIN slaves = 1..Len(slaves) /\ Len(slaves) \in Nat
        /\ \A j \in 1..Len(slaves) : slaves[j] \in Slaves
    BY <1>1
  <2>. HIDE DEF S
  <2>. QED BY <1>3, <2>1
<1>. HIDE DEF blocks
<1>6. /\ rest \in Seq(X) /\ Len(rest) = 5 * Len(blocks)
      /\ \A j \in 1..Len(blocks) : \A r \in 1..5 : rest[5 * (j - 1) + r] = blocks[j][r]
  <2>1. blocks \in Seq({x \in Seq(X) : Len(x) = 5})
    BY <1>5
  <2>. QED BY ONLY <2>1, FlattenFives
<1>. HIDE DEF rest, S
<1>7. /\ c \in Seq(X) /\ Len(c) = Len(head) + Len(rest)
      /\ \A i \in 1..Len(head) : c[i] = head[i]
      /\ \A i \in 1..Len(rest) : c[Len(head) + i] = rest[i]
  <2>1. head \in Seq(X)
    BY <1>4
  <2>2. rest \in Seq(X)
    BY <1>6
  <2>. QED BY ONLY <1>2, <2>1, <2>2, ConcatAt
<1>8. c \in Seq(ToSet(c))
  BY ONLY <1>7, SeqToSet
<1>9. Len(slaves) \in Nat
  BY <1>1
<1>10. Len(c) = 5 * Len(slaves) + 1 /\ c[1] = head[1]
  BY <1>4, <1>5, <1>6, <1>7, <1>9
<1>11. ASSUME NEW j \in 1..Len(slaves), NEW r \in 1..5
       PROVE  c[1 + (5 * (j - 1) + r)] = SlaveCells(slaves[j])[r]
  <2>1. 5 * (j - 1) + r \in 1..Len(rest)
    BY <1>5, <1>6, <1>9
  <2>2. rest[5 * (j - 1) + r] = blocks[j][r] /\ blocks[j] = SlaveCells(slaves[j])
    BY <1>5, <1>6
  <2>3. c[1 + (5 * (j - 1) + r)] = rest[5 * (j - 1) + r]
    BY <1>4, <1>7, <2>1
  <2>. QED BY <2>2, <2>3
<1>12. head[1] = [cell |-> "count", num |-> Len(slaves)]
  BY <1>4
<1>. QED BY <1>1, <1>8, <1>10, <1>11, <1>12 DEF c, slaves

\* The scan of parseSlaveInfo goes cell by cell.
ScanStart == [slaveNums |-> 0, list |-> <<>>, single |-> <<>>]

Scan(cells) ==
  LET scan[n \in 0..Len(cells)] ==
        IF n = 0 THEN ScanStart ELSE ScanCell(scan[n - 1], cells[n])
  IN  scan

\* The scan of the cells so far is that of the cells before and one step more.
LEMMA ScanIs ==
  ASSUME NEW X, NEW cells \in Seq(X)
  PROVE  /\ Scan(cells)[0] = ScanStart
         /\ \A n \in 1..Len(cells) :
              Scan(cells)[n] = ScanCell(Scan(cells)[n - 1], cells[n])
<1>. DEFINE To(f, n) == f = [i \in 0..n |-> IF i = 0 THEN ScanStart
                                            ELSE ScanCell(f[i - 1], cells[i])]
           N == {n \in Nat : \E f : To(f, n)}
<1>1. 0 \in N
  <2>. DEFINE f == [i \in 0..0 |-> ScanStart]
  <2>1. To(f, 0)
    OBVIOUS
  <2>. QED BY <2>1
<1>2. ASSUME NEW n \in Nat, n \in N PROVE n + 1 \in N
  <2>1. PICK f : To(f, n)
    BY <1>2
  <2>. DEFINE g == [i \in 0..(n + 1) |-> IF i = n + 1 THEN ScanCell(f[n], cells[n + 1])
                                        ELSE f[i]]
              rhs == [i \in 0..(n + 1) |-> IF i = 0 THEN ScanStart
                                           ELSE ScanCell(g[i - 1], cells[i])]
  <2>2. ASSUME NEW i \in 0..(n + 1) PROVE g[i] = rhs[i]
    <3>1. CASE i = 0
      <4>1. f[0] = ScanStart
        BY <2>1
      <4>. QED BY <3>1, <4>1
    <3>2. CASE i = n + 1
      <4>1. i - 1 = n /\ n \in 0..(n + 1) /\ n # n + 1
        BY <3>2
      <4>2. g[i - 1] = f[n] /\ g[i] = ScanCell(f[n], cells[n + 1])
        BY <3>2, <4>1
      <4>3. rhs[i] = ScanCell(g[i - 1], cells[i])
        BY <3>2
      <4>. QED BY <3>2, <4>2, <4>3
    <3>3. CASE i \in 1..n
      <4>1. i - 1 \in 0..(n + 1) /\ i - 1 # n + 1 /\ i # 0 /\ i # n + 1 /\ i \in 0..n
        BY <3>3
      <4>2. f[i] = ScanCell(f[i - 1], cells[i])
        BY <2>1, <4>1
      <4>3. g[i - 1] = f[i - 1] /\ g[i] = f[i]
        BY <4>1
      <4>4. rhs[i] = ScanCell(g[i - 1], cells[i])
        BY <4>1
      <4>. QED BY <4>2, <4>3, <4>4
    <3>. QED BY <3>1, <3>2, <3>3
  <2>3. g = rhs
    <3>. DEFINE a(i) == g[i]
                b(i) == rhs[i]
    <3>1. g = [i \in 0..(n + 1) |-> a(i)] /\ rhs = [i \in 0..(n + 1) |-> b(i)]
      OBVIOUS
    <3>2. \A i \in 0..(n + 1) : a(i) = b(i)
      BY <2>2
    <3>. HIDE DEF g, rhs, a, b
    <3>. QED BY <3>1, <3>2
  <2>4. To(g, n + 1)
    BY <2>3
  <2>. HIDE DEF g, To
  <2>. QED BY <2>4
<1>. HIDE DEF N
<1>3. Nat \subseteq N
  BY <1>1, <1>2, SetInduction
<1>4. Len(cells) \in Nat /\ Len(cells) \in N
  BY <1>3
<1>5. \E f : To(f, Len(cells))
  BY <1>4 DEF N
<1>6. Scan(cells) = CHOOSE f : To(f, Len(cells))
  BY DEF Scan
<1>7. To(Scan(cells), Len(cells))
  <2>. HIDE DEF To
  <2>. QED BY <1>5, <1>6
<1>. QED BY <1>4, <1>7

\* Where the scan is after n cells of an answer.
LEMMA ScanReaches ==
  ASSUME NEW v \in Views, NEW p \in ToSet(v.order),
         NEW k \in 1..Len(SlavesAnswer(v, p))
  PROVE  LET slaves == v.slaves[p]
         IN  \E j \in 0..Len(slaves), r \in 1..5 :
               /\ k = 5 * j + r - 4 /\ (j = 0 => r = 5)
               /\ Scan(SubSeq(SlavesAnswer(v, p), 1, k))[k] = ScanAt(slaves, j, r)
<1>. DEFINE slaves == v.slaves[p]
           m == Len(slaves)
           c == SlavesAnswer(v, p)
           cells == SubSeq(c, 1, k)
           At(n, j, r) == /\ n = 5 * j + r - 4 /\ (j = 0 => r = 5)
                          /\ Scan(cells)[n] = ScanAt(slaves, j, r)
           N == {n \in Nat : n \in 1..k => \E j \in 0..m, r \in 1..5 : At(n, j, r)}
<1>1. /\ slaves \in Seq(Slaves) /\ c \in Seq(ToSet(c)) /\ Len(c) = 5 * m + 1
      /\ c[1] = [cell |-> "count", num |-> m]
      /\ \A j \in 1..m : \A r \in 1..5 :
           c[1 + (5 * (j - 1) + r)] = SlaveCells(slaves[j])[r]
  BY SlavesAnswerIs, Zenon
<1>2. m \in Nat
  BY <1>1
<1>. HIDE DEF c, slaves
<1>3. /\ cells \in Seq(ToSet(c)) /\ Len(cells) = k /\ k \in Nat /\ k <= 5 * m + 1
      /\ \A i \in 1..k : cells[i] = c[i]
  BY <1>1, <1>2 DEF c
<1>. HIDE DEF cells, m
<1>4. /\ Scan(cells)[0] = ScanStart
      /\ \A n \in 1..k : Scan(cells)[n] = ScanCell(Scan(cells)[n - 1], cells[n])
  <2>1. cells \in Seq(ToSet(c)) /\ Len(cells) = k
    BY <1>3
  <2>. QED BY ONLY <2>1, ScanIs
<1>5. 0 \in N
  OBVIOUS
<1>6. ASSUME NEW n \in Nat, n \in N PROVE n + 1 \in N
  <2>. SUFFICES ASSUME n + 1 \in 1..k PROVE \E j \in 0..m, r \in 1..5 : At(n + 1, j, r)
    OBVIOUS
  <2>1. Scan(cells)[n + 1] = ScanCell(Scan(cells)[n], c[n + 1])
    <3>1. (n + 1) - 1 = n
      OBVIOUS
    <3>. QED BY <1>3, <1>4, <3>1
  <2>2. CASE n = 0
    <3>1. ScanCell(ScanStart, [cell |-> "count", num |-> m])
            = [slaveNums |-> m, list |-> <<>>, single |-> <<>>]
      BY DEF ScanCell, ScanStart
    <3>2. ScanAt(slaves, 0, 5) = [slaveNums |-> m, list |-> <<>>, single |-> <<>>]
      BY DEF ScanAt, Maps, m
    <3>3. c[n + 1] = [cell |-> "count", num |-> m] /\ Scan(cells)[n] = ScanStart
      BY <1>1, <1>4, <2>2
    <3>4. At(n + 1, 0, 5)
      BY <2>1, <2>2, <3>1, <3>2, <3>3
    <3>. HIDE DEF At
    <3>. QED BY <1>2, <3>4
  <2>3. CASE n # 0
    <3>1. n \in 1..k
      BY <2>3
    <3>2. PICK j \in 0..m, r \in 1..5 : At(n, j, r)
      BY <1>6, <3>1
    <3>3. CASE r < 5
      <4>1. j \in 1..m /\ r \in 1..4
        BY <3>2, <3>3
      <4>2. n + 1 = 1 + (5 * (j - 1) + (r + 1)) /\ r + 1 \in 1..5
        BY <3>2, <4>1
      <4>3. c[n + 1] = SlaveCells(slaves[j])[r + 1]
        <5>1. c[1 + (5 * (j - 1) + (r + 1))] = SlaveCells(slaves[j])[r + 1]
          BY <1>1, <4>1, <4>2, Zenon
        <5>. QED BY ONLY <4>2, <5>1
      <4>4. ScanCell(ScanAt(slaves, j, r), SlaveCells(slaves[j])[r + 1])
              = ScanAt(slaves, j, r + 1)
        BY <1>1, <4>1, ScanField DEF m
      <4>5. Scan(cells)[n + 1] = ScanAt(slaves, j, r + 1)
        BY <2>1, <3>2, <4>3, <4>4
      <4>6. At(n + 1, j, r + 1)
        BY <3>2, <4>1, <4>5
      <4>. HIDE DEF At
      <4>. QED BY <4>1, <4>2, <4>6
    <3>4. CASE r = 5
      <4>1. j \in 0..(m - 1)
        BY <1>2, <1>3, <3>2, <3>4
      <4>2. n + 1 = 1 + (5 * ((j + 1) - 1) + 1) /\ j + 1 \in 1..m
        BY <1>2, <3>2, <3>4, <4>1
      <4>3. c[n + 1] = SlaveCells(slaves[j + 1])[1]
        <5>1. 1 \in 1..5
          OBVIOUS
        <5>2. c[1 + (5 * ((j + 1) - 1) + 1)] = SlaveCells(slaves[j + 1])[1]
          BY <1>1, <4>2, <5>1, Zenon
        <5>. QED BY ONLY <4>2, <5>2
      <4>4. ScanCell(ScanAt(slaves, j, 5), SlaveCells(slaves[j + 1])[1])
              = ScanAt(slaves, j + 1, 1)
        BY <1>1, <4>1, ScanHeader DEF m
      <4>5. Scan(cells)[n + 1] = ScanAt(slaves, j + 1, 1)
        BY <2>1, <3>2, <3>4, <4>3, <4>4
      <4>6. At(n + 1, j + 1, 1)
        BY <4>1, <4>2, <4>5
      <4>. HIDE DEF At
      <4>. QED BY <4>2, <4>6
    <3>. QED BY <3>3, <3>4
  <2>. QED BY <2>2, <2>3
<1>. HIDE DEF N
<1>7. Nat \subseteq N
  BY <1>5, <1>6, SetInduction
<1>8. \E j \in 0..m, r \in 1..5 : At(k, j, r)
  <2>1. k \in N /\ k \in 1..k
    BY <1>3, <1>7
  <2>. HIDE DEF At
  <2>. QED BY <2>1 DEF N
<1>. QED BY <1>8 DEF cells, c, m, slaves

\* The maps of all m slaves, the last with the fields of r cells.
Whole(slaves, r) ==
  [t \in 1..Len(slaves) |-> Fields(slaves[t], IF t = Len(slaves) THEN r ELSE 5)]

\* Of an answer that may be cut, parseSlaveInfo makes a map for every slave or
\* none; only the last map can lack fields, and only if the answer was cut.
LEMMA ParseSlaveInfoIs ==
  ASSUME NEW v \in Views, NEW p \in PoolNames, NEW k \in 0..Len(SlavesAnswer(v, p))
  PROVE  LET got == ParseSlaveInfo(SubSeq(SlavesAnswer(v, p), 1, k))
         IN  /\ got = <<>> \/ \E r \in 2..5 : got = Whole(v.slaves[p], r)
             /\ p \in ToSet(v.order) /\ k = Len(SlavesAnswer(v, p))
                  => got = Whole(v.slaves[p], 5)
<1>. DEFINE slaves == v.slaves[p]
           m == Len(slaves)
           c == SlavesAnswer(v, p)
           cells == SubSeq(c, 1, k)
           got == ParseSlaveInfo(cells)
<1>1. CASE p \notin ToSet(v.order)
  <2>1. c = <<[cell |-> "error"]>>
    BY <1>1 DEF SlavesAnswer
  <2>2. k = 0 \/ k = 1
    BY <2>1
  <2>3. cells = <<>> \/ cells[1].cell = "error"
    <3>1. CASE k = 0
      BY <2>1, <3>1
    <3>2. CASE k = 1
      BY <2>1, <3>2
    <3>. QED BY <2>2, <3>1, <3>2
  <2>. HIDE DEF cells, c
  <2>4. got = <<>>
    BY <2>3 DEF ParseSlaveInfo
  <2>. QED BY <1>1, <2>4 DEF cells, c
<1>2. CASE p \in ToSet(v.order)
  <2>1. /\ slaves \in Seq(Slaves) /\ c \in Seq(ToSet(c)) /\ Len(c) = 5 * m + 1
        /\ c[1] = [cell |-> "count", num |-> m]
    BY <1>2, SlavesAnswerIs, Zenon
  <2>2. m \in Nat
    BY <2>1
  <2>. HIDE DEF c, slaves
  <2>3. CASE k = 0
    <3>1. cells = <<>>
      BY <2>1, <2>3
    <3>. HIDE DEF cells
    <3>2. got = <<>>
      BY <3>1 DEF ParseSlaveInfo
    <3>3. k # Len(c)
      BY <2>1, <2>2, <2>3
    <3>. QED BY <3>2, <3>3 DEF cells, c
  <2>4. CASE k # 0
    <3>1. k \in 1..Len(c)
      BY <2>4 DEF c
    <3>2. Len(cells) = k /\ cells # <<>> /\ cells[1].cell = "count"
      BY <2>1, <3>1
    <3>3. PICK j \in 0..m, r \in 1..5 :
            /\ k = 5 * j + r - 4 /\ (j = 0 => r = 5)
            /\ Scan(cells)[k] = ScanAt(slaves, j, r)
      BY <1>2, <3>1, ScanReaches DEF c, slaves
    <3>. HIDE DEF cells
    <3>. DEFINE end == Scan(cells)[k]
                readSoFar == IF DOMAIN end.single = {} THEN end.list
                             ELSE Append(end.list, end.single)
    <3>4. got = IF end.slaveNums = Len(readSoFar) THEN readSoFar ELSE <<>>
      BY <3>2 DEF ParseSlaveInfo, Scan, ScanStart
    <3>5. /\ end.slaveNums = m /\ end.list = Maps(slaves, j - 1)
          /\ end.single = IF j = 0 THEN <<>> ELSE Fields(slaves[j], r)
      BY <3>3 DEF ScanAt
    <3>. HIDE DEF got, end
    <3>6. CASE j = 0
      <4>1. readSoFar = <<>>
        BY <3>5, <3>6 DEF Maps
      <4>. HIDE DEF readSoFar
      <4>2. got = <<>>
        BY <3>4, <4>1
      <4>3. k = Len(c) => m = 0
        BY <2>1, <2>2, <3>3, <3>6
      <4>4. m = 0 => Whole(slaves, 5) = <<>>
        BY DEF Whole
      <4>. QED BY <4>2, <4>3, <4>4 DEF got, cells, c, slaves
    <3>7. CASE j # 0 /\ r = 1
      <4>1. end.single = <<>> /\ DOMAIN end.single = {}
        BY <3>5, <3>7 DEF Fields, Keys
      <4>2. readSoFar = Maps(slaves, j - 1) /\ Len(readSoFar) = j - 1
        BY <3>5, <3>7, <4>1 DEF Maps
      <4>. HIDE DEF readSoFar
      <4>3. got = <<>>
        BY <2>2, <3>4, <3>5, <4>2
      <4>4. k # Len(c)
        BY <2>1, <2>2, <3>3, <3>7
      <4>. QED BY <4>3, <4>4 DEF got, cells, c, slaves
    <3>8. CASE j # 0 /\ r # 1
      <4>. DEFINE f == Fields(slaves[j], r)
                  l == Maps(slaves, j - 1)
                  X == {Fields(slaves[t], q) : t \in 1..m, q \in 1..5}
      <4>1. end.single = f /\ "name" \in DOMAIN f
        BY <3>5, <3>8 DEF Fields, Keys
      <4>2. readSoFar = Append(l, f)
        BY <3>5, <4>1
      <4>3. l \in Seq(X) /\ Len(l) = j - 1 /\ f \in X
        BY <2>2, <3>8 DEF Maps
      <4>4. Len(readSoFar) = j
        <5>. HIDE DEF l, f, X, readSoFar
        <5>. QED BY <3>8, <4>2, <4>3
      <4>5. CASE j # m
        <5>. HIDE DEF readSoFar
        <5>1. got = <<>>
          BY <2>2, <3>4, <3>5, <4>4, <4>5
        <5>2. k # Len(c)
          BY <2>1, <2>2, <3>3, <4>5
        <5>. QED BY <5>1, <5>2 DEF got, cells, c, slaves
      <4>6. CASE j = m
        <5>1. readSoFar = Whole(slaves, r)
          <6>. DEFINE w == Whole(slaves, r)
          <6>1. w \in Seq(X) /\ Len(w) = j /\ w[j] = f
            BY <2>2, <3>8, <4>6 DEF Whole
          <6>2. \A t \in 1..(j - 1) : w[t] = l[t]
            BY <2>2, <3>8, <4>6 DEF Whole, Maps
          <6>. HIDE DEF w, l, f, X, readSoFar
          <6>3. Append(l, f) \in Seq(X) /\ \A t \in 1..j : Append(l, f)[t] = w[t]
            BY <3>8, <4>3, <6>1, <6>2
          <6>. QED BY <4>2, <4>4, <6>1, <6>3 DEF w
        <5>. HIDE DEF readSoFar
        <5>2. got = Whole(slaves, r)
          BY <3>4, <3>5, <4>4, <4>6, <5>1
        <5>3. k = Len(c) => r = 5
          BY <2>1, <2>2, <3>3, <4>6
        <5>4. r \in 2..5
          BY <3>8
        <5>. QED BY <5>2, <5>3, <5>4 DEF got, cells, c, slaves
      <4>. QED BY <4>5, <4>6
    <3>. QED BY <3>6, <3>7, <3>8
  <2>. QED BY <2>3, <2>4
<1>. QED BY <1>1, <1>2

-----------------------------------------------------------------------------
(* PharseSlave.                                                            *)

\* Where pharseSlave leaves a list of maps.
Stops(maps) == {i \in 1..Len(maps) : NotASlave(maps[i]) \/ Inconsistent(maps[i])}
\* The first of these places, 0 if there is none.
StopOf(maps) == IF Stops(maps) # {} THEN Min(Stops(maps)) ELSE 0

\* pharseSlave stops at the first map it cannot take, or nowhere.
LEMMA StopOfIs ==
  ASSUME NEW X, NEW maps \in Seq(X)
  PROVE     \/ StopOf(maps) = 0 /\ Stops(maps) = {}
            \/ /\ StopOf(maps) \in Stops(maps)
               /\ \A i \in 1..(StopOf(maps) - 1) : i \notin Stops(maps)
<1>2. Stops(maps) \in SUBSET Nat
  BY DEF Stops
<1>3. CASE Stops(maps) = {}
  BY <1>3 DEF StopOf
<1>4. CASE Stops(maps) # {}
  <2>1. StopOf(maps) \in Stops(maps) /\ \A i \in Stops(maps) : StopOf(maps) <= i
    BY <1>2, <1>4, MinIs DEF StopOf
  <2>2. \A i \in 1..(StopOf(maps) - 1) : i \notin Stops(maps)
    BY <1>2, <2>1
  <2>. QED BY <2>1, <2>2
<1>. QED BY <1>3, <1>4

\* The first n slaves as instances of pool p.
Instances(slaves, n, p) == [i \in 1..n |-> [name |-> p, addr |-> slaves[i].addr]]

\* Until where the slaves of a pool are usable.
UsableTo(slaves) ==
  LET downs == {i \in 1..Len(slaves) : slaves[i].flags # "slave"}
  IN  IF downs # {} THEN Min(downs) - 1 ELSE Len(slaves)

\* The usable slaves of a pool are those listed before the first that is down.
LEMMA UsableIs ==
  ASSUME NEW v \in Views, NEW p \in PoolNames
  PROVE  LET slaves == v.slaves[p]
             n == UsableTo(slaves)
         IN  /\ Len(slaves) \in Nat /\ n \in 0..Len(slaves)
             /\ Usable(v, p) = Instances(slaves, n, p)
             /\ \A i \in 1..n : slaves[i].flags = "slave"
             /\ n < Len(slaves) => slaves[n + 1].flags # "slave"
<1>. DEFINE slaves == v.slaves[p]
           m == Len(slaves)
           downs == {i \in 1..m : slaves[i].flags # "slave"}
           n == UsableTo(slaves)
<1>1. slaves \in Seq(Slaves)
  BY DEF Views, Slaves
<1>. HIDE DEF slaves
<1>2. m \in Nat /\ downs \in SUBSET Nat
  BY <1>1
<1>3. SelectInSeq(slaves, LAMBDA x : x.flags # "slave") = IF downs # {} THEN Min(downs) ELSE 0
  BY DEF SelectInSeq
<1>4. Usable(v, p) =
        LET down == IF downs # {} THEN Min(downs) ELSE 0
            healthy == IF down = 0 THEN slaves ELSE SubSeq(slaves, 1, down - 1)
        IN  [i \in DOMAIN healthy |-> [name |-> p, addr |-> healthy[i].addr]]
  BY <1>3 DEF Usable, slaves
<1>5. CASE downs = {}
  <2>1. n = m
    BY <1>5 DEF UsableTo
  <2>2. Usable(v, p) = [i \in 1..m |-> [name |-> p, addr |-> slaves[i].addr]]
    <3>1. DOMAIN slaves = 1..m
      BY <1>1
    <3>. QED BY <1>4, <1>5, <3>1
  <2>3. Usable(v, p) = Instances(slaves, n, p)
    BY <2>1, <2>2 DEF Instances
  <2>4. \A i \in 1..n : slaves[i].flags = "slave"
    BY <1>5, <2>1
  <2>. QED BY <1>2, <2>1, <2>3, <2>4 DEF slaves
<1>6. CASE downs # {}
  <2>1. Min(downs) \in downs /\ \A i \in downs : Min(downs) <= i
    BY <1>2, <1>6, MinIs
  <2>2. n = Min(downs) - 1
    BY <1>6 DEF UsableTo
  <2>. HIDE DEF n
  <2>3. n \in 0..m /\ n + 1 \in downs /\ n + 1 = Min(downs) /\ Min(downs) # 0
    BY <1>2, <2>1, <2>2
  <2>4. \A i \in 1..n : i \notin downs
    BY <1>2, <2>1, <2>3
  <2>5. /\ SubSeq(slaves, 1, n) = [i \in 1..n |-> slaves[i]]
        /\ DOMAIN SubSeq(slaves, 1, n) = 1..n
    BY <1>1, <2>3
  <2>6. Usable(v, p) = [i \in 1..n |-> [name |-> p, addr |-> slaves[i].addr]]
    <3>. DEFINE healthy == SubSeq(slaves, 1, n)
    <3>1. Usable(v, p) = [i \in DOMAIN healthy |-> [name |-> p, addr |-> healthy[i].addr]]
      BY <1>4, <1>6, <2>2, <2>3
    <3>. HIDE DEF healthy
    <3>2. DOMAIN healthy = 1..n /\ \A i \in 1..n : healthy[i] = slaves[i]
      BY <2>5 DEF healthy
    <3>. QED BY <3>1, <3>2
  <2>7. Usable(v, p) = Instances(slaves, n, p)
    BY <2>6 DEF Instances
  <2>8. (\A i \in 1..n : slaves[i].flags = "slave") /\ slaves[n + 1].flags # "slave"
    BY <2>3, <2>4
  <2>. QED BY <1>2, <2>3, <2>7, <2>8 DEF slaves, n
<1>. QED BY <1>5, <1>6

\* What makes pharseSlave leave a list: of a map with every field only the
\* slave's state and the form of its address do, of one that lacks fields the
\* flags that are not there.
LEMMA StopAt ==
  ASSUME NEW slave \in Slaves, NEW r \in 2..5
  PROVE  LET map == Fields(slave, r)
         IN  /\ NotASlave(map) <=> r # 5 \/ slave.flags # "slave"
             /\ ~NotASlave(map) => (Inconsistent(map) <=> slave.addr \notin IPv4)
             /\ map["name"] = slave.addr
<1>1. CASE r = 5
  BY <1>1 DEF Fields, Keys, NotASlave, Inconsistent, Has
<1>2. CASE r # 5
  <2>1. "flags" \notin DOMAIN Fields(slave, r)
    BY <1>2 DEF Fields, Keys
  <2>2. NotASlave(Fields(slave, r))
    BY <2>1 DEF NotASlave, Has
  <2>3. Fields(slave, r)["name"] = slave.addr
    BY <1>2 DEF Fields, Keys
  <2>. QED BY <1>2, <2>2, <2>3
<1>. QED BY <1>1, <1>2

\* pharseSlave adds usable slaves of the pool asked about, or forgets those it
\* has; of a whole answer without IPv6 addresses it adds all usable ones.
LEMMA PharseSlaveIs ==
  ASSUME NEW v \in Views, NEW p \in PoolNames, NEW k \in 0..Len(SlavesAnswer(v, p)),
         NEW list \in Seq(RedisInfo)
  PROVE  LET slaves == v.slaves[p]
             got == PharseSlave(list, p, ParseSlaveInfo(SubSeq(SlavesAnswer(v, p), 1, k)))
         IN  /\ \/ got = <<>>
                \/ \E n \in 0..Len(slaves) :
                     /\ \A i \in 1..n : slaves[i].flags = "slave" /\ slaves[i].addr \in IPv4
                     /\ got = list \o Instances(slaves, n, p)
             /\ /\ p \in ToSet(v.order) /\ k = Len(SlavesAnswer(v, p))
                /\ \A i \in 1..Len(slaves) : slaves[i].addr \in IPv4
                => got = list \o Usable(v, p)
<1>. DEFINE slaves == v.slaves[p]
           m == Len(slaves)
           maps == ParseSlaveInfo(SubSeq(SlavesAnswer(v, p), 1, k))
           got == PharseSlave(list, p, maps)
           complete == p \in ToSet(v.order) /\ k = Len(SlavesAnswer(v, p))
<1>1. /\ maps = <<>> \/ \E r \in 2..5 : maps = Whole(slaves, r)
      /\ complete => maps = Whole(slaves, 5)
  BY ParseSlaveInfoIs, Zenon
<1>2. slaves \in Seq(Slaves) /\ m \in Nat
  <2>1. slaves \in Seq(Slaves)
    BY DEF Views, Slaves
  <2>. QED BY <2>1
<1>. HIDE DEF maps, complete, slaves
<1>. DEFINE stop == StopOf(maps)
           ahead == IF stop = 0 THEN maps ELSE SubSeq(maps, 1, stop - 1)
           found == [i \in DOMAIN ahead |-> [name |-> p, addr |-> ahead[i]["name"]]]
<1>3. CASE maps = <<>>
  <2>1. Stops(maps) = {} /\ stop = 0
    BY <1>3 DEF Stops, StopOf
  <2>2. SelectInSeq(maps, LAMBDA x : NotASlave(x) \/ Inconsistent(x)) = 0
    BY <2>1, <1>3 DEF SelectInSeq, Stops
  <2>3. got = list \o [i \in DOMAIN maps |-> [name |-> p, addr |-> maps[i]["name"]]]
    BY <2>2 DEF PharseSlave
  <2>4. [i \in DOMAIN maps |-> [name |-> p, addr |-> maps[i]["name"]]] = <<>>
    BY <1>3
  <2>5. Instances(slaves, 0, p) = <<>>
    BY DEF Instances
  <2>6. got = list \o Instances(slaves, 0, p)
    BY <2>3, <2>4, <2>5
  <2>7. complete => Usable(v, p) = <<>>
    <3>. SUFFICES ASSUME complete PROVE Usable(v, p) = <<>>
      OBVIOUS
    <3>1. Whole(slaves, 5) = <<>>
      BY <1>1, <1>3
    <3>2. m = 0
      BY <1>2, <3>1 DEF Whole
    <3>3. UsableTo(slaves) \in 0..m /\ Usable(v, p) = Instances(slaves, UsableTo(slaves), p)
      BY UsableIs DEF slaves
    <3>. QED BY <2>5, <3>2, <3>3
  <2>8. complete => got = list \o Usable(v, p)
    BY <2>5, <2>6, <2>7
  <2>9. \A i \in 1..0 : slaves[i].flags = "slave" /\ slaves[i].addr \in IPv4
    OBVIOUS
  <2>. HIDE DEF got
  <2>. QED BY <1>2, <2>6, <2>8, <2>9 DEF slaves, complete, maps, got
<1>4. CASE maps # <<>>
  <2>. DEFINE X == {Fields(slaves[t], q) : t \in 1..m, q \in 1..5}
  <2>1. PICK r \in 2..5 : maps = Whole(slaves, r) /\ (complete => r = 5)
    BY <1>1, <1>4, 5 \in 2..5
  <2>. DEFINE R(t) == IF t = m THEN r ELSE 5
  <2>2. /\ Len(maps) = m /\ DOMAIN maps = 1..m
        /\ \A t \in 1..m : maps[t] = Fields(slaves[t], R(t)) /\ R(t) \in 2..5
    BY <1>2, <2>1 DEF Whole
  <2>3. maps \in Seq(X)
    <3>1. maps = [t \in 1..m |-> maps[t]]
      BY <2>1 DEF Whole
    <3>2. \A t \in 1..m : maps[t] \in X
      <4>1. \A t \in 1..m : R(t) \in 1..5
        BY <2>1
      <4>. HIDE DEF R
      <4>. QED BY <2>2, <4>1
    <3>. HIDE DEF X
    <3>. QED BY <1>2, <3>1, <3>2
  <2>. HIDE DEF X
  <2>0. SelectInSeq(maps, LAMBDA x : NotASlave(x) \/ Inconsistent(x)) = stop
    BY DEF SelectInSeq, StopOf, Stops
  <2>4.    \/ stop = 0 /\ Stops(maps) = {}
           \/ stop \in Stops(maps) /\ \A i \in 1..(stop - 1) : i \notin Stops(maps)
    BY ONLY <2>3, StopOfIs
  <2>. HIDE DEF stop, X
  <2>5. got = IF stop # 0 /\ ~NotASlave(maps[stop]) THEN <<>> ELSE list \o found
    BY <2>0 DEF PharseSlave
  <2>. DEFINE n == IF stop = 0 THEN m ELSE stop - 1
  <2>6. Stops(maps) \subseteq 1..m
    BY <2>2 DEF Stops
  <2>7. n \in 0..m
    <3>1. stop = 0 \/ stop \in 1..m
      BY ONLY <2>4, <2>6
    <3>. QED BY ONLY <1>2, <3>1
  <2>8. DOMAIN ahead = 1..n /\ \A i \in 1..n : ahead[i] = maps[i]
    <3>1. CASE stop = 0
      BY <2>2, <3>1
    <3>2. CASE stop # 0
      <4>1. stop - 1 \in 0..m /\ n = stop - 1
        <5>1. stop \in 1..m
          BY ONLY <2>4, <2>6, <3>2
        <5>. QED BY ONLY <1>2, <3>2, <5>1
      <4>. DEFINE q == stop - 1
                  u == SubSeq(maps, 1, q)
      <4>2. q \in 0..Len(maps)
        BY <2>2, <4>1
      <4>. HIDE DEF q
      <4>3. DOMAIN u = 1..q /\ \A i \in 1..q : u[i] = maps[i]
        BY <2>3, <4>2
      <4>4. ahead = u /\ n = q
        BY <3>2, <4>1 DEF q
      <4>. HIDE DEF u, n, ahead
      <4>. QED BY <4>3, <4>4
    <3>. QED BY <3>1, <3>2
  <2>. HIDE DEF ahead
  <2>9. \A i \in 1..n : i \notin Stops(maps) /\ i \in 1..m
    BY <1>2, <2>4, <2>6, <2>7
  <2>10. \A i \in 1..m :
           /\ i \in Stops(maps) <=> R(i) # 5 \/ slaves[i].flags # "slave" \/ slaves[i].addr \notin IPv4
           /\ NotASlave(maps[i]) <=> R(i) # 5 \/ slaves[i].flags # "slave"
           /\ maps[i]["name"] = slaves[i].addr
    <3>. SUFFICES ASSUME NEW i \in 1..m
                  PROVE
           /\ i \in Stops(maps) <=> R(i) # 5 \/ slaves[i].flags # "slave" \/ slaves[i].addr \notin IPv4
           /\ NotASlave(maps[i]) <=> R(i) # 5 \/ slaves[i].flags # "slave"
           /\ maps[i]["name"] = slaves[i].addr
      OBVIOUS
    <3>0. slaves[i] \in Slaves
      BY <1>2
    <3>. HIDE DEF R
    <3>1. slaves[i] \in Slaves /\ R(i) \in 2..5 /\ maps[i] = Fields(slaves[i], R(i))
      BY <2>2, <3>0
    <3>2. /\ NotASlave(maps[i]) <=> R(i) # 5 \/ slaves[i].flags # "slave"
          /\ ~NotASlave(maps[i]) => (Inconsistent(maps[i]) <=> slaves[i].addr \notin IPv4)
          /\ maps[i]["name"] = slaves[i].addr
      BY <3>1, StopAt
    <3>3. i \in Stops(maps) <=> NotASlave(maps[i]) \/ Inconsistent(maps[i])
      BY <2>2 DEF Stops
    <3>. QED BY <3>2, <3>3
  <2>. HIDE DEF n
  <2>11. found = Instances(slaves, n, p)
    <3>1. \A i \in 1..n : ahead[i]["name"] = slaves[i].addr
      BY <2>8, <2>9, <2>10
    <3>. QED BY <2>8, <3>1 DEF Instances
  <2>12. \A i \in 1..n : slaves[i].flags = "slave" /\ slaves[i].addr \in IPv4
    BY <2>9, <2>10
  <2>13. ASSUME complete, \A i \in 1..m : slaves[i].addr \in IPv4
         PROVE  got = list \o Usable(v, p)
    <3>1. \A i \in 1..m : R(i) = 5
      BY <2>1, <2>13
    <3>2. \A i \in 1..m : i \in Stops(maps) <=> slaves[i].flags # "slave"
      BY <2>10, <2>13, <3>1
    <3>3. stop # 0 => NotASlave(maps[stop])
      BY <2>4, <2>6, <2>10, <3>2
    <3>. DEFINE u == UsableTo(slaves)
    <3>4. /\ u \in 0..m /\ Usable(v, p) = Instances(slaves, u, p)
          /\ \A i \in 1..u : slaves[i].flags = "slave"
          /\ u < m => slaves[u + 1].flags # "slave"
      BY UsableIs, Zenon DEF slaves
    <3>. HIDE DEF u
    <3>5. u = n
      <4>1. \A i \in 1..n : slaves[i].flags = "slave"
        BY <2>12
      <4>2. n < m => slaves[n + 1].flags # "slave"
        <5>1. n < m => stop \in Stops(maps) /\ n + 1 = stop
          BY <1>2, <2>4, <2>6 DEF n
        <5>. QED BY <2>6, <3>2, <5>1
      <4>3. ~(u < n)
        BY <1>2, <2>7, <3>4, <4>1
      <4>4. ~(n < u)
        BY <1>2, <2>7, <3>4, <4>2
      <4>. QED BY <1>2, <2>7, <3>4, <4>3, <4>4
    <3>. QED BY <2>5, <2>11, <3>3, <3>4, <3>5
  <2>14. got = <<>> \/ got = list \o Instances(slaves, n, p)
    BY <2>5, <2>11
  <2>. HIDE DEF got
  <2>. QED BY <2>7, <2>12, <2>13, <2>14 DEF slaves, complete, maps, got
<1>. QED BY <1>3, <1>4

-----------------------------------------------------------------------------
(* The hashes.                                                             *)

\* % of a positive number of values gives one of them.
LEMMA Remainder ==
  ASSUME NEW a \in Int, NEW n \in Nat \ {0}
  PROVE  a % n \in 0..(n - 1)
OBVIOUS

\* What is below n stays what it is or gets smaller.
LEMMA RemainderOfSmall ==
  ASSUME NEW a \in Nat, NEW n \in Nat \ {0}
  PROVE  a % n <= a
<1>1. CASE a < n
  <2>1. (a % n) = a
    BY <1>1
  <2>. QED BY <2>1
<1>2. CASE n <= a
  <2>1. a % n \in 0..(n - 1)
    BY Remainder
  <2>. QED BY <1>2, <2>1
<1>. QED BY <1>1, <1>2

\* The index of a key is one of a list that is not empty.
LEMMA HashIndexIs ==
  ASSUME NEW hash \in Nat, NEW range \in Nat \ {0}, NEW n \in Nat \ {0}
  PROVE  HashIndex(hash, range, n) \in 0..(n - 1)
<1>. DEFINE a == Signed(hash, range)
           rem == Rem(a, n)
           b == IF rem < 0 THEN -rem ELSE rem
<1>1. a \in Int
  BY DEF Signed
<1>. HIDE DEF a
<1>2. rem \in Int /\ b \in 0..(n - 1)
  <2>1. CASE a >= 0
    <3>1. a % n \in 0..(n - 1)
      BY <1>1, Remainder
    <3>2. rem = a % n
      BY <2>1 DEF Rem
    <3>. QED BY <3>1, <3>2
  <2>2. CASE ~(a >= 0)
    <3>1. (-a) % n \in 0..(n - 1)
      BY <1>1, Remainder
    <3>2. rem = -((-a) % n)
      BY <2>2 DEF Rem
    <3>. QED BY <3>1, <3>2
  <2>. QED BY <2>1, <2>2
<1>3. HashIndex(hash, range, n) = b % range
  BY DEF HashIndex, a
<1>. HIDE DEF b
<1>4. b \in Nat /\ b \in Int /\ range \in Nat \ {0}
  BY <1>2
<1>5. b % range <= b
  BY ONLY <1>4, RemainderOfSmall
<1>6. b % range \in 0..(range - 1)
  BY ONLY <1>4, Remainder
<1>. QED BY <1>2, <1>3, <1>5, <1>6

\* The hash redisComHash makes of a key, character by character.
ComHash(key, range) ==
  LET hash[n \in 0..Len(key)] ==
        IF n = 0 THEN 5381 % range ELSE (hash[n - 1] * 33 + key[n]) % range
  IN  hash

\* It is a number.
LEMMA ComHashIs ==
  ASSUME NEW key \in Seq(Int), NEW range \in Nat \ {0}
  PROVE  ComHash(key, range)[Len(key)] \in Nat
<1>. DEFINE h0 == 5381 % range
           next(h, i) == (h * 33 + key[i]) % range
           To(f, n) == f = [i \in 0..n |-> IF i = 0 THEN h0 ELSE next(f[i - 1], i)]
           Some(n) == \E f : To(f, n) /\ f \in [0..n -> Nat]
           N == {n \in Nat : n <= Len(key) => Some(n)}
<1>1. h0 \in Nat
  OBVIOUS
<1>2. ASSUME NEW h \in Nat, NEW i \in 1..Len(key) PROVE next(h, i) \in Nat
  <2>. DEFINE y == h * 33 + key[i]
  <2>1. key[i] \in Int
    OBVIOUS
  <2>2. y \in Int
    BY <2>1
  <2>. HIDE DEF y
  <2>3. y % range \in 0..(range - 1)
    BY <2>2, Remainder
  <2>. QED BY <2>3 DEF y
<1>3. ComHash(key, range) = CHOOSE f : To(f, Len(key))
  BY DEF ComHash
<1>. HIDE DEF h0, next
<1>4. 0 \in N
  <2>. DEFINE f == [i \in 0..0 |-> h0]
  <2>1. To(f, 0) /\ f \in [0..0 -> Nat]
    BY <1>1
  <2>. QED BY <2>1
<1>5. ASSUME NEW n \in Nat, n \in N PROVE n + 1 \in N
  <2>1. ASSUME n + 1 <= Len(key) PROVE Some(n + 1)
    <3>1. PICK f : To(f, n) /\ f \in [0..n -> Nat]
      <4>1. Some(n)
        <5>1. n <= Len(key)
          BY <2>1
        <5>. HIDE DEF Some
        <5>. QED BY <1>5, <5>1
      <4>. HIDE DEF To
      <4>. QED BY <4>1
    <3>. DEFINE x == next(f[n], n + 1)
                g == [i \in 0..(n + 1) |-> IF i = n + 1 THEN x ELSE f[i]]
                to(i) == IF i = 0 THEN h0 ELSE next(g[i - 1], i)
    <3>2. x \in Nat
      <4>1. f[n] \in Nat /\ n + 1 \in 1..Len(key)
        BY <2>1, <3>1
      <4>. QED BY <1>2, <4>1
    <3>3. ASSUME NEW i \in 0..(n + 1) PROVE g[i] = to(i)
      <4>1. CASE i = 0
        <5>1. f[0] = h0
          BY <3>1
        <5>. QED BY <4>1, <5>1
      <4>2. CASE i = n + 1
        <5>1. i - 1 = n /\ n \in 0..(n + 1) /\ n # n + 1 /\ i # 0
          BY <4>2
        <5>2. g[i - 1] = f[n] /\ g[i] = x
          BY <4>2, <5>1
        <5>. QED BY <4>2, <5>1, <5>2
      <4>3. CASE i \in 1..n
        <5>1. i - 1 \in 0..(n + 1) /\ i - 1 # n + 1 /\ i # 0 /\ i # n + 1 /\ i \in 0..n
          BY <4>3
        <5>2. f[i] = next(f[i - 1], i)
          BY <3>1, <5>1
        <5>3. g[i - 1] = f[i - 1] /\ g[i] = f[i]
          BY <5>1
        <5>. QED BY <5>1, <5>2, <5>3
      <4>. QED BY <4>1, <4>2, <4>3
    <3>. HIDE DEF x
    <3>4. g \in [0..(n + 1) -> Nat]
      BY <3>1, <3>2
    <3>5. g = [i \in 0..(n + 1) |-> g[i]]
      OBVIOUS
    <3>6. To(g, n + 1)
      <4>. HIDE DEF g
      <4>1. g = [i \in 0..(n + 1) |-> to(i)]
        <5>. HIDE DEF to
        <5>. QED BY <3>3, <3>5
      <4>. QED BY <4>1
    <3>. HIDE DEF g, To
    <3>. QED BY <3>4, <3>6
  <2>. HIDE DEF Some
  <2>. QED BY <2>1
<1>6. Nat \subseteq N
  <2>. HIDE DEF N
  <2>. QED BY <1>4, <1>5, SetInduction
<1>7. PICK f : To(f, Len(key)) /\ f \in [0..Len(key) -> Nat]
  <2>1. Len(key) \in Nat /\ Len(key) \in N
    <3>. HIDE DEF N
    <3>. QED BY <1>6
  <2>2. Some(Len(key))
    <3>. HIDE DEF Some
    <3>. QED BY <2>1
  <2>. HIDE DEF To
  <2>. QED BY <2>2
<1>. DEFINE h == ComHash(key, range)
<1>8. To(h, Len(key))
  <2>. HIDE DEF To
  <2>. QED BY <1>3, <1>7
<1>. HIDE DEF h
<1>9. h = f
  <2>. DEFINE G == {n \in Nat : n <= Len(key) => h[n] = f[n]}
  <2>1. 0 \in G
    BY <1>7, <1>8
  <2>2. ASSUME NEW n \in Nat, n \in G PROVE n + 1 \in G
    <3>1. ASSUME n + 1 <= Len(key) PROVE h[n + 1] = f[n + 1]
      <4>1. h[n] = f[n]
        BY <2>2, <3>1
      <4>2. n + 1 \in 0..Len(key) /\ (n + 1) - 1 = n /\ n + 1 # 0
        BY <3>1
      <4>3. h[n + 1] = next(h[n], n + 1) /\ f[n + 1] = next(f[n], n + 1)
        BY <1>7, <1>8, <4>2
      <4>. QED BY <4>1, <4>3
    <3>. QED BY <3>1
  <2>3. Nat \subseteq G
    <3>. HIDE DEF G
    <3>. QED BY <2>1, <2>2, SetInduction
  <2>4. \A n \in 0..Len(key) : h[n] = f[n]
    BY <2>3
  <2>5. h = [n \in 0..Len(key) |-> h[n]] /\ f = [n \in 0..Len(key) |-> f[n]]
    BY <1>7, <1>8
  <2>. QED BY <2>4, <2>5
<1>10. Len(key) \in 0..Len(key)
  OBVIOUS
<1>. QED BY <1>7, <1>9, <1>10 DEF h

\* Both hashes give an index of a list that is not empty.
LEMMA RedisComHashIs ==
  ASSUME NEW key \in Seq(Int), NEW range \in Nat \ {0}, NEW n \in Nat \ {0}
  PROVE  RedisComHash(key, range, n) \in 0..(n - 1)
<1>. DEFINE h == ComHash(key, range)[Len(key)]
<1>1. h \in Nat
  BY ComHashIs
<1>2. RedisComHash(key, range, n) = IF n <= 0 THEN 0 ELSE HashIndex(h, range, n)
  BY DEF RedisComHash, ComHash
<1>. HIDE DEF h
<1>. QED BY <1>1, <1>2, HashIndexIs

\* The same of the hash by CRC32.
LEMMA RedisCrc32HashIs ==
  ASSUME NEW crc32 \in Nat, NEW n \in Nat \ {0}
  PROVE  RedisCrc32Hash(crc32, n) \in 0..(n - 1)
BY Remainder DEF RedisCrc32Hash
=============================================================================
