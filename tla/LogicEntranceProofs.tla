------------------------ MODULE LogicEntranceProofs ------------------------
(***************************************************************************)
(* Theorems about LogicEntrance, for any deployments, requests and bounds. *)
(* A request is answered from three lists: of masters, of the masters its  *)
(* map was made of, and of slaves.  The first part says what a response    *)
(* made of such lists is, the second that the handler's lists are such     *)
(* lists at every stage, whatever was cut and whatever changed.            *)
(***************************************************************************)
EXTENDS SentinelLemmas, FiniteSetTheorems, TLAPS

\* What handleGetRedisInfoReq and handleRedisInfoByHashReq rely on once the
\* first tests are passed.
Servable(q) ==
  /\ q.type \in 1..3 /\ q.redisType \in 1..3
  /\ q.type = 1 \/ q.redisType # 3
  /\ q.poolName \in Seq(ToSet(q.poolName))
  /\ q.type # 1 => KeyChars[q.hashKey] \in Seq(Int) /\ Crc32[q.hashKey] \in Nat

\* A request that is not answered with the help text is one of these.
LEMMA ServableIs ==
  ASSUME NEW given \in Requests \cup {[type |-> 0]}, ClientReqInfo(given).type \in 1..3,
         ~Rejected(ClientReqInfo(given)),
         ClientReqInfo(given).type = 1 \/ ClientReqInfo(given).redisType # 3
  PROVE  Servable(ClientReqInfo(given))
<1>. DEFINE q == ClientReqInfo(given)
<1>1. /\ q.type = IF "type" \in DOMAIN given THEN given["type"] ELSE 0
      /\ q.redisType = IF "redistype" \in DOMAIN given THEN given["redistype"] ELSE 0
      /\ q.poolName = IF "poolname" \in DOMAIN given THEN given["poolname"] ELSE <<>>
      /\ q.hashKey = IF "hashkey" \in DOMAIN given THEN given["hashkey"] ELSE ""
  BY DEF ClientReqInfo
<1>. HIDE DEF q
<1>2. q.type \in 1..3 /\ ~Rejected(q) /\ (q.type = 1 \/ q.redisType # 3)
  BY DEF q
<1>3. q.redisType \in 1..3 /\ (q.type # 1 => q.hashKey # "")
  <2>1. ~(q.type \in 1..3 /\ IllegalTarget(q)) /\ ~(q.type \in 2..3 /\ q.hashKey = "")
    BY <1>2 DEF Rejected
  <2>2. q.type # 1 => q.type \in 2..3
    BY <1>2
  <2>3. q.redisType \in 1..3
    BY <1>2, <2>1 DEF IllegalTarget
  <2>. QED BY <2>1, <2>2, <2>3
<1>4. given \in Requests
  <2>1. ASSUME given = [type |-> 0] PROVE FALSE
    <3>1. "type" \in DOMAIN given /\ given["type"] = 0
      BY <2>1
    <3>2. q.type = 0
      BY <1>1, <3>1
    <3>. QED BY <1>2, <3>2
  <2>. QED BY <2>1
<1>5. q.poolName \in Seq(ToSet(q.poolName))
  <2>1. CASE "poolname" \in DOMAIN given
    <3>1. given.poolname \in Seq(ToSet(given.poolname))
      BY <1>4, <2>1, LogicEntranceAssumption
    <3>. QED BY <1>1, <2>1, <3>1
  <2>2. CASE "poolname" \notin DOMAIN given
    <3>1. q.poolName = <<>>
      BY <1>1, <2>2
    <3>. QED BY <3>1
  <2>. QED BY <2>1, <2>2
<1>6. q.type # 1 => KeyChars[q.hashKey] \in Seq(Int) /\ Crc32[q.hashKey] \in Nat
  BY <1>1, <1>3, <1>4, LogicEntranceAssumption
<1>. QED BY <1>2, <1>3, <1>5, <1>6 DEF Servable, q

-----------------------------------------------------------------------------
(* Lists of instances of a deployment.                                     *)

\* The pools a list has an instance of.
NamesOf(list) == {list[i].name : i \in DOMAIN list}

\* The lists of masters a deployment among vs may have answered with.
MasterLists(vs) == ({<<>>} \cup {Listing(v) : v \in vs}) \cap Seq(RedisInfo)

\* Was the master of its pool in one of vs.
WasMaster(info, vs) == \E v \in vs : v.master[info.name] = info.addr

\* Was a healthy slave of its pool in one of vs.
HealthySlave(info, vs) ==
  \E v \in vs : \E j \in DOMAIN v.slaves[info.name] :
    v.slaves[info.name][j] = [addr |-> info.addr, flags |-> "slave"]

\* More deployments, more lists.
LEMMA MasterListsGrow ==
  ASSUME NEW vs, NEW ws, vs \subseteq ws
  PROVE  MasterLists(vs) \subseteq MasterLists(ws)
BY DEF MasterLists

\* More deployments, more healthy slaves.
LEMMA HealthyGrow ==
  ASSUME NEW vs, NEW ws, vs \subseteq ws, NEW info, HealthySlave(info, vs)
  PROVE  HealthySlave(info, ws)
BY DEF HealthySlave

\* Who is in a list of masters was one.
LEMMA ListedWasMaster ==
  ASSUME NEW vs, vs \subseteq Views, NEW l \in MasterLists(vs), NEW i \in DOMAIN l
  PROVE  WasMaster(l[i], vs)
<1>1. PICK v \in vs : l = Listing(v)
  BY DEF MasterLists
<1>2. v \in Views
  BY <1>1
<1>3. i \in 1..Len(v.order) /\ l[i] = [name |-> v.order[i], addr |-> v.master[v.order[i]]]
  BY <1>1, <1>2, ListingIs
<1>4. l[i].name = v.order[i] /\ l[i].addr = v.master[v.order[i]]
  BY <1>3
<1>. QED BY <1>1, <1>4 DEF WasMaster

\* Its names are those of the deployment.
LEMMA NamesOfListing ==
  ASSUME NEW v \in Views
  PROVE  NamesOf(Listing(v)) = ToSet(v.order)
<1>1. /\ Len(v.order) \in Nat /\ DOMAIN Listing(v) = 1..Len(v.order)
      /\ \A i \in 1..Len(v.order) :
           Listing(v)[i] = [name |-> v.order[i], addr |-> v.master[v.order[i]]]
  BY ListingIs
<1>2. ASSUME NEW i \in 1..Len(v.order) PROVE Listing(v)[i].name = v.order[i]
  <2>1. Listing(v)[i] = [name |-> v.order[i], addr |-> v.master[v.order[i]]]
    BY <1>1
  <2>. QED BY ONLY <2>1
<1>3. v.order \in Seq(PoolNames)
  BY LogicEntranceAssumption DEF Views
<1>4. DOMAIN v.order = 1..Len(v.order)
  BY <1>3
<1>. QED BY <1>1, <1>2, <1>4 DEF NamesOf, ToSet

\* The instances getRedisByType finds are those of the list, one for each pool
\* it knows; the pools are those asked for that the list has.
LEMMA ServedIs ==
  ASSUME NEW list \in Seq(RedisInfo), NEW poolName, poolName \in Seq(ToSet(poolName))
  PROVE  LET found == GetRedisByType(ByName(list), poolName)
             known == Known(list, poolName)
         IN  /\ found \in Seq(RedisInfo)
             /\ Len(found) = Len(known) /\ Len(known) \in Nat
             /\ \A j \in 1..Len(known) :
                  /\ found[j].name = known[j]
                  /\ \E i \in 1..Len(list) : FirstAt(list, known[j], i) /\ found[j] = list[i]
             /\ poolName # <<>> => NamesOf(found) = ToSet(poolName) \cap NamesOf(list)
             /\ NamesOf(found) \subseteq NamesOf(list)
<1>. DEFINE found == GetRedisByType(ByName(list), poolName)
           known == Known(list, poolName)
<1>1. /\ found \in Seq(RedisInfo)
      /\ Len(found) = Len(known) /\ Len(known) \in Nat
      /\ \A j \in 1..Len(known) :
           \E i \in 1..Len(list) : FirstAt(list, known[j], i) /\ found[j] = list[i]
  <2>1. found \in Seq(RedisInfo) /\ Len(found) = Len(known) /\ Len(known) \in Nat
    BY GetRedisByTypeIs
  <2>2. ASSUME NEW j \in 1..Len(known)
        PROVE  \E i \in 1..Len(list) : FirstAt(list, known[j], i) /\ found[j] = list[i]
    BY GetRedisByTypeIs
  <2>. QED BY <2>1, <2>2
<1>2. poolName # <<>> => Picked(known, poolName, NamesOf(list), ToSet(poolName))
  BY ThosePicked DEF Known, NamesOf
<1>. HIDE DEF found, known
<1>3. ASSUME NEW j \in 1..Len(known)
      PROVE  found[j].name = known[j] /\ found[j].name \in NamesOf(list)
  <2>1. PICK i \in 1..Len(list) : FirstAt(list, known[j], i) /\ found[j] = list[i]
    BY <1>1
  <2>2. i \in DOMAIN list /\ list[i].name = known[j]
    BY <2>1 DEF FirstAt
  <2>. QED BY <2>1, <2>2 DEF NamesOf
<1>4. DOMAIN found = 1..Len(known)
  BY <1>1
<1>5. ASSUME poolName # <<>>
      PROVE  NamesOf(found) = ToSet(poolName) \cap NamesOf(list)
  <2>1. known \in Seq(ToSet(poolName) \cap NamesOf(list))
    BY <1>2, <1>5 DEF Picked
  <2>2. \A j \in 1..Len(known) : known[j] \in ToSet(poolName)
    BY <2>1
  <2>3. ASSUME NEW p \in ToSet(poolName) \cap NamesOf(list)
        PROVE  \E j \in 1..Len(known) : known[j] = p
    <3>1. PICK i \in DOMAIN poolName : p = poolName[i]
      BY DEF ToSet
    <3>2. DOMAIN poolName = 1..Len(poolName)
      OBVIOUS
    <3>3. poolName[i] \in NamesOf(list)
      BY <3>1
    <3>. QED BY <1>2, <1>5, <3>1, <3>2, <3>3 DEF Picked
  <2>. QED BY <1>3, <1>4, <2>2, <2>3 DEF NamesOf
<1>6. NamesOf(found) \subseteq NamesOf(list)
  BY <1>3, <1>4 DEF NamesOf
<1>. QED BY <1>1, <1>3, <1>5, <1>6 DEF found, known

-----------------------------------------------------------------------------
(* Responses.                                                              *)

\* What makeRspData makes of the handler's lists.
MadeRsp(q, m, r, s) ==
  IF q.type = 1 THEN RedisInfoRsp(q, m, r, s) ELSE RedisInfoByHashRsp(q, r, s)

\* The index of the key asked for among n pools.
Index(q, n) ==
  IF q.type = 2 THEN RedisComHash(KeyChars[q.hashKey], HashRange, n)
  ELSE RedisCrc32Hash(Crc32[q.hashKey], n)

\* Either hash gives an index of the list of pools.
LEMMA IndexIs ==
  ASSUME NEW q, Servable(q), q.type # 1, NEW n \in Nat \ {0}
  PROVE  Index(q, n) \in 0..(n - 1)
<1>1. KeyChars[q.hashKey] \in Seq(Int) /\ Crc32[q.hashKey] \in Nat
  BY DEF Servable
<1>2. HashRange \in Nat \ {0}
  BY LogicEntranceAssumption
<1>3. RedisComHash(KeyChars[q.hashKey], HashRange, n) \in 0..(n - 1)
  BY <1>1, <1>2, RedisComHashIs
<1>4. RedisCrc32Hash(Crc32[q.hashKey], n) \in 0..(n - 1)
  BY <1>1, RedisCrc32HashIs
<1>. QED BY <1>3, <1>4 DEF Index

\* A key is answered with the first instance of the pool at its index, and with
\* nothing if no pool is known.
HashRsp(q, list, pools, r) ==
  \/ pools = <<>> /\ r = Response("noRedis", <<>>, <<>>)
  \/ LET index == Index(q, Len(pools))
     IN  /\ Len(pools) \in Nat \ {0} /\ index \in 0..(Len(pools) - 1)
         /\ \E i \in 1..Len(list) :
              /\ FirstAt(list, pools[index + 1], i)
              /\ r = IF q.redisType = 1 THEN Response("hash", <<list[i]>>, <<>>)
                     ELSE Response("hash", <<>>, <<list[i]>>)

\* The response to a key is HashRsp, with the pools that are asked for and found.
LEMMA HashRspIs ==
  ASSUME NEW q, Servable(q), q.type # 1,
         NEW l \in Seq(RedisInfo), NEW s \in Seq(RedisInfo), NEW list,
         list = IF q.redisType = 1 THEN l ELSE s
  PROVE  HashRsp(q, list, Known(list, q.poolName), MadeRsp(q, <<>>, ByName(l), s))
<1>. DEFINE pools == Known(list, q.poolName)
           redisList == GetRedisByType(ByName(list), q.poolName)
           n == Len(redisList)
           index == Index(q, n)
           found == IF index < n THEN <<redisList[index + 1]>> ELSE <<>>
           rsp0 == MadeRsp(q, <<>>, ByName(l), s)
<1>1. list \in Seq(RedisInfo) /\ q.poolName \in Seq(ToSet(q.poolName))
  BY DEF Servable
<1>2. /\ redisList \in Seq(RedisInfo) /\ n = Len(pools) /\ n \in Nat
      /\ \A j \in 1..n : \E i \in 1..Len(list) :
           FirstAt(list, pools[j], i) /\ redisList[j] = list[i]
  <2>1. redisList \in Seq(RedisInfo) /\ n = Len(pools) /\ n \in Nat
    BY <1>1, ServedIs
  <2>2. ASSUME NEW j \in 1..Len(pools)
        PROVE  \E i \in 1..Len(list) : FirstAt(list, pools[j], i) /\ redisList[j] = list[i]
    <3>1. j \in 1..Len(Known(list, q.poolName))
      OBVIOUS
    <3>. QED BY ONLY <1>1, <3>1, ServedIs
  <2>. QED BY <2>1, <2>2
<1>3. rsp0 = IF redisList = <<>> THEN Response("noRedis", <<>>, <<>>)
             ELSE IF q.redisType = 1 THEN Response("hash", found, <<>>)
             ELSE Response("hash", <<>>, found)
  <2>1. CASE q.redisType = 1
    BY <2>1 DEF MadeRsp, RedisInfoByHashRsp, Index
  <2>2. CASE q.redisType # 1
    BY <2>2 DEF MadeRsp, RedisInfoByHashRsp, Index
  <2>. QED BY <2>1, <2>2
<1>. HIDE DEF redisList, rsp0
<1>4. CASE redisList = <<>>
  <2>1. pools = <<>>
    <3>1. pools = Those(IF q.poolName = <<>> THEN Pools ELSE q.poolName,
                        {list[i].name : i \in DOMAIN list})
      BY DEF Known
    <3>2. \E X : pools \in Seq(X)
      <4>1. CASE q.poolName = <<>>
        <5>1. Picked(pools, Pools, {list[i].name : i \in DOMAIN list}, PoolNames)
          BY <3>1, <4>1, SentinelAssumption, ThosePicked
        <5>. QED BY <5>1 DEF Picked
      <4>2. CASE q.poolName # <<>>
        <5>1. Picked(pools, q.poolName, {list[i].name : i \in DOMAIN list}, ToSet(q.poolName))
          BY <1>1, <3>1, <4>2, ThosePicked
        <5>. QED BY <5>1 DEF Picked
      <4>. QED BY <4>1, <4>2
    <3>3. Len(pools) = 0
      BY <1>2, <1>4
    <3>. QED BY <3>2, <3>3
  <2>. QED BY <1>3, <1>4, <2>1 DEF rsp0, redisList, HashRsp
<1>5. CASE redisList # <<>>
  <2>1. n \in Nat \ {0}
    BY <1>2, <1>5
  <2>2. index \in 0..(n - 1)
    BY <2>1, IndexIs
  <2>. HIDE DEF index
  <2>3. index + 1 \in 1..n /\ index < n
    BY <2>1, <2>2
  <2>4. PICK i \in 1..Len(list) : FirstAt(list, pools[index + 1], i) /\ redisList[index + 1] = list[i]
    BY <1>2, <2>3
  <2>5. found = <<list[i]>>
    BY <2>3, <2>4
  <2>6. rsp0 = IF q.redisType = 1 THEN Response("hash", <<list[i]>>, <<>>)
               ELSE Response("hash", <<>>, <<list[i]>>)
    BY <1>3, <1>5, <2>5
  <2>7. index = Index(q, Len(pools))
    BY <1>2 DEF index
  <2>8. Len(pools) \in Nat \ {0}
    BY <1>2, <2>1
  <2>. HIDE DEF pools
  <2>9. HashRsp(q, list, pools, rsp0)
    BY ONLY <2>2, <2>4, <2>6, <2>7, <2>8, <1>2 DEF HashRsp
  <2>. QED BY <2>9 DEF rsp0, pools
<1>. QED BY <1>4, <1>5

\* What the handler's lists are when a response is made of them, whatever was
\* cut or changed: m the list of masters, l the one its map was made of, s the
\* slaves.
Sources(m, l, s, vs) ==
  /\ m \in MasterLists(vs) /\ l \in MasterLists(vs)
  /\ s \in Seq(RedisInfo)
  /\ \A i \in DOMAIN s : HealthySlave(s[i], vs)
  /\ NamesOf(s) \subseteq NamesOf(l)

\* The responses TypeOK admits.
Kinds == {"none", "help", "log", "invalidDomain", "illegalRedisType", "noRedis",
          "info", "hash"}
Responses == [kind : Kinds, masters : Seq(RedisInfo), slaves : Seq(RedisInfo)]

\* The five properties of a response, with the request q, the response r and the
\* deployments vs as parameters. InstancesAreGenuine:
Genuine(r, vs) ==
  /\ \A i \in DOMAIN r.masters : WasMaster(r.masters[i], vs)
  /\ \A i \in DOMAIN r.slaves : HealthySlave(r.slaves[i], vs)

\* MastersAllOrNothing:
AllOrNothing(q, r, vs) ==
  r.kind = "info" /\ q.poolName = <<>> => r.masters \in {<<>>} \cup {Listing(v) : v \in vs}

\* SelectedSlavesHaveTheirMaster:
HaveMasters(q, r) ==
  r.kind = "info" /\ q.redisType = 3 /\ q.poolName # <<>> =>
    NamesOf(r.slaves) \subseteq NamesOf(r.masters)

\* MasterOfKeyIsStable:
Stable(q, r, vs) ==
  r.kind = "hash" /\ q.redisType = 1 /\ q.poolName = <<>> =>
    \E v \in vs :
      LET names == Those(Pools, ToSet(v.order))
          index == Index(q, Len(names))
      IN  /\ Len(r.masters) = 1
          /\ index \in 0..(Len(names) - 1)
          /\ r.masters[1].name = names[index + 1]

\* KeyFallsOnItsPool, of any deployment:
Falls(q, r, vs) ==
  r.kind = "hash" =>
    LET found == r.masters \o r.slaves
    IN  /\ Len(found) = 1
        /\ \E S \in SUBSET UNION {ToSet(v.order) : v \in vs} :
             LET pools == Those(IF q.poolName = <<>> THEN Pools ELSE q.poolName, S)
             IN  pools # <<>> /\ found[1].name = pools[Index(q, Len(pools)) + 1]

\* A response to a list of instances.
LEMMA InfoRspIsSound ==
  ASSUME NEW q, Servable(q), q.type = 1, NEW vs, vs \subseteq Views,
         NEW m, NEW l, NEW s, Sources(m, l, s, vs)
  PROVE  LET r == MadeRsp(q, m, ByName(l), s)
         IN  /\ r \in Responses /\ r.kind = "info"
             /\ Genuine(r, vs) /\ AllOrNothing(q, r, vs) /\ HaveMasters(q, r)
<1>. DEFINE pn == q.poolName
           mm == IF ~MasterBit(q.redisType) THEN <<>>
                 ELSE IF pn = <<>> THEN m ELSE GetRedisByType(ByName(l), pn)
           ss == IF ~SlaveBit(q.redisType) THEN <<>>
                 ELSE IF pn = <<>> THEN s ELSE GetRedisByType(ByName(s), pn)
           r == MadeRsp(q, m, ByName(l), s)
<1>1. r = [kind |-> "info", masters |-> mm, slaves |-> ss]
  BY DEF MadeRsp, RedisInfoRsp, Response
<1>2. /\ m \in Seq(RedisInfo) /\ l \in Seq(RedisInfo) /\ s \in Seq(RedisInfo)
      /\ m \in {<<>>} \cup {Listing(v) : v \in vs}
  BY DEF Sources, MasterLists
<1>3. pn \in Seq(ToSet(pn))
  BY DEF Servable
<1>4. \A i \in DOMAIN m : WasMaster(m[i], vs)
  BY ListedWasMaster DEF Sources
<1>5. \A i \in 1..Len(l) : WasMaster(l[i], vs)
  BY <1>2, ListedWasMaster DEF Sources
<1>6. \A i \in DOMAIN s : HealthySlave(s[i], vs)
  BY DEF Sources
<1>7. ASSUME NEW list \in Seq(RedisInfo)
      PROVE  LET found == GetRedisByType(ByName(list), pn)
             IN  /\ found \in Seq(RedisInfo)
                 /\ \A j \in DOMAIN found : \E i \in 1..Len(list) : found[j] = list[i]
  <2>. DEFINE found == GetRedisByType(ByName(list), pn)
             known == Known(list, pn)
  <2>1. found \in Seq(RedisInfo) /\ Len(found) = Len(known) /\ Len(known) \in Nat
    BY <1>3, ServedIs
  <2>2. ASSUME NEW j \in 1..Len(known)
        PROVE  \E i \in 1..Len(list) : found[j] = list[i]
    <3>1. j \in 1..Len(Known(list, pn)) /\ list \in Seq(RedisInfo)
      OBVIOUS
    <3>. QED BY ONLY <1>3, <3>1, ServedIs
  <2>. HIDE DEF found, known
  <2>3. DOMAIN found = 1..Len(known)
    BY <2>1
  <2>4. found \in Seq(RedisInfo) /\ \A j \in DOMAIN found : \E i \in 1..Len(list) : found[j] = list[i]
    BY <2>1, <2>2, <2>3
  <2>. QED BY <2>4 DEF found
<1>. HIDE DEF pn
<1>8. mm \in Seq(RedisInfo) /\ \A j \in DOMAIN mm : WasMaster(mm[j], vs)
  <2>1. CASE ~MasterBit(q.redisType)
    BY <2>1
  <2>2. CASE MasterBit(q.redisType) /\ pn = <<>>
    <3>1. mm = m
      BY <2>2
    <3>. QED BY ONLY <1>2, <1>4, <3>1
  <2>3. CASE MasterBit(q.redisType) /\ pn # <<>>
    <3>. DEFINE found == GetRedisByType(ByName(l), pn)
    <3>1. /\ found \in Seq(RedisInfo)
          /\ \A j \in DOMAIN found : \E i \in 1..Len(l) : found[j] = l[i]
      BY <1>2, <1>7
    <3>2. mm = found
      BY <2>3
    <3>. HIDE DEF found, mm
    <3>. QED BY <1>5, <3>1, <3>2
  <2>. QED BY <2>1, <2>2, <2>3
<1>9. ss \in Seq(RedisInfo) /\ \A j \in DOMAIN ss : HealthySlave(ss[j], vs)
  <2>1. CASE ~SlaveBit(q.redisType)
    BY <2>1
  <2>2. CASE SlaveBit(q.redisType) /\ pn = <<>>
    <3>1. ss = s
      BY <2>2
    <3>. QED BY ONLY <1>2, <1>6, <3>1
  <2>3. CASE SlaveBit(q.redisType) /\ pn # <<>>
    <3>. DEFINE found == GetRedisByType(ByName(s), pn)
    <3>1. /\ found \in Seq(RedisInfo)
          /\ \A j \in DOMAIN found : \E i \in 1..Len(s) : found[j] = s[i]
      BY <1>2, <1>7
    <3>2. ss = found
      BY <2>3
    <3>3. DOMAIN s = 1..Len(s)
      BY <1>2
    <3>. HIDE DEF found, ss
    <3>. QED BY <1>6, <3>1, <3>2, <3>3
  <2>. QED BY <2>1, <2>2, <2>3
<1>10. pn = <<>> => mm \in {<<>>} \cup {Listing(v) : v \in vs}
  BY <1>2
<1>11. ASSUME q.redisType = 3, pn # <<>>
       PROVE  NamesOf(ss) \subseteq NamesOf(mm)
  <2>1. MasterBit(q.redisType) /\ SlaveBit(q.redisType)
    BY <1>11 DEF MasterBit, SlaveBit
  <2>2. mm = GetRedisByType(ByName(l), pn) /\ ss = GetRedisByType(ByName(s), pn)
    BY <1>11, <2>1
  <2>3. NamesOf(GetRedisByType(ByName(l), pn)) = ToSet(pn) \cap NamesOf(l)
    BY <1>2, <1>3, <1>11, ServedIs
  <2>4. NamesOf(GetRedisByType(ByName(s), pn)) = ToSet(pn) \cap NamesOf(s)
    BY <1>2, <1>3, <1>11, ServedIs
  <2>5. NamesOf(s) \subseteq NamesOf(l)
    BY DEF Sources
  <2>. HIDE DEF mm, ss
  <2>. QED BY <2>2, <2>3, <2>4, <2>5
<1>. HIDE DEF mm, ss, r
<1>12. r.kind = "info" /\ r.masters = mm /\ r.slaves = ss
  BY <1>1
<1>13. r \in Responses
  BY <1>1, <1>8, <1>9 DEF Responses, Kinds
<1>14. Genuine(r, vs)
  BY <1>8, <1>9, <1>12 DEF Genuine
<1>15. AllOrNothing(q, r, vs)
  BY <1>10, <1>12 DEF AllOrNothing, pn
<1>16. HaveMasters(q, r)
  BY <1>11, <1>12 DEF HaveMasters, pn
<1>. QED BY <1>12, <1>13, <1>14, <1>15, <1>16 DEF r

\* A response to a key.
LEMMA HashRspIsSound ==
  ASSUME NEW q, Servable(q), q.type # 1, NEW vs, vs \subseteq Views,
         NEW m, NEW l, NEW s, Sources(m, l, s, vs)
  PROVE  LET r == MadeRsp(q, m, ByName(l), s)
         IN  /\ r \in Responses /\ r.kind \in {"noRedis", "hash"}
             /\ Genuine(r, vs) /\ Stable(q, r, vs) /\ Falls(q, r, vs)
<1>. DEFINE list == IF q.redisType = 1 THEN l ELSE s
           pools == Known(list, q.poolName)
           index == Index(q, Len(pools))
           r == MadeRsp(q, m, ByName(l), s)
<1>1. /\ l \in Seq(RedisInfo) /\ s \in Seq(RedisInfo) /\ list \in Seq(RedisInfo)
      /\ l \in {<<>>} \cup {Listing(v) : v \in vs}
  BY DEF Sources, MasterLists
<1>2. \/ pools = <<>> /\ r = Response("noRedis", <<>>, <<>>)
      \/ /\ Len(pools) \in Nat \ {0} /\ index \in 0..(Len(pools) - 1)
         /\ \E i \in 1..Len(list) :
              /\ FirstAt(list, pools[index + 1], i)
              /\ r = IF q.redisType = 1 THEN Response("hash", <<list[i]>>, <<>>)
                     ELSE Response("hash", <<>>, <<list[i]>>)
  <2>1. HashRsp(q, list, pools, MadeRsp(q, <<>>, ByName(l), s))
    BY <1>1, HashRspIs
  <2>2. r = MadeRsp(q, <<>>, ByName(l), s)
    BY DEF MadeRsp
  <2>. HIDE DEF r, pools, list
  <2>. QED BY <2>1, <2>2 DEF HashRsp
<1>3. NamesOf(list) \in SUBSET UNION {ToSet(v.order) : v \in vs}
  <2>1. NamesOf(l) \in SUBSET UNION {ToSet(v.order) : v \in vs}
    <3>1. CASE l = <<>>
      BY <3>1 DEF NamesOf
    <3>2. CASE l # <<>>
      <4>1. PICK v \in vs : l = Listing(v)
        BY <1>1, <3>2
      <4>2. NamesOf(l) = ToSet(v.order)
        BY <4>1, NamesOfListing
      <4>. QED BY <4>2
    <3>. QED BY <3>1, <3>2
  <2>2. NamesOf(s) \subseteq NamesOf(l)
    BY DEF Sources
  <2>. QED BY <2>1, <2>2
<1>4. pools = Those(IF q.poolName = <<>> THEN Pools ELSE q.poolName, NamesOf(list))
  BY DEF Known, NamesOf
<1>5. CASE pools = <<>> /\ r = Response("noRedis", <<>>, <<>>)
  <2>. HIDE DEF r
  <2>1. r.kind = "noRedis" /\ r.masters = <<>> /\ r.slaves = <<>>
    BY <1>5 DEF Response
  <2>2. r \in Responses
    <3>1. <<>> \in Seq(RedisInfo)
      OBVIOUS
    <3>2. r = [kind |-> "noRedis", masters |-> <<>>, slaves |-> <<>>]
      BY <1>5 DEF Response
    <3>. QED BY <3>1, <3>2 DEF Responses, Kinds
  <2>3. Genuine(r, vs)
    <3>. DEFINE none == <<>>
    <3>1. DOMAIN none = {}
      OBVIOUS
    <3>2. r.masters = none
      BY <2>1
    <3>3. r.slaves = none
      BY <2>1
    <3>. HIDE DEF none
    <3>. QED BY <3>1, <3>2, <3>3 DEF Genuine
  <2>4. Stable(q, r, vs) /\ Falls(q, r, vs)
    BY <2>1 DEF Stable, Falls
  <2>. QED BY <2>1, <2>2, <2>3, <2>4 DEF r
<1>6. CASE /\ Len(pools) \in Nat \ {0} /\ index \in 0..(Len(pools) - 1)
           /\ \E i \in 1..Len(list) :
                /\ FirstAt(list, pools[index + 1], i)
                /\ r = IF q.redisType = 1 THEN Response("hash", <<list[i]>>, <<>>)
                       ELSE Response("hash", <<>>, <<list[i]>>)
  <2>. HIDE DEF r, index, pools
  <2>1. PICK i \in 1..Len(list) :
               /\ FirstAt(list, pools[index + 1], i)
               /\ r = IF q.redisType = 1 THEN Response("hash", <<list[i]>>, <<>>)
                      ELSE Response("hash", <<>>, <<list[i]>>)
    BY <1>6
  <2>. DEFINE info == list[i]
  <2>2. info \in RedisInfo /\ info.name = pools[index + 1] /\ i \in DOMAIN list
    BY <1>1, <2>1 DEF FirstAt
  <2>3. q.redisType = 1 => WasMaster(info, vs) /\ list = l
    BY <2>2, ListedWasMaster DEF Sources
  <2>4. q.redisType # 1 => HealthySlave(info, vs)
    BY <2>2 DEF Sources
  <2>. HIDE DEF info
  <2>5. /\ r.kind = "hash"
        /\ r.masters = IF q.redisType = 1 THEN <<info>> ELSE <<>>
        /\ r.slaves = IF q.redisType = 1 THEN <<>> ELSE <<info>>
    <3>1. CASE q.redisType = 1
      <4>1. r = Response("hash", <<info>>, <<>>)
        BY <2>1, <3>1 DEF info
      <4>. QED BY <3>1, <4>1 DEF Response
    <3>2. CASE q.redisType # 1
      <4>1. r = Response("hash", <<>>, <<info>>)
        BY <2>1, <3>2 DEF info
      <4>. QED BY <3>2, <4>1 DEF Response
    <3>. QED BY <3>1, <3>2
  <2>6. r = [kind |-> "hash", masters |-> r.masters, slaves |-> r.slaves]
    BY <2>1 DEF Response
  <2>7. r \in Responses
    <3>1. r.masters \in Seq(RedisInfo) /\ r.slaves \in Seq(RedisInfo)
      <4>1. <<info>> \in Seq(RedisInfo) /\ <<>> \in Seq(RedisInfo)
        BY <2>2
      <4>. QED BY <2>5, <4>1
    <3>. DEFINE a == r.masters
                b == r.slaves
    <3>2. r = [kind |-> "hash", masters |-> a, slaves |-> b]
      BY <2>6
    <3>. HIDE DEF a, b
    <3>3. [kind |-> "hash", masters |-> a, slaves |-> b] \in Responses
      BY <3>1 DEF Responses, Kinds, a, b
    <3>. QED BY <3>2, <3>3
  <2>8. Genuine(r, vs)
    <3>1. CASE q.redisType = 1
      <4>1. r.masters = <<info>> /\ r.slaves = <<>> /\ WasMaster(info, vs)
        BY <2>3, <2>5, <3>1
      <4>. QED BY ONLY <4>1 DEF Genuine
    <3>2. CASE q.redisType # 1
      <4>1. r.masters = <<>> /\ r.slaves = <<info>> /\ HealthySlave(info, vs)
        BY <2>4, <2>5, <3>2
      <4>. QED BY ONLY <4>1 DEF Genuine
    <3>. QED BY <3>1, <3>2
  <2>9. Stable(q, r, vs)
    <3>1. SUFFICES ASSUME q.redisType = 1, q.poolName = <<>>
                   PROVE  \E v \in vs :
                            LET names == Those(Pools, ToSet(v.order))
                            IN  /\ Len(r.masters) = 1
                                /\ Index(q, Len(names)) \in 0..(Len(names) - 1)
                                /\ r.masters[1].name = names[Index(q, Len(names)) + 1]
      BY DEF Stable
    <3>2. list = l /\ l # <<>>
      BY <1>1, <2>2, <2>3, <3>1
    <3>3. PICK v \in vs : l = Listing(v)
      BY <1>1, <3>2
    <3>4. NamesOf(l) = ToSet(v.order)
      BY <3>3, NamesOfListing
    <3>5. pools = Those(Pools, ToSet(v.order))
      BY <1>4, <3>1, <3>2, <3>4
    <3>6. r.masters = <<info>>
      BY <2>5, <3>1
    <3>7. Len(r.masters) = 1 /\ r.masters[1].name = pools[index + 1]
      BY <2>2, <3>6
    <3>8. index = Index(q, Len(pools))
      BY DEF index
    <3>. QED BY <1>6, <3>5, <3>7, <3>8
  <2>10. Falls(q, r, vs)
    <3>. DEFINE both == r.masters \o r.slaves
    <3>1. both = <<info>>
      <4>1. <<info>> \in Seq({info}) /\ <<info>> \o <<>> = <<info>> /\ <<>> \o <<info>> = <<info>>
        OBVIOUS
      <4>. QED BY <2>5, <4>1
    <3>. HIDE DEF both
    <3>2. Len(both) = 1 /\ both[1].name = pools[index + 1]
      BY <2>2, <3>1
    <3>3. pools # <<>> /\ index = Index(q, Len(pools))
      BY <1>6 DEF index
    <3>. HIDE DEF list
    <3>. QED BY <1>3, <1>4, <3>2, <3>3 DEF Falls, both
  <2>. QED BY <2>5, <2>7, <2>8, <2>9, <2>10 DEF r
<1>. QED BY <1>2, <1>5, <1>6

-----------------------------------------------------------------------------
(* What a call brings.                                                     *)

\* getMaster's list is one of the deployment that answered; of a whole answer
\* without IPv6 addresses it is the list.
LEMMA GotIs ==
  ASSUME NEW vs, vs \subseteq Views, NEW v \in vs, NEW received \in Received(InfoAnswer(v))
  PROVE  LET got == GetMaster(received)
         IN  /\ got.list \in MasterLists(vs) /\ got.set \in BOOLEAN
             /\ got.list # <<>> => got.set
             /\ /\ received = InfoAnswer(v)
                /\ \A i \in 1..Len(v.order) : v.master[v.order[i]] \in IPv4
                => got.set /\ got.list = Listing(v)
<1>. DEFINE c == InfoAnswer(v)
           whole == \A i \in 1..Len(v.order) : v.master[v.order[i]] \in IPv4
           got == GetMaster(received)
<1>1. v \in Views
  OBVIOUS
<1>2. PICK k \in 0..Len(c) : received = SubSeq(c, 1, k)
  BY DEF Received
<1>3. c \in Seq(ToSet(c)) /\ Len(c) \in Nat
  <2>1. c \in Seq(ToSet(c))
    BY <1>1, InfoAnswerIs
  <2>. QED BY <2>1
<1>4. received = c => k = Len(c)
  <2>1. Len(SubSeq(c, 1, k)) = k
    BY <1>3
  <2>. QED BY <1>2, <2>1
<1>5. \/ got \in [set : BOOLEAN, list : {<<>>}]
      \/ got = [set |-> TRUE, list |-> Listing(v)] /\ whole
  <2>1. \/ GetMaster(SubSeq(c, 1, k)) \in [set : BOOLEAN, list : {<<>>}]
        \/ GetMaster(SubSeq(c, 1, k)) = [set |-> TRUE, list |-> Listing(v)] /\ whole
    BY <1>1, GetMasterIs
  <2>. QED BY <1>2, <2>1
<1>6. k = Len(c) /\ whole => got = [set |-> TRUE, list |-> Listing(v)]
  <2>1. k = Len(c) /\ whole => GetMaster(SubSeq(c, 1, k)) = [set |-> TRUE, list |-> Listing(v)]
    BY <1>1, GetMasterIs
  <2>. QED BY <1>2, <2>1
<1>7. whole => Listing(v) \in Seq(RedisInfo)
  BY <1>1, ListingIs
<1>. HIDE DEF got, whole, c
<1>. DEFINE none == <<>>
<1>8. got.set \in BOOLEAN /\ (got.list # none => got.set)
  <2>1. CASE got \in [set : BOOLEAN, list : {none}]
    <3>. HIDE DEF none
    <3>. QED BY <2>1
  <2>2. CASE got = [set |-> TRUE, list |-> Listing(v)]
    <3>1. got.set = TRUE
      BY <2>2
    <3>. QED BY <3>1
  <2>. QED BY <1>5, <2>1, <2>2
<1>9. got.list \in MasterLists(vs)
  <2>1. CASE got \in [set : BOOLEAN, list : {none}]
    <3>1. none \in Seq(RedisInfo)
      OBVIOUS
    <3>. HIDE DEF none
    <3>2. got.list = none
      BY <2>1
    <3>. QED BY <3>1, <3>2 DEF MasterLists, none
  <2>2. CASE got = [set |-> TRUE, list |-> Listing(v)] /\ whole
    <3>1. got.list = Listing(v)
      BY <2>2
    <3>. QED BY <1>7, <2>2, <3>1 DEF MasterLists
  <2>. QED BY <1>5, <2>1, <2>2
<1>10. received = c /\ whole => got.set /\ got.list = Listing(v)
  BY <1>4, <1>6
<1>. QED BY <1>8, <1>9, <1>10 DEF got, whole, c

\* The map that getMaster leaves is made of its list, or the one before.
LEMMA AfterIs ==
  ASSUME NEW vs, NEW got, got.list \in MasterLists(vs), got.set \in BOOLEAN,
         NEW l \in MasterLists(vs), masterRedis = ByName(l)
  PROVE  MasterRedisAfter(got) = ByName(IF got.set THEN got.list ELSE l)
BY DEF MasterRedisAfter

\* The map of an empty list is empty.
LEMMA NoMap == ByName(<<>>) = <<>> /\ <<>> \in Seq(RedisInfo)
<1>1. DOMAIN <<>> = {}
  OBVIOUS
<1>2. {<<>>[i].name : i \in DOMAIN <<>>} = {}
  BY <1>1
<1>. QED BY <1>2 DEF ByName

\* A turn of pharseSlave's loop keeps the slaves genuine and of pools that have
\* a master.
LEMMA TurnIs ==
  ASSUME NEW vs, vs \subseteq Views, NEW v \in vs, NEW p \in PoolNames,
         NEW received \in Received(SlavesAnswer(v, p)), NEW list \in Seq(RedisInfo),
         \A i \in DOMAIN list : HealthySlave(list[i], vs)
  PROVE  LET got == PharseSlave(list, p, ParseSlaveInfo(received))
         IN  /\ got \in Seq(RedisInfo)
             /\ \A i \in DOMAIN got : HealthySlave(got[i], vs)
             /\ NamesOf(got) \subseteq NamesOf(list) \cup {p}
<1>. DEFINE c == SlavesAnswer(v, p)
           slaves == v.slaves[p]
           m == Len(slaves)
           got == PharseSlave(list, p, ParseSlaveInfo(received))
<1>1. v \in Views
  OBVIOUS
<1>2. slaves \in Seq(Slaves) /\ DOMAIN slaves = 1..m /\ m \in Nat
  <2>1. slaves \in Seq(Slaves)
    BY <1>1 DEF Views, Slaves
  <2>. QED BY <2>1
<1>3. PICK k \in 0..Len(c) : received = SubSeq(c, 1, k)
  BY DEF Received
<1>4. \/ got = <<>>
      \/ \E n \in 0..m :
           /\ \A i \in 1..n : slaves[i].flags = "slave" /\ slaves[i].addr \in IPv4
           /\ got = list \o Instances(slaves, n, p)
  <2>. DEFINE gk == PharseSlave(list, p, ParseSlaveInfo(SubSeq(c, 1, k)))
  <2>1. \/ gk = <<>>
        \/ \E n \in 0..m :
             /\ \A i \in 1..n : slaves[i].flags = "slave" /\ slaves[i].addr \in IPv4
             /\ gk = list \o Instances(slaves, n, p)
    BY <1>1, PharseSlaveIs
  <2>2. gk = got
    BY <1>3
  <2>. HIDE DEF gk, got
  <2>. QED BY <2>1, <2>2
<1>. HIDE DEF got, slaves, m, c
<1>5. CASE got = <<>>
  <2>1. got \in Seq(RedisInfo) /\ DOMAIN got = {}
    BY <1>5
  <2>. QED BY <1>2, <2>1 DEF NamesOf, got
<1>6. CASE \E n \in 0..m :
             /\ \A i \in 1..n : slaves[i].flags = "slave" /\ slaves[i].addr \in IPv4
             /\ got = list \o Instances(slaves, n, p)
  <2>1. PICK n \in 0..m :
               /\ \A i \in 1..n : slaves[i].flags = "slave" /\ slaves[i].addr \in IPv4
               /\ got = list \o Instances(slaves, n, p)
    BY <1>6
  <2>. DEFINE new == Instances(slaves, n, p)
  <2>2. ASSUME NEW i \in 1..n
        PROVE  new[i] \in RedisInfo /\ new[i].name = p /\ HealthySlave(new[i], vs)
    <3>. DEFINE info == [name |-> p, addr |-> slaves[i].addr]
    <3>1. new[i] = info
      BY DEF Instances
    <3>2. slaves[i].flags = "slave" /\ slaves[i].addr \in IPv4
      BY <2>1
    <3>3. info \in RedisInfo /\ info.name = p /\ info.addr = slaves[i].addr
      BY <3>2 DEF RedisInfo
    <3>4. i \in 1..m
      BY <1>2
    <3>5. slaves[i] \in Slaves /\ i \in DOMAIN slaves
      BY <1>2, <3>4
    <3>6. slaves[i] = [addr |-> slaves[i].addr, flags |-> slaves[i].flags]
      BY <3>5 DEF Slaves
    <3>7. slaves[i] = [addr |-> info.addr, flags |-> "slave"]
      BY ONLY <3>2, <3>3, <3>6
    <3>. HIDE DEF info
    <3>8. HealthySlave(info, vs)
      BY <3>3, <3>5, <3>7 DEF HealthySlave, slaves
    <3>. QED BY <3>1, <3>3, <3>8
  <2>3. new \in Seq(RedisInfo) /\ Len(new) = n /\ n \in Nat
    <3>1. n \in Nat
      BY <1>2
    <3>2. new = [i \in 1..n |-> new[i]]
      BY DEF Instances
    <3>. HIDE DEF new
    <3>. QED BY <2>2, <3>1, <3>2
  <2>. HIDE DEF new
  <2>4. got = list \o new
    BY <2>1 DEF new
  <2>5. /\ got \in Seq(RedisInfo) /\ Len(got) = Len(list) + n
        /\ \A i \in 1..Len(list) : got[i] = list[i]
        /\ \A i \in 1..n : got[Len(list) + i] = new[i]
    <3>1. list \o new \in Seq(RedisInfo)
      BY <2>3
    <3>2. /\ Len(list \o new) = Len(list) + n
          /\ \A i \in 1..Len(list) : (list \o new)[i] = list[i]
          /\ \A i \in 1..n : (list \o new)[Len(list) + i] = new[i]
      <4>1. list \in Seq(RedisInfo) /\ new \in Seq(RedisInfo)
        BY <2>3
      <4>2. /\ Len(list \o new) = Len(list) + Len(new)
            /\ \A i \in 1..Len(list) : (list \o new)[i] = list[i]
            /\ \A i \in 1..Len(new) : (list \o new)[Len(list) + i] = new[i]
        BY ONLY <4>1, ConcatAt
      <4>3. Len(new) = n
        BY <2>3
      <4>. QED BY ONLY <4>2, <4>3
    <3>. QED BY <2>4, <3>1, <3>2
  <2>6. ASSUME NEW i \in DOMAIN got
        PROVE  HealthySlave(got[i], vs) /\ got[i].name \in NamesOf(list) \cup {p}
    <3>1. i \in 1..(Len(list) + n) /\ Len(list) \in Nat
      BY <2>5
    <3>2. CASE i <= Len(list)
      <4>1. i \in DOMAIN list /\ got[i] = list[i]
        BY <2>5, <3>1, <3>2
      <4>. QED BY <4>1 DEF NamesOf
    <3>3. CASE i > Len(list)
      <4>1. i - Len(list) \in 1..n /\ Len(list) + (i - Len(list)) = i
        BY <2>3, <3>1, <3>3
      <4>2. got[i] = new[i - Len(list)]
        BY <2>5, <4>1
      <4>. QED BY <2>2, <4>1, <4>2
    <3>. QED BY <3>1, <3>2, <3>3
  <2>7. NamesOf(got) \subseteq NamesOf(list) \cup {p}
    BY <2>6 DEF NamesOf
  <2>. QED BY <2>5, <2>6, <2>7 DEF got
<1>. QED BY <1>4, <1>5, <1>6

-----------------------------------------------------------------------------
(* The inductive invariant.                                                *)

\* The lists of a handler that has called nobody yet, or has answered.
Quiet == masters = <<>> /\ masterRedis = <<>> /\ slaveList = <<>> /\ todo = <<>>

\* What is settled when the handler waits in a call.
Stages ==
  /\ pc \in {"idle", "getMaster"} => Quiet
  /\ pc = "getMaster" => MasterBit(req.redisType)
  /\ pc = "pharseSlave" => slaveList = <<>> /\ todo = <<>>
  /\ pc \in {"pharseSlave", "getSlaveByMasterName"} => SlaveBit(req.redisType)
  /\ pc # "idle" => Servable(req)

\* Every list comes whole from one deployment of the request, and there is a
\* master in the map for every slave found and every pool still to ask about.
Lists ==
  /\ masters \in MasterLists(views)
  /\ \E l \in MasterLists(views) : masterRedis = ByName(l)
  /\ \A i \in DOMAIN slaveList : HealthySlave(slaveList[i], views)
  /\ NamesOf(slaveList) \cup NamesOf(todo) \subseteq DOMAIN masterRedis

\* A request that waits has its Sentinel object.
Heap == objects <= taken /\ (pc # "idle" => objects >= 1)

\* What the properties say of a response.
Answered ==
  pc = "idle" =>
    /\ Genuine(rsp, views) /\ AllOrNothing(req, rsp, views) /\ HaveMasters(req, rsp)
    /\ Stable(req, rsp, views) /\ Falls(req, rsp, views)

\* The invariant, inductive.
IInv == TypeOK /\ Stages /\ Lists /\ Heap /\ Answered

\* The two halves of TypeOK: what a call does not touch, and the handler's own.
World ==
  /\ view \in Views /\ view \in views /\ views \subseteq Views
  /\ asked \in Requests \cup {[type |-> 0]} /\ req = ClientReqInfo(asked)
  /\ logLv \in LogLevels /\ logType \in LogTypes
  /\ cut \in BOOLEAN /\ changes \in 0..MaxChanges /\ taken \in 0..MaxRequests

Handler ==
  /\ pc \in {"idle", "getMaster", "pharseSlave", "getSlaveByMasterName"}
  /\ {masters, slaveList, todo} \subseteq Seq(RedisInfo)
  /\ rsp \in Responses /\ objects \in 0..MaxRequests
  /\ pc = "getSlaveByMasterName" <=> todo # <<>>

\* TypeOK contains both halves.
LEMMA TypeParts == TypeOK => World /\ Handler
BY DEF TypeOK, World, Handler, Responses, Kinds

\* Of the map nothing but Lists is needed.
LEMMA PartsType ==
  ASSUME World, Handler, Lists
  PROVE  TypeOK
<1>1. PICK l \in MasterLists(views) : masterRedis = ByName(l)
  BY DEF Lists
<1>2. l \in Seq(RedisInfo)
  BY DEF MasterLists
<1>3. /\ DOMAIN masterRedis \subseteq PoolNames
      /\ \A p \in DOMAIN masterRedis : masterRedis[p] \in Seq(RedisInfo) \ {<<>>}
  BY <1>1, <1>2, ByNameIs
<1>. QED BY <1>3 DEF World, Handler, TypeOK, Responses, Kinds

\* The same after a step.
LEMMA TypePartsPrime == (World /\ Handler /\ Lists => TypeOK)'
<1>1. World /\ Handler /\ Lists => TypeOK
  BY PartsType
<1>. QED BY <1>1, PTL

\* A response with no instances satisfies everything.
LEMMA NothingAnswered ==
  ASSUME NEW kind \in {"none", "help", "log", "invalidDomain", "illegalRedisType"},
         NEW r, r = Response(kind, <<>>, <<>>), NEW q, NEW vs
  PROVE  /\ r \in Responses /\ Genuine(r, vs) /\ AllOrNothing(q, r, vs) /\ HaveMasters(q, r)
         /\ Stable(q, r, vs) /\ Falls(q, r, vs)
<1>. DEFINE none == <<>>
<1>1. DOMAIN none = {}
  OBVIOUS
<1>2. none \in Seq(RedisInfo)
  OBVIOUS
<1>. HIDE DEF none
<1>3. r = [kind |-> kind, masters |-> none, slaves |-> none]
  BY DEF Response, none
<1>4. r.kind = kind /\ r.masters = none /\ r.slaves = none
  BY <1>3
<1>5. r \in Responses
  BY <1>2, <1>3 DEF Responses, Kinds
<1>6. Genuine(r, vs)
  BY <1>1, <1>4 DEF Genuine
<1>7. r.kind # "info" /\ r.kind # "hash"
  BY <1>4
<1>. QED BY <1>5, <1>6, <1>7 DEF AllOrNothing, HaveMasters, Stable, Falls

\* The service begins with the invariant.
LEMMA InitIInv == Init => IInv
<1>. SUFFICES ASSUME Init PROVE IInv
  OBVIOUS
<1>. USE DEF Init
<1>. DEFINE none == <<>>
<1>1. none \in Seq(RedisInfo) /\ DOMAIN none = {} /\ ByName(none) = none
  BY NoMap
<1>2. /\ rsp \in Responses /\ Genuine(rsp, views) /\ AllOrNothing(req, rsp, views)
      /\ HaveMasters(req, rsp) /\ Stable(req, rsp, views) /\ Falls(req, rsp, views)
  BY NothingAnswered
<1>3. masters = none /\ masterRedis = none /\ slaveList = none /\ todo = none
  OBVIOUS
<1>. HIDE DEF none
<1>4. World
  <2>1. view \in Views
    BY LogicEntranceAssumption
  <2>2. changes \in 0..MaxChanges /\ taken \in 0..MaxRequests
    BY LogicEntranceAssumption
  <2>3. asked \in Requests \cup {[type |-> 0]}
    OBVIOUS
  <2>4. logLv \in LogLevels /\ logType \in LogTypes
    BY DEF LogLevels, LogTypes
  <2>. QED BY <2>1, <2>2, <2>3, <2>4 DEF World
<1>5. Handler
  BY <1>1, <1>2, <1>3, LogicEntranceAssumption DEF Handler, none
<1>6. Lists
  <2>1. none \in MasterLists(views)
    BY <1>1 DEF MasterLists, none
  <2>2. masterRedis = ByName(none)
    BY <1>1, <1>3
  <2>3. NamesOf(none) = {}
    BY <1>1 DEF NamesOf
  <2>. QED BY <1>1, <1>3, <2>1, <2>2, <2>3 DEF Lists
<1>7. Stages
  BY DEF Stages, Quiet
<1>8. Heap
  BY DEF Heap
<1>9. Answered
  BY <1>2 DEF Answered
<1>. QED BY <1>4, <1>5, <1>6, <1>7, <1>8, <1>9, PartsType DEF IInv

-----------------------------------------------------------------------------
(* A request is taken up.                                                  *)

\* What Accept leaves, whatever is done with the request.
LEMMA AcceptIs ==
  ASSUME IInv, NEW given \in Requests, Accept(given),
         logLv' \in LogLevels, logType' \in LogTypes
  PROVE  /\ World' /\ Lists' /\ Quiet' /\ Quiet
         /\ req' = ClientReqInfo(given) /\ taken' = taken + 1
<1>. DEFINE none == <<>>
<1>1. none \in Seq(RedisInfo) /\ DOMAIN none = {} /\ ByName(none) = none
  BY NoMap
<1>2. pc = "idle"
  BY DEF Accept
<1>3. Quiet
  BY <1>2 DEF IInv, Stages
<1>4. Quiet'
  BY <1>3 DEF Quiet, Accept, sentinelVars
<1>5. World
  BY TypeParts DEF IInv
<1>6. /\ view' = view /\ views' = {view} /\ asked' = given /\ req' = ClientReqInfo(given)
      /\ cut' = FALSE /\ changes' = 0 /\ taken' = taken + 1 /\ taken < MaxRequests
  BY DEF Accept
<1>7. 0 \in 0..MaxChanges /\ taken + 1 \in 0..MaxRequests
  BY <1>5, <1>6, LogicEntranceAssumption DEF World
<1>8. World'
  BY <1>5, <1>6, <1>7 DEF World
<1>9. Lists'
  <2>1. masters' = none /\ masterRedis' = none /\ slaveList' = none /\ todo' = none
    BY <1>4 DEF Quiet
  <2>2. none \in MasterLists(views')
    BY <1>1 DEF MasterLists, none
  <2>3. NamesOf(none) = {}
    BY <1>1 DEF NamesOf
  <2>. HIDE DEF none
  <2>. QED BY <1>1, <2>1, <2>2, <2>3 DEF Lists
<1>. QED BY <1>3, <1>4, <1>6, <1>8, <1>9

\* Answered at once.
LEMMA AtOnce ==
  ASSUME IInv, NEW given \in Requests, Accept(given),
         logLv' \in LogLevels, logType' \in LogTypes, pc' = pc,
         NEW kind \in {"help", "log", "invalidDomain", "illegalRedisType"},
         rsp' = Response(kind, <<>>, <<>>), objects' \in {objects, objects + 1}
  PROVE  IInv'
<1>1. World' /\ Lists' /\ Quiet' /\ taken' = taken + 1
  BY AcceptIs
<1>2. pc = "idle" /\ pc' = "idle" /\ taken < MaxRequests
  BY DEF Accept
<1>3. /\ rsp' \in Responses /\ Genuine(rsp', views') /\ AllOrNothing(req', rsp', views')
      /\ HaveMasters(req', rsp') /\ Stable(req', rsp', views') /\ Falls(req', rsp', views')
  BY NothingAnswered
<1>4. objects \in Nat /\ taken \in Nat /\ objects <= taken /\ MaxRequests \in Nat
  BY LogicEntranceAssumption DEF IInv, TypeOK, Heap
<1>5. objects' \in 0..MaxRequests /\ Heap'
  BY <1>1, <1>2, <1>4 DEF Heap
<1>6. Stages'
  BY <1>1, <1>2 DEF Stages
<1>7. Answered'
  BY <1>3 DEF Answered
<1>8. Handler'
  <2>. DEFINE none == <<>>
  <2>1. none \in Seq(RedisInfo)
    OBVIOUS
  <2>2. masters' = none /\ slaveList' = none /\ todo' = none
    BY <1>1 DEF Quiet
  <2>3. todo' = <<>>
    BY <2>2
  <2>. HIDE DEF none
  <2>. QED BY <1>2, <1>3, <1>5, <2>1, <2>2, <2>3 DEF Handler
<1>. QED BY <1>1, <1>5, <1>6, <1>7, <1>8, TypePartsPrime DEF IInv

\* A request that is taken: answered at once, or begun.
LEMMA TakeStep ==
  ASSUME IInv, Take
  PROVE  IInv'
<1>1. logLv \in LogLevels /\ logType \in LogTypes
  BY DEF IInv, TypeOK
<1>2. CASE Help
  <2>1. PICK given \in Requests : Accept(given)
    BY <1>2 DEF Help
  <2>2. /\ logLv' = logLv /\ logType' = logType /\ pc' = pc /\ objects' = objects
        /\ rsp' = Response("help", <<>>, <<>>)
    BY <1>2 DEF Help, configVars
  <2>. QED BY <1>1, <2>1, <2>2, AtOnce
<1>3. CASE ResetLogLevel
  <2>1. PICK given \in Requests : Accept(given)
    BY <1>3 DEF ResetLogLevel
  <2>2. /\ pc' = pc /\ objects' = objects /\ rsp' = Response("log", <<>>, <<>>)
        /\ req'.type = 4 /\ ~Rejected(req')
        /\ logLv' = IF req'.logLv # -1 THEN req'.logLv ELSE logLv
        /\ logType' = IF req'.logType # -1 THEN req'.logType ELSE logType
    BY <1>3 DEF ResetLogLevel
  <2>3. ~IllegalLog(req')
    BY <2>2 DEF Rejected
  <2>4. logLv' \in LogLevels /\ logType' \in LogTypes
    BY <1>1, <2>2, <2>3 DEF IllegalLog
  <2>. QED BY <2>1, <2>2, <2>4, AtOnce
<1>4. CASE UnknownDomain
  <2>1. PICK given \in Requests : Accept(given)
    BY <1>4 DEF UnknownDomain
  <2>2. /\ logLv' = logLv /\ logType' = logType /\ pc' = pc /\ objects' = objects
        /\ rsp' = Response("invalidDomain", <<>>, <<>>)
    BY <1>4 DEF UnknownDomain, configVars
  <2>. QED BY <1>1, <2>1, <2>2, AtOnce
<1>5. CASE IllegalRedisType
  <2>1. PICK given \in Requests : Accept(given)
    BY <1>5 DEF IllegalRedisType
  <2>2. /\ logLv' = logLv /\ logType' = logType /\ pc' = pc /\ objects' = objects + 1
        /\ rsp' = Response("illegalRedisType", <<>>, <<>>)
    BY <1>5 DEF IllegalRedisType, configVars
  <2>. QED BY <1>1, <2>1, <2>2, AtOnce
<1>6. CASE Begin
  <2>1. PICK given \in Requests : Accept(given)
    BY <1>6 DEF Begin
  <2>2. /\ logLv' = logLv /\ logType' = logType /\ rsp' = rsp /\ objects' = objects + 1
        /\ pc' = IF MasterBit(req'.redisType) THEN "getMaster" ELSE "pharseSlave"
        /\ req'.type \in 1..3 /\ ~Rejected(req') /\ (req'.type = 1 \/ req'.redisType # 3)
    BY <1>6 DEF Begin, configVars
  <2>3. /\ World' /\ Lists' /\ Quiet' /\ req' = ClientReqInfo(given)
        /\ taken' = taken + 1 /\ taken < MaxRequests
    <3>1. World' /\ Lists' /\ Quiet' /\ req' = ClientReqInfo(given) /\ taken' = taken + 1
      BY <1>1, <2>1, <2>2, AcceptIs
    <3>2. taken < MaxRequests
      BY <2>1 DEF Accept
    <3>. QED BY <3>1, <3>2
  <2>4. Servable(req')
    BY <2>2, <2>3, ServableIs
  <2>5. objects \in Nat /\ taken \in Nat /\ objects <= taken /\ MaxRequests \in Nat
    BY LogicEntranceAssumption DEF IInv, TypeOK, Heap
  <2>6. objects' \in 0..MaxRequests /\ Heap'
    BY <2>2, <2>3, <2>5 DEF Heap
  <2>7. pc' \in {"getMaster", "pharseSlave"}
    BY <2>2
  <2>8. ~MasterBit(req'.redisType) => SlaveBit(req'.redisType)
    BY <2>4 DEF Servable, MasterBit, SlaveBit
  <2>9. Stages'
    BY <2>2, <2>3, <2>4, <2>7, <2>8 DEF Stages, Quiet
  <2>10. Answered'
    BY <2>7 DEF Answered
  <2>11. Handler'
    <3>. DEFINE none == <<>>
    <3>1. none \in Seq(RedisInfo)
      OBVIOUS
    <3>2. masters' = none /\ slaveList' = none /\ todo' = none
      BY <2>3 DEF Quiet
    <3>3. todo' = <<>>
      BY <3>2
    <3>4. rsp' \in Responses
      BY <2>2, TypeParts DEF IInv, Handler
    <3>. HIDE DEF none
    <3>. QED BY <2>6, <2>7, <3>1, <3>2, <3>3, <3>4 DEF Handler
  <2>. QED BY <2>3, <2>6, <2>9, <2>10, <2>11, TypePartsPrime DEF IInv
<1>. QED BY <1>2, <1>3, <1>4, <1>5, <1>6 DEF Take

-----------------------------------------------------------------------------
(* A call comes back.                                                      *)

\* Who answers is a deployment, and one more of the request.
LEMMA AnsweringIs ==
  ASSUME World, NEW v \in Answering, view' = view, UNCHANGED <<reqVars, configVars, changes, taken>>,
         views' = views \cup {v}, NEW c, cut' = (cut \/ c), c \in BOOLEAN
  PROVE  World' /\ v \in views' /\ views' \subseteq Views /\ views \subseteq views'
<1>1. v \in Views
  BY LogicEntranceAssumption DEF Answering, World
<1>2. cut' \in BOOLEAN
  BY DEF World
<1>. QED BY <1>1, <1>2 DEF World, reqVars, configVars

\* The response is made of such lists.
LEMMA AnswerIs ==
  ASSUME IInv, pc # "idle", World', req' = req, taken' = taken,
         NEW m, NEW l, NEW s, Sources(m, l, s, views'), NEW r, r = ByName(l),
         Answer(m, r, s)
  PROVE  IInv'
<1>. DEFINE none == <<>>
<1>1. none \in Seq(RedisInfo) /\ DOMAIN none = {} /\ ByName(none) = none
  BY NoMap
<1>2. Servable(req) /\ views' \subseteq Views
  BY DEF IInv, Stages, World
<1>3. /\ pc' = "idle" /\ Quiet' /\ rsp' = MadeRsp(req, m, ByName(l), s)
      /\ objects' = objects - (IF Deletes(req, rsp') THEN 1 ELSE 0)
  BY DEF Answer, ClearSentinel, Quiet, MakeRsp, MadeRsp
<1>4. /\ rsp' \in Responses /\ Genuine(rsp', views') /\ AllOrNothing(req', rsp', views')
      /\ HaveMasters(req', rsp') /\ Stable(req', rsp', views') /\ Falls(req', rsp', views')
  <2>. DEFINE made == MadeRsp(req, m, ByName(l), s)
  <2>1. CASE req.type = 1
    <3>1. /\ made \in Responses /\ made.kind = "info"
          /\ Genuine(made, views') /\ AllOrNothing(req, made, views') /\ HaveMasters(req, made)
      BY <1>2, <2>1, InfoRspIsSound
    <3>. HIDE DEF made
    <3>. QED BY <1>3, <3>1 DEF Stable, Falls, made
  <2>2. CASE req.type # 1
    <3>1. /\ made \in Responses /\ made.kind \in {"noRedis", "hash"}
          /\ Genuine(made, views') /\ Stable(req, made, views') /\ Falls(req, made, views')
      BY <1>2, <2>2, HashRspIsSound
    <3>. HIDE DEF made
    <3>. QED BY <1>3, <3>1 DEF AllOrNothing, HaveMasters, made
  <2>. QED BY <2>1, <2>2
<1>5. objects \in 1..MaxRequests /\ taken \in Nat /\ objects <= taken /\ MaxRequests \in Nat
  BY LogicEntranceAssumption DEF IInv, TypeOK, Heap
<1>6. objects' \in 0..MaxRequests /\ Heap'
  <2>1. objects' = objects \/ objects' = objects - 1
    BY <1>3, <1>5
  <2>. QED BY <1>3, <1>5, <2>1 DEF Heap
<1>7. masters' = none /\ masterRedis' = none /\ slaveList' = none /\ todo' = none
  BY <1>3 DEF Quiet
<1>8. Stages'
  BY <1>3 DEF Stages
<1>9. Answered'
  BY <1>4 DEF Answered
<1>10. todo' = <<>>
  BY <1>7
<1>11. Lists'
  <2>1. none \in MasterLists(views')
    BY <1>1 DEF MasterLists, none
  <2>2. NamesOf(none) = {}
    BY <1>1 DEF NamesOf
  <2>. HIDE DEF none
  <2>. QED BY <1>1, <1>7, <2>1, <2>2 DEF Lists
<1>. HIDE DEF none
<1>12. Handler'
  BY <1>1, <1>3, <1>4, <1>6, <1>7, <1>10 DEF Handler
<1>. QED BY <1>6, <1>8, <1>9, <1>11, <1>12, TypePartsPrime DEF IInv

\* Lists without slaves.
LEMMA NoSlaves ==
  ASSUME NEW vs, NEW m \in MasterLists(vs), NEW l \in MasterLists(vs)
  PROVE  Sources(m, l, <<>>, vs)
<1>. DEFINE none == <<>>
<1>1. none \in Seq(RedisInfo) /\ DOMAIN none = {}
  BY NoMap
<1>2. NamesOf(none) = {}
  BY <1>1 DEF NamesOf
<1>. HIDE DEF none
<1>3. Sources(m, l, none, vs)
  BY <1>1, <1>2 DEF Sources
<1>. QED BY <1>3 DEF none

\* More deployments leave the lists what they are.
LEMMA ListsGrow ==
  ASSUME Lists, views \subseteq views'
  PROVE  /\ masters \in MasterLists(views')
         /\ \E l \in MasterLists(views') : masterRedis = ByName(l)
         /\ \A i \in DOMAIN slaveList : HealthySlave(slaveList[i], views')
<1>1. MasterLists(views) \subseteq MasterLists(views')
  BY MasterListsGrow
<1>2. \A i \in DOMAIN slaveList : HealthySlave(slaveList[i], views')
  BY HealthyGrow DEF Lists
<1>. QED BY <1>1, <1>2 DEF Lists

\* The handler's own call of getMaster returns, with any part of any answer.
LEMMA GetMasterStep ==
  ASSUME IInv, GetMasterReturns
  PROVE  IInv'
<1>1. PICK v \in Answering : \E received \in Received(InfoAnswer(v)) :
       LET got == GetMaster(received)
       IN  /\ cut' = (cut \/ received # InfoAnswer(v))
           /\ views' = views \cup {v}
           /\ IF req.type = 1 /\ SlaveBit(req.redisType)
                THEN /\ pc' = "pharseSlave"
                     /\ masters' = got.list
                     /\ masterRedis' = MasterRedisAfter(got)
                     /\ UNCHANGED <<slaveList, todo, outcome>>
                ELSE Answer(got.list, MasterRedisAfter(got), <<>>)
  BY DEF GetMasterReturns
<1>2. PICK received \in Received(InfoAnswer(v)) :
       LET got == GetMaster(received)
       IN  /\ cut' = (cut \/ received # InfoAnswer(v))
           /\ views' = views \cup {v}
           /\ IF req.type = 1 /\ SlaveBit(req.redisType)
                THEN /\ pc' = "pharseSlave"
                     /\ masters' = got.list
                     /\ masterRedis' = MasterRedisAfter(got)
                     /\ UNCHANGED <<slaveList, todo, outcome>>
                ELSE Answer(got.list, MasterRedisAfter(got), <<>>)
  BY <1>1
<1>. DEFINE got == GetMaster(received)
<1>3. /\ pc = "getMaster" /\ view' = view
      /\ UNCHANGED <<reqVars, configVars, changes, taken>>
      /\ req' = req /\ taken' = taken
  BY DEF GetMasterReturns, reqVars
<1>4. World /\ Lists /\ Stages /\ Heap /\ Handler
  BY TypeParts DEF IInv
<1>5. World' /\ v \in views' /\ views' \subseteq Views /\ views \subseteq views'
  <2>1. (received # InfoAnswer(v)) \in BOOLEAN
    OBVIOUS
  <2>. QED BY <1>2, <1>3, <1>4, <2>1, AnsweringIs
<1>6. got.list \in MasterLists(views') /\ got.set \in BOOLEAN
  BY <1>5, GotIs
<1>7. PICK l0 \in MasterLists(views') : masterRedis = ByName(l0)
  BY <1>4, <1>5, ListsGrow
<1>. DEFINE l == IF got.set THEN got.list ELSE l0
<1>8. l \in MasterLists(views') /\ MasterRedisAfter(got) = ByName(l)
  BY <1>5, <1>6, <1>7, AfterIs
<1>. HIDE DEF got, l
<1>9. CASE req.type = 1 /\ SlaveBit(req.redisType)
  <2>1. /\ pc' = "pharseSlave" /\ masters' = got.list /\ masterRedis' = ByName(l)
        /\ slaveList' = slaveList /\ todo' = todo /\ rsp' = rsp /\ objects' = objects
    BY <1>2, <1>8, <1>9 DEF outcome, got
  <2>. DEFINE none == <<>>
  <2>2. none \in Seq(RedisInfo) /\ DOMAIN none = {} /\ slaveList = none /\ todo = none
    BY <1>3, <1>4, NoMap DEF Stages, Quiet
  <2>3. Stages'
    BY <1>3, <1>4, <1>9, <2>1 DEF Stages, Quiet
  <2>4. todo' = <<>>
    BY <2>1, <2>2
  <2>. HIDE DEF none
  <2>5. NamesOf(none) = {}
    BY <2>2 DEF NamesOf
  <2>6. Lists'
    BY <1>6, <1>8, <2>1, <2>2, <2>5 DEF Lists
  <2>7. got.list \in Seq(RedisInfo)
    BY <1>6 DEF MasterLists
  <2>8. Handler'
    BY <1>4, <2>1, <2>2, <2>4, <2>7 DEF Handler
  <2>9. Heap' /\ Answered'
    BY <1>3, <1>4, <2>1 DEF Heap, Answered
  <2>. QED BY <1>5, <2>3, <2>6, <2>8, <2>9, TypePartsPrime DEF IInv
<1>10. CASE ~(req.type = 1 /\ SlaveBit(req.redisType))
  <2>1. Answer(got.list, MasterRedisAfter(got), <<>>)
    BY <1>2, <1>10 DEF got
  <2>2. Sources(got.list, l, <<>>, views')
    BY <1>6, <1>8, NoSlaves
  <2>3. pc # "idle"
    BY <1>3
  <2>. QED BY <1>3, <1>5, <1>8, <2>1, <2>2, <2>3, AnswerIs
<1>. QED BY <1>9, <1>10

\* The call of getMaster inside pharseSlave returns.
LEMMA PharseSlaveStep ==
  ASSUME IInv, PharseSlaveMasters
  PROVE  IInv'
<1>1. PICK v \in Answering : \E received \in Received(InfoAnswer(v)) :
       LET got == GetMaster(received)
       IN  /\ cut' = (cut \/ received # InfoAnswer(v))
           /\ views' = views \cup {v}
           /\ IF got.list # <<>>
                THEN /\ pc' = "getSlaveByMasterName"
                     /\ todo' = got.list
                     /\ masterRedis' = MasterRedisAfter(got)
                     /\ UNCHANGED <<masters, slaveList, outcome>>
                ELSE Answer(masters, MasterRedisAfter(got), <<>>)
  BY DEF PharseSlaveMasters
<1>2. PICK received \in Received(InfoAnswer(v)) :
       LET got == GetMaster(received)
       IN  /\ cut' = (cut \/ received # InfoAnswer(v))
           /\ views' = views \cup {v}
           /\ IF got.list # <<>>
                THEN /\ pc' = "getSlaveByMasterName"
                     /\ todo' = got.list
                     /\ masterRedis' = MasterRedisAfter(got)
                     /\ UNCHANGED <<masters, slaveList, outcome>>
                ELSE Answer(masters, MasterRedisAfter(got), <<>>)
  BY <1>1
<1>. DEFINE got == GetMaster(received)
<1>3. /\ pc = "pharseSlave" /\ view' = view
      /\ UNCHANGED <<reqVars, configVars, changes, taken>>
      /\ req' = req /\ taken' = taken
  BY DEF PharseSlaveMasters, reqVars
<1>4. World /\ Lists /\ Stages /\ Heap /\ Handler
  BY TypeParts DEF IInv
<1>5. World' /\ v \in views' /\ views' \subseteq Views /\ views \subseteq views'
  <2>1. (received # InfoAnswer(v)) \in BOOLEAN
    OBVIOUS
  <2>. QED BY <1>2, <1>3, <1>4, <2>1, AnsweringIs
<1>6. /\ got.list \in MasterLists(views') /\ got.set \in BOOLEAN
      /\ got.list # <<>> => got.set
  BY <1>5, GotIs
<1>7. PICK l0 \in MasterLists(views') : masterRedis = ByName(l0)
  BY <1>4, <1>5, ListsGrow
<1>. DEFINE l == IF got.set THEN got.list ELSE l0
<1>8. l \in MasterLists(views') /\ MasterRedisAfter(got) = ByName(l)
  BY <1>5, <1>6, <1>7, AfterIs
<1>9. masters \in MasterLists(views')
  BY <1>4, <1>5, ListsGrow
<1>10. got.list # <<>> => l = got.list
  BY <1>6
<1>. HIDE DEF got, l
<1>11. CASE got.list # <<>>
  <2>1. /\ pc' = "getSlaveByMasterName" /\ todo' = got.list /\ masterRedis' = ByName(l)
        /\ masters' = masters /\ slaveList' = slaveList
        /\ rsp' = rsp /\ objects' = objects
    BY <1>2, <1>8, <1>11 DEF outcome, got
  <2>. DEFINE none == <<>>
  <2>2. none \in Seq(RedisInfo) /\ DOMAIN none = {} /\ slaveList = none
    BY <1>3, <1>4, NoMap DEF Stages, Quiet
  <2>3. Stages'
    BY <1>3, <1>4, <2>1 DEF Stages, Quiet
  <2>4. todo' # <<>>
    BY <1>11, <2>1
  <2>. HIDE DEF none
  <2>5. NamesOf(none) = {}
    BY <2>2 DEF NamesOf
  <2>6. got.list \in Seq(RedisInfo)
    BY <1>6 DEF MasterLists
  <2>7. DOMAIN ByName(got.list) = NamesOf(got.list)
    BY <2>6, ByNameIs DEF NamesOf
  <2>8. Lists'
    BY <1>8, <1>9, <1>10, <1>11, <2>1, <2>2, <2>5, <2>7 DEF Lists
  <2>9. Handler'
    BY <1>4, <2>1, <2>2, <2>4, <2>6 DEF Handler
  <2>10. Heap' /\ Answered'
    BY <1>3, <1>4, <2>1 DEF Heap, Answered
  <2>. QED BY <1>5, <2>3, <2>8, <2>9, <2>10, TypePartsPrime DEF IInv
<1>12. CASE got.list = <<>>
  <2>1. Answer(masters, MasterRedisAfter(got), <<>>)
    BY <1>2, <1>12 DEF got
  <2>2. Sources(masters, l, <<>>, views')
    BY <1>8, <1>9, NoSlaves
  <2>3. pc # "idle"
    BY <1>3
  <2>. QED BY <1>3, <1>5, <1>8, <2>1, <2>2, <2>3, AnswerIs
<1>. QED BY <1>11, <1>12

\* The call for the slaves of one master returns.
LEMMA GetSlaveStep ==
  ASSUME IInv, GetSlaveReturns
  PROVE  IInv'
<1>. DEFINE name == Head(todo).name
<1>1. PICK v \in Answering : \E received \in Received(SlavesAnswer(v, name)) :
       LET slaves == PharseSlave(slaveList, name, ParseSlaveInfo(received))
       IN  /\ cut' = (cut \/ received # SlavesAnswer(v, name))
           /\ views' = views \cup {v}
           /\ IF Len(todo) > 1
                THEN /\ slaveList' = slaves
                     /\ todo' = Tail(todo)
                     /\ UNCHANGED <<pc, masters, masterRedis, outcome>>
                ELSE Answer(masters, masterRedis, slaves)
  BY DEF GetSlaveReturns
<1>2. PICK received \in Received(SlavesAnswer(v, name)) :
       LET slaves == PharseSlave(slaveList, name, ParseSlaveInfo(received))
       IN  /\ cut' = (cut \/ received # SlavesAnswer(v, name))
           /\ views' = views \cup {v}
           /\ IF Len(todo) > 1
                THEN /\ slaveList' = slaves
                     /\ todo' = Tail(todo)
                     /\ UNCHANGED <<pc, masters, masterRedis, outcome>>
                ELSE Answer(masters, masterRedis, slaves)
  BY <1>1
<1>. DEFINE slaves == PharseSlave(slaveList, name, ParseSlaveInfo(received))
<1>3. /\ pc = "getSlaveByMasterName" /\ view' = view
      /\ UNCHANGED <<reqVars, configVars, changes, taken>>
      /\ req' = req /\ taken' = taken
  BY DEF GetSlaveReturns, reqVars
<1>4. World /\ Lists /\ Stages /\ Heap /\ Handler
  BY TypeParts DEF IInv
<1>5. World' /\ v \in views' /\ views' \subseteq Views /\ views \subseteq views'
  <2>1. (received # SlavesAnswer(v, name)) \in BOOLEAN
    OBVIOUS
  <2>. QED BY <1>2, <1>3, <1>4, <2>1, AnsweringIs
<1>6. /\ todo \in Seq(RedisInfo) /\ todo # <<>> /\ slaveList \in Seq(RedisInfo)
  BY <1>3, <1>4 DEF Handler
<1>7. name \in PoolNames /\ name \in NamesOf(todo) /\ NamesOf(Tail(todo)) \subseteq NamesOf(todo)
  <2>1. todo[1] \in RedisInfo /\ Head(todo) = todo[1] /\ 1 \in DOMAIN todo
    BY <1>6
  <2>2. \A i \in DOMAIN Tail(todo) : i + 1 \in DOMAIN todo /\ Tail(todo)[i] = todo[i + 1]
    BY <1>6
  <2>3. todo[1].name \in PoolNames
    BY <2>1 DEF RedisInfo
  <2>. QED BY <2>1, <2>2, <2>3 DEF NamesOf
<1>8. /\ masters \in MasterLists(views')
      /\ \E l \in MasterLists(views') : masterRedis = ByName(l)
      /\ \A i \in DOMAIN slaveList : HealthySlave(slaveList[i], views')
  BY <1>4, <1>5, ListsGrow
<1>9. PICK l \in MasterLists(views') : masterRedis = ByName(l)
  BY <1>8
<1>10. DOMAIN masterRedis = NamesOf(l)
  <2>1. l \in Seq(RedisInfo)
    BY DEF MasterLists
  <2>. QED BY <1>9, <2>1, ByNameIs DEF NamesOf
<1>11. NamesOf(slaveList) \cup NamesOf(todo) \subseteq DOMAIN masterRedis
  BY <1>4 DEF Lists
<1>. HIDE DEF name
<1>12. /\ slaves \in Seq(RedisInfo)
       /\ \A i \in DOMAIN slaves : HealthySlave(slaves[i], views')
       /\ NamesOf(slaves) \subseteq NamesOf(slaveList) \cup {name}
  BY <1>5, <1>6, <1>7, <1>8, TurnIs
<1>. HIDE DEF slaves
<1>13. CASE Len(todo) > 1
  <2>1. /\ pc' = pc /\ slaveList' = slaves /\ todo' = Tail(todo)
        /\ masters' = masters /\ masterRedis' = masterRedis
        /\ rsp' = rsp /\ objects' = objects
    BY <1>2, <1>13 DEF outcome, slaves
  <2>2. Tail(todo) \in Seq(RedisInfo) /\ Tail(todo) # <<>>
    <3>1. Tail(todo) \in Seq(RedisInfo) /\ Len(Tail(todo)) = Len(todo) - 1 /\ Len(todo) \in Nat
      BY <1>6
    <3>. DEFINE t == Tail(todo)
    <3>2. Len(t) > 0
      BY ONLY <1>13, <3>1
    <3>. HIDE DEF t
    <3>3. t # <<>>
      BY ONLY <3>2
    <3>. QED BY <3>1, <3>3 DEF t
  <2>3. Stages'
    BY <1>3, <1>4, <2>1 DEF Stages
  <2>4. Lists'
    BY <1>7, <1>8, <1>11, <1>12, <2>1 DEF Lists
  <2>5. Handler'
    BY <1>3, <1>4, <1>12, <2>1, <2>2 DEF Handler
  <2>6. Heap' /\ Answered'
    BY <1>3, <1>4, <2>1 DEF Heap, Answered
  <2>. QED BY <1>5, <2>3, <2>4, <2>5, <2>6, TypePartsPrime DEF IInv
<1>14. CASE ~(Len(todo) > 1)
  <2>1. Answer(masters, masterRedis, slaves)
    BY <1>2, <1>14 DEF slaves
  <2>2. Sources(masters, l, slaves, views')
    BY <1>7, <1>8, <1>10, <1>11, <1>12 DEF Sources
  <2>3. pc # "idle"
    BY <1>3
  <2>. QED BY <1>3, <1>5, <1>9, <2>1, <2>2, <2>3, AnswerIs
<1>. QED BY <1>13, <1>14

-----------------------------------------------------------------------------
(* The deployment changes.                                                 *)

\* It stays one.
LEMMA ViewChanges ==
  ASSUME view \in Views, Deployment
  PROVE  view' \in Views
<1>1. /\ view = [order |-> view.order, master |-> view.master, slaves |-> view.slaves]
      /\ view.order \in Orders /\ view.master \in [PoolNames -> Addrs]
      /\ view.slaves \in [PoolNames -> Seq(Slaves)]
  BY DEF Views, Slaves
<1>2. CASE Failover
  <2>0. PICK p \in PoolNames : \E i \in DOMAIN view.slaves[p] :
               view' = [view EXCEPT
                          !.master[p] = view.slaves[p][i].addr,
                          !.slaves[p][i] = [addr |-> view.master[p], flags |-> "s_down"]]
    BY <1>2 DEF Failover
  <2>1. PICK i \in DOMAIN view.slaves[p] :
               view' = [view EXCEPT
                          !.master[p] = view.slaves[p][i].addr,
                          !.slaves[p][i] = [addr |-> view.master[p], flags |-> "s_down"]]
    BY <2>0
  <2>. DEFINE down == [addr |-> view.master[p], flags |-> "s_down"]
             list == [view.slaves[p] EXCEPT ![i] = down]
             master == [view.master EXCEPT ![p] = view.slaves[p][i].addr]
             slaves == [view.slaves EXCEPT ![p] = list]
  <2>2. view' = [order |-> view.order, master |-> master, slaves |-> slaves]
    BY <1>1, <2>1
  <2>3. view.slaves[p] \in Seq(Slaves) /\ view.slaves[p][i] \in Slaves
    BY <1>1
  <2>4. down \in Slaves
    BY <1>1 DEF Slaves
  <2>. HIDE DEF down
  <2>5. list \in Seq(Slaves)
    BY <2>3, <2>4
  <2>6. master \in [PoolNames -> Addrs]
    BY <1>1, <2>3 DEF Slaves
  <2>. HIDE DEF list, master
  <2>7. slaves \in [PoolNames -> Seq(Slaves)]
    BY <1>1, <2>5
  <2>. HIDE DEF slaves
  <2>. QED BY <1>1, <2>2, <2>6, <2>7 DEF Views, Slaves
<1>3. CASE SlaveChanges
  <2>0. PICK p \in PoolNames : \E i \in DOMAIN view.slaves[p] :
               view' = [view EXCEPT !.slaves[p][i].flags =
                          IF @ = "slave" THEN "s_down" ELSE "slave"]
    BY <1>3 DEF SlaveChanges
  <2>1. PICK i \in DOMAIN view.slaves[p] :
               view' = [view EXCEPT !.slaves[p][i].flags =
                          IF @ = "slave" THEN "s_down" ELSE "slave"]
    BY <2>0
  <2>. DEFINE old == view.slaves[p][i]
             new == [old EXCEPT !.flags = IF @ = "slave" THEN "s_down" ELSE "slave"]
             list == [view.slaves[p] EXCEPT ![i] = new]
             slaves == [view.slaves EXCEPT ![p] = list]
  <2>2. view' = [order |-> view.order, master |-> view.master, slaves |-> slaves]
    BY <1>1, <2>1
  <2>3. view.slaves[p] \in Seq(Slaves) /\ old \in Slaves
    BY <1>1
  <2>. HIDE DEF old
  <2>4. new \in Slaves
    BY <2>3 DEF Slaves
  <2>. HIDE DEF new
  <2>5. list \in Seq(Slaves)
    BY <2>3, <2>4
  <2>. HIDE DEF list
  <2>6. slaves \in [PoolNames -> Seq(Slaves)]
    BY <1>1, <2>5
  <2>. HIDE DEF slaves
  <2>. QED BY <1>1, <2>2, <2>6 DEF Views, Slaves
<1>4. CASE Relist
  <2>1. PICK o \in Orders : view' = [view EXCEPT !.order = o]
    BY <1>4 DEF Relist
  <2>2. view' = [order |-> o, master |-> view.master, slaves |-> view.slaves]
    BY <1>1, <2>1
  <2>. QED BY <1>1, <2>2 DEF Views, Slaves
<1>. QED BY <1>2, <1>3, <1>4 DEF Deployment

\* The deployment changes while a handler waits.
LEMMA DeploymentStep ==
  ASSUME IInv, Deployment
  PROVE  IInv'
<1>1. /\ pc # "idle" /\ changes < MaxChanges /\ changes' = changes + 1
      /\ views' = views \cup {view'}
      /\ UNCHANGED <<pc, reqVars, sentinelVars, outcome, configVars, cut, taken>>
  BY DEF Deployment, Failover, SlaveChanges, Relist, Change
<1>2. World /\ Lists /\ Stages /\ Heap /\ Handler
  BY TypeParts DEF IInv
<1>3. view' \in Views
  BY <1>2, ViewChanges DEF World
<1>4. changes + 1 \in 0..MaxChanges
  BY <1>1, <1>2, LogicEntranceAssumption DEF World
<1>5. World'
  BY <1>1, <1>2, <1>3, <1>4 DEF World, reqVars, configVars
<1>6. views \subseteq views'
  BY <1>1
<1>7. /\ masters \in MasterLists(views')
      /\ \E l \in MasterLists(views') : masterRedis = ByName(l)
      /\ \A i \in DOMAIN slaveList : HealthySlave(slaveList[i], views')
  BY <1>2, <1>6, ListsGrow
<1>8. Lists'
  BY <1>1, <1>2, <1>7 DEF Lists, sentinelVars
<1>9. Handler'
  BY <1>1, <1>2 DEF Handler, sentinelVars, outcome
<1>10. Stages' /\ Heap'
  BY <1>1, <1>2 DEF Stages, Heap, Quiet, sentinelVars, outcome, reqVars
<1>11. Answered'
  BY <1>1 DEF Answered
<1>. QED BY <1>5, <1>8, <1>9, <1>10, <1>11, TypePartsPrime DEF IInv

-----------------------------------------------------------------------------
(* The theorems.                                                           *)

\* Every step keeps the invariant.
LEMMA StepIInv == IInv /\ [Next]_vars => IInv'
<1>. SUFFICES ASSUME IInv, [Next]_vars PROVE IInv'
  OBVIOUS
<1>1. CASE Take
  BY <1>1, TakeStep
<1>2. CASE GetMasterReturns
  BY <1>2, GetMasterStep
<1>3. CASE PharseSlaveMasters
  BY <1>3, PharseSlaveStep
<1>4. CASE GetSlaveReturns
  BY <1>4, GetSlaveStep
<1>5. CASE Deployment
  BY <1>5, DeploymentStep
<1>6. CASE UNCHANGED vars
  <2>1. UNCHANGED <<view, pc, asked, req, masters, masterRedis, slaveList, todo, rsp, objects,
                    logLv, logType, views, changes, taken, cut>>
    BY <1>6 DEF vars, reqVars, sentinelVars, outcome, configVars, historyVars
  <2>. QED BY <2>1 DEF IInv, TypeOK, Stages, Quiet, Lists, Heap, Answered
<1>. QED BY <1>1, <1>2, <1>3, <1>4, <1>5, <1>6 DEF Next, Return

\* At every stage of a request the handler's lists are whole lists of one
\* deployment each, and what was answered last was made of such lists.
THEOREM Invariance == Spec => []IInv
BY InitIInv, StepIInv, PTL DEF Spec

\* Every variable keeps its type: lists of instances known by IPv4 addresses, a
\* map with at least one instance for each name, never more objects than
\* requests.
THEOREM TypeCorrect == Spec => []TypeOK
<1>1. IInv => TypeOK
  BY DEF IInv
<1>. QED BY <1>1, Invariance, PTL

\* A list of masters is answered whole, as one deployment of the request has
\* it, or not at all.
THEOREM WholeLists == Spec => []MastersAllOrNothing
<1>1. IInv => MastersAllOrNothing
  BY DEF IInv, Answered, AllOrNothing, MastersAllOrNothing
<1>. QED BY <1>1, Invariance, PTL

\* No instance is answered that the deployment did not have during the request,
\* in that role.
THEOREM GenuineInstances == Spec => []InstancesAreGenuine
<1>1. IInv => InstancesAreGenuine
  <2>. SUFFICES ASSUME IInv, pc = "idle"
                PROVE  /\ \A i \in DOMAIN rsp.masters :
                            \E v \in views : v.master[rsp.masters[i].name] = rsp.masters[i].addr
                       /\ \A i \in DOMAIN rsp.slaves :
                            \E v \in views : \E j \in DOMAIN v.slaves[rsp.slaves[i].name] :
                              v.slaves[rsp.slaves[i].name][j] = [addr |-> rsp.slaves[i].addr,
                                                                 flags |-> "slave"]
    BY DEF InstancesAreGenuine
  <2>1. Genuine(rsp, views)
    BY DEF IInv, Answered
  <2>. QED BY <2>1 DEF Genuine, WasMaster, HealthySlave
<1>. QED BY <1>1, Invariance, PTL

\* No slave is answered for a pool named in the request without its master,
\* when both were asked for.
THEOREM SlavesHaveMasters == Spec => []SelectedSlavesHaveTheirMaster
<1>1. IInv => SelectedSlavesHaveTheirMaster
  BY DEF IInv, Answered, HaveMasters, NamesOf, SelectedSlavesHaveTheirMaster
<1>. QED BY <1>1, Invariance, PTL

\* The master answered for a key is the one at the key's index among the names
\* of one deployment, however the peer ordered them.
THEOREM StableMaster == Spec => []MasterOfKeyIsStable
<1>1. IInv => MasterOfKeyIsStable
  <2>. SUFFICES ASSUME IInv, pc = "idle", rsp.kind = "hash", req.redisType = 1,
                       req.poolName = <<>>
                PROVE  \E v \in views :
                         LET names == Those(Pools, ToSet(v.order))
                             index == Index(req, Len(names))
                         IN  /\ Len(rsp.masters) = 1
                             /\ index \in 0..(Len(names) - 1)
                             /\ rsp.masters[1].name = names[index + 1]
    BY DEF MasterOfKeyIsStable, Index
  <2>. QED BY DEF IInv, Answered, Stable
<1>. QED BY <1>1, Invariance, PTL

\* The log configuration changes only through a request all of whose values are
\* legal, and takes every value given.
THEOREM LogConfigGuarded == Spec => LogConfigAllOrNothing
<1>. DEFINE Guarded ==
              \/ UNCHANGED configVars
              \/ /\ pc = "idle" /\ req'.type = 4
                 /\ req'.logLv \in LogLevels \cup {-1} /\ req'.logType \in LogTypes \cup {-1}
                 /\ req'.logLv # -1 => logLv' = req'.logLv
                 /\ req'.logType # -1 => logType' = req'.logType
<1>1. Next => Guarded
  <2>1. ResetLogLevel => Guarded
    <3>1. SUFFICES ASSUME ResetLogLevel PROVE Guarded
      OBVIOUS
    <3>2. /\ pc = "idle" /\ req'.type = 4 /\ ~Rejected(req')
          /\ logLv' = IF req'.logLv # -1 THEN req'.logLv ELSE logLv
          /\ logType' = IF req'.logType # -1 THEN req'.logType ELSE logType
      BY <3>1 DEF ResetLogLevel, Accept
    <3>3. ~IllegalLog(req')
      BY <3>2 DEF Rejected
    <3>. QED BY <3>2, <3>3 DEF IllegalLog
  <2>2. Help \/ UnknownDomain \/ IllegalRedisType \/ Begin => UNCHANGED configVars
    BY DEF Help, UnknownDomain, IllegalRedisType, Begin
  <2>3. Return => UNCHANGED configVars
    <3>1. GetMasterReturns => UNCHANGED configVars
      BY DEF GetMasterReturns
    <3>2. PharseSlaveMasters => UNCHANGED configVars
      BY DEF PharseSlaveMasters
    <3>3. GetSlaveReturns => UNCHANGED configVars
      BY Zenon DEF GetSlaveReturns
    <3>. QED BY <3>1, <3>2, <3>3 DEF Return
  <2>4. Deployment => UNCHANGED configVars
    BY DEF Deployment, Failover, SlaveChanges, Relist, Change
  <2>. QED BY <2>1, <2>2, <2>3, <2>4 DEF Next, Take
<1>2. [Next]_vars => [Guarded]_vars
  BY <1>1
<1>. QED BY <1>2, PTL DEF Spec, LogConfigAllOrNothing

-----------------------------------------------------------------------------
(* The refinement of Lookup.                                               *)

\* The service begins as Lookup does.
LEMMA InitRefines == Init => Abstract!LInit
<1>. SUFFICES ASSUME Init PROVE Abstract!LInit
  OBVIOUS
<1>1. pc = "idle" /\ views = {view} /\ rsp = Response("none", <<>>, <<>>)
  BY DEF Init
<1>2. Abstract!OneMoment(views)
  BY <1>1 DEF Abstract!OneMoment
<1>3. rsp.masters = <<>> /\ rsp.slaves = <<>>
  BY <1>1 DEF Response
<1>4. Abstract!NoInstances(rsp)
  BY <1>3 DEF Abstract!NoInstances
<1>. QED BY ONLY <1>1, <1>2, <1>4 DEF Abstract!LInit

\* A response that is genuine here is genuine there.
LEMMA GenuineRefines ==
  ASSUME NEW r \in Responses, NEW vs, vs \subseteq Views, Genuine(r, vs)
  PROVE  Abstract!Genuine(r, vs)
<1>1. r.masters \in Seq(RedisInfo) /\ r.slaves \in Seq(RedisInfo)
  BY DEF Responses
<1>2. \A v \in vs : DOMAIN v.master = PoolNames /\ DOMAIN v.slaves = PoolNames
  BY DEF Views
<1>3. ASSUME NEW i \in DOMAIN r.masters PROVE Abstract!WasMaster(r.masters[i], vs)
  <2>1. r.masters[i] \in RedisInfo
    BY <1>1
  <2>2. r.masters[i].name \in PoolNames
    BY <2>1 DEF RedisInfo
  <2>3. \E v \in vs : v.master[r.masters[i].name] = r.masters[i].addr
    BY DEF Genuine, WasMaster
  <2>. QED BY <1>2, <2>2, <2>3 DEF Abstract!WasMaster
<1>4. ASSUME NEW i \in DOMAIN r.slaves PROVE Abstract!WasHealthySlave(r.slaves[i], vs)
  <2>1. r.slaves[i] \in RedisInfo
    BY <1>1
  <2>2. r.slaves[i].name \in PoolNames
    BY <2>1 DEF RedisInfo
  <2>3. \E v \in vs : \E j \in DOMAIN v.slaves[r.slaves[i].name] :
          v.slaves[r.slaves[i].name][j] = [addr |-> r.slaves[i].addr, flags |-> "slave"]
    BY DEF Genuine, HealthySlave
  <2>. QED BY <1>2, <2>2, <2>3 DEF Abstract!WasHealthySlave
<1>. QED BY <1>3, <1>4 DEF Abstract!Genuine

\* What is answered at once, and how a lookup begins.
LEMMA TakeRefines == Take => Abstract!Ask \/ Abstract!AnswerAtOnce
<1>1. ASSUME NEW given \in Requests, Accept(given)
      PROVE  pc = "idle" /\ Abstract!OneMoment(views')
  <2>1. pc = "idle" /\ views' = {view}
    BY <1>1 DEF Accept
  <2>2. Abstract!OneMoment(views')
    BY ONLY <2>1 DEF Abstract!OneMoment
  <2>. QED BY <2>1, <2>2
<1>2. ASSUME Help \/ ResetLogLevel \/ UnknownDomain \/ IllegalRedisType
      PROVE  Abstract!AnswerAtOnce
  <2>1. PICK given \in Requests : Accept(given)
    BY <1>2 DEF Help, ResetLogLevel, UnknownDomain, IllegalRedisType
  <2>2. pc' = pc /\ \E kind : rsp' = Response(kind, <<>>, <<>>)
    BY <1>2 DEF Help, ResetLogLevel, UnknownDomain, IllegalRedisType
  <2>3. rsp'.masters = <<>> /\ rsp'.slaves = <<>>
    BY <2>2 DEF Response
  <2>4. Abstract!NoInstances(rsp')
    BY ONLY <2>3 DEF Abstract!NoInstances
  <2>5. pc = "idle" /\ pc' = "idle" /\ Abstract!OneMoment(views')
    BY <1>1, <2>1, <2>2
  <2>. QED BY ONLY <2>4, <2>5 DEF Abstract!AnswerAtOnce
<1>3. ASSUME Begin PROVE Abstract!Ask
  <2>1. PICK given \in Requests : Accept(given)
    BY <1>3 DEF Begin
  <2>2. pc' # "idle" /\ UNCHANGED <<rsp, configVars>>
    BY <1>3 DEF Begin
  <2>3. pc = "idle" /\ Abstract!OneMoment(views')
    BY <1>1, <2>1
  <2>. QED BY ONLY <2>2, <2>3 DEF Abstract!Ask
<1>. QED BY <1>2, <1>3 DEF Take

\* A call that comes back goes on with the lookup, or answers it.
LEMMA ReturnRefines ==
  ASSUME IInv, IInv', Return
  PROVE  Abstract!GoOn \/ Abstract!Answer
<1>1. pc # "idle" /\ UNCHANGED configVars
  BY DEF Return, GetMasterReturns, PharseSlaveMasters, GetSlaveReturns
<1>2. views \subseteq views'
  BY DEF Return, GetMasterReturns, PharseSlaveMasters, GetSlaveReturns
<1>3. CASE pc' = "idle"
  <2>1. Genuine(rsp', views') /\ rsp' \in Responses /\ views' \subseteq Views
    BY <1>3 DEF IInv, Answered, TypeOK, Responses, Kinds
  <2>2. Abstract!Genuine(rsp', views')
    BY <2>1, GenuineRefines
  <2>. QED BY <1>1, <1>2, <1>3, <2>2 DEF Abstract!Answer
<1>4. CASE pc' # "idle"
  <2>1. ~\E m, r, s : Answer(m, r, s)
    BY <1>4 DEF Answer
  <2>2. UNCHANGED rsp
    BY <2>1 DEF Return, GetMasterReturns, PharseSlaveMasters, GetSlaveReturns, outcome
  <2>. QED BY <1>1, <1>2, <1>4, <2>2 DEF Abstract!GoOn
<1>. QED BY <1>3, <1>4

\* A change of the deployment is a moment that passes in Lookup.
LEMMA DeploymentRefines == Deployment => Abstract!GoOn
<1>. SUFFICES ASSUME Deployment PROVE Abstract!GoOn
  OBVIOUS
<1>1. pc # "idle" /\ pc' = pc /\ views' = views \cup {view'} /\ UNCHANGED <<outcome, configVars>>
  BY DEF Deployment, Failover, SlaveChanges, Relist, Change
<1>2. /\ pc # "idle" /\ pc' # "idle"
      /\ views \subseteq views' /\ UNCHANGED <<rsp, configVars>>
  BY ONLY <1>1 DEF outcome
<1>. QED BY ONLY <1>2, Zenon DEF Abstract!GoOn

\* Every step is a step of Lookup or a stutter.
LEMMA StepRefines == IInv /\ IInv' /\ [Next]_vars => [Abstract!LNext]_(Abstract!lookupVars)
<1>. SUFFICES ASSUME IInv, IInv', [Next]_vars
              PROVE  Abstract!LNext \/ UNCHANGED Abstract!lookupVars
  OBVIOUS
<1>1. CASE Take
  BY <1>1, TakeRefines DEF Abstract!LNext
<1>2. CASE Return
  BY <1>2, ReturnRefines DEF Abstract!LNext
<1>3. CASE Deployment
  BY <1>3, DeploymentRefines DEF Abstract!LNext
<1>4. CASE UNCHANGED vars
  BY <1>4 DEF Abstract!lookupVars, vars, outcome, configVars, historyVars
<1>. QED BY <1>1, <1>2, <1>3, <1>4 DEF Next

\* Every request implements the safety part of Lookup: a lookup ends with one
\* response, of instances of its own time, and touches no configuration.
THEOREM Refinement == Spec => Abstract!LSafety
BY InitRefines, StepRefines, Invariance, PTL DEF Spec, Abstract!LSafety

-----------------------------------------------------------------------------
(* What a response is when the peer is left alone, which pool a key falls  *)
(* on, and which Sentinel objects are left.                                *)

\* The usable slaves of the first h masters.
UsableTill(v, h) == FlattenSeq([i \in 1..h |-> Usable(v, v.order[i])])

\* The first instance of a pool in a list is the pool's first usable slave.
FirstUsable(list, v) ==
  \A p \in PoolNames : \A i \in 1..Len(list) :
    FirstAt(list, p, i) => Usable(v, p) # <<>> /\ list[i] = Usable(v, p)[1]

\* The pools in a list are those of the first h masters that have a usable slave.
WithUsable(v, h) == {v.order[i] : i \in {j \in 1..h : Usable(v, v.order[j]) # <<>>}}

\* Instances, of a pool that is known.
Names == [name : PoolNames, addr : Addrs]

\* The usable slaves of a pool are instances of that pool.
LEMMA UsableType ==
  ASSUME NEW v \in Views, NEW p \in PoolNames
  PROVE  /\ Usable(v, p) \in Seq(Names)
         /\ \A i \in 1..Len(Usable(v, p)) : Usable(v, p)[i].name = p
<1>. DEFINE slaves == v.slaves[p]
           n == UsableTo(slaves)
<1>1. n \in 0..Len(slaves) /\ Usable(v, p) = Instances(slaves, n, p) /\ Len(slaves) \in Nat
  BY UsableIs
<1>2. slaves \in Seq(Slaves)
  BY DEF Views, Slaves
<1>. HIDE DEF slaves, n
<1>3. ASSUME NEW i \in 1..n
      PROVE  /\ Instances(slaves, n, p)[i] \in Names
             /\ Instances(slaves, n, p)[i].name = p
  <2>. DEFINE info == [name |-> p, addr |-> slaves[i].addr]
  <2>1. Instances(slaves, n, p)[i] = info
    BY DEF Instances
  <2>2. i \in 1..Len(slaves)
    BY <1>1
  <2>3. slaves[i].addr \in Addrs
    <3>1. slaves[i] \in Slaves
      BY <1>2, <2>2
    <3>. QED BY <3>1 DEF Slaves
  <2>4. info \in Names /\ info.name = p
    BY <2>3 DEF Names
  <2>. QED BY <2>1, <2>4
<1>. DEFINE got == Instances(slaves, n, p)
<1>4. got = [i \in 1..n |-> got[i]] /\ n \in Nat
  BY <1>1 DEF Instances
<1>. HIDE DEF got
<1>5. got \in Seq(Names) /\ Len(got) = n
  BY <1>3, <1>4 DEF got
<1>. QED BY <1>1, <1>3, <1>5 DEF got

\* One master more.
LEMMA UsableNext ==
  ASSUME NEW v \in Views, NEW h \in Nat, h < Len(v.order)
  PROVE  UsableTill(v, h + 1) = UsableTill(v, h) \o Usable(v, v.order[h + 1])
<1>. DEFINE s == [i \in 1..h |-> Usable(v, v.order[i])]
           t == [i \in 1..(h + 1) |-> Usable(v, v.order[i])]
           x == Usable(v, v.order[h + 1])
<1>1. v.order \in Seq(PoolNames)
  BY LogicEntranceAssumption DEF Views
<1>2. \A i \in 1..(h + 1) : Usable(v, v.order[i]) \in Seq(Names)
  BY <1>1, UsableType
<1>3. s \in Seq(Seq(Names)) /\ Len(s) = h /\ x \in Seq(Names)
  BY <1>2
<1>4. t = Append(s, x)
  BY <1>2, <1>3
<1>. HIDE DEF s, t, x
<1>5. FlattenSeq(Append(s, x)) = FlattenSeq(s) \o x
  BY <1>3, FlattenAppend
<1>. QED BY <1>4, <1>5 DEF UsableTill, s, t, x

\* Before the first.
LEMMA UsableNone ==
  ASSUME NEW v
  PROVE  UsableTill(v, 0) = <<>>
<1>1. [i \in 1..0 |-> Usable(v, v.order[i])] = <<>>
  OBVIOUS
<1>. QED BY <1>1, FlattenEmpty DEF UsableTill

\* What the usable slaves of the first masters are.
LEMMA UsableTillIs ==
  ASSUME NEW v \in Views, NEW h \in 0..Len(v.order)
  PROVE  LET list == UsableTill(v, h)
         IN  /\ list \in Seq(Names)
             /\ NamesOf(list) = WithUsable(v, h)
             /\ FirstUsable(list, v)
<1>. DEFINE Good(n) == /\ UsableTill(v, n) \in Seq(Names)
                      /\ NamesOf(UsableTill(v, n)) = WithUsable(v, n)
                      /\ FirstUsable(UsableTill(v, n), v)
           N == {n \in Nat : n <= Len(v.order) => Good(n)}
<1>1. v.order \in Seq(PoolNames) /\ Len(v.order) \in Nat
  BY LogicEntranceAssumption DEF Views
<1>2. 0 \in N
  <2>. DEFINE none == <<>>
  <2>2. UsableTill(v, 0) = none
    BY UsableNone
  <2>3. none \in Seq(Names) /\ DOMAIN none = {} /\ Len(none) = 0
    OBVIOUS
  <2>. HIDE DEF none
  <2>4. NamesOf(none) = {}
    BY <2>3 DEF NamesOf
  <2>5. WithUsable(v, 0) = {}
    BY DEF WithUsable
  <2>6. FirstUsable(none, v)
    BY <2>3 DEF FirstUsable
  <2>. QED BY <2>2, <2>3, <2>4, <2>5, <2>6
<1>3. ASSUME NEW n \in Nat, n \in N PROVE n + 1 \in N
  <2>. SUFFICES ASSUME n + 1 <= Len(v.order) PROVE Good(n + 1)
    OBVIOUS
  <2>. DEFINE u == UsableTill(v, n)
             p0 == v.order[n + 1]
             w == Usable(v, p0)
             t == UsableTill(v, n + 1)
  <2>1. u \in Seq(Names) /\ NamesOf(u) = WithUsable(v, n) /\ FirstUsable(u, v)
    BY <1>1, <1>3
  <2>2. p0 \in PoolNames
    BY <1>1
  <2>3. w \in Seq(Names) /\ \A i \in 1..Len(w) : w[i].name = p0
    BY <2>2, UsableType
  <2>4. t = u \o w
    BY <1>1, UsableNext
  <2>. HIDE DEF u, t
  <2>5. /\ t \in Seq(Names) /\ Len(t) = Len(u) + Len(w) /\ Len(u) \in Nat /\ Len(w) \in Nat
        /\ \A i \in 1..Len(u) : t[i] = u[i]
        /\ \A i \in 1..Len(w) : t[Len(u) + i] = w[i]
    <3>1. u \in Seq(Names) /\ w \in Seq(Names)
      BY <2>1, <2>3
    <3>. HIDE DEF w
    <3>2. /\ u \o w \in Seq(Names) /\ Len(u \o w) = Len(u) + Len(w)
          /\ \A i \in 1..Len(u) : (u \o w)[i] = u[i]
          /\ \A i \in 1..Len(w) : (u \o w)[Len(u) + i] = w[i]
      BY ONLY <3>1, ConcatAt
    <3>. QED BY <2>4, <3>1, <3>2
  <2>6. WithUsable(v, n + 1) = WithUsable(v, n) \cup (IF w # <<>> THEN {p0} ELSE {})
    <3>1. {j \in 1..(n + 1) : Usable(v, v.order[j]) # <<>>}
            = {j \in 1..n : Usable(v, v.order[j]) # <<>>}
                \cup (IF w # <<>> THEN {n + 1} ELSE {})
      OBVIOUS
    <3>. HIDE DEF w
    <3>. QED BY <3>1 DEF WithUsable
  <2>. HIDE DEF w
  <2>7. NamesOf(t) = NamesOf(u) \cup (IF w # <<>> THEN {p0} ELSE {})
    <3>1. DOMAIN t = 1..(Len(u) + Len(w)) /\ DOMAIN u = 1..Len(u)
      BY <2>1, <2>5
    <3>2. ASSUME NEW i \in DOMAIN t
          PROVE  t[i].name \in NamesOf(u) \cup (IF w # <<>> THEN {p0} ELSE {})
      <4>1. CASE i \in 1..Len(u)
        BY <2>5, <3>1, <4>1 DEF NamesOf
      <4>2. CASE i \notin 1..Len(u)
        <5>1. i - Len(u) \in 1..Len(w) /\ Len(u) + (i - Len(u)) = i
          BY <2>5, <3>1, <4>2
        <5>2. t[i] = w[i - Len(u)] /\ w # <<>>
          BY <2>5, <5>1
        <5>. QED BY <2>3, <5>1, <5>2
      <4>. QED BY <4>1, <4>2
    <3>3. ASSUME NEW i \in DOMAIN u PROVE i \in DOMAIN t /\ t[i].name = u[i].name
      BY <2>5, <3>1
    <3>4. ASSUME w # <<>> PROVE \E i \in DOMAIN t : t[i].name = p0
      <4>1. 1 \in 1..Len(w)
        BY <2>3, <2>5, <3>4
      <4>2. Len(u) + 1 \in DOMAIN t /\ t[Len(u) + 1].name = p0
        BY <2>3, <2>5, <3>1, <4>1
      <4>. QED BY <4>2
    <3>. QED BY <3>2, <3>3, <3>4 DEF NamesOf
  <2>8. ASSUME NEW p \in PoolNames, NEW i \in 1..Len(t), FirstAt(t, p, i)
        PROVE  Usable(v, p) # <<>> /\ t[i] = Usable(v, p)[1]
    <3>1. t[i].name = p /\ \A k \in 1..(i - 1) : t[k].name # p
      BY <2>8 DEF FirstAt
    <3>2. CASE i \in 1..Len(u)
      <4>1. t[i] = u[i] /\ \A k \in 1..(i - 1) : t[k] = u[k]
        BY <2>5, <3>2
      <4>2. FirstAt(u, p, i)
        BY <3>1, <3>2, <4>1 DEF FirstAt
      <4>. QED BY <2>1, <3>2, <4>1, <4>2 DEF FirstUsable
    <3>3. CASE i \notin 1..Len(u)
      <4>1. i - Len(u) \in 1..Len(w) /\ Len(u) + (i - Len(u)) = i
        BY <2>5, <3>3
      <4>2. t[i] = w[i - Len(u)]
        BY <2>5, <4>1
      <4>3. p = p0
        BY ONLY <2>3, <3>1, <4>1, <4>2
      <4>4. t[Len(u) + 1].name = p0
        <5>1. 1 \in 1..Len(w)
          BY <2>5, <4>1
        <5>2. t[Len(u) + 1] = w[1] /\ w[1].name = p0
          BY <2>3, <2>5, <5>1
        <5>. QED BY <5>2
      <4>5. i = Len(u) + 1
        <5>1. ~(Len(u) + 1 \in 1..(i - 1))
          BY <3>1, <4>3, <4>4
        <5>2. Len(u) + 1 \in Nat /\ i \in Nat /\ Len(u) + 1 >= 1 /\ i >= Len(u) + 1
          BY <2>5, <4>1
        <5>. QED BY <5>1, <5>2
      <4>6. w # <<>> /\ t[i] = w[1]
        BY <2>5, <4>1, <4>5
      <4>. QED BY <4>3, <4>6 DEF w
    <3>. QED BY <3>2, <3>3
  <2>9. FirstUsable(t, v)
    BY <2>8 DEF FirstUsable
  <2>. QED BY <2>1, <2>5, <2>6, <2>7, <2>9 DEF t
<1>. HIDE DEF N
<1>4. Nat \subseteq N
  BY <1>2, <1>3, SetInduction
<1>5. h \in N
  BY <1>1, <1>4
<1>. QED BY <1>1, <1>5 DEF N

\* The whole listing.
LEMMA UsableListingIs ==
  ASSUME NEW v \in Views
  PROVE  UsableListing(v) = UsableTill(v, Len(v.order))
<1>1. v.order \in Seq(PoolNames)
  BY LogicEntranceAssumption DEF Views
<1>2. DOMAIN v.order = 1..Len(v.order)
  BY <1>1
<1>. QED BY <1>2 DEF UsableListing, UsableTill

\* Its pools are those with a usable slave.
LEMMA NamesOfUsable ==
  ASSUME NEW v \in Views
  PROVE  /\ NamesOf(UsableListing(v)) = {p \in ToSet(v.order) : Usable(v, p) # <<>>}
         /\ FirstUsable(UsableListing(v), v)
<1>. DEFINE n == Len(v.order)
<1>1. v.order \in Seq(PoolNames)
  BY LogicEntranceAssumption DEF Views
<1>2. DOMAIN v.order = 1..n /\ n \in 0..n
  BY <1>1
<1>3. NamesOf(UsableListing(v)) = WithUsable(v, n) /\ FirstUsable(UsableListing(v), v)
  BY <1>2, UsableTillIs, UsableListingIs
<1>4. WithUsable(v, n) = {p \in ToSet(v.order) : Usable(v, p) # <<>>}
  BY <1>2 DEF WithUsable, ToSet
<1>. QED BY <1>3, <1>4

-----------------------------------------------------------------------------
(* Responses of an undisturbed peer.                                       *)

\* What is answered of a list.
PickedOf(q, list) ==
  IF q.poolName = <<>> THEN list
  ELSE LET known == Those(q.poolName, {info.name : info \in ToSet(list)})
       IN  [i \in DOMAIN known |->
              list[SelectInSeq(list, LAMBDA info : info.name = known[i])]]

\* What FirstAt says of a place, SelectInSeq finds.
LEMMA FirstIs ==
  ASSUME NEW list \in Seq(RedisInfo), NEW p, NEW i, FirstAt(list, p, i)
  PROVE  SelectInSeq(list, LAMBDA info : info.name = p) = i
<1>. DEFINE I == {k \in 1..Len(list) : list[k].name = p}
<1>1. i \in I /\ I \in SUBSET Nat /\ \A k \in I : k >= i
  BY DEF FirstAt
<1>2. SelectInSeq(list, LAMBDA info : info.name = p) = IF I # {} THEN Min(I) ELSE 0
  BY DEF SelectInSeq
<1>. HIDE DEF I
<1>3. Min(I) \in I /\ \A k \in I : Min(I) <= k
  BY <1>1, MinIs
<1>4. Min(I) = i
  <2>. DEFINE x == Min(I)
  <2>1. x \in Nat /\ i \in Nat /\ x <= i /\ x >= i
    BY <1>1, <1>3
  <2>. HIDE DEF x
  <2>2. x = i
    BY ONLY <2>1
  <2>. QED BY <2>2 DEF x
<1>. QED BY <1>1, <1>2, <1>4

\* getRedisByType picks from the map what PickedOf picks from the list.
LEMMA PickedIs ==
  ASSUME NEW list \in Seq(RedisInfo), NEW q, q.poolName \in Seq(ToSet(q.poolName)),
         q.poolName # <<>>
  PROVE  GetRedisByType(ByName(list), q.poolName) = PickedOf(q, list)
<1>. DEFINE pn == q.poolName
           found == GetRedisByType(ByName(list), pn)
           known == Known(list, pn)
<1>1. found \in Seq(RedisInfo) /\ Len(found) = Len(known) /\ Len(known) \in Nat
  BY ServedIs
<1>2. ASSUME NEW j \in 1..Len(known)
      PROVE  found[j] = list[SelectInSeq(list, LAMBDA info : info.name = known[j])]
  <2>1. j \in 1..Len(Known(list, pn)) /\ list \in Seq(RedisInfo) /\ pn \in Seq(ToSet(pn))
    OBVIOUS
  <2>2. \E i \in 1..Len(list) : FirstAt(list, Known(list, pn)[j], i) /\ found[j] = list[i]
    BY ONLY <2>1, ServedIs
  <2>3. PICK i \in 1..Len(list) : FirstAt(list, known[j], i) /\ found[j] = list[i]
    BY <2>2
  <2>. HIDE DEF known, found
  <2>. DEFINE first(p) == SelectInSeq(list, LAMBDA info : info.name = p)
  <2>4. \A p : FirstAt(list, p, i) => first(p) = i
    BY FirstIs
  <2>. HIDE DEF first
  <2>5. first(known[j]) = i
    BY <2>3, <2>4
  <2>. QED BY <2>3, <2>5 DEF first
<1>3. {list[i].name : i \in DOMAIN list} = {info.name : info \in ToSet(list)}
  BY DEF ToSet
<1>4. known = Those(pn, {info.name : info \in ToSet(list)})
  BY <1>3 DEF Known
<1>5. known \in Seq(ToSet(pn))
  <2>1. Picked(known, pn, {info.name : info \in ToSet(list)}, ToSet(pn))
    BY <1>4, ThosePicked
  <2>. QED BY <2>1 DEF Picked
<1>. HIDE DEF found, known
<1>6. DOMAIN found = 1..Len(known) /\ DOMAIN known = 1..Len(known)
  BY <1>1, <1>5
<1>. DEFINE place(i) == list[SelectInSeq(list, LAMBDA info : info.name = known[i])]
<1>7. PickedOf(q, list) = [i \in DOMAIN known |-> place(i)]
  BY <1>4 DEF PickedOf
<1>8. \A i \in 1..Len(known) : found[i] = place(i)
  BY <1>2
<1>. HIDE DEF place
<1>9. found = [i \in 1..Len(known) |-> found[i]]
  BY <1>1
<1>10. found = [i \in DOMAIN known |-> place(i)]
  BY <1>6, <1>8, <1>9
<1>. QED BY <1>7, <1>10 DEF found

\* Which lists the handler has of an undisturbed peer.
Exact(q, m, l, s, v) ==
  /\ MasterBit(q.redisType) => l = Listing(v) /\ (q.type = 1 => m = Listing(v))
  /\ SlaveBit(q.redisType) => s = UsableListing(v)

\* What UndisturbedListingIsExact says of a response.
ListingExact(q, r, v) ==
  /\ r.masters = IF MasterBit(q.redisType) THEN PickedOf(q, Listing(v)) ELSE <<>>
  /\ r.slaves = IF SlaveBit(q.redisType) THEN PickedOf(q, UsableListing(v)) ELSE <<>>

\* A response to a list made of exact lists is exact.
LEMMA InfoRspIsExact ==
  ASSUME NEW q, Servable(q), q.type = 1, NEW m \in Seq(RedisInfo), NEW l \in Seq(RedisInfo),
         NEW s \in Seq(RedisInfo), NEW v, Exact(q, m, l, s, v)
  PROVE  ListingExact(q, MadeRsp(q, m, ByName(l), s), v)
<1>. DEFINE pn == q.poolName
           mm == IF ~MasterBit(q.redisType) THEN <<>>
                 ELSE IF pn = <<>> THEN m ELSE GetRedisByType(ByName(l), pn)
           ss == IF ~SlaveBit(q.redisType) THEN <<>>
                 ELSE IF pn = <<>> THEN s ELSE GetRedisByType(ByName(s), pn)
           r == MadeRsp(q, m, ByName(l), s)
<1>1. r = [kind |-> "info", masters |-> mm, slaves |-> ss]
  BY DEF MadeRsp, RedisInfoRsp, Response
<1>2. pn \in Seq(ToSet(pn))
  BY DEF Servable
<1>3. ASSUME NEW list \in Seq(RedisInfo)
      PROVE  PickedOf(q, list) = IF pn = <<>> THEN list ELSE GetRedisByType(ByName(list), pn)
  <2>1. CASE pn = <<>>
    BY <2>1 DEF PickedOf
  <2>2. CASE pn # <<>>
    BY <1>2, <2>2, PickedIs
  <2>. QED BY <2>1, <2>2
<1>4. mm = IF MasterBit(q.redisType) THEN PickedOf(q, Listing(v)) ELSE <<>>
  <2>1. CASE MasterBit(q.redisType)
    <3>1. l = Listing(v) /\ m = Listing(v)
      BY <2>1 DEF Exact
    <3>2. PickedOf(q, l) = IF pn = <<>> THEN l ELSE GetRedisByType(ByName(l), pn)
      BY <1>3
    <3>. QED BY <2>1, <3>1, <3>2
  <2>2. CASE ~MasterBit(q.redisType)
    BY <2>2
  <2>. QED BY <2>1, <2>2
<1>5. ss = IF SlaveBit(q.redisType) THEN PickedOf(q, UsableListing(v)) ELSE <<>>
  <2>1. CASE SlaveBit(q.redisType)
    <3>1. s = UsableListing(v)
      BY <2>1 DEF Exact
    <3>2. PickedOf(q, s) = IF pn = <<>> THEN s ELSE GetRedisByType(ByName(s), pn)
      BY <1>3
    <3>. QED BY <2>1, <3>1, <3>2
  <2>2. CASE ~SlaveBit(q.redisType)
    BY <2>2
  <2>. QED BY <2>1, <2>2
<1>. HIDE DEF mm, ss, r
<1>6. r.masters = mm /\ r.slaves = ss
  BY <1>1
<1>. QED BY <1>4, <1>5, <1>6 DEF ListingExact, r

\* The instances of pool p that a key is to fall on.
Eligible(q, v, p) ==
  IF q.redisType = 2 THEN Usable(v, p) ELSE <<[name |-> p, addr |-> v.master[p]]>>

\* The pools with such an instance.
WithEligible(q, v) == {p \in ToSet(v.order) : Eligible(q, v, p) # <<>>}

\* The pools a key may fall on.
Wanted(q) == IF q.poolName = <<>> THEN Pools ELSE q.poolName

\* What KeyFallsOnItsPool says of an undisturbed response.
KeyExact(q, r, v) ==
  LET found == r.masters \o r.slaves
      pools == Those(Wanted(q), WithEligible(q, v))
  IN  /\ pools # <<>> /\ found[1].name = pools[Index(q, Len(pools)) + 1]
      /\ found[1] = Eligible(q, v, found[1].name)[1]

\* No pool asked for has an instance.
NoneEligible(q, v) ==
  \A p \in ToSet(v.order) :
    \/ q.poolName # <<>> /\ p \notin ToSet(q.poolName)
    \/ q.redisType = 2 /\ Usable(v, p) = <<>>

\* The list the key's pool is chosen from, of an undisturbed peer.
LEMMA EligibleList ==
  ASSUME NEW q, Servable(q), q.type # 1, NEW m, NEW l, NEW s, NEW v \in Views,
         Exact(q, m, l, s, v), NEW list, list = IF q.redisType = 1 THEN l ELSE s,
         list \in Seq(RedisInfo)
  PROVE  /\ NamesOf(list) = WithEligible(q, v)
         /\ \A p \in PoolNames : \A i \in 1..Len(list) :
              FirstAt(list, p, i) => list[i] = Eligible(q, v, p)[1]
<1>1. q.redisType \in {1, 2}
  BY DEF Servable
<1>2. CASE q.redisType = 1
  <2>1. list = Listing(v)
    BY <1>2 DEF Exact, MasterBit
  <2>2. NamesOf(list) = ToSet(v.order)
    BY <2>1, NamesOfListing
  <2>3. ASSUME NEW p PROVE Eligible(q, v, p) = <<[name |-> p, addr |-> v.master[p]]>>
    BY <1>2 DEF Eligible
  <2>4. ASSUME NEW p PROVE Eligible(q, v, p) # <<>>
    <3>1. \A x : <<x>> # <<>>
      OBVIOUS
    <3>. QED BY ONLY <2>3, <3>1
  <2>5. WithEligible(q, v) = ToSet(v.order)
    BY <2>4 DEF WithEligible
  <2>6. ASSUME NEW p \in PoolNames, NEW i \in 1..Len(list), FirstAt(list, p, i)
        PROVE  list[i] = Eligible(q, v, p)[1]
    <3>1. i \in DOMAIN list /\ list[i].name = p
      BY <2>6 DEF FirstAt
    <3>2. i \in 1..Len(v.order)
      BY <2>1, <3>1, ListingIs
    <3>3. list[i] = [name |-> v.order[i], addr |-> v.master[v.order[i]]]
      BY <2>1, <3>2, ListingIs
    <3>4. list[i].name = v.order[i]
      BY <3>3
    <3>5. list[i] = [name |-> p, addr |-> v.master[p]]
      BY <3>1, <3>3, <3>4
    <3>. QED BY <2>3, <3>5
  <2>. QED BY <2>2, <2>5, <2>6
<1>3. CASE q.redisType = 2
  <2>1. list = UsableListing(v)
    BY <1>3 DEF Exact, SlaveBit
  <2>2. /\ NamesOf(list) = {p \in ToSet(v.order) : Usable(v, p) # <<>>}
        /\ FirstUsable(list, v)
    BY <2>1, NamesOfUsable
  <2>3. \A p : Eligible(q, v, p) = Usable(v, p)
    BY <1>3 DEF Eligible
  <2>. QED BY <2>2, <2>3 DEF FirstUsable, WithEligible
<1>. QED BY <1>1, <1>2, <1>3

\* The answer to a key made of exact lists is exact.
LEMMA HashRspIsExact ==
  ASSUME NEW q, Servable(q), q.type # 1, NEW m, NEW l \in Seq(RedisInfo),
         NEW s \in Seq(RedisInfo), NEW v \in Views, Exact(q, m, l, s, v)
  PROVE  LET r == MadeRsp(q, m, ByName(l), s)
         IN  \/ r.kind = "hash" /\ KeyExact(q, r, v)
             \/ r.kind = "noRedis" /\ NoneEligible(q, v)
<1>. DEFINE list == IF q.redisType = 1 THEN l ELSE s
           pools == Known(list, q.poolName)
           index == Index(q, Len(pools))
           r == MadeRsp(q, m, ByName(l), s)
<1>1. list \in Seq(RedisInfo)
  OBVIOUS
<1>2. HashRsp(q, list, pools, r)
  <2>1. HashRsp(q, list, pools, MadeRsp(q, <<>>, ByName(l), s))
    BY <1>1, HashRspIs
  <2>2. r = MadeRsp(q, <<>>, ByName(l), s)
    BY DEF MadeRsp
  <2>. HIDE DEF r, pools, list
  <2>. QED BY <2>1, <2>2
<1>3. /\ NamesOf(list) = WithEligible(q, v)
      /\ \A p \in PoolNames : \A i \in 1..Len(list) :
           FirstAt(list, p, i) => list[i] = Eligible(q, v, p)[1]
  <2>. HIDE DEF list
  <2>1. list = IF q.redisType = 1 THEN l ELSE s
    BY DEF list
  <2>. QED BY <1>1, <2>1, EligibleList
<1>4. pools = Those(Wanted(q), WithEligible(q, v))
  BY <1>3 DEF Known, NamesOf, Wanted
<1>5. q.poolName \in Seq(ToSet(q.poolName)) /\ Wanted(q) \in Seq(ToSet(Wanted(q)))
  BY SentinelAssumption DEF Servable, Wanted, PoolNames, ToSet
<1>6. Picked(pools, Wanted(q), WithEligible(q, v), ToSet(Wanted(q)))
  BY <1>4, <1>5, ThosePicked
<1>. HIDE DEF r, index, pools, list
<1>7. CASE pools = <<>> /\ r = Response("noRedis", <<>>, <<>>)
  <2>1. r.kind = "noRedis"
    BY <1>7 DEF Response
  <2>2. ASSUME NEW p \in ToSet(v.order), ~(q.poolName # <<>> /\ p \notin ToSet(q.poolName)),
               ~(q.redisType = 2 /\ Usable(v, p) = <<>>)
        PROVE  FALSE
    <3>1. p \in PoolNames
      <4>1. v.order \in Seq(PoolNames)
        BY LogicEntranceAssumption DEF Views
      <4>. QED BY <4>1 DEF ToSet
    <3>2. p \in ToSet(Wanted(q))
      BY <2>2, <3>1 DEF Wanted, PoolNames, ToSet
    <3>3. Eligible(q, v, p) # <<>>
      <4>1. CASE q.redisType = 2
        BY <2>2, <4>1 DEF Eligible
      <4>2. CASE q.redisType # 2
        <5>1. Eligible(q, v, p) = <<[name |-> p, addr |-> v.master[p]]>>
          BY <4>2 DEF Eligible
        <5>2. \A x : <<x>> # <<>>
          OBVIOUS
        <5>. QED BY ONLY <5>1, <5>2
      <4>. QED BY <4>1, <4>2
    <3>4. PICK i \in DOMAIN Wanted(q) : Wanted(q)[i] = p
      BY <3>2 DEF ToSet
    <3>5. i \in 1..Len(Wanted(q)) /\ Wanted(q)[i] \in WithEligible(q, v)
      BY <1>5, <3>3, <3>4 DEF WithEligible
    <3>6. \E j \in 1..Len(pools) : pools[j] = Wanted(q)[i]
      BY <1>6, <3>5 DEF Picked
    <3>7. Len(pools) = 0
      BY <1>7
    <3>. QED BY <3>6, <3>7
  <2>3. NoneEligible(q, v)
    BY <2>2 DEF NoneEligible
  <2>. QED BY <2>1, <2>3 DEF r
<1>8. CASE /\ Len(pools) \in Nat \ {0} /\ index \in 0..(Len(pools) - 1)
           /\ \E i \in 1..Len(list) :
                /\ FirstAt(list, pools[index + 1], i)
                /\ r = IF q.redisType = 1 THEN Response("hash", <<list[i]>>, <<>>)
                       ELSE Response("hash", <<>>, <<list[i]>>)
  <2>1. PICK i \in 1..Len(list) :
               /\ FirstAt(list, pools[index + 1], i)
               /\ r = IF q.redisType = 1 THEN Response("hash", <<list[i]>>, <<>>)
                      ELSE Response("hash", <<>>, <<list[i]>>)
    BY <1>8
  <2>. DEFINE info == list[i]
  <2>2. info \in RedisInfo /\ info.name = pools[index + 1]
    BY <1>1, <2>1 DEF FirstAt
  <2>3. info.name \in PoolNames
    BY <2>2 DEF RedisInfo
  <2>4. info = Eligible(q, v, info.name)[1]
    <3>1. FirstAt(list, info.name, i)
      BY <2>1, <2>2
    <3>. QED BY <1>3, <2>3, <3>1
  <2>. HIDE DEF info
  <2>5. /\ r.kind = "hash"
        /\ r.masters = IF q.redisType = 1 THEN <<info>> ELSE <<>>
        /\ r.slaves = IF q.redisType = 1 THEN <<>> ELSE <<info>>
    <3>1. CASE q.redisType = 1
      <4>1. r = Response("hash", <<info>>, <<>>)
        BY <2>1, <3>1 DEF info
      <4>. QED BY <3>1, <4>1 DEF Response
    <3>2. CASE q.redisType # 1
      <4>1. r = Response("hash", <<>>, <<info>>)
        BY <2>1, <3>2 DEF info
      <4>. QED BY <3>2, <4>1 DEF Response
    <3>. QED BY <3>1, <3>2
  <2>. DEFINE both == r.masters \o r.slaves
  <2>6. both = <<info>>
    <3>1. <<info>> \in Seq({info}) /\ <<info>> \o <<>> = <<info>> /\ <<>> \o <<info>> = <<info>>
      OBVIOUS
    <3>. QED BY <2>5, <3>1
  <2>. HIDE DEF both
  <2>7. both[1] = info
    BY <2>6
  <2>8. pools # <<>> /\ index = Index(q, Len(pools))
    BY <1>8 DEF index
  <2>9. KeyExact(q, r, v)
    BY <1>4, <2>2, <2>4, <2>7, <2>8 DEF KeyExact, both
  <2>. QED BY <2>5, <2>9 DEF r
<1>. QED BY <1>2, <1>7, <1>8 DEF HashRsp, index

-----------------------------------------------------------------------------
(* The rest of the invariant.                                              *)

\* How far an undisturbed request has come: the masters already asked about and
\* those still to ask about make up the peer's list, and the slaves are the
\* usable ones of the former.
Progress ==
  Undisturbed(view) =>
    /\ pc \in {"pharseSlave", "getSlaveByMasterName"} /\ MasterBit(req.redisType)
         => masters = Listing(view)
    /\ pc = "getSlaveByMasterName" =>
         LET h == Len(view.order) - Len(todo)
         IN  /\ masterRedis = ByName(Listing(view))
             /\ h \in Nat /\ todo = SubSeq(Listing(view), h + 1, Len(view.order))
             /\ slaveList = UsableTill(view, h)

\* The response of an undisturbed request.
Exactly ==
  pc = "idle" /\ Undisturbed(view) =>
    /\ rsp.kind = "info" => ListingExact(req, rsp, view)
    /\ rsp.kind = "hash" => KeyExact(req, rsp, view)
    /\ rsp.kind = "noRedis" => NoneEligible(req, view)

\* What the first request may leave behind.
Left ==
  pc = "idle" /\ taken <= 1 /\ objects # 0 =>
    \/ req.type = 1 /\ req.poolName = <<>>
    \/ req.type # 1 /\ req.redisType = 3
    \/ req.type \in 2..3 /\ rsp.kind = "noRedis"

\* The rest of the invariant, inductive beside IInv.
EInv == Progress /\ Exactly /\ Left

\* Undisturbed after a call, and the call brought the peer's whole answer.
LEMMA UndisturbedBefore ==
  ASSUME World, NEW v, view' = view, views' = views \cup {v}, NEW c \in BOOLEAN,
         cut' = (cut \/ c), Undisturbed(view)'
  PROVE  Undisturbed(view) /\ v = view /\ ~c
<1>1. views' = {view} /\ ~cut'
  BY DEF Undisturbed
<1>2. view \in views /\ cut \in BOOLEAN
  BY DEF World
<1>3. views = {view} /\ v = view
  BY <1>1, <1>2
<1>4. ~cut /\ ~c
  BY <1>1, <1>2
<1>. QED BY <1>3, <1>4 DEF Undisturbed

\* The list of an undisturbed peer is one entry for each of its masters.
LEMMA UndisturbedIs ==
  ASSUME NEW v \in Views, Undisturbed(v)
  PROVE  /\ \A i \in 1..Len(v.order) : v.master[v.order[i]] \in IPv4
         /\ Listing(v) \in Seq(RedisInfo) /\ Len(Listing(v)) = Len(v.order)
         /\ Len(v.order) \in Nat
<1>1. v.order \in Seq(PoolNames)
  BY LogicEntranceAssumption DEF Views
<1>2. \A i \in 1..Len(v.order) : v.order[i] \in ToSet(v.order)
  BY <1>1 DEF ToSet
<1>3. \A i \in 1..Len(v.order) : v.master[v.order[i]] \in IPv4
  BY <1>2 DEF Undisturbed
<1>. QED BY <1>1, <1>3, ListingIs

\* A response made of the peer's own lists.
LEMMA AnswerIsExact ==
  ASSUME Servable(req), req' = req, view' = view, view \in Views,
         NEW m \in Seq(RedisInfo), NEW l \in Seq(RedisInfo), NEW s \in Seq(RedisInfo),
         NEW r, r = ByName(l), Exact(req, m, l, s, view), Answer(m, r, s)
  PROVE  Exactly'
<1>. DEFINE made == MadeRsp(req, m, ByName(l), s)
<1>1. rsp' = made
  BY DEF Answer, MakeRsp, MadeRsp
<1>2. CASE req.type = 1
  <2>1. ListingExact(req, made, view)
    BY <1>2, InfoRspIsExact
  <2>2. made.kind = "info"
    BY <1>2 DEF MadeRsp, RedisInfoRsp, Response
  <2>. HIDE DEF made
  <2>. QED BY <1>1, <2>1, <2>2 DEF Exactly
<1>3. CASE req.type # 1
  <2>1. \/ made.kind = "hash" /\ KeyExact(req, made, view)
        \/ made.kind = "noRedis" /\ NoneEligible(req, view)
    BY <1>3, HashRspIsExact
  <2>. HIDE DEF made
  <2>. QED BY <1>1, <2>1 DEF Exactly
<1>. QED BY <1>2, <1>3

\* What is left once a request that waited is answered.
LEMMA AnswerLeaves ==
  ASSUME IInv, pc # "idle", req' = req, taken' = taken, NEW m, NEW r, NEW s, Answer(m, r, s)
  PROVE  Left'
<1>1. SUFFICES ASSUME taken <= 1, objects' # 0
               PROVE  \/ req.type = 1 /\ req.poolName = <<>>
                      \/ req.type \in 2..3 /\ rsp'.kind = "noRedis"
  BY DEF Left
<1>2. objects = 1
  BY <1>1, LogicEntranceAssumption DEF IInv, TypeOK, Heap
<1>3. ~Deletes(req, rsp')
  BY <1>1, <1>2 DEF Answer
<1>4. req.type \in 1..3
  BY DEF IInv, Stages, Servable
<1>5. CASE req.type = 1
  BY <1>3, <1>5 DEF Deletes
<1>6. CASE req.type # 1
  <2>1. rsp' = RedisInfoByHashRsp(req, r, s)
    BY <1>6 DEF Answer, MakeRsp
  <2>2. \E kind \in {"noRedis", "hash"} : \E a, b : rsp' = Response(kind, a, b)
    BY <2>1 DEF RedisInfoByHashRsp
  <2>3. rsp'.kind \in {"noRedis", "hash"}
    BY <2>2 DEF Response
  <2>4. rsp'.kind # "hash"
    BY <1>3, <1>6 DEF Deletes
  <2>. QED BY <1>4, <1>6, <2>3, <2>4
<1>. QED BY <1>5, <1>6

\* The service begins with it.
LEMMA InitEInv == Init => EInv
<1>. SUFFICES ASSUME Init PROVE EInv
  OBVIOUS
<1>1. pc = "idle" /\ rsp = Response("none", <<>>, <<>>) /\ objects = 0
  BY DEF Init
<1>2. rsp.kind = "none"
  BY <1>1 DEF Response
<1>. QED BY <1>1, <1>2 DEF EInv, Progress, Exactly, Left

-----------------------------------------------------------------------------
(* The steps.                                                              *)

\* A request that is taken has nothing behind it.
LEMMA TakeExact ==
  ASSUME IInv, Take
  PROVE  EInv'
<1>1. ASSUME NEW given, Accept(given)
      PROVE  /\ pc = "idle" /\ taken' = taken + 1
             /\ taken' <= 1 => objects = 0
  <2>1. pc = "idle" /\ taken' = taken + 1
    BY <1>1 DEF Accept
  <2>2. taken \in Nat /\ objects \in Nat /\ objects <= taken
    BY LogicEntranceAssumption DEF IInv, TypeOK, Heap
  <2>. QED BY <2>1, <2>2
<1>2. ASSUME Help \/ ResetLogLevel \/ UnknownDomain \/ IllegalRedisType
      PROVE  EInv'
  <2>1. PICK given \in Requests : Accept(given)
    BY <1>2 DEF Help, ResetLogLevel, UnknownDomain, IllegalRedisType
  <2>2. PICK kind \in {"help", "log", "invalidDomain", "illegalRedisType"} :
               rsp' = Response(kind, <<>>, <<>>)
    BY <1>2 DEF Help, ResetLogLevel, UnknownDomain, IllegalRedisType
  <2>3. rsp'.kind \in {"help", "log", "invalidDomain", "illegalRedisType"}
    BY <2>2 DEF Response
  <2>4. pc' = pc
    BY <1>2 DEF Help, ResetLogLevel, UnknownDomain, IllegalRedisType
  <2>5. \/ objects' = objects
        \/ req'.type \in 2..3 /\ req'.redisType = 3
    BY <1>2 DEF Help, ResetLogLevel, UnknownDomain, IllegalRedisType
  <2>6. Left'
    BY <1>1, <2>1, <2>5 DEF Left
  <2>. QED BY <1>1, <2>1, <2>3, <2>4, <2>6 DEF EInv, Progress, Exactly
<1>3. ASSUME Begin PROVE EInv'
  <2>1. pc' = IF MasterBit(req'.redisType) THEN "getMaster" ELSE "pharseSlave"
    BY <1>3 DEF Begin
  <2>. QED BY <2>1 DEF EInv, Progress, Exactly, Left
<1>. QED BY <1>2, <1>3 DEF Take

\* A deployment that has changed is one that has disturbed the request.
LEMMA DeploymentExact ==
  ASSUME IInv, EInv, Deployment
  PROVE  EInv'
<1>1. /\ pc # "idle" /\ views' = views \cup {view'}
      /\ UNCHANGED <<pc, reqVars, sentinelVars, outcome, configVars, cut, taken>>
  BY DEF Deployment, Failover, SlaveChanges, Relist, Change
<1>2. pc' = pc /\ req' = req /\ masters' = masters /\ masterRedis' = masterRedis
      /\ slaveList' = slaveList /\ todo' = todo /\ cut' = cut
  BY <1>1 DEF reqVars, sentinelVars
<1>3. view \in views
  BY DEF IInv, TypeOK
<1>4. ASSUME Undisturbed(view)' PROVE Undisturbed(view) /\ view' = view
  <2>1. views' = {view'}
    BY <1>4 DEF Undisturbed
  <2>2. view' = view /\ views = {view}
    BY <1>1, <1>3, <2>1
  <2>3. ~cut
    BY <1>2, <1>4 DEF Undisturbed
  <2>4. \A p \in ToSet(view.order) :
           /\ view.master[p] \in IPv4
           /\ \A i \in DOMAIN view.slaves[p] : view.slaves[p][i].addr \in IPv4
    BY <1>4, <2>2 DEF Undisturbed
  <2>. QED BY <2>2, <2>3, <2>4 DEF Undisturbed
<1>5. Progress'
  BY <1>2, <1>4 DEF EInv, Progress
<1>6. Exactly' /\ Left'
  BY ONLY <1>1, <1>2 DEF Exactly, Left
<1>. QED BY ONLY <1>5, <1>6, Zenon DEF EInv

\* An undisturbed getMaster brings the peer's whole list.
LEMMA GetMasterExact ==
  ASSUME IInv, GetMasterReturns
  PROVE  EInv'
<1>1. PICK v \in Answering : \E received \in Received(InfoAnswer(v)) :
       LET got == GetMaster(received)
       IN  /\ cut' = (cut \/ received # InfoAnswer(v))
           /\ views' = views \cup {v}
           /\ IF req.type = 1 /\ SlaveBit(req.redisType)
                THEN /\ pc' = "pharseSlave"
                     /\ masters' = got.list
                     /\ masterRedis' = MasterRedisAfter(got)
                     /\ UNCHANGED <<slaveList, todo, outcome>>
                ELSE Answer(got.list, MasterRedisAfter(got), <<>>)
  BY DEF GetMasterReturns
<1>2. PICK received \in Received(InfoAnswer(v)) :
       LET got == GetMaster(received)
       IN  /\ cut' = (cut \/ received # InfoAnswer(v))
           /\ views' = views \cup {v}
           /\ IF req.type = 1 /\ SlaveBit(req.redisType)
                THEN /\ pc' = "pharseSlave"
                     /\ masters' = got.list
                     /\ masterRedis' = MasterRedisAfter(got)
                     /\ UNCHANGED <<slaveList, todo, outcome>>
                ELSE Answer(got.list, MasterRedisAfter(got), <<>>)
  BY <1>1
<1>. DEFINE got == GetMaster(received)
           c == received # InfoAnswer(v)
<1>3. /\ pc = "getMaster" /\ view' = view /\ req' = req /\ taken' = taken
  BY DEF GetMasterReturns, reqVars
<1>4. World /\ Stages
  BY TypeParts DEF IInv
<1>5. view \in Views /\ view \in views /\ views \subseteq Views
  BY <1>4 DEF World
<1>6. Servable(req) /\ MasterBit(req.redisType)
  BY <1>3, <1>4 DEF Stages
<1>7. ASSUME Undisturbed(view)'
      PROVE  /\ got.set /\ got.list = Listing(view)
             /\ Listing(view) \in Seq(RedisInfo)
             /\ MasterRedisAfter(got) = ByName(Listing(view))
  <2>1. Undisturbed(view) /\ v = view /\ ~c
    <3>1. c \in BOOLEAN /\ cut' = (cut \/ c) /\ views' = views \cup {v}
      BY <1>2
    <3>. HIDE DEF c
    <3>. QED BY <1>3, <1>4, <1>7, <3>1, UndisturbedBefore
  <2>2. (\A i \in 1..Len(v.order) : v.master[v.order[i]] \in IPv4)
        /\ Listing(view) \in Seq(RedisInfo)
    BY <1>5, <2>1, UndisturbedIs
  <2>3. received = InfoAnswer(v)
    BY <2>1
  <2>4. got.set /\ got.list = Listing(v)
    BY <1>5, <2>1, <2>2, <2>3, GotIs
  <2>. HIDE DEF got
  <2>. QED BY <2>1, <2>2, <2>4 DEF MasterRedisAfter
<1>. HIDE DEF got
<1>8. CASE req.type = 1 /\ SlaveBit(req.redisType)
  <2>1. pc' = "pharseSlave" /\ masters' = got.list
    BY <1>2, <1>8 DEF got
  <2>2. Progress'
    BY <1>3, <1>7, <2>1 DEF Progress
  <2>. QED BY <2>1, <2>2 DEF EInv, Exactly, Left
<1>9. CASE ~(req.type = 1 /\ SlaveBit(req.redisType))
  <2>1. Answer(got.list, MasterRedisAfter(got), <<>>)
    BY <1>2, <1>9 DEF got
  <2>2. pc' = "idle"
    BY <2>1 DEF Answer
  <2>3. Left'
    BY <1>3, <2>1, AnswerLeaves
  <2>4. Exactly'
    <3>1. SUFFICES ASSUME Undisturbed(view)' PROVE Exactly'
      BY DEF Exactly
    <3>2. ~SlaveBit(req.redisType)
      BY <1>6, <1>9 DEF Servable, SlaveBit, MasterBit
    <3>3. Exact(req, got.list, got.list, <<>>, view)
      BY <1>7, <3>1, <3>2 DEF Exact
    <3>4. got.list \in Seq(RedisInfo) /\ MasterRedisAfter(got) = ByName(got.list)
      BY <1>7, <3>1
    <3>5. <<>> \in Seq(RedisInfo)
      OBVIOUS
    <3>. QED BY <1>3, <1>5, <1>6, <2>1, <3>3, <3>4, <3>5, AnswerIsExact
  <2>5. Progress'
    BY <2>2 DEF Progress
  <2>. QED BY <2>3, <2>4, <2>5 DEF EInv
<1>. QED BY <1>8, <1>9

\* So does the one inside pharseSlave, and every master of it is still to be asked.
LEMMA PharseSlaveExact ==
  ASSUME IInv, EInv, PharseSlaveMasters
  PROVE  EInv'
<1>1. PICK v \in Answering : \E received \in Received(InfoAnswer(v)) :
       LET got == GetMaster(received)
       IN  /\ cut' = (cut \/ received # InfoAnswer(v))
           /\ views' = views \cup {v}
           /\ IF got.list # <<>>
                THEN /\ pc' = "getSlaveByMasterName"
                     /\ todo' = got.list
                     /\ masterRedis' = MasterRedisAfter(got)
                     /\ UNCHANGED <<masters, slaveList, outcome>>
                ELSE Answer(masters, MasterRedisAfter(got), <<>>)
  BY DEF PharseSlaveMasters
<1>2. PICK received \in Received(InfoAnswer(v)) :
       LET got == GetMaster(received)
       IN  /\ cut' = (cut \/ received # InfoAnswer(v))
           /\ views' = views \cup {v}
           /\ IF got.list # <<>>
                THEN /\ pc' = "getSlaveByMasterName"
                     /\ todo' = got.list
                     /\ masterRedis' = MasterRedisAfter(got)
                     /\ UNCHANGED <<masters, slaveList, outcome>>
                ELSE Answer(masters, MasterRedisAfter(got), <<>>)
  BY <1>1
<1>. DEFINE got == GetMaster(received)
           c == received # InfoAnswer(v)
<1>3. /\ pc = "pharseSlave" /\ view' = view /\ req' = req /\ taken' = taken
  BY DEF PharseSlaveMasters, reqVars
<1>4. World /\ Stages /\ Lists
  BY TypeParts DEF IInv
<1>5. view \in Views /\ view \in views /\ views \subseteq Views
  BY <1>4 DEF World
<1>6. Servable(req) /\ SlaveBit(req.redisType) /\ slaveList = <<>>
  BY <1>3, <1>4 DEF Stages
<1>7. ASSUME Undisturbed(view)'
      PROVE  /\ got.set /\ got.list = Listing(view)
             /\ Listing(view) \in Seq(RedisInfo) /\ Len(Listing(view)) = Len(view.order)
             /\ Len(view.order) \in Nat
             /\ MasterRedisAfter(got) = ByName(Listing(view))
             /\ MasterBit(req.redisType) => masters = Listing(view)
  <2>1. Undisturbed(view) /\ v = view /\ ~c
    <3>1. c \in BOOLEAN /\ cut' = (cut \/ c) /\ views' = views \cup {v}
      BY <1>2
    <3>. HIDE DEF c
    <3>. QED BY <1>3, <1>4, <1>7, <3>1, UndisturbedBefore
  <2>2. /\ \A i \in 1..Len(v.order) : v.master[v.order[i]] \in IPv4
        /\ Listing(view) \in Seq(RedisInfo) /\ Len(Listing(view)) = Len(view.order)
        /\ Len(view.order) \in Nat
    BY <1>5, <2>1, UndisturbedIs
  <2>3. received = InfoAnswer(v)
    BY <2>1
  <2>4. got.set /\ got.list = Listing(view)
    BY <1>5, <2>1, <2>2, <2>3, GotIs
  <2>. HIDE DEF got
  <2>5. MasterBit(req.redisType) => masters = Listing(view)
    BY <1>3, <2>1 DEF EInv, Progress
  <2>. QED BY <2>1, <2>2, <2>4, <2>5 DEF MasterRedisAfter
<1>. HIDE DEF got
<1>8. CASE got.list # <<>>
  <2>1. /\ pc' = "getSlaveByMasterName" /\ todo' = got.list
        /\ masterRedis' = MasterRedisAfter(got)
        /\ masters' = masters /\ slaveList' = <<>>
    BY <1>2, <1>6, <1>8 DEF got
  <2>2. ASSUME Undisturbed(view)'
        PROVE  /\ MasterBit(req.redisType) => masters' = Listing(view)
               /\ LET h == Len(view.order) - Len(todo')
                  IN  /\ masterRedis' = ByName(Listing(view))
                      /\ h \in Nat /\ todo' = SubSeq(Listing(view), h + 1, Len(view.order))
                      /\ slaveList' = UsableTill(view, h)
    <3>. DEFINE n == Len(view.order)
               l == Listing(view)
    <3>1. /\ todo' = l /\ masterRedis' = ByName(l) /\ l \in Seq(RedisInfo) /\ Len(l) = n /\ n \in Nat
          /\ MasterBit(req.redisType) => masters' = l
      BY <1>7, <2>1, <2>2
    <3>. HIDE DEF n, l
    <3>2. Len(todo') = n /\ n - Len(todo') = 0
      BY <3>1
    <3>3. l = SubSeq(l, 0 + 1, n)
      BY <3>1
    <3>4. slaveList' = UsableTill(view, 0)
      BY <2>1, UsableNone
    <3>. QED BY <3>1, <3>2, <3>3, <3>4 DEF n, l
  <2>3. Progress'
    <3>. SUFFICES ASSUME Undisturbed(view)' PROVE Progress'
      BY DEF Progress
    <3>. QED BY <1>3, <2>1, <2>2 DEF Progress
  <2>. QED BY <2>1, <2>3 DEF EInv, Exactly, Left
<1>9. CASE got.list = <<>>
  <2>1. Answer(masters, MasterRedisAfter(got), <<>>)
    BY <1>2, <1>9 DEF got
  <2>2. pc' = "idle"
    BY <2>1 DEF Answer
  <2>3. Left'
    BY <1>3, <2>1, AnswerLeaves
  <2>4. Exactly'
    <3>1. SUFFICES ASSUME Undisturbed(view)' PROVE Exactly'
      BY DEF Exactly
    <3>2. Len(view.order) = 0
      BY <1>7, <1>9, <3>1
    <3>3. UsableListing(view) = <<>>
      BY <1>5, <3>2, UsableListingIs, UsableNone
    <3>4. Exact(req, masters, got.list, <<>>, view)
      BY <1>7, <3>1, <3>3 DEF Exact
    <3>5. got.list \in Seq(RedisInfo) /\ MasterRedisAfter(got) = ByName(got.list)
      BY <1>7, <3>1
    <3>6. <<>> \in Seq(RedisInfo) /\ masters \in Seq(RedisInfo)
      BY DEF IInv, TypeOK
    <3>. QED BY <1>3, <1>5, <1>6, <2>1, <3>4, <3>5, <3>6, AnswerIsExact
  <2>5. Progress'
    BY <2>2 DEF Progress
  <2>. QED BY <2>3, <2>4, <2>5 DEF EInv
<1>. QED BY <1>8, <1>9

\* A turn of pharseSlave's loop whose answer came whole and names IPv4
\* addresses only adds the usable slaves of its pool, all of them.
LEMMA WholeTurn ==
  ASSUME NEW v \in Views, NEW p \in PoolNames, p \in ToSet(v.order),
         NEW list \in Seq(RedisInfo),
         \A i \in DOMAIN v.slaves[p] : v.slaves[p][i].addr \in IPv4
  PROVE  /\ PharseSlave(list, p, ParseSlaveInfo(SlavesAnswer(v, p))) = list \o Usable(v, p)
         /\ PharseSlave(list, p, ParseSlaveInfo(SlavesAnswer(v, p))) \in Seq(RedisInfo)
<1>. DEFINE c == SlavesAnswer(v, p)
           slaves == v.slaves[p]
           got == PharseSlave(list, p, ParseSlaveInfo(c))
<1>1. slaves \in Seq(Slaves)
  BY DEF Views, Slaves
<1>2. \A i \in 1..Len(slaves) : slaves[i].addr \in IPv4
  BY <1>1
<1>3. SubSeq(c, 1, Len(c)) = c /\ Len(c) \in 0..Len(c)
  <2>1. c \in Seq(ToSet(c))
    BY SlavesAnswerIs
  <2>. HIDE DEF c
  <2>. QED BY <2>1
<1>4. PharseSlave(list, p, ParseSlaveInfo(SubSeq(c, 1, Len(c)))) = list \o Usable(v, p)
  BY <1>2, <1>3, PharseSlaveIs
<1>5. got = list \o Usable(v, p)
  BY <1>3, <1>4
<1>6. Usable(v, p) \in Seq(RedisInfo)
  <2>1. PICK n \in 0..Len(slaves) : Usable(v, p) = Instances(slaves, n, p)
    BY UsableIs
  <2>2. n \in Nat /\ \A i \in 1..n : slaves[i].addr \in IPv4
    BY <1>1, <1>2, <2>1
  <2>. DEFINE usable == [i \in 1..n |-> [name |-> p, addr |-> slaves[i].addr]]
  <2>3. Usable(v, p) = usable
    BY <2>1 DEF Instances
  <2>. HIDE DEF slaves
  <2>4. \A i \in 1..n : usable[i] \in RedisInfo
    BY <2>2 DEF RedisInfo
  <2>5. usable \in Seq(RedisInfo)
    BY ONLY <2>2, <2>4
  <2>. QED BY ONLY <2>3, <2>5
<1>. HIDE DEF got
<1>7. got \in Seq(RedisInfo)
  BY <1>5, <1>6
<1>. QED BY ONLY <1>5, <1>7 DEF got, c

\* An undisturbed call for slaves adds the usable ones of one master more.
LEMMA GetSlaveExact ==
  ASSUME IInv, EInv, GetSlaveReturns
  PROVE  EInv'
<1>. DEFINE name == Head(todo).name
<1>1. PICK v \in Answering : \E received \in Received(SlavesAnswer(v, name)) :
       LET slaves == PharseSlave(slaveList, name, ParseSlaveInfo(received))
       IN  /\ cut' = (cut \/ received # SlavesAnswer(v, name))
           /\ views' = views \cup {v}
           /\ IF Len(todo) > 1
                THEN /\ slaveList' = slaves
                     /\ todo' = Tail(todo)
                     /\ UNCHANGED <<pc, masters, masterRedis, outcome>>
                ELSE Answer(masters, masterRedis, slaves)
  BY DEF GetSlaveReturns
<1>2. PICK received \in Received(SlavesAnswer(v, name)) :
       LET slaves == PharseSlave(slaveList, name, ParseSlaveInfo(received))
       IN  /\ cut' = (cut \/ received # SlavesAnswer(v, name))
           /\ views' = views \cup {v}
           /\ IF Len(todo) > 1
                THEN /\ slaveList' = slaves
                     /\ todo' = Tail(todo)
                     /\ UNCHANGED <<pc, masters, masterRedis, outcome>>
                ELSE Answer(masters, masterRedis, slaves)
  BY <1>1
<1>. DEFINE slaves == PharseSlave(slaveList, name, ParseSlaveInfo(received))
           c == received # SlavesAnswer(v, name)
           n == Len(view.order)
           h == n - Len(todo)
           list == Listing(view)
<1>3. pc = "getSlaveByMasterName" /\ view' = view /\ req' = req /\ taken' = taken
  BY DEF GetSlaveReturns, reqVars
<1>4. World /\ Stages /\ Lists /\ Handler
  BY TypeParts DEF IInv
<1>5. view \in Views /\ view \in views /\ views \subseteq Views
  BY <1>4 DEF World
<1>6. /\ Servable(req) /\ SlaveBit(req.redisType)
      /\ todo \in Seq(RedisInfo) /\ todo # <<>> /\ slaveList \in Seq(RedisInfo)
      /\ masters \in Seq(RedisInfo)
  BY <1>3, <1>4 DEF Stages, Handler
<1>7. ASSUME Undisturbed(view)'
      PROVE  /\ masterRedis = ByName(list) /\ list \in Seq(RedisInfo)
             /\ Len(list) = n /\ n \in Nat
             /\ h \in Nat /\ h < n /\ todo = SubSeq(list, h + 1, n)
             /\ MasterBit(req.redisType) => masters = list
             /\ slaves \in Seq(RedisInfo) /\ slaves = UsableTill(view, h + 1)
  <2>1. Undisturbed(view) /\ v = view /\ ~c
    <3>1. c \in BOOLEAN /\ cut' = (cut \/ c) /\ views' = views \cup {v}
      BY <1>2
    <3>. HIDE DEF c
    <3>. QED BY <1>3, <1>4, <1>7, <3>1, UndisturbedBefore
  <2>2. list \in Seq(RedisInfo) /\ Len(list) = n /\ n \in Nat
    BY <1>5, <2>1, UndisturbedIs
  <2>3. /\ MasterBit(req.redisType) => masters = list
        /\ masterRedis = ByName(list) /\ h \in Nat /\ todo = SubSeq(list, h + 1, n)
        /\ slaveList = UsableTill(view, h)
    BY <1>3, <2>1 DEF EInv, Progress
  <2>4. Len(todo) \in Nat /\ Len(todo) # 0
    BY <1>6
  <2>5. h < n
    BY <2>2, <2>4
  <2>6. name = view.order[h + 1] /\ h + 1 \in 1..n
    <3>1. h + 1 \in 1..n
      BY <2>2, <2>3, <2>5
    <3>2. list[h + 1] = [name |-> view.order[h + 1], addr |-> view.master[view.order[h + 1]]]
      BY <1>5, <3>1, ListingIs
    <3>3. list[h + 1].name = view.order[h + 1]
      BY <3>2
    <3>. HIDE DEF list, h
    <3>4. Head(todo) = list[h + 1]
      BY <2>2, <2>3, <2>5, <3>1
    <3>. QED BY <3>1, <3>3, <3>4
  <2>7. view.order \in Seq(PoolNames)
    BY <1>5, LogicEntranceAssumption DEF Views
  <2>8. name \in PoolNames /\ name \in ToSet(view.order)
    BY <2>6, <2>7 DEF ToSet
  <2>. HIDE DEF name
  <2>9. \A i \in DOMAIN view.slaves[name] : view.slaves[name][i].addr \in IPv4
    BY <2>1, <2>8 DEF Undisturbed
  <2>10. received = SlavesAnswer(v, name)
    BY <2>1
  <2>11. \A i \in DOMAIN slaveList : HealthySlave(slaveList[i], views)
    BY <1>4 DEF Lists
  <2>12. slaves \in Seq(RedisInfo) /\ slaves = slaveList \o Usable(view, name)
    <3>. DEFINE whole == PharseSlave(slaveList, name, ParseSlaveInfo(SlavesAnswer(view, name)))
    <3>1. received = SlavesAnswer(view, name)
      BY <2>1, <2>10
    <3>2. slaves = whole
      BY ONLY <3>1
    <3>3. whole = slaveList \o Usable(view, name)
      BY <1>5, <1>6, <2>8, <2>9, WholeTurn
    <3>. HIDE DEF slaves, whole
    <3>4. slaves \in Seq(RedisInfo)
      BY <1>5, <1>6, <2>8, <2>9, <3>2, WholeTurn DEF whole
    <3>. QED BY ONLY <3>2, <3>3, <3>4
  <2>13. UsableTill(view, h + 1) = UsableTill(view, h) \o Usable(view, name)
    BY <1>5, <2>3, <2>5, <2>6, UsableNext
  <2>. HIDE DEF slaves, h, n, list
  <2>. QED BY <2>2, <2>3, <2>5, <2>12, <2>13
<1>. HIDE DEF slaves
<1>8. CASE Len(todo) > 1
  <2>1. /\ pc' = pc /\ slaveList' = slaves /\ todo' = Tail(todo)
        /\ masters' = masters /\ masterRedis' = masterRedis
    BY <1>2, <1>8 DEF slaves
  <2>2. ASSUME Undisturbed(view)'
        PROVE  /\ MasterBit(req.redisType) => masters' = list
               /\ LET k == n - Len(todo')
                  IN  /\ masterRedis' = ByName(list)
                      /\ k \in Nat /\ todo' = SubSeq(list, k + 1, n)
                      /\ slaveList' = UsableTill(view, k)
    <3>1. /\ masterRedis = ByName(list) /\ list \in Seq(RedisInfo)
          /\ Len(list) = n /\ n \in Nat
          /\ h \in Nat /\ h < n /\ todo = SubSeq(list, h + 1, n)
          /\ MasterBit(req.redisType) => masters = list
          /\ slaves = UsableTill(view, h + 1)
      BY <1>7, <2>2
    <3>2. n - Len(Tail(todo)) = h + 1
      BY <1>6, <3>1
    <3>. HIDE DEF list, n, h
    <3>3. Tail(todo) = SubSeq(list, (h + 1) + 1, n)
      BY <3>1
    <3>4. /\ todo' = Tail(todo) /\ masters' = masters /\ masterRedis' = masterRedis
          /\ slaveList' = slaves
      BY <2>1
    <3>5. n - Len(todo') = h + 1
      BY ONLY <3>2, <3>4
    <3>6. h + 1 \in Nat
      BY <3>1
    <3>. HIDE DEF slaves
    <3>. QED BY ONLY <3>1, <3>3, <3>4, <3>5, <3>6
  <2>3. Progress'
    <3>. SUFFICES ASSUME Undisturbed(view)' PROVE Progress'
      BY DEF Progress
    <3>. QED BY <1>3, <2>1, <2>2 DEF Progress
  <2>. QED BY <1>3, <2>1, <2>3 DEF EInv, Exactly, Left
<1>9. CASE ~(Len(todo) > 1)
  <2>1. Answer(masters, masterRedis, slaves)
    BY <1>2, <1>9 DEF slaves
  <2>2. pc' = "idle"
    BY <2>1 DEF Answer
  <2>3. Left'
    BY <1>3, <2>1, AnswerLeaves
  <2>4. Exactly'
    <3>1. SUFFICES ASSUME Undisturbed(view)' PROVE Exactly'
      BY DEF Exactly
    <3>2. /\ masterRedis = ByName(list) /\ list \in Seq(RedisInfo) /\ n \in Nat
          /\ h \in Nat /\ h < n
          /\ MasterBit(req.redisType) => masters = list
          /\ slaves \in Seq(RedisInfo) /\ slaves = UsableTill(view, h + 1)
      BY <1>7, <3>1
    <3>3. h + 1 = n
      BY <1>6, <1>9, <3>2
    <3>4. slaves = UsableListing(view)
      BY <1>5, <3>2, <3>3, UsableListingIs
    <3>. HIDE DEF h, n
    <3>5. Exact(req, masters, list, slaves, view)
      BY <3>2, <3>4 DEF Exact
    <3>. HIDE DEF list
    <3>. QED BY <1>3, <1>5, <1>6, <2>1, <3>2, <3>5, AnswerIsExact
  <2>5. Progress'
    BY <2>2 DEF Progress
  <2>. QED BY <2>3, <2>4, <2>5 DEF EInv
<1>. QED BY <1>8, <1>9

\* Every step keeps the rest of the invariant.
LEMMA StepEInv == IInv /\ EInv /\ [Next]_vars => EInv'
<1>. SUFFICES ASSUME IInv, EInv, [Next]_vars PROVE EInv'
  OBVIOUS
<1>1. CASE Take
  BY <1>1, TakeExact
<1>2. CASE GetMasterReturns
  BY <1>2, GetMasterExact
<1>3. CASE PharseSlaveMasters
  BY <1>3, PharseSlaveExact
<1>4. CASE GetSlaveReturns
  BY <1>4, GetSlaveExact
<1>5. CASE Deployment
  BY <1>5, DeploymentExact
<1>6. CASE UNCHANGED vars
  <2>1. UNCHANGED <<view, pc, asked, req, masters, masterRedis, slaveList, todo, rsp, objects,
                    logLv, logType, views, changes, taken, cut>>
    BY <1>6 DEF vars, reqVars, sentinelVars, outcome, configVars, historyVars
  <2>. QED BY <2>1 DEF EInv, Progress, Exactly, Left, Undisturbed
<1>. QED BY <1>1, <1>2, <1>3, <1>4, <1>5, <1>6 DEF Next, Return

-----------------------------------------------------------------------------
(* The theorems.                                                           *)

\* An undisturbed request is at every stage exactly as far as its calls.
THEOREM Progression == Spec => []EInv
BY InitEInv, StepEInv, Invariance, PTL DEF Spec

\* A peer that is left alone is listed exactly.
THEOREM ExactListing == Spec => []UndisturbedListingIsExact
<1>1. EInv => UndisturbedListingIsExact
  <2>. SUFFICES ASSUME EInv, rsp.kind = "info", pc = "idle", Undisturbed(view)
                PROVE  LET first(p, list) == SelectInSeq(list, LAMBDA info : info.name = p)
                           picked(list) ==
                             IF req.poolName = <<>> THEN list
                             ELSE LET known == Those(req.poolName,
                                                     {info.name : info \in ToSet(list)})
                                  IN  [i \in DOMAIN known |-> list[first(known[i], list)]]
                       IN  /\ rsp.masters = IF MasterBit(req.redisType)
                                              THEN picked(Listing(view)) ELSE <<>>
                           /\ rsp.slaves = IF SlaveBit(req.redisType)
                                             THEN picked(UsableListing(view)) ELSE <<>>
    BY DEF UndisturbedListingIsExact
  <2>1. ListingExact(req, rsp, view)
    BY DEF EInv, Exactly
  <2>. QED BY <2>1 DEF ListingExact, PickedOf
<1>. QED BY <1>1, Progression, PTL

\* A key falls on one instance, that of the pool at its index, whatever is cut
\* or changes; of a peer that is left alone, among all pools that have one.
THEOREM KeysFall == Spec => []KeyFallsOnItsPool
<1>1. IInv /\ EInv => KeyFallsOnItsPool
  <2>. SUFFICES ASSUME IInv, EInv, rsp.kind = "hash", pc = "idle"
                PROVE  LET found == rsp.masters \o rsp.slaves
                           FallsAmong(S) ==
                             LET pools == Those(Wanted(req), S)
                             IN  /\ pools # <<>>
                                 /\ found[1].name = pools[Index(req, Len(pools)) + 1]
                       IN  /\ Len(found) = 1
                           /\ \E S \in SUBSET UNION {ToSet(v.order) : v \in views} :
                                FallsAmong(S)
                           /\ Undisturbed(view) =>
                                /\ FallsAmong(WithEligible(req, view))
                                /\ found[1] = Eligible(req, view, found[1].name)[1]
    BY DEF KeyFallsOnItsPool, Wanted, Index, WithEligible, Eligible
  <2>1. Falls(req, rsp, views)
    BY DEF IInv, Answered
  <2>2. Undisturbed(view) => KeyExact(req, rsp, view)
    BY DEF EInv, Exactly
  <2>. QED BY <2>1, <2>2 DEF Falls, KeyExact, Wanted
<1>. QED BY <1>1, Invariance, Progression, PTL

\* The Sentinel object that the first request leaves behind is explained.
THEOREM LeftObjects == Spec => []ObjectsLeftExplained
<1>1. EInv => ObjectsLeftExplained
  <2>. SUFFICES ASSUME EInv, pc = "idle", taken <= 1, objects # 0
                PROVE  \/ req.type = 1 /\ req.poolName = <<>>
                       \/ req.type # 1 /\ req.redisType = 3
                       \/ /\ req.type \in 2..3
                          /\ Undisturbed(view) =>
                               \A p \in ToSet(view.order) :
                                 \/ req.poolName # <<>> /\ p \notin ToSet(req.poolName)
                                 \/ req.redisType = 2 /\ Usable(view, p) = <<>>
    BY DEF ObjectsLeftExplained
  <2>1. \/ req.type = 1 /\ req.poolName = <<>>
        \/ req.type # 1 /\ req.redisType = 3
        \/ req.type \in 2..3 /\ rsp.kind = "noRedis"
    BY DEF EInv, Left
  <2>2. Undisturbed(view) /\ rsp.kind = "noRedis" => NoneEligible(req, view)
    BY DEF EInv, Exactly
  <2>. QED BY <2>1, <2>2 DEF NoneEligible
<1>. QED BY <1>1, Progression, PTL
=============================================================================
