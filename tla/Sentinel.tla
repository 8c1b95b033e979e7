------------------------------ MODULE Sentinel ------------------------------
(***************************************************************************)
(* sentinel.cpp: what the service makes of the answers of a Redis          *)
(* Sentinel, whole or cut, as operators; LogicEntrance puts them together. *)
(*                                                                         *)
(* An answer is a sequence of cells, each the smallest piece the parsers   *)
(* use as a whole: a line of the answer to "info", a header or a field     *)
(* with its value in the answer to "sentinel slaves".  Both parsers settle *)
(* a cell at its LF only, so an answer cut anywhere is a prefix of its     *)
(* cells.                                                                  *)
(***************************************************************************)
EXTENDS Integers, Sequences, SequencesExt

CONSTANTS Pools,        \* the monitored masters, in the order of their names
          Addrs,        \* addresses (ip:port) of Redis instances
          IPv4          \* those that splitStr(address, ":") cuts into two

PoolNames == {Pools[i] : i \in DOMAIN Pools}

ASSUME SentinelAssumption ==
  /\ IPv4 \subseteq Addrs
  /\ Pools \in Seq(PoolNames)

RedisInfo == [name : PoolNames, addr : IPv4]

-----------------------------------------------------------------------------
(* What the peer answers.  A view of the deployment is the order in which  *)
(* the peer lists the masters, their addresses, and their slaves.          *)

\* The answer to "info": the bulk header and the sections of no interest, the
\* number of masters, and a line for each of them.
InfoAnswer(view) ==
  <<[cell |-> "other"], [cell |-> "sentinel_masters", num |-> Len(view.order)]>>
  \o [i \in DOMAIN view.order |->
        [cell |-> "master", index |-> i - 1, name |-> view.order[i],
         addr |-> view.master[view.order[i]]]]

SlaveCells(slave) ==
  <<[cell |-> "array"],
    [cell |-> "field", key |-> "name",  value |-> slave.addr],
    [cell |-> "field", key |-> "ip",    value |-> slave.addr],
    [cell |-> "field", key |-> "port",  value |-> slave.addr],
    [cell |-> "field", key |-> "flags", value |-> slave.flags]>>

\* The answer to "sentinel slaves <name>"; an error line for a name that is not
\* monitored (any more).
SlavesAnswer(view, name) ==
  IF name \notin ToSet(view.order) THEN <<[cell |-> "error"]>>
  ELSE <<[cell |-> "count", num |-> Len(view.slaves[name])]>>
       \o FlattenSeq([i \in DOMAIN view.slaves[name] |->
                        SlaveCells(view.slaves[name][i])])

-----------------------------------------------------------------------------
(* Masters.                                                                *)

\* The elements of a sequence that are in S, in their order.
Those(s, S) == FlattenSeq([i \in DOMAIN s |-> IF s[i] \in S THEN <<s[i]>> ELSE <<>>])

\* std::map<name, std::map<1..n, RedisInfo> >, filled in the order of a list.
ByName(list) ==
  [name \in {list[i].name : i \in DOMAIN list} |->
     Those(list, {info \in ToSet(list) : info.name = name})]

\* parseRedisInfo: the key:value lines of the answer.
ParseRedisInfo(cells) ==
  [nums    |-> {c.num : c \in {l \in ToSet(cells) : l.cell = "sentinel_masters"}},
   masters |-> {l \in ToSet(cells) : l.cell = "master"}]

\* Mutant of GetMaster: neither a missing entry nor the count is looked at.
GetMasterKeepsPart(cells) ==
  LET lines == SelectSeq(cells, LAMBDA c : c.cell = "master" /\ c.addr \in IPv4)
  IN  [set |-> TRUE,
       list |-> [i \in DOMAIN lines |-> [name |-> lines[i].name, addr |-> lines[i].addr]]]

\* Mutant of GetMaster: an address is taken without being cut in two.
GetMasterTakesAnyAddress(cells) ==
  LET lines == SelectSeq(cells, LAMBDA c : c.cell = "master")
      nums == SelectSeq(cells, LAMBDA c : c.cell = "sentinel_masters")
      whole == nums # <<>> /\ Len(lines) = nums[1].num
  IN  [set |-> whole,
       list |-> IF ~whole THEN <<>>
                ELSE [i \in DOMAIN lines |->
                        [name |-> lines[i].name, addr |-> lines[i].addr]]]

\* getMaster: the list it returns, and whether it got as far as
\* setMasterRedis.  An address that does not split in two (IPv6) leaves its
\* entry out, and then the list is emptied because the count differs.
GetMaster(cells) ==
  LET info == ParseRedisInfo(cells)
      masterNums == IF info.nums = {} THEN 0 ELSE CHOOSE num \in info.nums : TRUE
      Line(i) == CHOOSE l \in info.masters : l.index = i - 1
      masterList == [i \in 1..masterNums |-> [name |-> Line(i).name, addr |-> Line(i).addr]]
  IN  IF \/ cells = <<>>
         \/ \E i \in 1..masterNums : \A l \in info.masters : l.index # i - 1
        THEN [set |-> FALSE, list |-> <<>>]
        ELSE [set |-> TRUE,
              list |-> IF \A i \in 1..masterNums : masterList[i].addr \in IPv4
                         THEN masterList ELSE <<>>]

-----------------------------------------------------------------------------
(* Slaves.                                                                 *)

\* One cell of parseSlaveInfo's scan: the array header of the next slave
\* settles the one before it.
ScanCell(scan, c) ==
  CASE c.cell = "count" -> [scan EXCEPT !.slaveNums = c.num]
    [] c.cell = "array" ->
         IF DOMAIN scan.single = {} THEN scan
         ELSE [scan EXCEPT !.list = Append(@, scan.single), !.single = <<>>]
    [] c.cell = "field" ->
         [scan EXCEPT !.single =
            [k \in DOMAIN @ \cup {c.key} |-> IF k = c.key THEN c.value ELSE @[k]]]

\* parseSlaveInfo: a list of maps, as many as the first line announces or none.
\* Only the number of maps is compared, not what is in them.
ParseSlaveInfo(cells) ==
  IF cells = <<>> \/ cells[1].cell = "error" THEN <<>>
  ELSE LET scan[n \in 0..Len(cells)] ==
             IF n = 0 THEN [slaveNums |-> 0, list |-> <<>>, single |-> <<>>]
             ELSE ScanCell(scan[n - 1], cells[n])
           end == scan[Len(cells)]
           slaveList == IF DOMAIN end.single = {} THEN end.list
                        ELSE Append(end.list, end.single)
       IN  IF end.slaveNums = Len(slaveList) THEN slaveList ELSE <<>>

Has(map, key, value) == key \in DOMAIN map /\ map[key] = value

\* Mutant of NotASlave: a slave whose flags did not arrive passes.
FlagsMayBeMissing(map) == "flags" \in DOMAIN map /\ map["flags"] # "slave"

\* The loop of pharseSlave leaves a master's slaves at the first one that is
\* not flagged exactly "slave", keeping those before it, or at the first whose
\* name, ip and port do not agree, forgetting every slave found so far, those
\* of the masters before it included.
NotASlave(map) == ~Has(map, "flags", "slave")

Inconsistent(map) ==
  \/ "name" \notin DOMAIN map
  \/ map["name"] \notin IPv4
  \/ ~Has(map, "ip", map["name"])
  \/ ~Has(map, "port", map["name"])

PharseSlave(slaveList, masterName, listInfo) ==
  LET stop == SelectInSeq(listInfo, LAMBDA m : NotASlave(m) \/ Inconsistent(m))
      taken == IF stop = 0 THEN listInfo ELSE SubSeq(listInfo, 1, stop - 1)
  IN  IF stop # 0 /\ ~NotASlave(listInfo[stop]) THEN <<>>
      ELSE slaveList \o [i \in DOMAIN taken |->
                           [name |-> masterName, addr |-> taken[i]["name"]]]

-----------------------------------------------------------------------------
(* Selection.                                                              *)

\* Mutant of GetRedisByType: the pools asked for in the order of their names.
GetRedisByName(allRedis, poolName) ==
  LET wanted == IF poolName = <<>> THEN PoolNames ELSE ToSet(poolName)
      known == Those(Pools, DOMAIN allRedis \cap wanted)
  IN  [i \in DOMAIN known |-> allRedis[known[i]][1]]

\* getRedisByType: the first instance of each pool named, in the order given,
\* or of every pool, in the order of the names.
GetRedisByType(allRedis, poolName) ==
  LET wanted == IF poolName = <<>> THEN Pools ELSE poolName
      known == Those(wanted, DOMAIN allRedis)
  IN  [i \in DOMAIN known |-> allRedis[known[i]][1]]

\* (int)hash, and % of C++, with the sign of the dividend.
Signed(hash, range) == IF 2 * hash >= range THEN hash - range ELSE hash
Rem(a, n) == IF a >= 0 THEN a % n ELSE -((-a) % n)

\* Mutant of HashIndex: the sign stays until the conversion to unsigned.
HashIndexKeepsSign(hash, range, redisNums) == Rem(Signed(hash, range), redisNums) % range

\* The index redisComHash makes of its hash, one of range values.
HashIndex(hash, range, redisNums) ==
  LET rem == Rem(Signed(hash, range), redisNums)
  IN  (IF rem < 0 THEN -rem ELSE rem) % range

\* redisComHash of a key given as its (signed) characters.
RedisComHash(key, range, redisNums) ==
  LET hash[n \in 0..Len(key)] ==
        IF n = 0 THEN 5381 % range ELSE (hash[n - 1] * 33 + key[n]) % range
  IN  IF redisNums <= 0 THEN 0 ELSE HashIndex(hash[Len(key)], range, redisNums)

\* redisCrc32Hash, zlib's crc32 given.
RedisCrc32Hash(crc32, redisNum) == IF redisNum <= 0 THEN 0 ELSE crc32 % redisNum
=============================================================================
