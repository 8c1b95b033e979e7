--------------------------- MODULE LogicEntrance ---------------------------
(***************************************************************************)
(* LogicEntrance::handleReq and the Sentinel object it uses: one client    *)
(* request at a time, cut into the pieces of code between two outbound     *)
(* calls.  During a call the service waits and the deployment behind the   *)
(* peer goes on changing, so the calls of one request may see different    *)
(* deployments; each call brings the whole answer, part of it, or nothing  *)
(* (BoundedCall).                                                          *)
(***************************************************************************)
EXTENDS Sentinel

CONSTANTS InitViews,    \* deployments to begin with
          Orders,       \* orders in which the peer may list masters
          Requests,     \* what clients send: parameter -> value
          KeyChars,     \* hash key -> its characters
          Crc32,        \* hash key -> its crc32
          HashRange,    \* number of values of the hash, 2^32 in the code
          MaxChanges,   \* bound: changes of the deployment during one request
          MaxRequests   \* bound: requests taken up

\* What a deployment is, to the peer: the order in which it lists the masters,
\* their addresses, their slaves.
Views == [order  : Orders,
          master : [PoolNames -> Addrs],
          slaves : [PoolNames -> Seq([addr : Addrs, flags : {"slave", "s_down"}])]]

ASSUME LogicEntranceAssumption ==
  /\ HashRange \in Nat \ {0}
  /\ MaxChanges \in Nat /\ MaxRequests \in Nat
  /\ Orders \subseteq Seq(PoolNames)
  /\ InitViews \subseteq Views
  /\ \A given \in Requests :
       /\ "type" \in DOMAIN given
       /\ "poolname" \in DOMAIN given => given.poolname \in Seq(ToSet(given.poolname))
       /\ "hashkey" \in DOMAIN given =>
            /\ given.hashkey \in DOMAIN KeyChars /\ KeyChars[given.hashkey] \in Seq(Int)
            /\ given.hashkey \in DOMAIN Crc32 /\ Crc32[given.hashkey] \in Nat

VARIABLES
  view,         \* the deployment as the peer sees it now
  pc,           \* "idle", or the outbound call the handler waits in
  asked,        \* the parameters of the last request
  req,          \* the ClientReqInfo made of them
  masters,      \* handleGetRedisInfoReq's list "master"
  masterRedis,  \* m_masterRedis of the request's Sentinel object
  slaveList,    \* pharseSlave's slaveList
  todo,         \* the masters pharseSlave has still to ask about
  rsp,          \* the last response
  objects,      \* the Sentinel objects on the heap
  logLv, logType, \* Config
  views,        \* history: the deployments the request may have been answered from
  cut,          \* history: a call of this request brought less than the answer
  changes,      \* history: changes since the request began
  taken         \* history: requests taken up

sentinelVars == <<masters, masterRedis, slaveList, todo>>
configVars == <<logLv, logType>>
reqVars == <<asked, req>>
historyVars == <<views, changes, taken>>
outcome == <<rsp, objects>>
vars == <<view, pc, reqVars, sentinelVars, outcome, configVars, historyVars, cut>>

LogLevels == 0..7       \* Fatal..Debug
LogTypes == 1..3        \* LOG_TYPE_STDOUT..LOG_TYPE_ALL

MasterBit(redisType) == redisType \in {1, 3}
SlaveBit(redisType) == redisType \in {2, 3}

-----------------------------------------------------------------------------
(* Requests.                                                               *)

\* The parameters a client gave over the defaults of the constructor; port is
\* a uint16_t, so the default -1 is 65535.
ClientReqInfo(given) ==
  LET param(key, default) == IF key \in DOMAIN given THEN given[key] ELSE default
  IN  [type      |-> param("type", 0),
       ip        |-> param("ip", ""),
       port      |-> param("port", -1) % 2^16,
       redisType |-> param("redistype", 0),
       poolName  |-> param("poolname", <<>>),
       hashKey   |-> param("hashkey", ""),
       logLv     |-> param("loglv", -1),
       logType   |-> param("logtype", -1)]

\* The first test of handleGetRedisInfoReq and handleRedisInfoByHashReq.
IllegalTarget(r) ==
  \/ r.ip = ""
  \/ r.port = -1
  \/ r.redisType \notin 1..3

\* Mutant of IllegalLog: only the level is tested.
IllegalLevel(r) == r.logLv # -1 /\ r.logLv \notin LogLevels

\* The first tests of handleResetLogLevelReq.
IllegalLog(r) ==
  \/ r.logLv # -1 /\ r.logLv \notin LogLevels
  \/ r.logType # -1 /\ r.logType \notin LogTypes

\* What is answered with the help text before anything is done.
Rejected(r) ==
  \/ r.type \notin 1..4
  \/ r.type \in 1..3 /\ IllegalTarget(r)
  \/ r.type \in 2..3 /\ r.hashKey = ""
  \/ r.type = 4 /\ IllegalLog(r)

Response(kind, m, s) == [kind |-> kind, masters |-> m, slaves |-> s]

Init ==
  /\ view \in InitViews
  /\ pc = "idle"
  /\ asked = [type |-> 0] /\ req = ClientReqInfo(asked)
  /\ masters = <<>> /\ masterRedis = <<>> /\ slaveList = <<>> /\ todo = <<>>
  /\ rsp = Response("none", <<>>, <<>>) /\ objects = 0
  /\ logLv = 7 /\ logType = 1     \* main's defaults, set by Demonize::initSrv
  /\ views = {view} /\ cut = FALSE /\ changes = 0 /\ taken = 0

\* A request is taken up, with a fresh history.
Accept(given) ==
  /\ pc = "idle"
  /\ taken < MaxRequests
  /\ taken' = taken + 1
  /\ asked' = given
  /\ req' = ClientReqInfo(given)
  /\ views' = {view} /\ cut' = FALSE /\ changes' = 0
  /\ UNCHANGED <<view, sentinelVars>>

Help ==
  /\ \E given \in Requests : Accept(given)
  /\ Rejected(req')
  /\ rsp' = Response("help", <<>>, <<>>)
  /\ UNCHANGED <<pc, objects, configVars>>

\* handleResetLogLevelReq: both values have been tested before either is set.
ResetLogLevel ==
  /\ \E given \in Requests : Accept(given)
  /\ req'.type = 4 /\ ~Rejected(req')
  /\ logLv' = IF req'.logLv # -1 THEN req'.logLv ELSE logLv
  /\ logType' = IF req'.logType # -1 THEN req'.logType ELSE logType
  /\ rsp' = Response("log", <<>>, <<>>)
  /\ UNCHANGED <<pc, objects>>

\* domain2ip finds no address.
UnknownDomain ==
  /\ \E given \in Requests : Accept(given)
  /\ req'.type \in 1..3 /\ ~Rejected(req')
  /\ req'.ip = "domain"
  /\ rsp' = Response("invalidDomain", <<>>, <<>>)
  /\ UNCHANGED <<pc, objects, configVars>>

\* handleRedisInfoByHashReq with both kinds of instances asked for: it has made
\* its Sentinel object already.
IllegalRedisType ==
  /\ \E given \in Requests : Accept(given)
  /\ req'.type \in 2..3 /\ ~Rejected(req')
  /\ req'.redisType = 3
  /\ rsp' = Response("illegalRedisType", <<>>, <<>>)
  /\ objects' = objects + 1
  /\ UNCHANGED <<pc, configVars>>

\* The handler makes its Sentinel object and its first call: getMaster of its own, or pharseSlave's.
Begin ==
  /\ \E given \in Requests : Accept(given)
  /\ req'.type \in 1..3 /\ ~Rejected(req')
  /\ req'.type = 1 \/ req'.redisType # 3
  /\ pc' = IF MasterBit(req'.redisType) THEN "getMaster" ELSE "pharseSlave"
  /\ objects' = objects + 1
  /\ UNCHANGED <<rsp, configVars>>

-----------------------------------------------------------------------------
(* The rest of the handler once the last call is back, given the Sentinel  *)
(* object's lists and maps.                                                *)

\* handleGetRedisInfoReq.
RedisInfoRsp(r, masterList, mRedis, slaves) ==
  LET all == r.poolName = <<>>
  IN  Response("info",
        IF ~MasterBit(r.redisType) THEN <<>>
        ELSE IF all THEN masterList ELSE GetRedisByType(mRedis, r.poolName),
        IF ~SlaveBit(r.redisType) THEN <<>>
        ELSE IF all THEN slaves ELSE GetRedisByType(ByName(slaves), r.poolName))

\* handleRedisInfoByHashReq: the instance the key falls on, nothing if the
\* index is outside the list.
RedisInfoByHashRsp(r, mRedis, slaves) ==
  LET redisList == GetRedisByType(IF r.redisType = 1 THEN mRedis ELSE ByName(slaves),
                                  r.poolName)
      hashIndex == IF r.type = 2
                     THEN RedisComHash(KeyChars[r.hashKey], HashRange, Len(redisList))
                     ELSE RedisCrc32Hash(Crc32[r.hashKey], Len(redisList))
      found == IF hashIndex < Len(redisList) THEN <<redisList[hashIndex + 1]>>
               ELSE <<>>
  IN  IF redisList = <<>> THEN Response("noRedis", <<>>, <<>>)
      ELSE IF r.redisType = 1 THEN Response("hash", found, <<>>)
      ELSE Response("hash", <<>>, found)

ClearSentinel == masters' = <<>> /\ masterRedis' = <<>> /\ slaveList' = <<>> /\ todo' = <<>>

MakeRsp(masterList, mRedis, slaves) ==
  rsp' = IF req.type = 1 THEN RedisInfoRsp(req, masterList, mRedis, slaves)
         ELSE RedisInfoByHashRsp(req, mRedis, slaves)

\* The paths that end in delete cmd: not the early returns, of a list of all
\* instances and of a key for which there is none.
Deletes(r, response) ==
  IF r.type = 1 THEN r.poolName # <<>> ELSE response.kind = "hash"

\* Mutant of Answer: asks again when there is nothing to answer with.
AnswerOrRetry(masterList, mRedis, slaves) ==
  /\ ClearSentinel
  /\ IF req.type = 1 /\ masterList = <<>> /\ slaves = <<>>
       THEN pc' = "getMaster" /\ UNCHANGED outcome
       ELSE /\ pc' = "idle"
            /\ MakeRsp(masterList, mRedis, slaves)
            /\ objects' = objects - (IF Deletes(req, rsp') THEN 1 ELSE 0)

\* Mutant of Answer: delete cmd only where masters were asked for.
AnswerKeepsObject(masterList, mRedis, slaves) ==
  /\ pc' = "idle"
  /\ MakeRsp(masterList, mRedis, slaves)
  /\ objects' = objects - (IF Deletes(req, rsp') /\ MasterBit(req.redisType) THEN 1 ELSE 0)
  /\ ClearSentinel

\* The response is made, and the handler's lists are gone.
Answer(masterList, mRedis, slaves) ==
  /\ pc' = "idle"
  /\ MakeRsp(masterList, mRedis, slaves)
  /\ objects' = objects - (IF Deletes(req, rsp') THEN 1 ELSE 0)
  /\ ClearSentinel

-----------------------------------------------------------------------------
(* An outbound call comes back with some of the peer's answer.             *)

\* Who answers: the peer.  Of a domain whose first address is an IPv6 one,
\* inet_pton makes no sin_addr, whose bytes are those the stack held: the call
\* goes anywhere, another Redis Sentinel included.
Answering == {view} \cup IF req.ip = "IPv6 domain" THEN InitViews ELSE {}

\* Nothing at all, part of the answer, or all of it.
Received(answer) == {SubSeq(answer, 1, k) : k \in 0..Len(answer)}

\* Mutant of MasterRedisAfter: the first list of a request stays.
MasterRedisOnce(got) ==
  IF got.set /\ masterRedis = <<>> THEN ByName(got.list) ELSE masterRedis

\* What getMaster leaves in m_masterRedis.
MasterRedisAfter(got) == IF got.set THEN ByName(got.list) ELSE masterRedis

\* The handler's own getMaster.
GetMasterReturns ==
  /\ pc = "getMaster"
  /\ \E v \in Answering : \E received \in Received(InfoAnswer(v)) :
       LET got == GetMaster(received)
       IN  /\ cut' = (cut \/ received # InfoAnswer(v))
           /\ views' = views \cup {v}
           /\ IF req.type = 1 /\ SlaveBit(req.redisType)
                THEN /\ pc' = "pharseSlave"
                     /\ masters' = got.list
                     /\ masterRedis' = MasterRedisAfter(got)
                     /\ UNCHANGED <<slaveList, todo, outcome>>
                ELSE Answer(got.list, MasterRedisAfter(got), <<>>)
  /\ UNCHANGED <<view, reqVars, configVars, changes, taken>>

\* The getMaster with which pharseSlave begins.
PharseSlaveMasters ==
  /\ pc = "pharseSlave"
  /\ \E v \in Answering : \E received \in Received(InfoAnswer(v)) :
       LET got == GetMaster(received)
       IN  /\ cut' = (cut \/ received # InfoAnswer(v))
           /\ views' = views \cup {v}
           /\ IF got.list # <<>>
                THEN /\ pc' = "getSlaveByMasterName"
                     /\ todo' = got.list
                     /\ masterRedis' = MasterRedisAfter(got)
                     /\ UNCHANGED <<masters, slaveList, outcome>>
                ELSE Answer(masters, MasterRedisAfter(got), <<>>)
  /\ UNCHANGED <<view, reqVars, configVars, changes, taken>>

\* One turn of pharseSlave's loop over the masters.
GetSlaveReturns ==
  /\ pc = "getSlaveByMasterName"
  /\ \E v \in Answering :
       LET name == Head(todo).name
           answer == SlavesAnswer(v, name)
       IN  \E received \in Received(answer) :
           LET slaves == PharseSlave(slaveList, name, ParseSlaveInfo(received))
           IN  /\ cut' = (cut \/ received # answer)
               /\ views' = views \cup {v}
               /\ IF Len(todo) > 1
                    THEN /\ slaveList' = slaves
                         /\ todo' = Tail(todo)
                         /\ UNCHANGED <<pc, masters, masterRedis, outcome>>
                    ELSE Answer(masters, masterRedis, slaves)
  /\ UNCHANGED <<view, reqVars, configVars, changes, taken>>

-----------------------------------------------------------------------------
(* The deployment changes while a call is out.                             *)

Change ==
  /\ pc # "idle"
  /\ changes < MaxChanges
  /\ changes' = changes + 1
  /\ views' = views \cup {view'}
  /\ UNCHANGED <<pc, reqVars, sentinelVars, outcome, configVars, cut, taken>>

\* A slave takes over; the old master is listed as a slave that is down.
Failover ==
  /\ \E p \in PoolNames : \E i \in DOMAIN view.slaves[p] :
       /\ view.slaves[p][i].flags = "slave"
       /\ view' = [view EXCEPT
                     !.master[p] = view.slaves[p][i].addr,
                     !.slaves[p][i] = [addr |-> view.master[p], flags |-> "s_down"]]
  /\ Change

\* A slave goes down or comes back.
SlaveChanges ==
  /\ \E p \in PoolNames : \E i \in DOMAIN view.slaves[p] :
       view' = [view EXCEPT !.slaves[p][i].flags =
                  IF @ = "slave" THEN "s_down" ELSE "slave"]
  /\ Change

\* The peer monitors fewer or more masters, or lists them in another order.
Relist ==
  /\ \E o \in Orders \ {view.order} : view' = [view EXCEPT !.order = o]
  /\ Change

-----------------------------------------------------------------------------
Take == Help \/ ResetLogLevel \/ UnknownDomain \/ IllegalRedisType \/ Begin
Return == GetMasterReturns \/ PharseSlaveMasters \/ GetSlaveReturns
Deployment == Failover \/ SlaveChanges \/ Relist

Next == Take \/ Return \/ Deployment

\* Every outbound call comes back (TcpClient, EveryCallReturns).
Spec == Init /\ [][Next]_vars /\ WF_vars(Return)

-----------------------------------------------------------------------------
(* Correctness.                                                            *)

TypeOK ==
  /\ view \in Views /\ view \in views /\ views \subseteq Views
  /\ pc \in {"idle", "getMaster", "pharseSlave", "getSlaveByMasterName"}
  /\ asked \in Requests \cup {[type |-> 0]} /\ req = ClientReqInfo(asked)
  /\ {masters, slaveList, todo} \subseteq Seq(RedisInfo)
  /\ DOMAIN masterRedis \subseteq PoolNames
  /\ \A p \in DOMAIN masterRedis : masterRedis[p] \in Seq(RedisInfo) \ {<<>>}
  /\ rsp \in [kind : {"none", "help", "log", "invalidDomain", "illegalRedisType",
                      "noRedis", "info", "hash"},
              masters : Seq(RedisInfo), slaves : Seq(RedisInfo)]
  /\ logLv \in LogLevels /\ logType \in LogTypes
  /\ objects \in 0..MaxRequests
  /\ cut \in BOOLEAN /\ changes \in 0..MaxChanges /\ taken \in 0..MaxRequests
  /\ pc = "getSlaveByMasterName" <=> todo # <<>>

\* The masters of a deployment as an answer lists them.
Listing(v) == [i \in DOMAIN v.order |->
                 [name |-> v.order[i], addr |-> v.master[v.order[i]]]]

\* The slaves of a pool that come before the first one that is not healthy.
Usable(v, p) ==
  LET down == SelectInSeq(v.slaves[p], LAMBDA x : x.flags # "slave")
      healthy == IF down = 0 THEN v.slaves[p] ELSE SubSeq(v.slaves[p], 1, down - 1)
  IN  [i \in DOMAIN healthy |-> [name |-> p, addr |-> healthy[i].addr]]

UsableListing(v) == FlattenSeq([i \in DOMAIN v.order |-> Usable(v, v.order[i])])

\* A request that asks for a list of masters gets every master of one moment of
\* the request, or none: an answer of "info" cut anywhere, or a deployment that
\* changes between the two calls of the request, never yields a part of the
\* list or a mixture of two.
MastersAllOrNothing ==
  rsp.kind = "info" /\ pc = "idle" /\ req.poolName = <<>> =>
    rsp.masters \in {<<>>} \cup {Listing(v) : v \in views}

\* Every instance answered as a slave was a healthy slave of that pool, and
\* every one answered as a master its master, at some moment of the request,
\* however the answers were cut: a slave whose flags did not arrive is not
\* taken for healthy, nor are the fields of two slaves mixed.
InstancesAreGenuine ==
  pc = "idle" =>
    /\ \A i \in DOMAIN rsp.masters :
         \E v \in views : v.master[rsp.masters[i].name] = rsp.masters[i].addr
    /\ \A i \in DOMAIN rsp.slaves :
         \E v \in views : \E j \in DOMAIN v.slaves[rsp.slaves[i].name] :
           v.slaves[rsp.slaves[i].name][j] = [addr |-> rsp.slaves[i].addr,
                                              flags |-> "slave"]

\* Undisturbed: no call was cut, and nothing changed, behind a peer that knows
\* its instances by IPv4 addresses.
Undisturbed(v) ==
  /\ ~cut /\ views = {v}
  /\ \A p \in ToSet(v.order) :
       /\ v.master[p] \in IPv4
       /\ \A i \in DOMAIN v.slaves[p] : v.slaves[p][i].addr \in IPv4

\* An undisturbed listing is exact: all masters, for every pool the slaves
\* before its first unhealthy one, or of the pools asked for the first instance
\* of each that has one, in the order asked.
UndisturbedListingIsExact ==
  rsp.kind = "info" /\ pc = "idle" /\ Undisturbed(view) =>
    LET first(p, list) == SelectInSeq(list, LAMBDA info : info.name = p)
        picked(list) ==
          IF req.poolName = <<>> THEN list
          ELSE LET known == Those(req.poolName, {info.name : info \in ToSet(list)})
               IN  [i \in DOMAIN known |-> list[first(known[i], list)]]
    IN  /\ rsp.masters = IF MasterBit(req.redisType) THEN picked(Listing(view)) ELSE <<>>
        /\ rsp.slaves = IF SlaveBit(req.redisType) THEN picked(UsableListing(view)) ELSE <<>>

\* Whatever order the peer lists its masters in, and however often "info" is
\* cut, a key asked for without pools falls on one pool only, the one at its
\* index among the names in their own order: no two requests for the key of a
\* master disagree unless pools come and go.
MasterOfKeyIsStable ==
  rsp.kind = "hash" /\ pc = "idle" /\ req.redisType = 1 /\ req.poolName = <<>> =>
    \E v \in views :
      LET names == Those(Pools, ToSet(v.order))
          n == Len(names)
          index == IF req.type = 2
                     THEN RedisComHash(KeyChars[req.hashKey], HashRange, n)
                     ELSE RedisCrc32Hash(Crc32[req.hashKey], n)
      IN  /\ Len(rsp.masters) = 1
          /\ index \in 0..(n - 1)
          /\ rsp.masters[1].name = names[index + 1]

\* A key falls on one instance whatever calls are cut, hashes that are negative
\* as an int included: on the first of the pool at the key's index among the
\* pools it is to choose from, in the order of their names or of the request.
\* When nothing is cut or changes these are all the pools that have an instance
\* of the kind asked for; a pool whose slaves did not arrive is left out, and
\* moves keys of the others.
KeyFallsOnItsPool ==
  rsp.kind = "hash" /\ pc = "idle" =>
    LET index(n) == IF req.type = 2
                      THEN RedisComHash(KeyChars[req.hashKey], HashRange, n)
                      ELSE RedisCrc32Hash(Crc32[req.hashKey], n)
        wanted == IF req.poolName = <<>> THEN Pools ELSE req.poolName
        instances(p) == IF req.redisType = 2 THEN Usable(view, p)
                        ELSE <<[name |-> p, addr |-> view.master[p]]>>
        all == {p \in ToSet(view.order) : instances(p) # <<>>}
        found == rsp.masters \o rsp.slaves
        FallsAmong(S) ==
          LET pools == Those(wanted, S)
          IN  pools # <<>> /\ found[1].name = pools[index(Len(pools)) + 1]
    IN  /\ Len(found) = 1
        /\ \E S \in SUBSET UNION {ToSet(v.order) : v \in views} : FallsAmong(S)
        /\ Undisturbed(view) =>
             FallsAmong(all) /\ found[1] = instances(found[1].name)[1]

\* A request for masters and slaves of given pools makes two getMaster calls,
\* and the second replaces the map of the first: no slave is answered for a
\* pool without its master.
SelectedSlavesHaveTheirMaster ==
  rsp.kind = "info" /\ pc = "idle" /\ req.redisType = 3 /\ req.poolName # <<>> =>
    {rsp.slaves[i].name : i \in DOMAIN rsp.slaves} \subseteq
      {rsp.masters[i].name : i \in DOMAIN rsp.masters}

\* The log configuration changes through a request of type 4 whose two values
\* are both legal, or left out, and then every value given takes effect: one
\* illegal value leaves both as they were.
LogConfigAllOrNothing ==
  [][UNCHANGED configVars
     \/ /\ pc = "idle" /\ req'.type = 4
        /\ req'.logLv \in LogLevels \cup {-1} /\ req'.logType \in LogTypes \cup {-1}
        /\ req'.logLv # -1 => logLv' = req'.logLv
        /\ req'.logType # -1 => logType' = req'.logType]_vars

\* The first request that ends leaves its Sentinel object behind only if it listed all
\* instances, asked for a key among masters and slaves at once, or found nothing
\* for its key: the last never of an undisturbed peer one of whose pools asked
\* for has an instance.  Nothing is left of a request without calls.
ObjectsLeftExplained ==
  pc = "idle" /\ taken <= 1 /\ objects # 0 =>
    \/ req.type = 1 /\ req.poolName = <<>>
    \/ req.type # 1 /\ req.redisType = 3
    \/ /\ req.type \in 2..3
       /\ Undisturbed(view) =>
            \A p \in ToSet(view.order) :
              \/ req.poolName # <<>> /\ p \notin ToSet(req.poolName)
              \/ req.redisType = 2 /\ Usable(view, p) = <<>>

\* The request as its client sees it.
Abstract == INSTANCE Lookup WITH phase <- pc, seen <- views, answer <- rsp,
                                 config <- configVars

\* Every request implements Lookup: one response, made of the instances of its
\* own time, and no configuration changed on the way.
ImplementsLookup == Abstract!LSpec

\* The service handles one request at a time and waits in its calls: every
\* request is answered in the end, with any number of masters to ask about.
EveryRequestAnswered == pc # "idle" ~> pc = "idle"

-----------------------------------------------------------------------------
(* What the documentation says.                                            *)

\* The help text (logicEntrance.cpp:29) lists -port among the parameters that
\* are not optional, and line 111 means to reject a request without it.
MissingPortRejected ==
  pc = "idle" /\ asked.type \in 1..3 /\ "port" \notin DOMAIN asked =>
    rsp.kind = "help"

\* The help text (logicEntrance.cpp:47): "to change log type and level, should
\* input : -type 3 -logLv 1".
HelpExampleSetsLogLevel ==
  asked = [type |-> 3, loglv |-> 1] /\ pc = "idle" => logLv = 1

\* The comment on pharseSlave (sentinel.cpp:134) says it gets all the slaves:
\* every healthy slave is in an undisturbed listing.
AllSlavesListed ==
  /\ rsp.kind = "info" /\ pc = "idle" /\ Undisturbed(view)
  /\ SlaveBit(req.redisType) /\ req.poolName = <<>>
  => \A p \in ToSet(view.order) : \A i \in DOMAIN view.slaves[p] :
       view.slaves[p][i].flags = "slave" =>
         \E j \in DOMAIN rsp.slaves :
           rsp.slaves[j] = [name |-> p, addr |-> view.slaves[p][i].addr]
=============================================================================
