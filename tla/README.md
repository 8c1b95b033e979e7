# Verification of socketRedisSentinel

socketRedisSentinel is a small network service in C++ on libevent. A client
sends it a request over TCP, HTTP or HTTPS that names a Redis Sentinel; the
service asks that sentinel about its masters and their slaves and answers with
their addresses, or with the one address a hash of a key falls on. Everything
runs in one process and one thread; a callback that handles a request waits in a
second, nested event loop for each outbound call.

This directory holds TLA+ models of the service, their TLC configurations, and
theorems proved with TLAPS about the outbound call, the two readers of replies
and of requests, the requests, the service process, its starts and stops and its
log. Paths below are relative to
the root of the repository (`src/x.cpp`, `include/x.h`); `PROJECT.json` names
the lines behind every definition.

## 1. The system

| Part | State | Operations | Hard behaviour |
|---|---|---|---|
| `EventTcpClient` (`src/eventTcpClient.cpp`), with the RESP completeness test (`src/hiRedisRespUtils.cpp`) | `m_base`, `m_rcvData`, `m_rcvDataSize`, a bufferevent and a timer that live in `doRequest` | `doRequest`, `eventCb`, `readCb`, `reqTimeoutCb`, destructor | the reply comes in any pieces; timer, end of connection and data race; four ways out with different things released |
| `Sentinel` (`src/sentinel.cpp`) | `m_masterRedis`, `m_slaveRedis` | `getMaster`, `pharseSlave`, `getRedisByType`, two hashes | answers cut anywhere; the deployment changes between calls |
| `LogicEntrance` (`src/logicEntrance.cpp`) | none of its own; one `Sentinel` object on the heap for each request | `handleReq`: lists, two hash requests, log configuration, help | several calls in one request |
| `Config` (`src/config.cpp`) | log level, log type | setters | set in pairs |
| `EventTcpServer` (`src/eventTcpServer.cpp`) | one bufferevent for each client | `listenerCb`, `readCb`, `eventCb`, `trimCR`, `pharseReq` | no framing; clients that close or half-close |
| `HttpComHandle` (`src/httpComHandle.cpp`) | none | `httpReqEntrance`, the two parsers of POST bodies | early returns whose reply the caller does not know of |
| `EventServer` (`src/eventServer.cpp`), `EventHttpServer`, `EventHttpsServer` | the base and the listeners | `init`, `signalCb` | signals against handlers; a port that cannot be bound |
| `main`, `Demonize`, `bin/stop.sh` | processes and the ports they hold | two forks, `init`, exits; a stop looks processes up and signals them | starts and stops overlap, nobody waits for anybody |
| `Logger`, `Utils::printLog` (`src/logger.cpp`) | the files of `./log` | a line: directory of the day, rotation by size, append | several processes, one directory; the clock is read three times for a line |

They interact by calls only: `main` → `Demonize::initSrv` → `EventServer::init`
→ the event loop → `readCb` or `httpReqEntrance` → `LogicEntrance::handleReq` →
`Sentinel` → `EventTcpClient::doRequest` → a loop of its own. State is shared
in one place in memory, `Config`, and in two outside: the ports and the log
directory, which processes of the service compete for. There are no threads:
interleaving comes from the clients, the peer, the network, signals and time,
from the order in which the two loops see what these do, and from the processes
a start goes through.

What makes each part correct: the client hands over exactly what arrived,
always returns, and leaves nothing armed; the parsers never make an instance out
of a cut answer; a response is about moments of its own request; the log
configuration changes wholly or not at all; every client gets its own answers,
in order; only known causes end the process; overlapping starts leave one
service, and enough stops leave none; no line of the log is lost by rotation.
`PROJECT.json` lists the hazards
line by line, with the properties aimed at each.

## 2. Modules

Core, in the order they were written:

- **`RespReply`** — `hiRedisRespUtils.cpp` and `checkReadDataCompleted` as pure
  operators. A reply is its size and its lines (offset, flag, number, width);
  `ProcessItem(reply, n)` is what the parser does with the first n bytes,
  exceptions included.
- **`ReplyArrival`** — a reply that arrives byte by byte, the test asked about
  every prefix. `WellFormed` is what a reply has to be.
- **`TcpClient`** — `EventTcpClient::doRequest` and its callers in
  `sentinel.cpp`. `phase` is where the call stands; each `DoRequest...` action is
  one way into or out of `doRequest`; `ReadCb`, `EventCb`, `ReqTimeoutCb` are the
  callbacks; `Delete` and `Abandon` are the two things callers do afterwards.
  `kernel` is what libevent has not read, `handles` counts event bases and
  sockets.
- **`BoundedCall`** — what the callers may rely on: false and nothing, or true
  and a prefix of the peer's reply. `TcpClient` is shown to implement it.
- **`TcpClientProofs`** — the theorems about both.
- **`Sentinel`** — `sentinel.cpp` as operators. An answer is a sequence of cells
  (a count, a master's line, a field of a slave), so that it can be cut at every
  place the parsers tell apart.
- **`LogicEntrance`** — one request, cut into the pieces of code between two
  outbound calls. A call brings any prefix of the peer's answer at the time it
  returns, which is what `BoundedCall` promises; between calls the deployment
  (`view`) may fail over, lose or regain slaves, or be relisted. `views` gathers
  the deployments a request may have been answered from, `objects` counts the
  `Sentinel` objects handlers have made and not deleted.
- **`Lookup`** — what a client may rely on: one response for each request, made
  of instances the deployment had meanwhile, the configuration untouched.
  `LogicEntrance` is shown to implement it.
- **`SequenceLemmas`** — what the proofs need of sequences: folds, `FlattenSeq`,
  `SelectInSeq`, minima, and induction in the form of sets.
- **`SentinelLemmas`** — what the operators of `Sentinel` return: `GetMaster`,
  `ParseSlaveInfo` and `PharseSlave` for an answer cut after any cell, `ByName`,
  `GetRedisByType`, and the range of both hashes.
- **`LogicEntranceProofs`** — the inductive invariant of a request, six of its
  safety properties, the refinement of `Lookup`; then a second invariant, of
  undisturbed requests, and the three properties that say exactly what comes out.

Front end:

- **`ParamText`** — `pharseReq`, `trimCR`, `parseFormData`, `simpleJsonToMap`,
  `httpBodyToClientReqInfo`: from the characters of a request to its parameters.
  Here the conversion is what the properties are about, so texts are sequences
  of characters.
- **`ParamTyping`** — what clients write: a request in each of the three forms,
  or any characters.
- **`ReaderProofs`** — the theorems about the two readers, the completeness test
  (`ReplyArrival`) and `pharseReq` (`ParamTyping`).
- **`EventServer`** — the process: binding, signals, the loop, TCP and HTTP
  callbacks, clients that send requests whole or in parts, half-close or close.
  A request's meaning is left to the two modules above.
- **`Dialogue`** — what one TCP client may rely on. `EventServer` is shown to
  implement it for every TCP client.
- **`EventServerProofs`** — its theorems: the type invariant, what each action
  does to each client, the safety properties and the refinement of `Dialogue`.

Around the service:

- **`Daemon`** — starts and stops. A start `s` is the processes `<<s, 1>>` (the
  command), `<<s, 2>>` and `<<s, 3>>` (the daemon); `st` is how far each is,
  `bound` the servers whose ports it holds. `Listen`, `PortTaken` and `InitFails`
  are the outcomes of each `create...Server`, `FreeServer` and `InitReturns` the
  way out of `init`; `Pgrep` and `Kill` are `bin/stop.sh`; `Terminate` is what
  SIGTERM does at each place.
- **`DaemonProofs`** — its theorems.
- **`Logger`** — `printLog`, `logToFile` and `openFile`, one action for each
  system call whose result may be stale at the next one. Files have identities,
  and `named` says which file a name means, so that a process can write to a
  file another one has renamed.
- **`LoggerProofs`** — its theorems.

`MC*` modules hold the instances for TLC. The modules compose through their
abstractions: `LogicEntrance` uses of `TcpClient` only what `BoundedCall` says
and that calls return; `EventServer` uses of `LogicEntrance` only that handlers
return (`EveryRequestAnswered`); `Daemon` uses of `EventServer` that a signal ends
the loop (`SignalStops`) and that it may end otherwise (`ExitExplained`).

## 3. What the runs show

Passing runs:

| Run | Instance | Shows |
|---|---|---|
| `reply_arrival` | eleven replies: error line, bulk, nil bulk, flat array, arrays of 0–3 slaves, arrays among other elements, in one another, empty and with a nil | `EntireReplyIsComplete`: the test is never late, except for a nil bulk string. `EarlyOnlyInArrays`: it is early in two situations only, a header cut before its CRLF, and an array of arrays of which the first inner one is there with its elements. |
| `tcp_client` | three replies, reads of at most 4 bytes, 3 descriptors, 4 calls | the data path (`NothingLostOrRepeated`), why an answer is cut (`CutOnlyIfInterrupted`), descriptors (`HandlesBalance`), callbacks (`NothingArmedOutsideLoop`), termination (`EveryCallReturns`), and the refinement of `BoundedCall`, liveness included |
| `logic_entrance` | two pools, three deployments to begin with, two changes during a request, 28 requests | lists are all or nothing; every instance answered was genuine at some moment of the request; undisturbed listings are exact; a key stays with its master whatever the peer's order; a key falls on the pool its hash says among those that have an instance (`KeyFallsOnItsPool`); slaves come with their masters; which requests leave their `Sentinel` object behind (`ObjectsLeftExplained`); the log configuration changes wholly or not at all; every request is answered; the refinement of `Lookup` |
| `param_typing` | all requests of up to 3 parameters and all texts of up to 7 of five characters | `FrontEndsAgree`: one meaning in three forms. `ValueFollowsName`: no value goes astray whatever is typed |
| `event_server` | one TCP and one HTTP client, two requests each, three servers | `AnswersCoverInput`: no byte of a TCP client is lost or answered twice. `InTurnServed`: no framing is needed by a client that waits for each response. `HttpRepliesInStep`: an HTTP client may count replies, up to a request whose parameters cannot be read. `ExitExplained`: which end has which cause. The refinement of `Dialogue` (`TalksAsDialogue`) |
| `event_server_live` | one client of each kind, reads that cut a request | `SignalStops`, `EveryPieceAnswered` |
| `daemon` | two starts, three stops, one failure or crash, two servers | `OneServiceUnlessStopped`: two starts never end in two services, and in none only after a failure or a stop that hit something. `ThreeStopsSuffice`: a start under way can slip through two stops, not through three. `EverythingSettles`: what is left in the end serves and has not been told to stop |
| `logger` | two processes, four lines, one fault, the clock set back once | `LinesKeptInOrder`: no line is lost, repeated or reordered by rotation; `SizeBounded`; `RotatedFilesSurvive`: the four ways in which a rotated file can be replaced; `FiledUnderItsDay` |

Runs in which TLC finds a statement of the repository violated:

| Run | The code | The statement |
|---|---|---|
| `tcp_client_entire` | the answer for a master with two slaves counts as complete when its first slave is there, because `src/hiRedisRespUtils.cpp:79` advances past the header of a nested array only: in the trace one read brings the 23 bytes of the first slave, of 42, and reading stops | `src/eventTcpClient.cpp:156`: "check the data received from server entirely" |
| `no_port` | a `uint16_t` is compared with -1 (`src/logicEntrance.cpp:111`), so a request without port is carried out with port 65535 | the help text lists `-port` as not optional |
| `help_example` | `-type 3` is a hash request | the help text: "to change log type and level, should input : -type 3 -logLv 1" |
| `all_slaves` | `break` at the first unhealthy slave of a master (`src/sentinel.cpp:148`) | the comment on `pharseSlave`: get all the slaves |

Each property has a mutant in `PROJECT.json`: an operator beside the one it
replaces, named as a slip or a mutant in its comment, that makes TLC find the property
violated.

`CompleteMeansEntire` sets apart the other way in which the test is early, which needs
a read that ends within the header of an array: `processMultiBulkItem` returns an
empty array where the other items throw (`src/hiRedisRespUtils.cpp:75` has no else).
`EarlyOnlyInArrays` has both.

Behaviours the models show that no text of the repository speaks of:

- An HTTP request whose parameters cannot be read is replied to twice
  (`UnreadReplies`). The second `evhttp_send_reply` keeps the first one's
  `Content-Length: 0`, so what follows the 400 is an empty 200 and a help text that
  belongs to no reply. `HttpRepliesInStep` holds up to such a request and says
  nothing of what comes after it.
- A form or JSON POST without a body ends the process (`HttpEmpty`).
- The text of a line of the log, which holds what clients (and the peer) have
  sent, is taken for a format of `vsnprintf` (`Misprint`): a request that brings a
  conversion may end the process before it is served. Which requests do is the
  constant `Formats`, any set of them.
- A write to a client that has closed ends the process if an earlier one was
  answered with a reset (`FlushLost`, `BrokenPipe`): `SIGPIPE` is neither ignored nor
  handled. Two responses to one connection do it, or one that is longer than the
  16384 bytes libevent writes at a time.
- `ExitExplained` relates each status to its cause, and for the three ends a client
  brings about it says more: the request that has brought it about is one that its
  client has sent and has not got all the replies to. So a client that leaves with
  all it asked for, or a request that has been served, never ends the service
  later. Signals whose default action is to kill end it at any time (`Kill`).
- A stop by signal exits with 2, as a failure does, and drops the responses that
  were still to be written.
- A list of all instances always leaves its `Sentinel` object on the heap, and a
  hash request does when nothing is found for it.
- A domain whose first address is an IPv6 one is called at an address nobody has
  set (`Answering`): `domain2ip` asks for both families, `doRequest` for IPv4 only,
  and the result of `inet_pton` is not looked at. Another deployment may answer.
- A start reports 0 whatever becomes of its daemon; a restart that meets the old
  daemon while it frees its servers one by one ends with no service running.
- A stop can miss a process that forks between `pgrep` and `kill`. The comment
  in `bin/stop.sh` speaks of SIGKILL; the signal sent is SIGTERM, which the
  service catches while its loop runs.
- Two processes that rotate the log in the same second can replace a full file
  by a nearly empty one (`RotatedFilesSurvive` names the cases).

### Bounds

- `MaxRead` is libevent's 4096 bytes per read; a smaller value makes reads cut
  and join replies of a few bytes the way 4096 does with real ones. Replies keep
  the structure of real ones with short fields.
- `HandleLimit` counts event bases and sockets as one descriptor each. With 3, a
  call is still possible after one failed call has left its base behind and no
  call after two, so every way out of `doRequest` is taken on both sides of the
  limit.
- `MaxCalls` (4) lets two leaks and two good calls follow each other in any order.
- `MaxChanges` (2): a failover and a change of another kind; two is what it takes
  to make a mixture of two deployments out of the two `getMaster` calls.
- `MaxRequests`: in `LogicEntrance` requests share nothing but `Config`, the log
  configuration before a request is the same in every state, and a request sets
  it in one step: hence 1. In `EventServer` it is given for each client; a request may be sent in two parts, so two requests are up to four
  pieces against reads of two.
- `Formats`: the second request of the TCP client and the first of the HTTP client,
  so that each has requests of both sorts, before and after each other; in the run
  about liveness every first request, so that no client is spared. A part of a
  response is not counted in bytes: a write to a client that is gone moves any
  number of whole responses, and the first of the rest may be written in part
  (`FlushLost`).
- `HashRange` is 65536, 2^32 in the code: TLC's integers have 32 bits. The sign bit, the wrap and the
  signed characters are those of the code; the keys are chosen so that one hash
  is negative.
- `MaxPairs`, `MaxText`: a repeated parameter with another between, and a text
  that holds two flags.
- `Daemon`: `MaxStarts` (2) makes two starts, or a start and the daemon before
  it, compete for the ports; `MaxStops` (3) is what `ThreeStopsSuffice` speaks of,
  and with 2 instead of 3 in it TLC finds the start that slips through.
  `MaxTroubles` (1): a second failure only ends another process.
- `Logger`: `MaxBytes` 0 lines, so that every second line may rotate; a day of two
  seconds, so that two rotations fall into one second, into two, and on both
  sides of midnight; three lines of one process, so that a file it has rotated
  can be replaced by another of its own.

### Fairness

- `TcpClient`: weak fairness of the start of `doRequest`, of the timer and of
  the return of a loop told to exit. All three are the process's own doing; of
  the peer and the network nothing is assumed, so `EveryCallReturns` rests on the
  timer alone.
- `LogicEntrance`: weak fairness of the return of a call, which is
  `EveryCallReturns`. Nothing about clients or the deployment.
- `Lookup`: the leads-to that `EveryRequestAnswered` states too; it has no
  fairness of its own.
- `Daemon`: weak fairness of each process's own steps and of the signals of a
  script that has begun. A process runs on by itself, and its loop answers a
  signal (`SignalStops`); nothing makes anybody start or stop the service, and
  nothing makes anything fail.
- `Logger`: none, it has safety properties only.
- `EventServer`: handlers return (weak; `EveryRequestAnswered`), and the loop
  gives a ready descriptor or signal its turn though other handlers come between
  (strong, because readiness is interrupted by every handler: libevent's loop
  goes through all active events before it polls again). Nothing about clients
  or about when signals come.

Deadlock is not checked in runs that end by their bounds, and in `EventServer`
because the process exits.

## 4. What is proved

Every theorem holds for all values of the constants that satisfy the named
assumption of its module; the bounds (`MaxCalls`, `MaxRequests`, ...) are any
natural numbers. The assumptions type the constants and exclude no instance
that the program could be run with; the one of `ReplyArrival` says what a reply of
the protocol is, and the run evaluates it on its eleven replies.

| Module | Theorems | Statement |
|---|---|---|
| `TcpClientProofs` | `Inductive`; `TypeCorrect`, `StreamIntact`, `HandlesAccounted`, `NothingArmed`, `CutExplained` | `Spec => []IInv` and the five safety properties of the run `tcp_client` |
| | `Refinement` | `Spec => Abstract!BCSafety`: every call is a call of `BoundedCall` |
| `LogicEntranceProofs` | `Invariance`; `TypeCorrect`, `WholeLists`, `GenuineInstances`, `SlavesHaveMasters`, `StableMaster` | `Spec => []IInv` and five invariants of the run `logic_entrance` |
| | `LogConfigGuarded` | the action property `LogConfigAllOrNothing` |
| | `Refinement` | `Spec => Abstract!LSafety`: every request is a lookup of `Lookup` |
| | `Progression`; `ExactListing`, `KeysFall`, `LeftObjects` | `Spec => []EInv` and the other three invariants of `logic_entrance` |
| `EventServerProofs` | `TypeInvariance`, `TypeCorrect` | type correctness, with what the stages of the loop imply |
| | `AnswersCover`, `ServedInTurn`, `RepliesInStep`, `EndsExplained` | the four other invariants of the run `event_server` |
| | `Talks` | `Spec => TalksAsDialogue`: for every TCP client the process implements `Dialogue` |
| `DaemonProofs` | `Invariance`; `TypeCorrect`, `OneService`, `ThreeStops` | `Spec => []IInv` and the three invariants of the run `daemon` |
| `LoggerProofs` | `Invariance`; `TypeCorrect`, `LinesKept`, `SizeIsBounded`, `RotatedSurvive`, `FiledRightly` | `Spec => []IInv` and the five invariants of the run `logger` |
| `ReaderProofs` | `NeverLate`, `EarlyExplained` | the two invariants of the run `reply_arrival`, for every well-formed reply |
| | `NothingAstray` | `ValueFollowsName` of the run `param_typing`, for every text |

`SequenceLemmas` and `SentinelLemmas` hold the facts about operators these rest on.

### The outbound call

From `TcpClientAssumption`: sizes and limits are natural numbers, a read moves
at least one byte.

The safety properties are not inductive as they stand. `HandlesBalance`
needs to know, when the loop ends, that the bufferevent exists, and when the
client is deleted, that its base does (`Holdings`). `StreamIntact` starts over
with each client, so the buffers of a constructed client must be empty and the
result must be what was gathered (`Buffers`). `CutOnlyIfInterrupted` is about a
returned call, so the reason why its loop ended has to be carried along: a loop
exits exactly when something has called `loopexit`, and if that was completeness,
the test held of as many bytes as there are (`Causes`). `IInv` is the conjunction
with `TypeOK` (in `TcpClientProofs`), and there is one lemma for each of
its four parts. Bytes are named by their place in the reply, so that the data
path is arithmetic on intervals: `BytesConcat` and `MovePrefix` are the two
lemmas about sequences it rests on. `CutExplained` uses the completeness test
only through `CompleteAt(reply)`, the set of lengths it accepts: the result holds
whatever that set is.

### A request

From `LogicEntranceAssumption` and `SentinelAssumption`: the peer's orders are
sequences of pool names, IPv4 addresses are addresses, a request names its type,
a key has characters and a CRC, hashes have a positive range.

The properties speak of a response; what makes them true happens in the calls
before it. `IInv` therefore says where the lists of a waiting handler come from:

- `Lists`: `masters` and the map `masterRedis` come each from the whole list of
  one deployment in `views`, or from nothing (not the same one: `getMaster` runs
  twice, and the deployment may have changed); every slave gathered was a
  healthy one of its pool in a deployment of `views`; and the map has a master
  for every slave gathered and every pool still to ask about. The last part is
  why a response has no slave without its master, although masters and slaves
  come from different calls.
- `Stages`: which lists are still empty where, and that the request is one that
  is served.
- `Heap`: a handler under way has its `Sentinel` object.
- `Answered`: the properties of the response. Each is an operator of the request,
  the response and `views` (`Genuine`, `AllOrNothing`, `HaveMasters`, `Stable`,
  `Falls`), proved of what `Answer` makes of any lists that satisfy `Lists`.

The invariant survives cut answers because of what the parsers do with a prefix.
`SentinelLemmas` proves it for a cut after any number of cells: `GetMaster`
returns the peer's whole list or nothing (`GetMasterIs`); `ParseSlaveInfo` returns
nothing or a map for each slave, of which only the last can lack fields
(`ParseSlaveInfoIs`); `PharseSlave` adds the first few slaves of the pool, all of
them healthy and with IPv4 addresses, or forgets what it had (`PharseSlaveIs`).
Both hashes stay within their range whatever the key, so an index never leaves
its list. `views` only grows during a request, and so does all that is said of it.

Exactness is a second invariant beside the first. As long as nothing disturbs
the request (one deployment, no cut, IPv4 addresses), `Progress` says that the
masters asked and the masters to ask make up the peer's list, and that the slaves
gathered are those of the former; `Exactly` and `Left` follow when the last call
returns. What `GetRedisByType` picks of these lists for a
request is shown to be what the property picks of the peer's listing (`PickedIs`).

The refinement maps `phase` to `pc`, `seen` to `views`, `answer` to `rsp` and
`config` to the log configuration. `IInv` is needed at an answer, which must be
made of what was seen; the other steps refine by what they leave alone.

### The service process

From `EventServerAssumption`: TCP and HTTP clients are different, there is a
server, a read moves at least one piece, `Formats` is any set of requests.

Each client has seven variables, and almost every action changes those of one
client only. `EventServerProofs` proves once what a step can do to a client
(`ClientStep`: it stays as it is, or ends with the process, or goes through one of
the named changes), and every invariant is then proved for one client against
that list. Each property needs an invariant of its own:

- `AnswersCover` is inductive but for the start: a client that has not connected
  has nothing anywhere (`Fresh`). Pieces move from one stretch to the next, and the
  equation between what was sent and the stretches is regrouped at each step.
- `ServedInTurn`: `InTurn` says in which one place the last request of a client
  that waits for its responses is.
- `RepliesInStep`: `SentInOrder` (requests are numbered as they are sent), `Unread`
  (what waits on the wire is the end of what was sent) and `InStep`: as long as no
  request with unreadable parameters has been taken, the replies received, those
  buffered and the one request with the handler number as many as the requests
  taken, and each stands at the place of its request. After one, the next
  reply's number is beyond it too, so that the property says nothing of that reply.
- `EndsExplained`: a piece that is on the wire, with the handler or in a response
  on its way is one that has not been served, because every piece is in one place
  (`OnePlace`, in `Whereabouts`), the three replies to an unreadable request
  included: only the last of them ends it. Pieces differ from each other
  (`SentInOrder`), so one that was read is not read again. An end by a client
  then points at a piece under way.
- `Talks` is the step simulation for one client, with `TcpSent` (what a TCP client
  sends is a request or a part of one).

### Starts and stops

From `DaemonAssumption`: the servers are a non-empty sequence without repetition.

`IInv` has seven parts: types; `Lineage` (only the second child becomes a daemon);
`Ports` (which state holds which ports, and no port has two holders); `Told` (a
loop is left only by who was told to); `InOrder` (what is bound is an initial part
of `Servers`); `Unstopped` and `Missed`. `OneServiceUnlessStopped` rests on
`Unstopped`: while nothing fails and no stop hits anything, a start gives up at its
first port only, because another start holds it, so one start is always on its way
or serving. `ThreeStopsSuffice` rests on `Missed`: after the nth stop only a
process that has forked n times since the first one began can have been missed,
and a start forks twice.

### The log

From `LoggerAssumption`: finitely many processes, a day has seconds, limits and
bounds are natural numbers.

`IInv` is the five properties and what they need; TLC checked it on the instance
of the run before it was proved. The files stay as the system made them, numbered
in the order in which they were created, so that "later" is an order of numbers.

- `LinesKeptInOrder` rests on `Newest` (the current file of a day is its newest:
  a renamed file never becomes current again) and `Ahead`: a process that has a
  file open has no line in a later file of that day. It opened the newest one, and
  what others create meanwhile it has not written to. That nothing is lost or
  repeated is a count of line numbers: `Own` (a process under way has the line it
  logged last), `Blamed` (a line that is being logged was not dropped).
- `SizeBounded` is not inductive: several processes may be about to write to a
  file that each has found below the limit. `Room` says that the lines of a file
  and the processes about to write to it (`Pending`: it is open, or is what `fopen`
  would open) stay together within the limit and one line for each process. A
  process joins `Pending` of a file that is too long only by a rename that failed,
  or because another process has made the name current again, with a new file.
- `FiledUnderItsDay` needs `Timely`: the stamp of a line, the day of its directory
  and the clock are in that order while the clock is not set back.
- `RotatedFilesSurvive` needs to know what replaced what. `Rotated`: no current
  file has been rotated, none twice, every dated name is of a rotated file with
  that time of day. `InTime`: a process's own rotations are in the order of the
  clock. `Sighted`: a process that is about to rename has seen a file above the
  limit that is newer than all it rotated before, and files never shrink; within
  one second, that file is the one that explains the replacement.

### The two readers

From `ReplyArrivalAssumption`: every reply is `WellFormed`. That asks less than the
protocol's grammar does: units (a line, a bulk string with its body, a header of an
array) lie one behind the other from the first byte to the last; no header
announces more elements than there are units behind it; the outer array has
exactly its elements if none of them is an array, and otherwise its first inner
array is among them. From `ParamTextAssumption`: no parameter has an empty name.

The completeness test calls itself on what is left of the reply. `ItemsSolve` shows
that such a function exists, from the end of the reply towards its beginning
(an item depends only on items further behind). `WholeUnit` and `AllPassed` say that
units that are there with all they need are passed one by one, which is
`NeverLate`; the number of elements left never exceeds the number of units left,
because a nested array gives its elements back to the outer one (line 79). `UnitSays` and
`PassesSay` say what is known if the test returns before the end: every unit it
passed was there, up to the first nested array (`FirstNestedPassed`), and so were as
many units behind that one's header as it has elements. That is `EarlyExplained`.

`NothingAstray` is an induction on the characters in front of an offset.
`Collected` is the invariant: what is in `ss` is the stretch of the text behind
the flag, or behind the name and its blank; a `key` that is not empty is a name
that stands behind a flag and in front of a blank; and every parameter given so far
follows its name. The case that needs care is a dash right behind a
name's blank: it begins another flag while the old name is kept (`Standing`, its
last part), and only the end of the text can give that name a value.

### How induction is done

The prover cannot instantiate a theorem that takes an operator as a parameter, so
induction is stated about sets: a set of numbers that has 0 and the successor of
each of its members has them all (`SetInduction`), and a set of sequences that has
the empty one and is closed under `Append` has them all (`AppendInduction`).
With them `FlattenSeq`, `SelectInSeq`, `Min`, the filter and the two scans of
`Sentinel` and its hashes, all of them folds or recursive functions, have lemmas for
sequences of any length.

### Only model-checked

- Liveness (`EveryCallReturns`, `EveryRequestAnswered`, `SignalStops`,
  `EveryPieceAnswered`, `EverythingSettles`) and the fairness half of the
  refinements of `BoundedCall` and `Lookup`: the prover does not handle liveness
  under fairness.
- `FrontEndsAgree`: that a line, a form and a JSON object mean the same is an
  induction over the pairs of a request through three writers and three parsers,
  whose maps are built with the operators `:>` and `@@` of module `TLC`, unknown to
  the provers. The run has every request of up to three pairs.

## 5. What is not modelled

- The text of a log line and how it is put together (`FORMAT_ITEM...` in
  `include/utils.h`). Of a text that holds a conversion the model knows two outcomes,
  that the handler goes on and that the process ends (`Misprint`); what else reading
  an argument that is not there could do is left out. `openDir`, `getCurrentDateString` and `MyException` have no
  callers.
- TLS on a connection: `bevCb` hands it to OpenSSL.
- The command line: `-l` and `-t` are taken without a test; `LogicEntrance` begins
  with their defaults, and whichever lines of the log they keep from the file make
  no difference to `Logger`.
- The wording of responses, headers, percent-decoding in libevent.
- The byte before the buffer that `trimCR` reads when a text has one character
  (`src/eventTcpServer.cpp:38`): no parameter is read from such a text.
- Memory that is not released other than clients and `Sentinel` objects
  (`getcwd`'s buffer): no decision depends on it.
- Processes that are not of the service but that `pgrep -f` finds, because its
  pattern is in their command line.
- The Makefile and the workflow: they do not run with the service.
- libevent, the peer, TCP, the file system and the clock are modelled as the code
  uses them, and marked external in `PROJECT.json`: reads in order, any cut, an
  end after the data, a write to a closed connection answered by a reset; `rename`
  replaces, an open file stays what it is under any name.
- An exception that passes through libevent is taken to reach `main`, as it does
  on platforms whose C code has unwind tables.

## 6. Plan

Done: all the modules above, their runs, and the theorems of section 4, which
state every safety property of the passing runs but one, and the safety part of
the three refinements.

Next: `FrontEndsAgree`, one form after the other, with a lemma for what each parser
does with one pair and what is behind it. It needs an assumption about `Values`
and `Spellings` (none of the three forms' delimiters occurs in them), and the
parsers' maps written with `Put`.
