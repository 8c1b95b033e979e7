----------------------------- MODULE TcpClient -----------------------------
(***************************************************************************)
(* EventTcpClient::doRequest: one outbound request of the service to a     *)
(* Redis Sentinel, run in a libevent base of its own while the caller      *)
(* waits.  The network, the peer and the 3 second timer are free to act in *)
(* any order; the callbacks are the code's.                                *)
(*                                                                         *)
(* Bytes are named by their place in the reply, so rcvData and the kernel  *)
(* buffer are sequences of numbers.  One client object exists at a time,   *)
(* as the service handles one request at a time.                           *)
(***************************************************************************)
EXTENDS RespReply, Sequences

CONSTANTS Replies,      \* the replies the peer may have for a request
          MaxRead,      \* most bytes one libevent read moves (4096 in libevent)
          HandleLimit,  \* event bases and sockets the process can have open
          MaxCalls      \* bound: number of calls made

ASSUME TcpClientAssumption ==
  /\ \A r \in Replies : r.size \in Nat
  /\ MaxRead \in Nat \ {0}
  /\ HandleLimit \in Nat
  /\ MaxCalls \in Nat

VARIABLES
  phase,        \* "idle", "ready" (constructed), "loop" (dispatching), "returned"
  reply,        \* what the peer answers to this request
  conn,         \* "none", "connecting", "up", "eof", "error"
  arrived,      \* bytes of the reply that have reached this host
  kernel,       \* those the process has not read yet
  rcvData,      \* m_rcvData
  rcvDataSize,  \* m_rcvDataSize
  base,         \* m_base # NULL
  bev,          \* doRequest's bufferevent exists, and its socket
  timer,        \* reqTimeoutEvent: "none", "pending", "fired"
  exiting,      \* event_base_loopexit has been called on m_base
  cause,        \* history: what called it
  ret,          \* doRequest's value: "none", "true", "false"
  result,       \* the caller's string
  handles,      \* event bases and sockets the clients hold
  lost,         \* event bases of clients that were never deleted
  calls         \* history: calls made

netVars == <<reply, conn, arrived, kernel>>
dataVars == <<rcvData, rcvDataSize>>
loopVars == <<base, bev, timer, exiting, cause>>
retVars == <<ret, result>>
accountVars == <<handles, lost, calls>>
vars == <<phase, netVars, dataVars, loopVars, retVars, accountVars>>

\* The bytes from place a up to place b.
Bytes(a, b) == [i \in 1..(b - a + 1) |-> a + i - 1]

Least(a, b) == IF a <= b THEN a ELSE b

Init ==
  /\ phase = "idle"
  /\ reply \in Replies
  /\ conn = "none" /\ arrived = 0 /\ kernel = <<>>
  /\ rcvData = <<>> /\ rcvDataSize = 0
  /\ base = FALSE /\ bev = FALSE /\ timer = "none"
  /\ exiting = FALSE /\ cause = {}
  /\ ret = "none" /\ result = <<>>
  /\ handles = 0 /\ lost = 0 /\ calls = 0

-----------------------------------------------------------------------------
(* The caller: new EventTcpClient, doRequest, and delete or not.           *)

\* Sentinel::getRedisInfo and getSlaveByMasterName construct a client.
NewClient ==
  /\ phase = "idle"
  /\ calls < MaxCalls
  /\ phase' = "ready"
  /\ calls' = calls + 1
  /\ reply' \in Replies
  /\ conn' = "none" /\ arrived' = 0 /\ kernel' = <<>>
  /\ rcvData' = <<>> /\ rcvDataSize' = 0
  /\ base' = FALSE /\ bev' = FALSE /\ timer' = "none"
  /\ exiting' = FALSE /\ cause' = {}
  /\ ret' = "none" /\ result' = <<>>
  /\ UNCHANGED <<handles, lost>>

\* createEventBase fails: nothing is left for the epoll instance.
DoRequestNoBase ==
  /\ phase = "ready"
  /\ handles >= HandleLimit
  /\ phase' = "returned"
  /\ ret' = "false"
  /\ UNCHANGED <<netVars, dataVars, loopVars, result, accountVars>>

\* A slip: this early return releases the bufferevent and not the timer.
NotSentTimerArmed ==
  /\ phase = "ready"
  /\ handles < HandleLimit
  /\ phase' = "returned"
  /\ base' = TRUE /\ timer' = "pending"
  /\ handles' = handles + 1
  /\ ret' = "false"
  /\ UNCHANGED <<netVars, dataVars, bev, exiting, cause, result, lost, calls>>

\* bufferevent_socket_connect (no socket left, no route) or sendData
\* fails: the bufferevent and the timer are released, the base stays with the
\* client.
DoRequestNotSent ==
  /\ phase = "ready"
  /\ handles < HandleLimit
  /\ phase' = "returned"
  /\ base' = TRUE
  /\ handles' = handles + 1
  /\ ret' = "false"
  /\ UNCHANGED <<netVars, dataVars, bev, timer, exiting, cause, result,
                 lost, calls>>

\* The base, the bufferevent with its socket and the timer are set up, the
\* request is in the output buffer and event_base_dispatch runs.
DoRequestDispatch ==
  /\ phase = "ready"
  /\ handles + 1 < HandleLimit
  /\ phase' = "loop"
  /\ base' = TRUE /\ bev' = TRUE /\ timer' = "pending"
  /\ handles' = handles + 2
  /\ conn' = "connecting"
  /\ UNCHANGED <<reply, arrived, kernel, dataVars, exiting, cause, retVars,
                 lost, calls>>

\* The loop has been told to exit: doRequest frees the bufferevent (and closes
\* its socket) and the timer, hands over what was read and returns true.
LoopEnd ==
  /\ phase = "loop"
  /\ exiting
  /\ phase' = "returned"
  /\ bev' = FALSE /\ timer' = "none"
  /\ handles' = handles - 1
  /\ result' = rcvData
  /\ ret' = "true"
  /\ UNCHANGED <<netVars, dataVars, base, exiting, cause, lost, calls>>

\* Slips: the base is freed by the destructor and once more, or not at all.
DeleteFreesTwice ==
  /\ phase = "returned"
  /\ ret = "true"
  /\ phase' = "idle"
  /\ rcvData' = <<>> /\ rcvDataSize' = 0
  /\ base' = FALSE
  /\ handles' = handles - 2
  /\ UNCHANGED <<netVars, bev, timer, exiting, cause, retVars, lost, calls>>

DeleteKeepsBase ==
  /\ phase = "returned"
  /\ ret = "true"
  /\ phase' = "idle"
  /\ rcvData' = <<>> /\ rcvDataSize' = 0
  /\ base' = FALSE
  /\ UNCHANGED <<netVars, bev, timer, exiting, cause, retVars, accountVars>>

\* The caller deletes the client: ~EventTcpClient frees the data and the base.
Delete ==
  /\ phase = "returned"
  /\ ret = "true"
  /\ phase' = "idle"
  /\ rcvData' = <<>> /\ rcvDataSize' = 0
  /\ base' = FALSE
  /\ handles' = IF base THEN handles - 1 ELSE handles
  /\ UNCHANGED <<netVars, bev, timer, exiting, cause, retVars, lost, calls>>

\* The caller returns "" without delete: nothing refers to the client any more.
Abandon ==
  /\ phase = "returned"
  /\ ret = "false"
  /\ phase' = "idle"
  /\ base' = FALSE
  /\ lost' = IF base THEN lost + 1 ELSE lost
  /\ UNCHANGED <<netVars, dataVars, bev, timer, exiting, cause, retVars,
                 handles, calls>>

-----------------------------------------------------------------------------
(* The peer and the network.                                               *)

\* The peer accepts; eventCb runs with BEV_EVENT_CONNECTED, which does not end
\* the loop, and libevent flushes the request.
Connected ==
  /\ phase = "loop" /\ conn = "connecting"
  /\ conn' = "up"
  /\ UNCHANGED <<phase, reply, arrived, kernel, dataVars, loopVars, retVars,
                 accountVars>>

\* Some bytes of the reply arrive, in order.
PeerSends ==
  /\ phase = "loop" /\ conn = "up"
  /\ \E k \in 1..(reply.size - arrived) :
       /\ arrived' = arrived + k
       /\ kernel' = kernel \o Bytes(arrived + 1, arrived + k)
  /\ UNCHANGED <<phase, reply, conn, dataVars, loopVars, retVars, accountVars>>

\* The peer closes, resets, or refuses the connection: the rest of the reply
\* is lost.
PeerEnds ==
  /\ phase = "loop"
  /\ \/ conn = "up" /\ conn' \in {"eof", "error"}
     \/ conn = "connecting" /\ conn' = "error"
  /\ UNCHANGED <<phase, reply, arrived, kernel, dataVars, loopVars, retVars,
                 accountVars>>

-----------------------------------------------------------------------------
(* The callbacks.  While the base is exiting only a timer that was already *)
(* active may still be run.                                                *)

\* Slips: loopexit has no effect, the input buffer is not drained, the loop is
\* left after the first read.
LoopExitLost(why) == UNCHANGED <<exiting, cause>>
DrainNothing(k) == kernel
AnyReadCompletes(n) == TRUE

\* loopExitEventBase.
LoopExit(why) ==
  /\ exiting' = TRUE
  /\ cause' = cause \cup {why}

\* evbuffer_drain.
Drain(k) == SubSeq(kernel, k + 1, Len(kernel))

ReadDataCompleted(n) == CheckReadDataCompleted(reply, n)

\* EventTcpClient::readCb: libevent has moved at most MaxRead bytes into the
\* input buffer; all of it is appended and drained, and the whole of what was
\* received so far is tested.
ReadCb ==
  /\ phase = "loop" /\ ~exiting
  /\ Len(kernel) > 0
  /\ LET k == Least(Len(kernel), MaxRead)
     IN  /\ rcvData' = rcvData \o SubSeq(kernel, 1, k)
         /\ rcvDataSize' = rcvDataSize + k
         /\ kernel' = Drain(k)
  /\ IF ReadDataCompleted(rcvDataSize') THEN LoopExit("complete")
     ELSE UNCHANGED <<exiting, cause>>
  /\ UNCHANGED <<phase, reply, conn, arrived, base, bev, timer, retVars,
                 accountVars>>

\* EventTcpClient::eventCb with BEV_EVENT_EOF or BEV_EVENT_ERROR; what is in
\* the kernel buffer is read first.
EventCb ==
  /\ phase = "loop" /\ ~exiting
  /\ conn \in {"eof", "error"}
  /\ kernel = <<>>
  /\ LoopExit(conn)
  /\ UNCHANGED <<phase, netVars, dataVars, base, bev, timer, retVars,
                 accountVars>>

\* EventTcpClient::reqTimeoutCb.
ReqTimeoutCb ==
  /\ phase = "loop"
  /\ timer = "pending"
  /\ timer' = "fired"
  /\ LoopExit("timeout")
  /\ UNCHANGED <<phase, netVars, dataVars, base, bev, retVars, accountVars>>

-----------------------------------------------------------------------------
DoRequestStart == DoRequestNoBase \/ DoRequestNotSent \/ DoRequestDispatch
Callbacks == ReadCb \/ EventCb \/ ReqTimeoutCb
Peer == Connected \/ PeerSends \/ PeerEnds
Caller == NewClient \/ Delete \/ Abandon

Next == DoRequestStart \/ Callbacks \/ LoopEnd \/ Peer \/ Caller

\* The process runs: doRequest starts, the armed timer expires, and a loop told
\* to exit returns.  Nothing is assumed of the peer.
Fairness == /\ WF_vars(DoRequestStart)
            /\ WF_vars(ReqTimeoutCb)
            /\ WF_vars(LoopEnd)

Spec == Init /\ [][Next]_vars /\ Fairness

-----------------------------------------------------------------------------
(* Correctness.                                                            *)

Open(x) == IF x THEN 1 ELSE 0

TypeOK ==
  /\ phase \in {"idle", "ready", "loop", "returned"}
  /\ reply \in Replies
  /\ conn \in {"none", "connecting", "up", "eof", "error"}
  /\ arrived \in 0..reply.size
  /\ kernel \in Seq(Nat)
  /\ rcvData \in Seq(Nat)
  /\ rcvDataSize \in Nat
  /\ base \in BOOLEAN /\ bev \in BOOLEAN /\ exiting \in BOOLEAN
  /\ timer \in {"none", "pending", "fired"}
  /\ cause \subseteq {"complete", "timeout", "eof", "error"}
  /\ ret \in {"none", "true", "false"}
  /\ result \in Seq(Nat)
  /\ handles \in Nat /\ lost \in Nat /\ calls \in 0..MaxCalls

\* However the reply is cut into reads, what was received followed by what
\* waits in the kernel is what the peer sent so far: no byte is dropped,
\* repeated or reordered between bufferevent, m_rcvData and m_rcvDataSize.
NothingLostOrRepeated ==
  phase \in {"loop", "returned"} =>
    /\ rcvData \o kernel = Bytes(1, arrived)
    /\ rcvDataSize = Len(rcvData)

\* doRequest returns true for a whole answer and for a cut one alike; for a
\* reply whose end the completeness test finds exactly, a cut answer means the
\* call was interrupted: the timer expired, or the peer closed or reset.
CutOnlyIfInterrupted ==
  phase = "returned" /\ ret = "true" /\ Len(result) < reply.size =>
    \/ cause \cap {"timeout", "eof", "error"} # {}
    \/ ~Exact(reply)

\* Every event base and socket is accounted for: the clients hold what the call
\* in progress needs and what abandoned clients took with them, on each of the
\* four ways out of doRequest.
HandlesBalance == handles = lost + Open(base) + Open(bev)

\* The callbacks get a bare pointer to the client: outside the loop neither the
\* bufferevent nor the timer that hold it is alive, so no callback can run on a
\* deleted client, and an idle service keeps no base but the abandoned ones.
NothingArmedOutsideLoop ==
  /\ phase # "loop" => ~bev /\ timer # "pending"
  /\ phase = "idle" => ~base /\ handles = lost

\* The comment on checkReadDataCompleted (eventTcpClient.cpp:156, and
\* eventTcpClient.h:75): the data is received from the server entirely when
\* reading stops because it is complete.  Asked here of what does not end within
\* the header of an array, which processMultiBulkItem takes for an empty array.
CompleteMeansEntire ==
  phase = "returned" /\ cause = {"complete"} =>
    \/ Len(result) = reply.size
    \/ \E l \in reply.lines :
         l.flag = "*" /\ l.at < Len(result) /\ ~Terminated(l, Len(result))

\* The caller blocks the whole service in doRequest; it always comes back,
\* whatever the peer does, by the request timer if by nothing else.
EveryCallReturns == phase = "ready" ~> phase = "returned"

\* The detailed client is an implementation of what its callers rely on.
Abstract == INSTANCE BoundedCall WITH
  st <- IF phase = "idle" THEN "idle"
        ELSE IF phase = "returned" THEN "done" ELSE "calling",
  request <- reply,
  ok <- phase = "returned" /\ ret = "true",
  answer <- IF phase = "returned" THEN result ELSE <<>>

\* A client call is a bounded call: it returns false and nothing, or true and
\* a prefix of the peer's reply, and it does return.
ImplementsBoundedCall == Abstract!BCSpec
=============================================================================
