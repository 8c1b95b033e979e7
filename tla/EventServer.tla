----------------------------- MODULE EventServer -----------------------------
(***************************************************************************)
(* The service process: Demonize::initSrv, EventServer::init and the one   *)
(* event loop that serves TCP clients (EventTcpServer), HTTP clients       *)
(* (HttpComHandle) and signals.  A callback that handles a request waits   *)
(* in LogicEntrance::handleReq for its outbound calls, and until it is     *)
(* back no other callback of the loop runs.                                *)
(*                                                                         *)
(* What a client sends is a sequence of pieces, each the whole of a        *)
(* request or one of two parts of it; a response is known by the pieces it *)
(* answers.  What requests mean is in ParamText and LogicEntrance.         *)
(***************************************************************************)
EXTENDS Integers, FiniteSets, SequencesExt

CONSTANTS TcpClients, HttpClients,
          Servers,      \* what init binds, in order: tcp, http and, if built in, https
          MaxRead,      \* most pieces one libevent read moves
          MaxRequests,  \* bound: requests each client sends
          Formats       \* client and number of each request that brings a
                        \*   conversion of printf into the log

Clients == TcpClients \cup HttpClients

ASSUME EventServerAssumption ==
  /\ TcpClients \cap HttpClients = {}
  /\ Servers \in Seq(STRING) /\ Servers # <<>>
  /\ MaxRead \in Nat \ {0} /\ MaxRequests \in [Clients -> Nat]
  /\ Formats \subseteq Clients \X Nat

VARIABLES
  stage,        \* "init", "loop", "break" (loopbreak called), "exited"
  listening,    \* how many of Servers are bound
  status,       \* how the process ended: "none", "1", "2", "killed", "crash"
                \*   or "pipe"
  signalled,    \* what has arrived: "stop" (SIGINT, SIGTERM, SIGHUP), "other"
  conn,         \* client -> "none", "up", "eof" (it sends no more), "gone"
                \*   (closed both ways), "reset" (and it has answered a write
                \*   with a reset), "freed"
  wire,         \* client -> pieces sent and not read
  work,         \* client -> what handleReq is working on
  out,          \* client -> responses in the output buffer
  got,          \* client -> responses it has
  sent,         \* history: client -> all it has sent
  inTurn,       \* history: client -> it sent whole requests, each one after
                \*   the response to the one before
  left          \* history: clients that have closed both ways

procVars == <<stage, listening, status>>
connVars == <<conn, wire, work, out, got>>
historyVars == <<sent, inTurn, left>>
vars == <<procVars, signalled, connVars, historyVars>>

TcpParts == {"whole", "head", "tail"}

\* HTTP requests, as httpReqEntrance tells them apart: parameters it can read
\* (GET, or POST of a form or JSON); parameters it cannot (a URI that does not
\* parse, a POST of another content type); a form or JSON POST without a body;
\* any other method.
HttpKinds == {"read", "unread", "empty", "other"}

\* The code of a reply is 200 or 400, and 0 for bytes outside any reply.
Response(pieces, code) == [of |-> pieces, code |-> code]

Init ==
  /\ stage = "init" /\ listening = 0 /\ status = "none" /\ signalled = {}
  /\ conn = [c \in Clients |-> "none"]
  /\ wire = [c \in Clients |-> <<>>]
  /\ work = [c \in Clients |-> <<>>]
  /\ out = [c \in Clients |-> <<>>]
  /\ got = [c \in Clients |-> <<>>]
  /\ sent = [c \in Clients |-> <<>>]
  /\ inTurn = [c \in Clients |-> TRUE]
  /\ left = {}

-----------------------------------------------------------------------------
(* The process.                                                            *)

\* The process is gone, and with it every connection.
Exit(how) ==
  /\ stage' = "exited"
  /\ status' = how
  /\ conn' = [c \in Clients |-> IF conn[c] = "none" THEN "none" ELSE "freed"]
  /\ wire' = [c \in Clients |-> <<>>]
  /\ work' = [c \in Clients |-> <<>>]
  /\ out' = [c \in Clients |-> <<>>]
  /\ UNCHANGED <<listening, got, historyVars>>

\* Mutant of Listen: one server more than there are.
ListenOnceMore ==
  /\ stage = "init"
  /\ listening' = listening + 1
  /\ stage' = IF listening = Len(Servers) THEN "loop" ELSE "init"
  /\ UNCHANGED <<status, signalled, connVars, historyVars>>

\* createTcpServer, createHttpServer, createHttpsServer, in order; with all of
\* them bound the signals are registered and the loop is entered.
Listen ==
  /\ stage = "init"
  /\ listening' = listening + 1
  /\ stage' = IF listening' = Len(Servers) THEN "loop" ELSE "init"
  /\ UNCHANGED <<status, signalled, connVars, historyVars>>

\* One of them cannot be bound: init returns at once, initSrv exits with 2.
ListenFails ==
  /\ stage = "init"
  /\ Exit("2")
  /\ UNCHANGED signalled

\* A signal that registerSignalCb has registered.
Signal ==
  /\ stage = "loop"
  /\ signalled' = signalled \cup {"stop"}
  /\ UNCHANGED <<procVars, connVars, historyVars>>

\* The default action of a signal: of any before registerSignalCb and once the
\* base is freed, in the loop of SIGUSR1, which signalCb has a case for and
\* registerSignalCb does not register.
Kill ==
  /\ stage # "exited"
  /\ \E signal \in {"stop", "other"} :
       /\ stage = "loop" => signal = "other"
       /\ signalled' = signalled \cup {signal}
  /\ Exit("killed")

\* The loop is between two callbacks.
Idle == stage = "loop" /\ \A c \in Clients : work[c] = <<>>

\* Mutant of SignalCb: the signal is noted only.
SignalNoted == /\ Idle /\ "stop" \in signalled
               /\ UNCHANGED <<procVars, signalled, connVars, historyVars>>

\* signalCb: loopbreak; no callback runs any more.
SignalCb ==
  /\ Idle
  /\ "stop" \in signalled
  /\ stage' = "break"
  /\ UNCHANGED <<listening, status, signalled, connVars, historyVars>>

\* event_base_dispatch is back: the servers and the base are freed, init
\* returns -5 and initSrv exits with 2.
CleanUp ==
  /\ stage = "break"
  /\ Exit("2")
  /\ UNCHANGED signalled

-----------------------------------------------------------------------------
(* Clients.                                                                *)

\* listenerCb, or evhttp's.
Connect(c) ==
  /\ Idle
  /\ conn[c] = "none"
  /\ conn' = [conn EXCEPT ![c] = "up"]
  /\ UNCHANGED <<procVars, signalled, wire, work, out, got, historyVars>>

Begun(c) == Cardinality({sent[c][i].req : i \in DOMAIN sent[c]})
HeadSent(c) == sent[c] # <<>> /\ Last(sent[c]).part = "head"

SendPiece(c, piece) ==
  /\ stage # "exited" /\ conn[c] = "up"
  /\ wire' = [wire EXCEPT ![c] = Append(@, piece)]
  /\ sent' = [sent EXCEPT ![c] = Append(@, piece)]
  /\ UNCHANGED <<procVars, signalled, conn, work, out, got, left>>

\* A TCP client sends its next request, whole or the first part of it.
TcpSend(c) ==
  /\ Begun(c) < MaxRequests[c] /\ ~HeadSent(c)
  /\ \E part \in {"whole", "head"} :
       /\ SendPiece(c, [req |-> Begun(c) + 1, part |-> part])
       /\ inTurn' = [inTurn EXCEPT ![c] =
                       @ /\ part = "whole" /\ Len(got[c]) = Len(sent[c])]

TcpSendTail(c) ==
  /\ HeadSent(c)
  /\ SendPiece(c, [req |-> Begun(c), part |-> "tail"])
  /\ UNCHANGED inTurn

HttpSend(c) ==
  /\ Begun(c) < MaxRequests[c]
  /\ \E kind \in HttpKinds : SendPiece(c, [req |-> Begun(c) + 1, part |-> kind])
  /\ UNCHANGED inTurn

\* The client sends no more and still receives, or closes both ways.
ClientCloses(c) ==
  /\ conn[c] \in {"up", "eof"}
  /\ \E how \in {"eof", "gone"} \ {conn[c]} :
       /\ conn' = [conn EXCEPT ![c] = how]
       /\ left' = IF how = "gone" THEN left \cup {c} ELSE left
  /\ UNCHANGED <<procVars, signalled, wire, work, out, got, sent, inTurn>>

-----------------------------------------------------------------------------
(* The callbacks.                                                          *)

\* What has been sent on a connection can be read after its end too.
Readable == {"up", "eof", "gone", "reset"}

\* Mutants of TakenByRead: what was read stays in the input buffer; the last
\* piece is dropped.
NothingTaken(c, k) == wire[c]
OneTooMany(c, k) == SubSeq(wire[c], k + 2, Len(wire[c]))

\* What is left after evbuffer_drain.
TakenByRead(c, k) == SubSeq(wire[c], k + 1, Len(wire[c]))

\* EventTcpServer::readCb up to handleReq: the whole input buffer is one
\* request, whatever pieces it is made of.
ReadCb(c) ==
  /\ Idle
  /\ c \in TcpClients /\ conn[c] \in Readable
  /\ wire[c] # <<>>
  /\ LET k == IF Len(wire[c]) <= MaxRead THEN Len(wire[c]) ELSE MaxRead
     IN  /\ work' = [work EXCEPT ![c] = SubSeq(wire[c], 1, k)]
         /\ wire' = [wire EXCEPT ![c] = TakenByRead(c, k)]
  /\ UNCHANGED <<procVars, signalled, conn, out, got, historyVars>>

\* Mutant of HandlerReturns: a second result overwrites the one not yet sent.
LastResponseOnly(c) ==
  /\ stage = "loop"
  /\ work[c] # <<>>
  /\ out' = [out EXCEPT ![c] = <<Response(work[c], 200)>>]
  /\ work' = [work EXCEPT ![c] = <<>>]
  /\ UNCHANGED <<procVars, signalled, conn, wire, got, historyVars>>

\* Mutant of HandlerReturns: httpReqEntrance without the else of its router.
HttpHandledTwice(c) ==
  /\ stage = "loop"
  /\ work[c] # <<>>
  /\ LET response == Response(work[c], 200)
     IN  out' = [out EXCEPT ![c] =
                   Append(@, response) \o
                     IF c \in HttpClients THEN <<response>> ELSE <<>>]
  /\ work' = [work EXCEPT ![c] = <<>>]
  /\ UNCHANGED <<procVars, signalled, conn, wire, got, historyVars>>

\* handleReq is back, and the response goes into the output buffer.
HandlerReturns(c) ==
  /\ stage = "loop"
  /\ work[c] # <<>>
  /\ out' = [out EXCEPT ![c] = Append(@, Response(work[c], 200))]
  /\ work' = [work EXCEPT ![c] = <<>>]
  /\ UNCHANGED <<procVars, signalled, conn, wire, got, historyVars>>

\* evhttp hands a request over when the replies to the one before are sent.
HttpRequest(c, kind) ==
  /\ Idle
  /\ c \in HttpClients /\ conn[c] \in Readable
  /\ wire[c] # <<>> /\ Head(wire[c]).part = kind
  /\ out[c] = <<>>

\* httpReqEntrance up to handleReq, with the parameters read.
HttpHandled(c) ==
  /\ HttpRequest(c, "read")
  /\ work' = [work EXCEPT ![c] = <<Head(wire[c])>>]
  /\ wire' = [wire EXCEPT ![c] = Tail(@)]
  /\ UNCHANGED <<procVars, signalled, conn, out, got, historyVars>>

\* handleGetReq and handlePostReq reply 400 and return nothing, so
\* httpReqEntrance goes on with no parameters and replies the help text.  The
\* request still has the Content-Length of the first reply, 0: the second is
\* an empty one too, and the text is not part of any reply.
UnreadReplies(request) ==
  <<Response(<<request>>, 400), Response(<<request>>, 200), Response(<<request>>, 0)>>

HttpUnread(c) ==
  /\ HttpRequest(c, "unread")
  /\ out' = [out EXCEPT ![c] = UnreadReplies(Head(wire[c]))]
  /\ wire' = [wire EXCEPT ![c] = Tail(@)]
  /\ UNCHANGED <<procVars, signalled, conn, work, got, historyVars>>

\* evhttp_send_error, which also closes the connection once it is sent.
HttpOther(c) ==
  /\ HttpRequest(c, "other")
  /\ out' = [out EXCEPT ![c] = <<Response(<<Head(wire[c])>>, 400)>>]
  /\ wire' = [wire EXCEPT ![c] = Tail(@)]
  /\ UNCHANGED <<procVars, signalled, conn, work, got, historyVars>>

\* fillPostParams makes a string of a NULL pointer: std::logic_error leaves
\* the callback and the loop, and main exits with 1.
HttpEmpty(c) ==
  /\ HttpRequest(c, "empty")
  /\ Exit("1")
  /\ UNCHANGED signalled

\* LOG makes one text of its arguments, and printLog takes that for the format
\* of vsnprintf.  What a conversion in it does without an argument is undefined:
\* the handler goes on, or the process ends here.
Misprint(c) ==
  /\ \/ /\ stage = "loop"
        /\ \E i \in DOMAIN work[c] : <<c, work[c][i].req>> \in Formats
     \/ \E kind \in {"unread", "other"} :
          HttpRequest(c, kind) /\ <<c, Head(wire[c]).req>> \in Formats
  /\ Exit("crash")
  /\ UNCHANGED signalled

\* evhttp closes the connection when it has written this.
ClosedWith(response) == Last(response.of).part = "other"

\* libevent writes: a response reaches a client that still receives, with the
\* last of the writes it takes (libevent writes 16384 bytes at most at a time).
Flush(c) ==
  /\ Idle
  /\ out[c] # <<>> /\ conn[c] \in {"up", "eof"}
  /\ got' = [got EXCEPT ![c] = Append(@, Head(out[c]))]
  /\ out' = [out EXCEPT ![c] = Tail(@)]
  /\ IF ClosedWith(Head(out[c]))
       THEN /\ conn' = [conn EXCEPT ![c] = "freed"]
            /\ wire' = [wire EXCEPT ![c] = <<>>]
       ELSE UNCHANGED <<conn, wire>>
  /\ UNCHANGED <<procVars, signalled, work, historyVars>>

\* libevent writes to a client that is gone: what it writes is lost, be it all
\* there is, some of the responses or only a part of the first, and the client's
\* host answers with a reset.
FlushLost(c) ==
  /\ Idle
  /\ out[c] # <<>> /\ conn[c] = "gone"
  /\ \E k \in 0..Len(out[c]) :
       /\ out' = [out EXCEPT ![c] = SubSeq(@, k + 1, Len(@))]
       /\ IF k = Len(out[c]) /\ ClosedWith(Last(out[c]))
            THEN /\ conn' = [conn EXCEPT ![c] = "freed"]
                 /\ wire' = [wire EXCEPT ![c] = <<>>]
            ELSE conn' = [conn EXCEPT ![c] = "reset"] /\ UNCHANGED wire
  /\ UNCHANGED <<procVars, signalled, work, got, historyVars>>

\* One more write: SIGPIPE, which no code ignores or handles.
BrokenPipe(c) ==
  /\ Idle
  /\ out[c] # <<>> /\ conn[c] = "reset"
  /\ Exit("pipe")
  /\ UNCHANGED signalled

\* Mutant of EventCb: a client that leaves ends the loop, as eventCb of
\* EventTcpClient ends the loop of its call.
LeavingBreaksLoop(c) ==
  /\ Idle
  /\ \/ conn[c] = "eof" /\ wire[c] = <<>>
     \/ conn[c] \in {"gone", "reset"}
  /\ stage' = "break"
  /\ conn' = [conn EXCEPT ![c] = "freed"]
  /\ wire' = [wire EXCEPT ![c] = <<>>]
  /\ out' = [out EXCEPT ![c] = <<>>]
  /\ UNCHANGED <<listening, status, signalled, work, got, historyVars>>

\* EventTcpServer::eventCb (and evhttp's): end of input, or an error; the
\* bufferevent is freed, with the responses still in it.
EventCb(c) ==
  /\ Idle
  /\ \/ conn[c] = "eof" /\ wire[c] = <<>>
     \/ conn[c] \in {"gone", "reset"}
  /\ conn' = [conn EXCEPT ![c] = "freed"]
  /\ wire' = [wire EXCEPT ![c] = <<>>]
  /\ out' = [out EXCEPT ![c] = <<>>]
  /\ UNCHANGED <<procVars, signalled, work, got, historyVars>>

-----------------------------------------------------------------------------
HttpReqEntrance(c) ==
  HttpHandled(c) \/ HttpUnread(c) \/ HttpOther(c) \/ HttpEmpty(c)

Callback(c) ==
  \/ ReadCb(c) \/ HttpReqEntrance(c) \/ Misprint(c) \/ EventCb(c)
  \/ Flush(c) \/ FlushLost(c) \/ BrokenPipe(c)

Next ==
  \/ Listen \/ ListenFails \/ Signal \/ Kill \/ SignalCb \/ CleanUp
  \/ \E c \in Clients :
       Connect(c) \/ ClientCloses(c) \/ Callback(c) \/ HandlerReturns(c)
  \/ \E c \in TcpClients : TcpSend(c) \/ TcpSendTail(c)
  \/ \E c \in HttpClients : HttpSend(c)

\* The loop gives every ready descriptor its turn again and again, though
\* handlers come between, and every handler comes back (LogicEntrance,
\* EveryRequestAnswered).  Nothing makes a client or a signal act.
Fairness ==
  /\ SF_vars(SignalCb) /\ WF_vars(CleanUp)
  /\ \A c \in Clients :
       /\ WF_vars(HandlerReturns(c))
       /\ SF_vars(ReadCb(c)) /\ SF_vars(HttpReqEntrance(c))
       /\ SF_vars(Flush(c)) /\ SF_vars(EventCb(c))

Spec == Init /\ [][Next]_vars /\ Fairness

-----------------------------------------------------------------------------
(* Correctness.                                                            *)

Piece == [req : Nat, part : TcpParts \cup HttpKinds]

TypeOK ==
  /\ stage \in {"init", "loop", "break", "exited"}
  /\ listening \in 0..Len(Servers)
  /\ status \in {"none", "1", "2", "killed", "crash", "pipe"}
  /\ signalled \subseteq {"stop", "other"}
  /\ conn \in [Clients -> {"none", "up", "eof", "gone", "reset", "freed"}]
  /\ wire \in [Clients -> Seq(Piece)] /\ sent \in [Clients -> Seq(Piece)]
  /\ work \in [Clients -> Seq(Piece)]
  /\ out \in [Clients -> Seq([of : Seq(Piece), code : {0, 200, 400}])]
  /\ got \in [Clients -> Seq([of : Seq(Piece), code : {0, 200, 400}])]
  /\ inTurn \in [Clients -> BOOLEAN] /\ left \subseteq Clients

\* The pieces a sequence of responses answers, in order.
Answered(responses) == FlattenSeq([i \in DOMAIN responses |-> responses[i].of])

\* readCb copies, drains and answers its input in pieces of any size, and
\* handlers of other clients and half-closes come between: every byte a TCP
\* client sent is answered by exactly one response, in the order it was sent,
\* or still on its way there, as long as its connection is.
AnswersCoverInput ==
  \A c \in TcpClients :
    conn[c] \in {"up", "eof", "gone"} =>
      Answered(got[c]) \o Answered(out[c]) \o work[c] \o wire[c] = sent[c]

\* EventTcpServer has no framing: a read is a request.  It is enough all the
\* same for a client that sends each request whole and after the response to
\* the one before: each of its responses answers one request, the one of its
\* number.
InTurnServed ==
  \A c \in TcpClients : inTurn[c] =>
    \A i \in DOMAIN got[c] : got[c][i].of = <<[req |-> i, part |-> "whole"]>>

\* HTTP has no numbers: a client matches the i-th reply of its connection to its
\* i-th request.  httpReqEntrance has several ways to reply, some at once and some
\* after a wait: the i-th reply is the one to the i-th request, with its code, as
\* long as every request before it had parameters that could be read.
HttpRepliesInStep ==
  \A c \in HttpClients : \A i \in DOMAIN got[c] :
    (\A j \in DOMAIN sent[c] : j < i => sent[c][j].part # "unread") =>
      /\ i \in DOMAIN sent[c]
      /\ got[c][i] =
           Response(<<sent[c][i]>>, IF sent[c][i].part = "read" THEN 200 ELSE 400)

\* The client has the last of the replies to a piece.
Served(c, piece) ==
  \E i \in DOMAIN got[c] : /\ piece \in ToSet(got[c][i].of)
                           /\ piece.part = "unread" => got[c][i].code = 0

\* How main, initSrv and the default actions end the service: killed only by a
\* signal; with 2 only after a stop signal or for a port that cannot be bound;
\* with 1 only for a form or JSON POST without a body; by a log line only while
\* the request that has brought a conversion is not served; by a broken pipe
\* only for a client that has closed and has not got all the responses due.  No
\* client that leaves with all it asked for, and no request once it is served,
\* ends it for the others.
ExitExplained ==
  stage = "exited" =>
    \/ status = "killed" /\ signalled # {}
    \/ status = "2" /\ ("stop" \in signalled \/ listening < Len(Servers))
    \/ /\ status = "1"
       /\ \E c \in HttpClients : \E piece \in ToSet(sent[c]) :
            piece.part = "empty" /\ ~Served(c, piece)
    \/ /\ status = "crash"
       /\ \E c \in Clients : \E piece \in ToSet(sent[c]) :
            <<c, piece.req>> \in Formats /\ ~Served(c, piece)
    \/ /\ status = "pipe"
       /\ \E c \in left : \E piece \in ToSet(sent[c]) : ~Served(c, piece)

\* registerSignalCb and signalCb: once SIGINT, SIGTERM or SIGHUP has arrived
\* the process ends, whatever request is being handled and whatever clients
\* send.
SignalStops == "stop" \in signalled ~> stage = "exited"

\* Everything a TCP client sends is answered and the response delivered,
\* whatever other clients do, unless the client closes or the process ends.
EveryPieceAnswered ==
  \A c \in TcpClients : \A n \in 1..(2 * MaxRequests[c]) :
    Len(sent[c]) = n ~> \/ Len(Answered(got[c])) >= n
                        \/ conn[c] = "freed"

\* What one TCP client sees is the dialogue of the abstract specification.
Talk(c) == INSTANCE Dialogue WITH
  input <- wire[c], work <- work[c],
  out <- [i \in DOMAIN out[c] |-> out[c][i].of],
  got <- [i \in DOMAIN got[c] |-> got[c][i].of],
  open <- stage # "exited" /\ conn[c] \in {"none", "up", "eof"}

\* Reads of any size, half-closes, the requests of other clients between, the
\* stop of the process: each step of the service is for every TCP client a
\* step of its Dialogue, or none.
TalksAsDialogue ==
  /\ \A c \in TcpClients : Talk(c)!DInit
  /\ [][\A c \in TcpClients : [Talk(c)!DNext]_(Talk(c)!dialogueVars)]_vars
=============================================================================
