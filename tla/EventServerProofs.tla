-------------------------- MODULE EventServerProofs --------------------------
(***************************************************************************)
(* The safety properties of EventServer, for any clients, servers, read    *)
(* size and numbers of requests.  Each has its own part of the inductive   *)
(* invariant:                                                              *)
(*                                                                         *)
(*   TypeOK               with what the stages of the loop imply (Stages)  *)
(*   AnswersCoverInput    inductive but for connections not yet made       *)
(*                        (Fresh)                                          *)
(*   InTurnServed         InTurn: where the one request of a client that   *)
(*                        waits for its responses is                       *)
(*   HttpRepliesInStep    InStep: until a request comes whose parameters   *)
(*                        cannot be read, what is replied, being handled   *)
(*                        and still to be read, counted                    *)
(*   ExitExplained        Whereabouts: each piece is in one place, so one  *)
(*                        that is under way has not been served            *)
(*   TalksAsDialogue      the refinement mapping, step by step, from       *)
(*                        Whereabouts and TcpSent                          *)
(*                                                                         *)
(* The proofs reason about what a step does to one client (ClientStep) and *)
(* to the process (ProcessStep) instead of about the actions.              *)
(***************************************************************************)
EXTENDS EventServer, FiniteSetTheorems, SequenceLemmas

-----------------------------------------------------------------------------
(* What the steps do.                                                      *)

\* A response: the pieces it answers and its HTTP code.
Reply == [of : Seq(Piece), code : {0, 200, 400}]

ConnStates == {"none", "up", "eof", "gone", "reset", "freed"}

\* TypeOK in three parts.
ProcSorts ==
  /\ stage \in {"init", "loop", "break", "exited"}
  /\ listening \in 0..Len(Servers)
  /\ status \in {"none", "1", "2", "killed", "crash", "pipe"}
  /\ signalled \subseteq {"stop", "other"}

ConnSorts ==
  /\ conn \in [Clients -> ConnStates]
  /\ wire \in [Clients -> Seq(Piece)]
  /\ work \in [Clients -> Seq(Piece)]
  /\ out \in [Clients -> Seq(Reply)]
  /\ got \in [Clients -> Seq(Reply)]

HistorySorts ==
  /\ sent \in [Clients -> Seq(Piece)]
  /\ inTurn \in [Clients -> BOOLEAN]
  /\ left \subseteq Clients

\* The parts are TypeOK.
LEMMA TypeParts == TypeOK <=> ProcSorts /\ ConnSorts /\ HistorySorts
<1>. DEFINE R == Reply  P == Piece
<1>1. R = [of : Seq(P), code : {0, 200, 400}]
  BY DEF Reply
<1>. HIDE DEF R, P
<1>. QED BY <1>1 DEF TypeOK, ProcSorts, ConnSorts, HistorySorts, ConnStates, R, P

\* What a response is made of.
LEMMA ResponseType ==
  ASSUME NEW pieces \in Seq(Piece), NEW code \in {0, 200, 400}
  PROVE  /\ Response(pieces, code) \in Reply
         /\ Response(pieces, code).of = pieces /\ Response(pieces, code).code = code
BY DEF Response, Reply

\* init goes on as long as a server is left to bind.
Started == stage = "init" => listening < Len(Servers)

\* The number of requests a client has begun.
LEMMA BegunType ==
  ASSUME TypeOK, NEW c \in Clients
  PROVE  Begun(c) \in Nat /\ IsFiniteSet({sent[c][i].req : i \in DOMAIN sent[c]})
<1>. DEFINE s == sent[c]
            reqs == {s[i].req : i \in DOMAIN s}
            f == [i \in 1..Len(s) |-> s[i].req]
<1>1. s \in Seq(Piece) /\ Len(s) \in Nat /\ DOMAIN s = 1..Len(s)
  BY DEF TypeOK
<1>2. IsFiniteSet(1..Len(s))
  BY <1>1, FS_Interval
<1>. HIDE DEF s
<1>3. f \in Surjection(1..Len(s), reqs)
  BY <1>1 DEF Surjection
<1>. HIDE DEF f, reqs
<1>4. IsFiniteSet(reqs)
  BY <1>2, <1>3, FS_Surjection
<1>5. Cardinality(reqs) \in Nat
  BY <1>4, FS_CardinalityType
<1>. QED BY <1>4, <1>5 DEF Begun, s, reqs

\* A step that leaves a group of variables alone keeps its types.
LEMMA TypeFrame ==
  ASSUME TypeOK
  PROVE  /\ UNCHANGED <<procVars, signalled>> => ProcSorts'
         /\ UNCHANGED connVars => ConnSorts'
         /\ UNCHANGED historyVars => HistorySorts'
BY TypeParts DEF procVars, connVars, historyVars, ProcSorts, ConnSorts, HistorySorts

\* The end of the process keeps every variable in its range.
LEMMA ExitType ==
  ASSUME TypeOK, NEW how \in {"1", "2", "killed", "crash", "pipe"}, Exit(how),
         signalled' \subseteq {"stop", "other"}
  PROVE  TypeOK'
<1>1. ProcSorts'
  BY TypeParts DEF ProcSorts, Exit
<1>2. ConnSorts'
  BY TypeParts DEF ConnSorts, Exit, ConnStates
<1>3. HistorySorts'
  BY TypeFrame DEF Exit
<1>. QED BY <1>1, <1>2, <1>3, TypeParts, PTL

-----------------------------------------------------------------------------
\* Nothing is bound, connected or sent.
LEMMA InitType == Init => TypeOK
<1>. SUFFICES ASSUME Init PROVE TypeOK
  OBVIOUS
<1>1. Len(Servers) \in Nat
  BY EventServerAssumption
<1>2. ProcSorts
  <2>1. 0 \in 0..Len(Servers)
    BY <1>1
  <2>. QED BY <2>1 DEF Init, ProcSorts
<1>3. ConnSorts
  BY DEF Init, ConnSorts, ConnStates
<1>4. HistorySorts
  BY DEF Init, HistorySorts
<1>. QED BY <1>2, <1>3, <1>4, TypeParts

\* A client sends a piece.
LEMMA SendType ==
  ASSUME TypeOK, NEW c \in Clients, NEW piece \in Piece, SendPiece(c, piece),
         inTurn' \in [Clients -> BOOLEAN]
  PROVE  TypeOK'
<1>1. ProcSorts'
  BY TypeFrame DEF SendPiece
<1>2. ConnSorts'
  BY TypeParts DEF SendPiece, ConnSorts
<1>3. HistorySorts'
  BY TypeParts DEF SendPiece, HistorySorts
<1>. QED BY <1>1, <1>2, <1>3, TypeParts, PTL

\* The steps keep every variable in its range.
LEMMA TypeStep == TypeOK /\ Started /\ [Next]_vars => TypeOK'
<1>. SUFFICES ASSUME TypeOK, Started, [Next]_vars PROVE TypeOK'
  OBVIOUS
<1>a. /\ ProcSorts /\ ConnSorts /\ HistorySorts
      /\ UNCHANGED <<procVars, signalled>> => ProcSorts'
      /\ UNCHANGED connVars => ConnSorts'
      /\ UNCHANGED historyVars => HistorySorts'
      /\ ProcSorts' /\ ConnSorts' /\ HistorySorts' => TypeOK'
  <2>1. TypeOK' <=> ProcSorts' /\ ConnSorts' /\ HistorySorts'
    BY TypeParts, PTL
  <2>. QED BY <2>1, TypeParts, TypeFrame
<1>b. TcpClients \subseteq Clients /\ HttpClients \subseteq Clients
  BY DEF Clients
<1>1. CASE Listen \/ Signal \/ SignalCb
  <2>1. UNCHANGED <<connVars, historyVars>>
    BY <1>1 DEF Listen, Signal, SignalCb
  <2>2. ProcSorts'
    <3>1. Len(Servers) \in Nat
      BY EventServerAssumption
    <3>2. CASE Listen
      BY <1>a, <3>1, <3>2 DEF Listen, ProcSorts, Started
    <3>3. CASE Signal \/ SignalCb
      BY <1>a, <3>3 DEF Signal, SignalCb, ProcSorts, procVars
    <3>. QED BY <1>1, <3>2, <3>3
  <2>. QED BY <1>a, <2>1, <2>2
<1>2. CASE ListenFails \/ Kill \/ CleanUp
  <2>1. signalled \subseteq {"stop", "other"}
    BY DEF TypeOK
  <2>2. CASE Kill
    BY <2>1, <2>2, ExitType DEF Kill
  <2>3. CASE ListenFails \/ CleanUp
    BY <2>1, <2>3, ExitType DEF ListenFails, CleanUp
  <2>. QED BY <1>2, <2>2, <2>3
<1>3. ASSUME NEW c \in Clients, Connect(c) PROVE TypeOK'
  <2>1. ConnSorts'
    BY <1>3, <1>a DEF Connect, ConnSorts, ConnStates
  <2>. QED BY <1>3, <1>a, <2>1 DEF Connect
<1>3a. ASSUME NEW c \in Clients, ClientCloses(c) PROVE TypeOK'
  <2>1. PICK how \in {"eof", "gone"} :
          /\ conn' = [conn EXCEPT ![c] = how]
          /\ left' = IF how = "gone" THEN left \cup {c} ELSE left
    BY <1>3a DEF ClientCloses
  <2>2. ConnSorts'
    BY <1>3a, <1>a, <2>1 DEF ClientCloses, ConnSorts, ConnStates
  <2>3. HistorySorts'
    BY <1>3a, <1>a, <2>1 DEF ClientCloses, HistorySorts
  <2>. QED BY <1>3a, <1>a, <2>2, <2>3 DEF ClientCloses
<1>4. ASSUME NEW c \in Clients, ReadCb(c) PROVE TypeOK'
  <2>. DEFINE k == IF Len(wire[c]) <= MaxRead THEN Len(wire[c]) ELSE MaxRead
  <2>1. wire[c] \in Seq(Piece) /\ k \in Nat /\ k <= Len(wire[c])
    BY <1>a, EventServerAssumption DEF ConnSorts
  <2>2. SubSeq(wire[c], 1, k) \in Seq(Piece) /\ SubSeq(wire[c], k + 1, Len(wire[c])) \in Seq(Piece)
    BY <2>1
  <2>3. /\ work' = [work EXCEPT ![c] = SubSeq(wire[c], 1, k)]
        /\ wire' = [wire EXCEPT ![c] = SubSeq(wire[c], k + 1, Len(wire[c]))]
        /\ UNCHANGED <<procVars, signalled, conn, out, got, historyVars>>
    BY <1>4 DEF ReadCb, TakenByRead
  <2>. HIDE DEF k
  <2>4. ConnSorts'
    BY <1>a, <2>2, <2>3 DEF ConnSorts
  <2>. QED BY <1>a, <2>3, <2>4
<1>5. ASSUME NEW c \in Clients, HandlerReturns(c) PROVE TypeOK'
  <2>1. Response(work[c], 200) \in Reply
    BY <1>a, ResponseType DEF ConnSorts
  <2>2. ConnSorts'
    BY <1>5, <1>a, <2>1 DEF HandlerReturns, ConnSorts
  <2>. QED BY <1>5, <1>a, <2>2 DEF HandlerReturns
<1>6. ASSUME NEW c \in Clients, HttpReqEntrance(c) PROVE TypeOK'
  <2>1. CASE HttpEmpty(c)
    BY <2>1, ExitType DEF HttpEmpty, TypeOK
  <2>2. wire[c] \in Seq(Piece) /\ wire[c] # <<>>
    BY <1>6, <1>a DEF ConnSorts, HttpReqEntrance, HttpHandled, HttpUnread, HttpOther,
                HttpEmpty, HttpRequest
  <2>3. Head(wire[c]) \in Piece /\ Tail(wire[c]) \in Seq(Piece)
    BY <2>2
  <2>4. <<Head(wire[c])>> \in Seq(Piece)
    BY <2>3
  <2>5. CASE HttpHandled(c)
    <3>1. ConnSorts'
      BY <1>a, <2>3, <2>4, <2>5 DEF HttpHandled, ConnSorts
    <3>. QED BY <1>a, <2>5, <3>1 DEF HttpHandled
  <2>. DEFINE r == <<Head(wire[c])>>
  <2>6. r \in Seq(Piece)
    BY <2>4
  <2>. HIDE DEF r
  <2>7. Response(r, 400) \in Reply /\ Response(r, 200) \in Reply /\ Response(r, 0) \in Reply
    BY <2>6, ResponseType
  <2>8. CASE HttpUnread(c)
    <3>1. UnreadReplies(Head(wire[c])) \in Seq(Reply)
      BY <2>7 DEF UnreadReplies, r
    <3>2. ConnSorts'
      BY <1>a, <2>3, <2>8, <3>1 DEF HttpUnread, ConnSorts
    <3>. QED BY <1>a, <2>8, <3>2 DEF HttpUnread
  <2>9. CASE HttpOther(c)
    <3>1. <<Response(<<Head(wire[c])>>, 400)>> \in Seq(Reply)
      BY <2>7 DEF r
    <3>2. ConnSorts'
      BY <1>a, <2>3, <2>9, <3>1 DEF HttpOther, ConnSorts
    <3>. QED BY <1>a, <2>9, <3>2 DEF HttpOther
  <2>. QED BY <1>6, <2>1, <2>5, <2>8, <2>9 DEF HttpReqEntrance
<1>7. ASSUME NEW c \in Clients, Flush(c) PROVE TypeOK'
  <2>1. out[c] \in Seq(Reply) /\ got[c] \in Seq(Reply) /\ out[c] # <<>>
    BY <1>7, <1>a DEF ConnSorts, Flush
  <2>2. Append(got[c], Head(out[c])) \in Seq(Reply) /\ Tail(out[c]) \in Seq(Reply)
    BY <2>1
  <2>3. CASE ClosedWith(Head(out[c]))
    <3>0. conn' = [conn EXCEPT ![c] = "freed"] /\ wire' = [wire EXCEPT ![c] = <<>>]
      BY <1>7, <2>3 DEF Flush
    <3>9. /\ got' = [got EXCEPT ![c] = Append(@, Head(out[c]))]
          /\ out' = [out EXCEPT ![c] = Tail(@)] /\ work' = work
      BY <1>7 DEF Flush
    <3>1. ConnSorts'
      BY <1>a, <2>2, <3>0, <3>9 DEF ConnSorts, ConnStates
    <3>. QED BY <1>7, <1>a, <3>1 DEF Flush
  <2>4. CASE ~ClosedWith(Head(out[c]))
    <3>0. conn' = conn /\ wire' = wire
      BY <1>7, <2>4 DEF Flush
    <3>9. /\ got' = [got EXCEPT ![c] = Append(@, Head(out[c]))]
          /\ out' = [out EXCEPT ![c] = Tail(@)] /\ work' = work
      BY <1>7 DEF Flush
    <3>1. ConnSorts'
      BY <1>a, <2>2, <3>0, <3>9 DEF ConnSorts, ConnStates
    <3>. QED BY <1>7, <1>a, <3>1 DEF Flush
  <2>. QED BY <2>3, <2>4
<1>8. ASSUME NEW c \in Clients, FlushLost(c) PROVE TypeOK'
  <2>0. out[c] \in Seq(Reply)
    BY <1>a DEF ConnSorts
  <2>1. PICK k \in 0..Len(out[c]) :
          /\ out' = [out EXCEPT ![c] = SubSeq(out[c], k + 1, Len(out[c]))]
          /\ \/ /\ conn' = [conn EXCEPT ![c] = "freed"]
                /\ wire' = [wire EXCEPT ![c] = <<>>]
             \/ conn' = [conn EXCEPT ![c] = "reset"] /\ UNCHANGED wire
    BY <1>8 DEF FlushLost
  <2>2. SubSeq(out[c], k + 1, Len(out[c])) \in Seq(Reply)
    BY <2>0
  <2>3. work' = work /\ got' = got
    BY <1>8 DEF FlushLost
  <2>4. work' \in [Clients -> Seq(Piece)] /\ got' \in [Clients -> Seq(Reply)]
    BY <1>a, <2>3 DEF ConnSorts
  <2>5. out' \in [Clients -> Seq(Reply)]
    BY <1>a, <2>1, <2>2 DEF ConnSorts
  <2>6. CASE conn' = [conn EXCEPT ![c] = "freed"] /\ wire' = [wire EXCEPT ![c] = <<>>]
    <3>1. conn' \in [Clients -> ConnStates] /\ wire' \in [Clients -> Seq(Piece)]
      BY <1>a, <2>6 DEF ConnSorts, ConnStates
    <3>2. ConnSorts'
      BY <2>4, <2>5, <3>1 DEF ConnSorts
    <3>. QED BY <1>8, <1>a, <3>2 DEF FlushLost
  <2>7. CASE conn' = [conn EXCEPT ![c] = "reset"] /\ UNCHANGED wire
    <3>1. conn' \in [Clients -> ConnStates] /\ wire' \in [Clients -> Seq(Piece)]
      BY <1>a, <2>7 DEF ConnSorts, ConnStates
    <3>2. ConnSorts'
      BY <2>4, <2>5, <3>1 DEF ConnSorts
    <3>. QED BY <1>8, <1>a, <3>2 DEF FlushLost
  <2>. QED BY <2>1, <2>6, <2>7
<1>8a. ASSUME NEW c \in Clients, EventCb(c) PROVE TypeOK'
  <2>1. ConnSorts'
    BY <1>8a, <1>a DEF EventCb, ConnSorts, ConnStates
  <2>. QED BY <1>8a, <1>a, <2>1 DEF EventCb
<1>9. ASSUME NEW c \in Clients, BrokenPipe(c) \/ Misprint(c) PROVE TypeOK'
  BY <1>9, ExitType DEF BrokenPipe, Misprint, TypeOK
<1>10. ASSUME NEW c \in TcpClients, TcpSend(c) PROVE TypeOK'
  <2>1. PICK part \in {"whole", "head"} :
          /\ SendPiece(c, [req |-> Begun(c) + 1, part |-> part])
          /\ inTurn' = [inTurn EXCEPT ![c] = @ /\ part = "whole" /\ Len(got[c]) = Len(sent[c])]
    BY <1>10 DEF TcpSend
  <2>2. Begun(c) + 1 \in Nat /\ part \in TcpParts
    <3>1. c \in Clients
      BY <1>b
    <3>2. Begun(c) \in Nat
      BY <3>1, BegunType
    <3>. QED BY <3>2 DEF TcpParts
  <2>3. [req |-> Begun(c) + 1, part |-> part] \in Piece
    BY <2>2 DEF Piece
  <2>4. inTurn' \in [Clients -> BOOLEAN]
    BY <1>a, <2>1 DEF HistorySorts
  <2>. QED BY <1>b, <2>1, <2>3, <2>4, SendType
<1>11. ASSUME NEW c \in TcpClients, TcpSendTail(c) PROVE TypeOK'
  <2>1. [req |-> Begun(c), part |-> "tail"] \in Piece
    BY <1>b, BegunType DEF Piece, TcpParts
  <2>. QED BY <1>a, <1>b, <1>11, <2>1, SendType DEF TcpSendTail, HistorySorts
<1>12. ASSUME NEW c \in HttpClients, HttpSend(c) PROVE TypeOK'
  <2>1. PICK kind \in HttpKinds : SendPiece(c, [req |-> Begun(c) + 1, part |-> kind])
    BY <1>12 DEF HttpSend
  <2>2. Begun(c) + 1 \in Nat
    <3>1. c \in Clients
      BY <1>b
    <3>2. Begun(c) \in Nat
      BY <3>1, BegunType
    <3>. QED BY <3>2
  <2>3. [req |-> Begun(c) + 1, part |-> kind] \in Piece
    BY <2>2 DEF Piece
  <2>. QED BY <1>a, <1>b, <1>12, <2>1, <2>3, SendType DEF HttpSend, HistorySorts
<1>13. CASE UNCHANGED vars
  BY <1>13, <1>a DEF vars
<1>. QED
  BY <1>1, <1>2, <1>3, <1>3a, <1>4, <1>5, <1>6, <1>7, <1>8, <1>8a, <1>9, <1>10, <1>11,
     <1>12, <1>13 DEF Next, Callback

-----------------------------------------------------------------------------
(* What a step does to one client d, whichever action takes it.            *)
Stays(d) == UNCHANGED <<conn[d], wire[d], work[d], out[d], got[d], sent[d], inTurn[d]>>

Ends(d) ==
  /\ conn'[d] = IF conn[d] = "none" THEN "none" ELSE "freed"
  /\ wire'[d] = <<>> /\ work'[d] = <<>> /\ out'[d] = <<>>
  /\ stage' = "exited"
  /\ UNCHANGED <<got[d], sent[d], inTurn[d]>>

Opens(d) ==
  /\ conn[d] = "none" /\ conn'[d] = "up"
  /\ UNCHANGED <<wire[d], work[d], out[d], got[d], sent[d], inTurn[d]>>

Closes(d) ==
  /\ conn[d] \in {"up", "eof"} /\ conn'[d] \in {"eof", "gone"}
  /\ conn'[d] = "gone" => d \in left'
  /\ UNCHANGED <<wire[d], work[d], out[d], got[d], sent[d], inTurn[d]>>

Sends(d, piece) ==
  /\ stage # "exited" /\ conn[d] = "up"
  /\ wire'[d] = Append(wire[d], piece)
  /\ sent'[d] = Append(sent[d], piece)
  /\ UNCHANGED <<conn[d], work[d], out[d], got[d]>>

SendsTcp(d) ==
  /\ d \in TcpClients /\ ~HeadSent(d)
  /\ \E part \in {"whole", "head"} :
       /\ Sends(d, [req |-> Begun(d) + 1, part |-> part])
       /\ inTurn'[d] = (inTurn[d] /\ part = "whole" /\ Len(got[d]) = Len(sent[d]))

SendsTail(d) ==
  /\ d \in TcpClients /\ HeadSent(d)
  /\ Sends(d, [req |-> Begun(d), part |-> "tail"])
  /\ UNCHANGED inTurn[d]

SendsHttp(d) ==
  /\ d \in HttpClients
  /\ \E kind \in HttpKinds : Sends(d, [req |-> Begun(d) + 1, part |-> kind])
  /\ UNCHANGED inTurn[d]

Reads(d) ==
  /\ d \in TcpClients /\ conn[d] \in Readable /\ work[d] = <<>>
  /\ \E k \in 1..Len(wire[d]) :
       /\ work'[d] = SubSeq(wire[d], 1, k)
       /\ wire'[d] = SubSeq(wire[d], k + 1, Len(wire[d]))
  /\ UNCHANGED <<conn[d], out[d], got[d], sent[d], inTurn[d]>>

Returns(d) ==
  /\ work[d] # <<>> /\ work'[d] = <<>>
  /\ out'[d] = Append(out[d], Response(work[d], 200))
  /\ UNCHANGED <<conn[d], wire[d], got[d], sent[d], inTurn[d]>>

Takes(d) ==
  /\ d \in HttpClients /\ conn[d] \in Readable /\ work[d] = <<>>
  /\ out[d] = <<>> /\ wire[d] # <<>> /\ wire'[d] = Tail(wire[d])
  /\ \/ /\ Head(wire[d]).part = "read"
        /\ work'[d] = <<Head(wire[d])>> /\ UNCHANGED out[d]
     \/ /\ Head(wire[d]).part = "unread"
        /\ out'[d] = UnreadReplies(Head(wire[d])) /\ UNCHANGED work[d]
     \/ /\ Head(wire[d]).part = "other"
        /\ out'[d] = <<Response(<<Head(wire[d])>>, 400)>> /\ UNCHANGED work[d]
  /\ UNCHANGED <<conn[d], got[d], sent[d], inTurn[d]>>

Delivers(d) ==
  /\ stage # "exited" /\ work[d] = <<>> /\ out[d] # <<>> /\ conn[d] \in {"up", "eof"}
  /\ got'[d] = Append(got[d], Head(out[d])) /\ out'[d] = Tail(out[d])
  /\ IF ClosedWith(Head(out[d])) THEN conn'[d] = "freed" /\ wire'[d] = <<>>
                                 ELSE UNCHANGED <<conn[d], wire[d]>>
  /\ UNCHANGED <<work[d], sent[d], inTurn[d]>>

Loses(d) ==
  /\ work[d] = <<>> /\ out[d] # <<>> /\ conn[d] = "gone"
  /\ \/ conn'[d] = "freed" /\ wire'[d] = <<>> /\ out'[d] = <<>>
     \/ /\ conn'[d] = "reset" /\ UNCHANGED wire[d]
        /\ \E k \in 0..Len(out[d]) : out'[d] = SubSeq(out[d], k + 1, Len(out[d]))
  /\ UNCHANGED <<work[d], got[d], sent[d], inTurn[d]>>

Frees(d) ==
  /\ work[d] = <<>>
  /\ \/ conn[d] = "eof" /\ wire[d] = <<>>
     \/ conn[d] \in {"gone", "reset"}
  /\ conn'[d] = "freed" /\ wire'[d] = <<>> /\ out'[d] = <<>>
  /\ UNCHANGED <<work[d], got[d], sent[d], inTurn[d]>>

ClientChange(d) ==
  \/ Stays(d) \/ Ends(d) \/ Opens(d) \/ Closes(d)
  \/ SendsTcp(d) \/ SendsTail(d) \/ SendsHttp(d)
  \/ Reads(d) \/ Returns(d) \/ Takes(d)
  \/ Delivers(d) \/ Loses(d) \/ Frees(d)

\* The end of the process is the end of every connection.
LEMMA ExitEnds ==
  ASSUME NEW d \in Clients, NEW how, Exit(how)
  PROVE  Ends(d)
BY DEF Exit, Ends, historyVars

\* Every step is, for each client, one of these.
LEMMA ClientStep ==
  ASSUME TypeOK, [Next]_vars, NEW d \in Clients
  PROVE  ClientChange(d)
<1>a. ConnSorts /\ HistorySorts
  BY TypeParts
<1>b. TcpClients \subseteq Clients /\ HttpClients \subseteq Clients
  BY DEF Clients
<1>. USE DEF procVars, connVars, historyVars
<1>1. CASE Listen \/ Signal \/ SignalCb \/ UNCHANGED vars
  <2>1. Stays(d)
    BY <1>1 DEF Listen, Signal, SignalCb, vars, Stays
  <2>. QED BY <2>1 DEF ClientChange
<1>2. CASE ListenFails \/ Kill \/ CleanUp
  BY <1>2, ExitEnds DEF ListenFails, Kill, CleanUp, ClientChange
<1>3. ASSUME NEW c \in Clients, HttpEmpty(c) \/ BrokenPipe(c) \/ Misprint(c)
      PROVE  ClientChange(d)
  BY <1>3, ExitEnds DEF HttpEmpty, BrokenPipe, Misprint, ClientChange
<1>4. ASSUME NEW c \in Clients, Connect(c) PROVE ClientChange(d)
  <2>1. CASE c = d
    <3>1. Opens(d)
      BY <1>a, <1>4, <2>1 DEF Connect, Opens, ConnSorts
    <3>. QED BY <3>1 DEF ClientChange
  <2>2. CASE c # d
    <3>1. Stays(d)
      BY <1>a, <1>4, <2>2 DEF Connect, Stays, ConnSorts
    <3>. QED BY <3>1 DEF ClientChange
  <2>. QED BY <2>1, <2>2
<1>5. ASSUME NEW c \in Clients, ClientCloses(c) PROVE ClientChange(d)
  <2>1. CASE c = d
    <3>1. Closes(d)
      BY <1>a, <1>5, <2>1 DEF ClientCloses, Closes, ConnSorts, HistorySorts, Idle
    <3>. QED BY <3>1 DEF ClientChange
  <2>2. CASE c # d
    <3>1. Stays(d)
      BY <1>a, <1>5, <2>2 DEF ClientCloses, Stays, ConnSorts, HistorySorts
    <3>. QED BY <3>1 DEF ClientChange
  <2>. QED BY <2>1, <2>2
<1>6. ASSUME NEW c \in Clients, ReadCb(c) PROVE ClientChange(d)
  <2>1. CASE c = d
    <3>1. Reads(d)
      <4>. DEFINE k == IF Len(wire[d]) <= MaxRead THEN Len(wire[d]) ELSE MaxRead
      <4>1. wire[d] \in Seq(Piece) /\ wire[d] # <<>>
        BY <1>a, <1>6, <2>1 DEF ReadCb, ConnSorts
      <4>2. k \in 1..Len(wire[d])
        BY <4>1, EventServerAssumption
      <4>3. /\ work' = [work EXCEPT ![d] = SubSeq(wire[d], 1, k)]
            /\ wire' = [wire EXCEPT ![d] = SubSeq(wire[d], k + 1, Len(wire[d]))]
        BY <1>6, <2>1 DEF ReadCb, TakenByRead
      <4>. HIDE DEF k
      <4>4. work'[d] = SubSeq(wire[d], 1, k) /\ wire'[d] = SubSeq(wire[d], k + 1, Len(wire[d]))
        BY <1>a, <4>3 DEF ConnSorts
      <4>5. UNCHANGED <<conn[d], out[d], got[d], sent[d], inTurn[d]>>
        BY <1>6 DEF ReadCb
      <4>. QED BY <1>6, <2>1, <4>2, <4>4, <4>5 DEF ReadCb, Idle, Reads
    <3>. QED BY <3>1 DEF ClientChange
  <2>2. CASE c # d
    <3>1. Stays(d)
      BY <1>a, <1>6, <2>2 DEF ReadCb, Stays, ConnSorts, HistorySorts
    <3>. QED BY <3>1 DEF ClientChange
  <2>. QED BY <2>1, <2>2
<1>7. ASSUME NEW c \in Clients, HandlerReturns(c) PROVE ClientChange(d)
  <2>1. CASE c = d
    <3>1. Returns(d)
      BY <1>a, <1>7, <2>1 DEF HandlerReturns, Returns, ConnSorts, HistorySorts, Idle
    <3>. QED BY <3>1 DEF ClientChange
  <2>2. CASE c # d
    <3>1. Stays(d)
      BY <1>a, <1>7, <2>2 DEF HandlerReturns, Stays, ConnSorts, HistorySorts
    <3>. QED BY <3>1 DEF ClientChange
  <2>. QED BY <2>1, <2>2
<1>8. ASSUME NEW c \in Clients, HttpHandled(c) PROVE ClientChange(d)
  <2>1. CASE c = d
    <3>1. Takes(d)
      BY <1>a, <1>8, <2>1 DEF HttpHandled, HttpRequest, Takes, ConnSorts, HistorySorts, Idle
    <3>. QED BY <3>1 DEF ClientChange
  <2>2. CASE c # d
    <3>1. Stays(d)
      BY <1>a, <1>8, <2>2 DEF HttpHandled, HttpRequest, Stays, ConnSorts, HistorySorts
    <3>. QED BY <3>1 DEF ClientChange
  <2>. QED BY <2>1, <2>2
<1>9. ASSUME NEW c \in Clients, HttpUnread(c) PROVE ClientChange(d)
  <2>1. CASE c = d
    <3>1. Takes(d)
      BY <1>a, <1>9, <2>1 DEF HttpUnread, HttpRequest, Takes, ConnSorts, HistorySorts, Idle
    <3>. QED BY <3>1 DEF ClientChange
  <2>2. CASE c # d
    <3>1. Stays(d)
      BY <1>a, <1>9, <2>2 DEF HttpUnread, HttpRequest, Stays, ConnSorts, HistorySorts
    <3>. QED BY <3>1 DEF ClientChange
  <2>. QED BY <2>1, <2>2
<1>10. ASSUME NEW c \in Clients, HttpOther(c) PROVE ClientChange(d)
  <2>1. CASE c = d
    <3>1. Takes(d)
      BY <1>a, <1>10, <2>1 DEF HttpOther, HttpRequest, Takes, ConnSorts, HistorySorts, Idle
    <3>. QED BY <3>1 DEF ClientChange
  <2>2. CASE c # d
    <3>1. Stays(d)
      BY <1>a, <1>10, <2>2 DEF HttpOther, HttpRequest, Stays, ConnSorts, HistorySorts
    <3>. QED BY <3>1 DEF ClientChange
  <2>. QED BY <2>1, <2>2
<1>11. ASSUME NEW c \in Clients, Flush(c) PROVE ClientChange(d)
  <2>1. CASE c = d
    <3>1. Delivers(d)
      BY <1>a, <1>11, <2>1 DEF Flush, Delivers, ConnSorts, HistorySorts, Idle
    <3>. QED BY <3>1 DEF ClientChange
  <2>2. CASE c # d
    <3>1. Stays(d)
      BY <1>a, <1>11, <2>2 DEF Flush, Stays, ConnSorts, HistorySorts
    <3>. QED BY <3>1 DEF ClientChange
  <2>. QED BY <2>1, <2>2
<1>12. ASSUME NEW c \in Clients, FlushLost(c) PROVE ClientChange(d)
  <2>1. CASE c = d
    <3>1. Loses(d)
      BY <1>a, <1>12, <2>1 DEF FlushLost, Loses, ConnSorts, HistorySorts, Idle
    <3>. QED BY <3>1 DEF ClientChange
  <2>2. CASE c # d
    <3>1. Stays(d)
      BY <1>a, <1>12, <2>2 DEF FlushLost, Stays, ConnSorts, HistorySorts
    <3>. QED BY <3>1 DEF ClientChange
  <2>. QED BY <2>1, <2>2
<1>13. ASSUME NEW c \in Clients, EventCb(c) PROVE ClientChange(d)
  <2>1. CASE c = d
    <3>1. Frees(d)
      BY <1>a, <1>13, <2>1 DEF EventCb, Frees, ConnSorts, HistorySorts, Idle
    <3>. QED BY <3>1 DEF ClientChange
  <2>2. CASE c # d
    <3>1. Stays(d)
      BY <1>a, <1>13, <2>2 DEF EventCb, Stays, ConnSorts, HistorySorts
    <3>. QED BY <3>1 DEF ClientChange
  <2>. QED BY <2>1, <2>2
<1>14. ASSUME NEW c \in TcpClients, TcpSend(c) PROVE ClientChange(d)
  <2>1. CASE c = d
    <3>1. SendsTcp(d)
      BY <1>a, <1>b, <1>14, <2>1 DEF TcpSend, SendPiece, Sends, SendsTcp, ConnSorts, HistorySorts, Idle
    <3>. QED BY <3>1 DEF ClientChange
  <2>2. CASE c # d
    <3>1. Stays(d)
      BY <1>a, <1>b, <1>14, <2>2 DEF TcpSend, SendPiece, Sends, Stays, ConnSorts, HistorySorts
    <3>. QED BY <3>1 DEF ClientChange
  <2>. QED BY <2>1, <2>2
<1>15. ASSUME NEW c \in TcpClients, TcpSendTail(c) PROVE ClientChange(d)
  <2>1. CASE c = d
    <3>1. SendsTail(d)
      BY <1>a, <1>b, <1>15, <2>1 DEF TcpSendTail, SendPiece, Sends, SendsTail, ConnSorts, HistorySorts, Idle
    <3>. QED BY <3>1 DEF ClientChange
  <2>2. CASE c # d
    <3>1. Stays(d)
      BY <1>a, <1>b, <1>15, <2>2 DEF TcpSendTail, SendPiece, Sends, Stays, ConnSorts, HistorySorts
    <3>. QED BY <3>1 DEF ClientChange
  <2>. QED BY <2>1, <2>2
<1>16. ASSUME NEW c \in HttpClients, HttpSend(c) PROVE ClientChange(d)
  <2>1. CASE c = d
    <3>1. SendsHttp(d)
      BY <1>a, <1>b, <1>16, <2>1 DEF HttpSend, SendPiece, Sends, SendsHttp, ConnSorts, HistorySorts, Idle
    <3>. QED BY <3>1 DEF ClientChange
  <2>2. CASE c # d
    <3>1. Stays(d)
      BY <1>a, <1>b, <1>16, <2>2 DEF HttpSend, SendPiece, Sends, Stays, ConnSorts, HistorySorts
    <3>. QED BY <3>1 DEF ClientChange
  <2>. QED BY <2>1, <2>2
<1>. QED
  BY <1>1, <1>2, <1>3, <1>4, <1>5, <1>6, <1>7, <1>8, <1>9, <1>10,
     <1>11, <1>12, <1>13, <1>14, <1>15, <1>16
     DEF Next, Callback, HttpReqEntrance

-----------------------------------------------------------------------------
(* What a step does to the process.                                        *)
Binds ==
  /\ stage = "init" /\ listening' = listening + 1
  /\ stage' = IF listening' = Len(Servers) THEN "loop" ELSE "init"
  /\ UNCHANGED <<status, signalled>>

GoesOn ==
  /\ UNCHANGED <<stage, listening, status>>
  /\ signalled \subseteq signalled'

Breaks ==
  /\ stage = "loop" /\ "stop" \in signalled /\ stage' = "break"
  /\ UNCHANGED <<listening, status, signalled>>

\* The causes that an end of the process can have.
Dies ==
  /\ stage' = "exited" /\ stage # "exited"
  /\ UNCHANGED <<listening, got, sent, inTurn, left>>
  /\ signalled \subseteq signalled'
  /\ \A c \in Clients : Ends(c)
  /\ \/ status' = "killed" /\ signalled' # {}
     \/ status' = "2" /\ stage \in {"init", "break"}
     \/ status' = "1" /\ \E c \in HttpClients :
          wire[c] # <<>> /\ Head(wire[c]).part = "empty"
     \/ status' = "crash" /\ \E c \in Clients :
          \/ \E i \in DOMAIN work[c] : <<c, work[c][i].req>> \in Formats
          \/ wire[c] # <<>> /\ <<c, Head(wire[c]).req>> \in Formats
     \/ status' = "pipe" /\ \E c \in Clients : conn[c] = "reset" /\ out[c] # <<>>

\* Every step is one of these for the process.
LEMMA ProcessStep ==
  ASSUME [Next]_vars
  PROVE  Binds \/ GoesOn \/ Breaks \/ Dies
<1>. USE DEF procVars, connVars, historyVars
<1>1. CASE Listen
  BY <1>1 DEF Listen, Binds
<1>2. CASE Signal \/ UNCHANGED vars
  BY <1>2 DEF Signal, GoesOn, vars
<1>3. CASE SignalCb
  BY <1>3 DEF SignalCb, Idle, Breaks
<1>4. CASE ListenFails \/ CleanUp
  BY <1>4 DEF ListenFails, CleanUp, Exit, Dies, Ends
<1>4a. CASE Kill
  BY <1>4a DEF Kill, Exit, Dies, Ends
<1>5. ASSUME NEW c \in Clients, HttpEmpty(c) PROVE Dies
  BY <1>5 DEF HttpEmpty, HttpRequest, Idle, Exit, Dies, Ends
<1>6. ASSUME NEW c \in Clients, BrokenPipe(c) PROVE Dies
  BY <1>6 DEF BrokenPipe, Idle, Exit, Dies, Ends
<1>6a. ASSUME NEW c \in Clients, Misprint(c) PROVE Dies
  BY <1>6a DEF Misprint, HttpRequest, Idle, Exit, Dies, Ends
<1>7. ASSUME NEW c \in Clients,
             \/ Connect(c) \/ ClientCloses(c) \/ HandlerReturns(c) \/ ReadCb(c)
             \/ HttpHandled(c) \/ HttpUnread(c) \/ HttpOther(c)
             \/ Flush(c) \/ FlushLost(c) \/ EventCb(c)
      PROVE  GoesOn
  BY <1>7
     DEF Connect, ClientCloses, HandlerReturns, ReadCb, HttpHandled, HttpUnread, HttpOther,
         Flush, FlushLost, EventCb, GoesOn
<1>8. ASSUME NEW c, TcpSend(c) \/ TcpSendTail(c) \/ HttpSend(c) PROVE GoesOn
  BY <1>8 DEF TcpSend, TcpSendTail, HttpSend, SendPiece, GoesOn
<1>. QED
  BY <1>1, <1>2, <1>3, <1>4, <1>4a, <1>5, <1>6, <1>6a, <1>7, <1>8
     DEF Next, Callback, HttpReqEntrance

\* Clients that have left stay so; after the end no response comes and nothing
\* is sent.
LEMMA LateStep ==
  ASSUME [Next]_vars
  PROVE  left \subseteq left' /\ (stage = "exited" => UNCHANGED <<got, sent>>)
<1>. USE DEF procVars, connVars, historyVars
<1>1. CASE \/ Listen \/ Signal \/ UNCHANGED vars \/ SignalCb \/ ListenFails \/ Kill \/ CleanUp
  BY <1>1 DEF Listen, Signal, vars, SignalCb, ListenFails, Kill, CleanUp, Exit
<1>2. ASSUME NEW c \in Clients,
             \/ Connect(c) \/ ClientCloses(c) \/ HandlerReturns(c) \/ ReadCb(c)
             \/ HttpHandled(c) \/ HttpUnread(c) \/ HttpOther(c) \/ HttpEmpty(c)
      PROVE  left \subseteq left' /\ (stage = "exited" => UNCHANGED <<got, sent>>)
  BY <1>2
     DEF Connect, ClientCloses, HandlerReturns, ReadCb, HttpHandled, HttpUnread, HttpOther,
         HttpEmpty, Exit
<1>3. ASSUME NEW c \in Clients,
             Flush(c) \/ FlushLost(c) \/ BrokenPipe(c) \/ Misprint(c) \/ EventCb(c)
      PROVE  left \subseteq left' /\ (stage = "exited" => UNCHANGED <<got, sent>>)
  BY <1>3 DEF Flush, FlushLost, BrokenPipe, Misprint, EventCb, Exit, Idle
<1>4. ASSUME NEW c, TcpSend(c) \/ TcpSendTail(c) \/ HttpSend(c)
      PROVE  left \subseteq left' /\ (stage = "exited" => UNCHANGED <<got, sent>>)
  BY <1>4 DEF TcpSend, TcpSendTail, HttpSend, SendPiece
<1>. QED
  BY <1>1, <1>2, <1>3, <1>4 DEF Next, Callback, HttpReqEntrance

\* init goes on while a server is left, and only signalCb breaks the loop.
Stages == Started /\ (stage = "break" => "stop" \in signalled)

\* The process stays within them.
LEMMA StagesStep == TypeOK /\ Stages /\ [Next]_vars => Stages'
<1>. SUFFICES ASSUME TypeOK, Stages, [Next]_vars PROVE Stages'
  OBVIOUS
<1>1. Len(Servers) \in Nat /\ listening \in Nat /\ listening <= Len(Servers) /\ ProcSorts
  BY EventServerAssumption, TypeParts DEF ProcSorts
<1>2. CASE Binds
  BY <1>1, <1>2 DEF Stages, Started, Binds
<1>3. CASE GoesOn \/ Breaks \/ Dies
  BY <1>1, <1>3 DEF ProcSorts, Stages, Started, GoesOn, Breaks, Dies
<1>. QED
  BY <1>2, <1>3, ProcessStep

-----------------------------------------------------------------------------
\* The process and every connection keep to their types, whatever clients do.
THEOREM TypeInvariance == Spec => [](TypeOK /\ Stages)
<1>1. Init => TypeOK /\ Stages
  <2>1. Len(Servers) \in Nat /\ Len(Servers) # 0
    BY EventServerAssumption
  <2>2. Init => Stages
    BY <2>1 DEF Init, Stages, Started
  <2>. QED BY <2>2, InitType
<1>2. TypeOK /\ Stages /\ [Next]_vars => (TypeOK /\ Stages)'
  BY TypeStep, StagesStep DEF Stages
<1>. QED BY <1>1, <1>2, PTL DEF Spec

\* The type invariant alone.
THEOREM TypeCorrect == Spec => []TypeOK
BY TypeInvariance, PTL


-----------------------------------------------------------------------------
(* What responses answer.                                                  *)
Parts(responses) == [i \in DOMAIN responses |-> responses[i].of]

\* The pieces of each response, response by response.
LEMMA PartsOf ==
  ASSUME NEW r \in Seq(Reply)
  PROVE  /\ Parts(r) \in Seq(Seq(Piece)) /\ Len(Parts(r)) = Len(r)
         /\ \A x \in Reply : Parts(Append(r, x)) = Append(Parts(r), x.of)
         /\ r # <<>> => /\ Parts(r) # <<>> /\ Head(Parts(r)) = Head(r).of
                        /\ Parts(Tail(r)) = Tail(Parts(r))
         /\ Answered(r) = FlattenSeq(Parts(r))
<1>1. \A x \in Reply : x.of \in Seq(Piece)
  BY DEF Reply
<1>2. Parts(r) \in Seq(Seq(Piece)) /\ Len(Parts(r)) = Len(r)
  BY <1>1 DEF Parts
<1>3. ASSUME NEW x \in Reply PROVE Parts(Append(r, x)) = Append(Parts(r), x.of)
  BY <1>1 DEF Parts
<1>4. ASSUME r # <<>>
      PROVE  /\ Parts(r) # <<>> /\ Head(Parts(r)) = Head(r).of
             /\ Parts(Tail(r)) = Tail(Parts(r))
  BY <1>1, <1>4 DEF Parts
<1>. QED BY <1>2, <1>3, <1>4 DEF Answered, Parts

\* The responses after the first n.
LEMMA PartsOfRest ==
  ASSUME NEW r \in Seq(Reply), NEW n \in 0..Len(r)
  PROVE  /\ Parts(SubSeq(r, n + 1, Len(r))) = SubSeq(Parts(r), n + 1, Len(Parts(r)))
         /\ n \in 0..Len(Parts(r))
<1>. DEFINE q == SubSeq(r, n + 1, Len(r))  p == Parts(r)  t == SubSeq(p, n + 1, Len(p))
<1>1. /\ p \in Seq(Seq(Piece)) /\ Len(p) = Len(r) /\ Len(r) \in Nat /\ n \in Nat
      /\ n <= Len(r) /\ DOMAIN r = 1..Len(r) /\ \A i \in 1..Len(r) : p[i] = r[i].of
  BY PartsOf DEF Parts
<1>2. /\ q \in Seq(Reply) /\ Len(q) = Len(r) - n
      /\ \A i \in 1..(Len(r) - n) : q[i] = r[n + i]
  <2>1. n \in Nat /\ n + 1 \in Nat /\ Len(r) \in Nat
    BY <1>1
  <2>2. q \in Seq(Reply)
    BY <2>1
  <2>3. Len(q) = Len(r) - n
    BY <1>1, <2>1
  <2>4. \A i \in 1..(Len(r) - n) : q[i] = r[n + i]
    BY <1>1, <2>1
  <2>. QED BY <2>2, <2>3, <2>4
<1>. HIDE DEF p, q
<1>3. /\ t \in Seq(Seq(Piece)) /\ Len(t) = Len(r) - n
      /\ \A i \in 1..(Len(r) - n) : t[i] = p[n + i]
  BY <1>1
<1>. HIDE DEF t
<1>4. /\ Parts(q) \in Seq(Seq(Piece)) /\ Len(Parts(q)) = Len(r) - n
      /\ \A i \in 1..(Len(r) - n) : Parts(q)[i] = q[i].of
  BY <1>2, PartsOf DEF Parts
<1>5. \A i \in 1..(Len(r) - n) : Parts(q)[i] = t[i]
  <2>. SUFFICES ASSUME NEW i \in 1..(Len(r) - n) PROVE Parts(q)[i] = t[i]
    OBVIOUS
  <2>1. n + i \in 1..Len(r)
    BY <1>1
  <2>. QED BY <1>1, <1>2, <1>3, <1>4, <2>1
<1>. DEFINE u == Parts(q)
<1>. HIDE DEF u
<1>6. u \in Seq(Seq(Piece)) /\ Len(u) = Len(t) /\ \A i \in 1..Len(u) : u[i] = t[i]
  BY <1>3, <1>4, <1>5 DEF u
<1>7. u = t
  BY <1>3, <1>6
<1>. QED BY <1>1, <1>7 DEF u, t, p, q

\* What FlattenSeq does, for the pieces of responses.
LEMMA AnsweredOf ==
  ASSUME NEW r \in Seq(Reply)
  PROVE  /\ Answered(r) \in Seq(Piece)
         /\ r = <<>> => Answered(r) = <<>>
         /\ \A x \in Reply : Answered(Append(r, x)) = Answered(r) \o x.of
         /\ r # <<>> => Answered(r) = Head(r).of \o Answered(Tail(r))
<1>. DEFINE p == Parts(r)
<1>0. p \in Seq(Seq(Piece)) /\ Answered(r) = FlattenSeq(p)
  BY PartsOf
<1>1. Answered(r) \in Seq(Piece)
  BY <1>0, FlattenType
<1>2. ASSUME r = <<>> PROVE Answered(r) = <<>>
  <2>1. p = <<>>
    BY <1>2 DEF Parts
  <2>. QED BY <1>0, <2>1, FlattenEmpty
<1>3. ASSUME NEW x \in Reply PROVE Answered(Append(r, x)) = Answered(r) \o x.of
  <2>1. x.of \in Seq(Piece) /\ Append(r, x) \in Seq(Reply)
    BY DEF Reply
  <2>2. Answered(Append(r, x)) = FlattenSeq(Append(p, x.of))
    BY <2>1, PartsOf
  <2>. HIDE DEF p
  <2>. QED BY <1>0, <2>1, <2>2, FlattenAppend
<1>4. ASSUME r # <<>> PROVE Answered(r) = Head(r).of \o Answered(Tail(r))
  <2>1. Tail(r) \in Seq(Reply)
    BY <1>4
  <2>2. p # <<>> /\ Head(p) = Head(r).of /\ Answered(Tail(r)) = FlattenSeq(Tail(p))
    BY <1>4, <2>1, PartsOf
  <2>. HIDE DEF p
  <2>. QED BY <1>0, <2>2, FlattenHeadTail
<1>. QED BY <1>1, <1>2, <1>3, <1>4

-----------------------------------------------------------------------------
(* AnswersCoverInput.                                                      *)

\* Nothing has come from a client that has not connected, or gone to it.
Fresh ==
  \A c \in Clients : conn[c] = "none" =>
    wire[c] = <<>> /\ work[c] = <<>> /\ out[c] = <<>> /\ got[c] = <<>> /\ sent[c] = <<>>

\* A connection only begins with listenerCb.
LEMMA FreshStep == TypeOK /\ Fresh /\ [Next]_vars => Fresh'
<1>. SUFFICES ASSUME TypeOK, Fresh, [Next]_vars, NEW c \in Clients, conn'[c] = "none"
              PROVE  /\ wire'[c] = <<>> /\ work'[c] = <<>> /\ out'[c] = <<>>
                     /\ got'[c] = <<>> /\ sent'[c] = <<>>
  BY DEF Fresh
<1>1. conn[c] = "none" =>
        wire[c] = <<>> /\ work[c] = <<>> /\ out[c] = <<>> /\ got[c] = <<>> /\ sent[c] = <<>>
  BY DEF Fresh
<1>2. ClientChange(c)
  BY ClientStep
<1>. QED
  BY <1>1, <1>2
     DEF ClientChange, Stays, Ends, Opens, Closes, Sends, SendsTcp, SendsTail, SendsHttp,
         Reads, Returns, Takes, Delivers, Loses, Frees, Readable

\* The lemmas on stretches, for pieces.
LEMMA PieceAppend ==
  \A a, b \in Seq(Piece) : \A x \in Piece : a \o Append(b, x) = Append(a \o b, x)
BY ONLY StretchAppend, SMTT(30)

\* What is read goes from one stretch to the one before it.
LEMMA PieceTake ==
  \A a, b \in Seq(Piece) : \A k \in 1..Len(b) :
    (a \o SubSeq(b, 1, k)) \o SubSeq(b, k + 1, Len(b)) = a \o b
BY StretchTake, Zenon

\* Stretches may be regrouped.
LEMMA PieceGroup == \A a, b, c \in Seq(Piece) : (a \o b) \o c = a \o (b \o c)
<1>1. Associative(Piece)
  BY ONLY Regrouped, Zenon
<1>. QED BY ONLY <1>1, Zenon DEF Associative

\* What is answered goes from the work to the output.
LEMMA PieceMove ==
  \A a, b, c, d \in Seq(Piece) : ((a \o (b \o c)) \o <<>>) \o d = ((a \o b) \o c) \o d
BY ONLY StretchMove, SMTT(30)

\* A step of a connection that goes on moves pieces from one stretch of what was
\* sent to the next one, or adds to the last.
LEMMA CoverStep == TypeOK /\ Fresh /\ AnswersCoverInput /\ [Next]_vars => AnswersCoverInput'
<1>. SUFFICES ASSUME TypeOK, Fresh, AnswersCoverInput, [Next]_vars,
                     NEW c \in TcpClients, conn'[c] \in {"up", "eof", "gone"}
              PROVE  Answered(got'[c]) \o Answered(out'[c]) \o work'[c] \o wire'[c] = sent'[c]
  BY DEF AnswersCoverInput, Answered
<1>. DEFINE g == Answered(got[c])  o == Answered(out[c])
<1>a. /\ c \in Clients /\ got[c] \in Seq(Reply) /\ out[c] \in Seq(Reply)
      /\ work[c] \in Seq(Piece) /\ wire[c] \in Seq(Piece) /\ sent[c] \in Seq(Piece)
  BY TypeParts DEF Clients, ConnSorts, HistorySorts
<1>b. g \in Seq(Piece) /\ o \in Seq(Piece) /\ g \o o \in Seq(Piece)
  BY <1>a, AnsweredOf
<1>c. conn[c] \in {"up", "eof", "gone"} => ((g \o o) \o work[c]) \o wire[c] = sent[c]
  BY DEF AnswersCoverInput
<1>d. ClientChange(c)
  BY <1>a, ClientStep
<1>1. CASE Stays(c) \/ Closes(c)
  BY <1>1, <1>c DEF Stays, Closes
<1>2. CASE Opens(c)
  <2>1. /\ wire'[c] = <<>> /\ work'[c] = <<>> /\ out'[c] = <<>> /\ got'[c] = <<>>
        /\ sent'[c] = <<>>
    BY <1>2, <1>a DEF Opens, Fresh
  <2>2. Answered(<<>>) = <<>>
    <3>1. <<>> \in Seq(Reply)
      OBVIOUS
    <3>. QED BY <3>1, AnsweredOf
  <2>. QED BY <2>1, <2>2
<1>3. CASE SendsTcp(c) \/ SendsTail(c) \/ SendsHttp(c)
  <2>1. /\ conn[c] = "up" /\ got'[c] = got[c] /\ out'[c] = out[c] /\ work'[c] = work[c]
        /\ \E x \in Piece : wire'[c] = Append(wire[c], x) /\ sent'[c] = Append(sent[c], x)
    <3>1. Begun(c) \in Nat
      BY <1>a, BegunType
    <3>2. \A part \in TcpParts \cup HttpKinds :
            [req |-> Begun(c) + 1, part |-> part] \in Piece /\ [req |-> Begun(c), part |-> part] \in Piece
      BY <3>1 DEF Piece
    <3>3. \E x \in Piece : Sends(c, x)
      BY <1>3, <3>2 DEF SendsTcp, SendsTail, SendsHttp, TcpParts
    <3>. QED BY <3>3 DEF Sends
  <2>2. PICK x \in Piece : wire'[c] = Append(wire[c], x) /\ sent'[c] = Append(sent[c], x)
    BY <2>1
  <2>3. (g \o o) \o work[c] \in Seq(Piece)
    BY <1>a, <1>b
  <2>4. ((g \o o) \o work[c]) \o Append(wire[c], x) = Append(((g \o o) \o work[c]) \o wire[c], x)
    BY <1>a, <2>3, PieceAppend, Zenon
  <2>. QED BY <1>c, <2>1, <2>2, <2>4
<1>4. CASE Reads(c)
  <2>1. PICK k \in 1..Len(wire[c]) :
          work'[c] = SubSeq(wire[c], 1, k) /\ wire'[c] = SubSeq(wire[c], k + 1, Len(wire[c]))
    BY <1>4 DEF Reads
  <2>2. /\ work[c] = <<>> /\ UNCHANGED <<conn[c], got[c], out[c], sent[c]>>
    BY <1>4 DEF Reads
  <2>3. ((g \o o) \o SubSeq(wire[c], 1, k)) \o SubSeq(wire[c], k + 1, Len(wire[c]))
          = (g \o o) \o wire[c]
    BY <1>a, <1>b, PieceTake, ZenonT(30)
  <2>4. (g \o o) \o <<>> = g \o o
    BY <1>b
  <2>. QED BY <1>c, <2>1, <2>2, <2>3, <2>4
<1>5. CASE Returns(c)
  <2>. DEFINE r == Response(work[c], 200)
  <2>1. r \in Reply /\ r.of = work[c]
    BY <1>a, ResponseType
  <2>2. /\ work'[c] = <<>> /\ out'[c] = Append(out[c], r)
        /\ UNCHANGED <<conn[c], wire[c], got[c], sent[c]>>
    BY <1>5 DEF Returns
  <2>3. Answered(out'[c]) = o \o work[c]
    BY <1>a, <2>1, <2>2, AnsweredOf
  <2>4. ((g \o (o \o work[c])) \o <<>>) \o wire[c] = ((g \o o) \o work[c]) \o wire[c]
    <3>1. g \in Seq(Piece)
      BY <1>b
    <3>2. o \in Seq(Piece)
      BY <1>b
    <3>3. work[c] \in Seq(Piece)
      BY <1>a
    <3>4. wire[c] \in Seq(Piece)
      BY <1>a
    <3>. HIDE DEF g, o
    <3>5. \A y, z \in Seq(Piece) : ((g \o (o \o y)) \o <<>>) \o z = ((g \o o) \o y) \o z
      BY <3>1, <3>2, PieceMove, Zenon
    <3>. QED BY <3>3, <3>4, <3>5, Zenon
  <2>. QED BY <1>c, <2>2, <2>3, <2>4
<1>6. CASE Delivers(c)
  <2>. DEFINE r == Head(out[c])  t == Tail(out[c])
  <2>1. /\ out[c] # <<>> /\ got'[c] = Append(got[c], r) /\ out'[c] = t
        /\ UNCHANGED <<conn[c], wire[c], work[c], sent[c]>>
    BY <1>6 DEF Delivers
  <2>2. r \in Reply /\ t \in Seq(Reply)
    BY <1>a, <2>1
  <2>3. r.of \in Seq(Piece)
    BY <2>2 DEF Reply
  <2>4. Answered(got'[c]) = g \o r.of /\ o = r.of \o Answered(t) /\ Answered(t) \in Seq(Piece)
    BY <1>a, <2>1, <2>2, AnsweredOf
  <2>. HIDE DEF r, t, g, o
  <2>5. (g \o r.of) \o Answered(t) = g \o (r.of \o Answered(t))
    <3>1. g \in Seq(Piece)
      BY <1>b
    <3>2. Answered(t) \in Seq(Piece)
      BY <2>4
    <3>. QED BY <2>3, <3>1, <3>2, PieceGroup, Zenon
  <2>. QED BY <1>c, <2>1, <2>4, <2>5
<1>7. CASE Ends(c) \/ Takes(c) \/ Loses(c) \/ Frees(c)
  BY <1>7, EventServerAssumption DEF Ends, Takes, Loses, Frees
<1>. QED BY <1>d, <1>1, <1>2, <1>3, <1>4, <1>5, <1>6, <1>7 DEF ClientChange

\* Every byte of a TCP client is answered once, in order, or on its way.
THEOREM AnswersCover == Spec => []AnswersCoverInput
<1>1. Init => Fresh /\ AnswersCoverInput
  <2>1. Init => Fresh
    BY DEF Init, Fresh
  <2>2. Init => AnswersCoverInput
    BY DEF Init, AnswersCoverInput, Clients
  <2>. QED BY <2>1, <2>2
<1>2. TypeOK /\ Fresh /\ AnswersCoverInput /\ [Next]_vars => (Fresh /\ AnswersCoverInput)'
  BY FreshStep, CoverStep
<1>. QED BY <1>1, <1>2, TypeCorrect, PTL DEF Spec

-----------------------------------------------------------------------------
(* InTurnServed.                                                           *)
Whole(n) == [req |-> n, part |-> "whole"]

\* A client that waits for each response has sent s and got g: nothing but its
\* last request is under way, and that one is in one place.
InTurnWith(s, g, w, k, o) ==
  LET n == Len(g) + 1
  IN  /\ \A i \in DOMAIN s : s[i] = Whole(i)
      /\ \A i \in DOMAIN g : g[i].of = <<Whole(i)>>
      /\ \/ Len(s) = Len(g) /\ w = <<>> /\ k = <<>> /\ o = <<>>
         \/ /\ Len(s) = n
            /\ \/ w = <<Whole(n)>> /\ k = <<>> /\ o = <<>>
               \/ w = <<>> /\ k = <<Whole(n)>> /\ o = <<>>
               \/ w = <<>> /\ k = <<>> /\ o = <<Response(<<Whole(n)>>, 200)>>
               \/ w = <<>> /\ k = <<>> /\ o = <<>>

InTurn ==
  \A c \in TcpClients :
    inTurn[c] => InTurnWith(sent[c], got[c], wire[c], work[c], out[c])

\* With one piece for each request, the requests begun are the pieces sent.
LEMMA BegunPieces ==
  ASSUME TypeOK, NEW c \in Clients, \A i \in DOMAIN sent[c] : sent[c][i].req = i
  PROVE  Begun(c) = Len(sent[c])
<1>. DEFINE s == sent[c]
<1>1. s \in Seq(Piece) /\ DOMAIN s = 1..Len(s) /\ Len(s) \in Nat
  BY TypeParts DEF HistorySorts
<1>2. {s[i].req : i \in DOMAIN s} = 1..Len(s)
  BY <1>1
<1>3. Cardinality(1..Len(s)) = Len(s)
  BY <1>1, FS_Interval
<1>. QED BY <1>2, <1>3 DEF Begun

\* What a step of such a client does to its one request.
LEMMA InTurnStep == TypeOK /\ InTurn /\ [Next]_vars => InTurn'
<1>. SUFFICES ASSUME TypeOK, InTurn, [Next]_vars, NEW c \in TcpClients, inTurn'[c]
              PROVE  InTurnWith(sent'[c], got'[c], wire'[c], work'[c], out'[c])
  BY DEF InTurn
<1>a. /\ c \in Clients /\ got[c] \in Seq(Reply) /\ out[c] \in Seq(Reply)
      /\ work[c] \in Seq(Piece) /\ wire[c] \in Seq(Piece) /\ sent[c] \in Seq(Piece)
  BY TypeParts DEF Clients, ConnSorts, HistorySorts
<1>b. inTurn[c] => InTurnWith(sent[c], got[c], wire[c], work[c], out[c])
  BY DEF InTurn
<1>c. ClientChange(c)
  BY <1>a, ClientStep
<1>d. c \notin HttpClients
  BY EventServerAssumption
<1>. DEFINE s == sent[c]  g == got[c]  n == Len(g) + 1
<1>e. Len(g) \in Nat /\ n \in Nat /\ Len(s) \in Nat /\ s \in Seq(Piece) /\ g \in Seq(Reply)
  BY <1>a
<1>1. CASE Stays(c) \/ Opens(c) \/ Closes(c)
  BY <1>1, <1>b DEF Stays, Opens, Closes
<1>2. CASE Ends(c) \/ Frees(c)
  <2>1. /\ inTurn[c] /\ sent'[c] = s /\ got'[c] = g /\ out'[c] = <<>>
        /\ work'[c] = <<>> /\ wire'[c] = <<>>
    BY <1>2 DEF Ends, Frees
  <2>. QED BY <2>1, <1>b DEF InTurnWith
<1>2a. CASE Loses(c)
  <2>1. /\ inTurn[c] /\ sent'[c] = s /\ got'[c] = g /\ work'[c] = work[c] /\ out[c] # <<>>
        /\ \/ wire'[c] = <<>> /\ out'[c] = <<>>
           \/ /\ wire'[c] = wire[c]
              /\ \E k \in 0..Len(out[c]) : out'[c] = SubSeq(out[c], k + 1, Len(out[c]))
    BY <1>2a DEF Loses
  <2>. DEFINE x == Response(<<Whole(n)>>, 200)
  <2>2. /\ out[c] = <<x>> /\ wire[c] = <<>> /\ work[c] = <<>> /\ Len(s) = n
        /\ \A i \in DOMAIN s : s[i] = Whole(i)
        /\ \A i \in DOMAIN g : g[i].of = <<Whole(i)>>
    BY <1>b, <2>1 DEF InTurnWith
  <2>. HIDE DEF x
  <2>3. out'[c] = <<x>> \/ out'[c] = <<>>
    <3>1. CASE out'[c] = <<>>
      BY <3>1
    <3>2. CASE \E k \in 0..Len(out[c]) : out'[c] = SubSeq(out[c], k + 1, Len(out[c]))
      <4>1. PICK k \in 0..Len(out[c]) : out'[c] = SubSeq(out[c], k + 1, Len(out[c]))
        BY <3>2
      <4>2. Len(out[c]) = 1 /\ (k = 0 \/ k = 1)
        BY <2>2
      <4>3. /\ out'[c] \in Seq(Reply) /\ Len(out'[c]) = 1 - k
            /\ \A i \in 1..(1 - k) : out'[c][i] = out[c][i + k]
        BY <1>a, <4>1, <4>2
      <4>4. CASE k = 1
        <5>1. Len(out'[c]) = 0
          BY <4>3, <4>4
        <5>. QED BY <4>3, <5>1
      <4>5. CASE k = 0
        <5>1. Len(out'[c]) = 1 /\ out'[c][1] = x
          BY <2>2, <4>3, <4>5
        <5>. QED BY <4>3, <5>1
      <4>. QED BY <4>2, <4>4, <4>5
    <3>. QED BY <2>1, <3>1, <3>2
  <2>4. wire'[c] = <<>> /\ work'[c] = <<>>
    BY <2>1, <2>2
  <2>. QED BY <2>1, <2>2, <2>3, <2>4 DEF InTurnWith, x
<1>3. CASE SendsTcp(c)
  <2>1. /\ inTurn[c] /\ Len(g) = Len(s)
        /\ wire'[c] = Append(wire[c], Whole(Begun(c) + 1))
        /\ sent'[c] = Append(s, Whole(Begun(c) + 1))
        /\ got'[c] = g /\ work'[c] = work[c] /\ out'[c] = out[c]
    BY <1>3 DEF SendsTcp, Sends, Whole
  <2>2. wire[c] = <<>> /\ work[c] = <<>> /\ out[c] = <<>>
    BY <1>b, <1>e, <2>1 DEF InTurnWith
  <2>3. \A i \in DOMAIN s : s[i] = Whole(i)
    BY <1>b, <2>1 DEF InTurnWith
  <2>4. Begun(c) + 1 = n
    <3>1. \A i \in DOMAIN s : s[i].req = i
      <4>1. \A i : Whole(i).req = i
        BY DEF Whole
      <4>. QED BY <2>3, <4>1, Zenon
    <3>2. Begun(c) = Len(s)
      BY <1>a, <3>1, BegunPieces
    <3>. QED BY <2>1, <3>2
  <2>5. Whole(n) \in Piece
    BY <1>e DEF Whole, Piece, TcpParts
  <2>6. wire'[c] = <<Whole(n)>>
    BY <2>1, <2>2, <2>4
  <2>. HIDE DEF n, s, g
  <2>7. Len(Append(s, Whole(n))) = Len(s) + 1
    BY <1>e, <2>5
  <2>8. \A i \in DOMAIN Append(s, Whole(n)) : Append(s, Whole(n))[i] = Whole(i)
    BY <1>e, <2>1, <2>3, <2>5 DEF n
  <2>. QED BY <1>b, <2>1, <2>2, <2>4, <2>6, <2>7, <2>8 DEF InTurnWith, n, g
<1>4. CASE SendsTail(c)
  <2>1. inTurn[c] /\ s # <<>> /\ Last(s).part = "head"
    BY <1>4 DEF SendsTail, HeadSent
  <2>2. s[Len(s)] = Whole(Len(s))
    BY <1>a, <1>b, <2>1 DEF InTurnWith
  <2>. QED BY <2>1, <2>2 DEF Last, Whole
<1>5. CASE Reads(c)
  <2>1. PICK k \in 1..Len(wire[c]) :
          work'[c] = SubSeq(wire[c], 1, k) /\ wire'[c] = SubSeq(wire[c], k + 1, Len(wire[c]))
    BY <1>5 DEF Reads
  <2>2. inTurn[c] /\ sent'[c] = s /\ got'[c] = g /\ out'[c] = out[c]
    BY <1>5 DEF Reads
  <2>3. wire[c] = <<Whole(n)>>
    BY <1>b, <2>1, <2>2 DEF InTurnWith
  <2>4. work'[c] = <<Whole(n)>> /\ wire'[c] = <<>>
    <3>1. k = 1 /\ Len(wire[c]) = 1
      BY <2>1, <2>3
    <3>2. \A w \in Seq(Piece) : Len(w) = 1 => SubSeq(w, 1, 1) = w /\ SubSeq(w, 1 + 1, 1) = <<>>
      OBVIOUS
    <3>3. SubSeq(wire[c], 1, 1) = wire[c] /\ SubSeq(wire[c], 1 + 1, 1) = <<>>
      BY <1>a, <3>1, <3>2, Zenon
    <3>. QED BY <2>1, <2>3, <3>1, <3>3, Zenon
  <2>. QED BY <1>b, <2>2, <2>3, <2>4 DEF InTurnWith
<1>6. CASE Returns(c)
  <2>1. /\ inTurn[c] /\ sent'[c] = s /\ got'[c] = g /\ wire'[c] = wire[c]
        /\ work[c] # <<>> /\ work'[c] = <<>>
        /\ out'[c] = Append(out[c], Response(work[c], 200))
    BY <1>6 DEF Returns
  <2>2. out[c] = <<>> /\ work[c] = <<Whole(n)>>
    BY <1>b, <2>1 DEF InTurnWith
  <2>3. out'[c] = <<Response(<<Whole(n)>>, 200)>>
    BY <2>1, <2>2
  <2>. QED BY <1>b, <2>1, <2>2, <2>3 DEF InTurnWith
<1>7. CASE Delivers(c)
  <2>1. /\ inTurn[c] /\ sent'[c] = s /\ work'[c] = work[c] /\ out[c] # <<>>
        /\ wire'[c] = <<>> \/ wire'[c] = wire[c]
        /\ got'[c] = Append(g, Head(out[c])) /\ out'[c] = Tail(out[c])
    BY <1>7 DEF Delivers
  <2>. DEFINE r == Response(<<Whole(n)>>, 200)
  <2>2. out[c] = <<r>> /\ wire[c] = <<>> /\ work[c] = <<>> /\ Len(s) = n
    BY <1>b, <2>1 DEF InTurnWith
  <2>3. r \in Reply /\ r.of = <<Whole(n)>>
    BY <1>a, <2>2 DEF Response
  <2>. HIDE DEF r, n
  <2>4. got'[c] = Append(g, r) /\ out'[c] = <<>> /\ wire'[c] = <<>>
    BY <2>1, <2>2
  <2>5. /\ \A i \in DOMAIN s : s[i] = Whole(i)
        /\ \A i \in DOMAIN g : g[i].of = <<Whole(i)>>
    BY <1>b, <2>1 DEF InTurnWith
  <2>. HIDE DEF s, g
  <2>6. Len(Append(g, r)) = Len(s)
    BY <1>e, <2>2, <2>3 DEF n
  <2>7. \A i \in DOMAIN Append(g, r) : Append(g, r)[i].of = <<Whole(i)>>
    BY <1>e, <2>3, <2>5 DEF n
  <2>. QED BY <2>1, <2>2, <2>4, <2>5, <2>6, <2>7 DEF InTurnWith
<1>8. CASE SendsHttp(c) \/ Takes(c)
  BY <1>8, <1>d DEF SendsHttp, Takes
<1>. QED BY <1>c, <1>1, <1>2, <1>2a, <1>3, <1>4, <1>5, <1>6, <1>7, <1>8 DEF ClientChange

\* A TCP client that waits for each response gets one for each request.
THEOREM ServedInTurn == Spec => []InTurnServed
<1>1. Init => InTurn
  <2>1. ASSUME Init, NEW c \in TcpClients
        PROVE  InTurnWith(sent[c], got[c], wire[c], work[c], out[c])
    <3>1. sent[c] = <<>> /\ got[c] = <<>> /\ wire[c] = <<>> /\ work[c] = <<>> /\ out[c] = <<>>
      BY <2>1 DEF Init, Clients
    <3>. QED BY <3>1 DEF InTurnWith
  <2>. QED BY <2>1 DEF InTurn
<1>2. TypeOK /\ InTurn /\ [Next]_vars => InTurn'
  BY InTurnStep
<1>3. InTurn => InTurnServed
  BY DEF InTurn, InTurnWith, InTurnServed, Whole
<1>. QED BY <1>1, <1>2, <1>3, TypeCorrect, PTL DEF Spec

-----------------------------------------------------------------------------
(* What a client has sent.                                                 *)

\* s holds the requests 1 to b in order, each in one piece or in two.
Numbered(s, b) ==
  /\ {s[i].req : i \in DOMAIN s} = 1..b
  /\ s # <<>> => s[Len(s)].req = b
  /\ \A i, j \in DOMAIN s : i < j =>
       \/ s[i].req < s[j].req
       \/ s[i].req = s[j].req /\ s[i].part = "head" /\ s[j].part = "tail"

\* An HTTP request is one piece.
HttpNumbered(s) == \A i \in DOMAIN s : s[i].req = i /\ s[i].part \in HttpKinds

SentInOrder ==
  /\ \A c \in Clients : \E b \in Nat : Numbered(sent[c], b)
  /\ \A c \in HttpClients : HttpNumbered(sent[c])

\* The next request keeps the order.
LEMMA NumberedNext ==
  ASSUME NEW s \in Seq(Piece), NEW b \in Nat, Numbered(s, b),
         NEW x \in Piece, x.req = b + 1
  PROVE  Numbered(Append(s, x), b + 1)
<1>. DEFINE t == Append(s, x)
<1>1. /\ Len(s) \in Nat /\ DOMAIN s = 1..Len(s) /\ DOMAIN t = 1..(Len(s) + 1)
      /\ t[Len(s) + 1] = x /\ \A i \in 1..Len(s) : t[i] = s[i]
      /\ Len(t) = Len(s) + 1
  OBVIOUS
<1>2. \A i \in 1..Len(s) : s[i].req \in 1..b
  BY <1>1 DEF Numbered
<1>. HIDE DEF t
<1>3. {t[i].req : i \in DOMAIN t} = 1..(b + 1)
  <2>1. ASSUME NEW i \in DOMAIN t PROVE t[i].req \in 1..(b + 1)
    <3>1. CASE i \in 1..Len(s)
      BY <1>1, <1>2, <3>1
    <3>2. CASE i = Len(s) + 1
      BY <1>1, <3>2
    <3>. QED BY <1>1, <3>1, <3>2
  <2>2. ASSUME NEW n \in 1..(b + 1) PROVE \E i \in DOMAIN t : n = t[i].req
    <3>1. CASE n = b + 1
      BY <1>1, <3>1
    <3>2. CASE n # b + 1
      <4>1. n \in 1..b
        BY <3>2
      <4>2. PICK i \in DOMAIN s : n = s[i].req
        BY <4>1 DEF Numbered
      <4>. QED BY <1>1, <4>2
    <3>. QED BY <3>1, <3>2
  <2>. QED BY <2>1, <2>2
<1>4. ASSUME NEW i \in DOMAIN t, NEW j \in DOMAIN t, i < j
      PROVE  \/ t[i].req < t[j].req
             \/ t[i].req = t[j].req /\ t[i].part = "head" /\ t[j].part = "tail"
  <2>0. i \in 1..Len(s) /\ t[i] = s[i]
    BY <1>1, <1>4
  <2>1. CASE j \in 1..Len(s)
    BY <1>1, <1>4, <2>0, <2>1 DEF Numbered
  <2>2. CASE j = Len(s) + 1
    BY <1>1, <1>2, <2>0, <2>2
  <2>. QED BY <1>1, <2>1, <2>2
<1>. QED BY <1>1, <1>3, <1>4 DEF Numbered, t

\* So does the second part of the last one.
LEMMA NumberedTail ==
  ASSUME NEW s \in Seq(Piece), NEW b \in Nat, Numbered(s, b),
         s # <<>>, s[Len(s)].part = "head",
         NEW x \in Piece, x.req = b, x.part = "tail"
  PROVE  Numbered(Append(s, x), b)
<1>. DEFINE t == Append(s, x)
<1>1. /\ Len(s) \in Nat /\ DOMAIN s = 1..Len(s) /\ DOMAIN t = 1..(Len(s) + 1)
      /\ t[Len(s) + 1] = x /\ \A i \in 1..Len(s) : t[i] = s[i]
      /\ Len(t) = Len(s) + 1 /\ Len(s) \in 1..Len(s)
  OBVIOUS
<1>2. \A i \in 1..Len(s) : s[i].req \in 1..b
  BY <1>1 DEF Numbered
<1>2a. s[Len(s)].req = b
  BY DEF Numbered
<1>. HIDE DEF t
<1>3. {t[i].req : i \in DOMAIN t} = 1..b
  <2>1. ASSUME NEW i \in DOMAIN t PROVE t[i].req \in 1..b
    <3>1. CASE i \in 1..Len(s)
      BY <1>1, <1>2, <3>1
    <3>2. CASE i = Len(s) + 1
      BY <1>1, <1>2, <1>2a, <3>2
    <3>. QED BY <1>1, <3>1, <3>2
  <2>2. ASSUME NEW n \in 1..b PROVE \E i \in DOMAIN t : n = t[i].req
    <3>1. PICK i \in DOMAIN s : n = s[i].req
      BY DEF Numbered
    <3>. QED BY <1>1, <3>1
  <2>. QED BY <2>1, <2>2
<1>4. ASSUME NEW i \in DOMAIN t, NEW j \in DOMAIN t, i < j
      PROVE  \/ t[i].req < t[j].req
             \/ t[i].req = t[j].req /\ t[i].part = "head" /\ t[j].part = "tail"
  <2>0. i \in 1..Len(s) /\ t[i] = s[i]
    BY <1>1, <1>4
  <2>1. CASE j \in 1..Len(s)
    BY <1>1, <1>4, <2>0, <2>1 DEF Numbered
  <2>2. CASE j = Len(s) + 1
    <3>1. CASE i = Len(s)
      BY <1>1, <1>2a, <2>0, <2>2, <3>1
    <3>2. CASE i # Len(s)
      <4>1. i < Len(s)
        BY <1>1, <2>0, <3>2
      <4>2. s[i].req < s[Len(s)].req
        BY <1>1, <2>0, <4>1 DEF Numbered
      <4>. QED BY <1>1, <1>2a, <2>0, <2>2, <4>2
    <3>. QED BY <3>1, <3>2
  <2>. QED BY <1>1, <2>1, <2>2
<1>. QED BY <1>1, <1>3, <1>4 DEF Numbered, t

\* The requests of a client are numbered up to the number it has begun.
LEMMA NumberedBegun ==
  ASSUME NEW c \in Clients, NEW b \in Nat, Numbered(sent[c], b)
  PROVE  Begun(c) = b
<1>1. {sent[c][i].req : i \in DOMAIN sent[c]} = 1..b
  BY DEF Numbered
<1>2. Cardinality(1..b) = b
  BY FS_Interval
<1>. QED BY <1>1, <1>2 DEF Begun

\* What a step adds to what a client has sent.
LEMMA SentStep ==
  ASSUME TypeOK, [Next]_vars, NEW c \in Clients, sent'[c] # sent[c]
  PROVE  \E x \in Piece :
           /\ Sends(c, x)
           /\ \/ c \in TcpClients /\ x.req = Begun(c) + 1 /\ x.part \in {"whole", "head"}
              \/ c \in TcpClients /\ HeadSent(c) /\ x.req = Begun(c) /\ x.part = "tail"
              \/ c \in HttpClients /\ x.req = Begun(c) + 1 /\ x.part \in HttpKinds
<1>1. Begun(c) \in Nat
  BY BegunType
<1>2. \A part \in TcpParts \cup HttpKinds :
        /\ [req |-> Begun(c) + 1, part |-> part] \in Piece
        /\ [req |-> Begun(c), part |-> part] \in Piece
  BY <1>1 DEF Piece
<1>3. SendsTcp(c) \/ SendsTail(c) \/ SendsHttp(c)
  BY ClientStep
     DEF ClientChange, Stays, Ends, Opens, Closes, Reads, Returns, Takes, Delivers, Loses, Frees
<1>4. CASE SendsTcp(c)
  <2>1. PICK part \in {"whole", "head"} : Sends(c, [req |-> Begun(c) + 1, part |-> part])
    BY <1>4 DEF SendsTcp
  <2>. DEFINE x == [req |-> Begun(c) + 1, part |-> part]
  <2>2. /\ x \in Piece /\ x.req = Begun(c) + 1 /\ c \in TcpClients
        /\ x.part \in {"whole", "head"}
    BY <1>2, <1>4 DEF SendsTcp, TcpParts
  <2>. HIDE DEF x
  <2>3. Sends(c, x)
    BY <2>1 DEF x
  <2>. QED BY <2>2, <2>3
<1>5. CASE SendsTail(c)
  <2>. DEFINE x == [req |-> Begun(c), part |-> "tail"]
  <2>1. x \in Piece /\ x.req = Begun(c) /\ x.part = "tail" /\ c \in TcpClients
    BY <1>2, <1>5 DEF SendsTail, TcpParts
  <2>2. Sends(c, x) /\ HeadSent(c)
    BY <1>5 DEF SendsTail
  <2>. HIDE DEF x
  <2>. QED BY <2>1, <2>2
<1>6. CASE SendsHttp(c)
  <2>1. PICK part \in HttpKinds : Sends(c, [req |-> Begun(c) + 1, part |-> part])
    BY <1>6 DEF SendsHttp
  <2>. DEFINE x == [req |-> Begun(c) + 1, part |-> part]
  <2>2. x \in Piece /\ x.req = Begun(c) + 1 /\ x.part \in HttpKinds /\ c \in HttpClients
    BY <1>2, <1>6 DEF SendsHttp
  <2>. HIDE DEF x
  <2>3. Sends(c, x)
    BY <2>1 DEF x
  <2>. QED BY <2>2, <2>3
<1>. QED BY <1>3, <1>4, <1>5, <1>6

\* Clients number their requests as they begin them.
LEMMA OrderStep == TypeOK /\ SentInOrder /\ [Next]_vars => SentInOrder'
<1>. SUFFICES ASSUME TypeOK, SentInOrder, [Next]_vars PROVE SentInOrder'
  OBVIOUS
<1>1. ASSUME NEW c \in Clients PROVE \E b \in Nat : Numbered(sent'[c], b)
  <2>1. PICK b \in Nat : Numbered(sent[c], b)
    BY DEF SentInOrder
  <2>2. CASE sent'[c] = sent[c]
    BY <2>1, <2>2
  <2>3. CASE sent'[c] # sent[c]
    <3>1. PICK x \in Piece :
            /\ sent'[c] = Append(sent[c], x)
            /\ x.req = Begun(c) + 1 \/ (HeadSent(c) /\ x.req = Begun(c) /\ x.part = "tail")
      BY <2>3, SentStep DEF Sends
    <3>2. Begun(c) = b /\ sent[c] \in Seq(Piece)
      BY <2>1, NumberedBegun, TypeParts DEF HistorySorts
    <3>3. CASE x.req = Begun(c) + 1
      BY <2>1, <3>1, <3>2, <3>3, NumberedNext
    <3>4. CASE HeadSent(c) /\ x.req = Begun(c) /\ x.part = "tail"
      <4>1. sent[c] # <<>> /\ sent[c][Len(sent[c])].part = "head"
        BY <3>4 DEF HeadSent, Last
      <4>. QED BY <2>1, <3>1, <3>2, <3>4, <4>1, NumberedTail
    <3>. QED BY <3>1, <3>3, <3>4
  <2>. QED BY <2>2, <2>3
<1>2. ASSUME NEW c \in HttpClients PROVE HttpNumbered(sent'[c])
  <2>1. c \in Clients /\ c \notin TcpClients /\ HttpNumbered(sent[c]) /\ sent[c] \in Seq(Piece)
    BY EventServerAssumption, TypeParts DEF Clients, SentInOrder, HistorySorts
  <2>2. CASE sent'[c] # sent[c]
    <3>1. PICK x \in Piece :
            /\ sent'[c] = Append(sent[c], x)
            /\ x.req = Begun(c) + 1 /\ x.part \in HttpKinds
      BY <2>1, <2>2, SentStep DEF Sends
    <3>2. \A i \in DOMAIN sent[c] : sent[c][i].req = i
      BY <2>1 DEF HttpNumbered
    <3>3. Begun(c) = Len(sent[c])
      BY <2>1, <3>2, BegunPieces
    <3>. DEFINE s == sent[c]
    <3>4. s \in Seq(Piece) /\ HttpNumbered(s) /\ x.req = Len(s) + 1
      BY <2>1, <3>1, <3>3
    <3>. HIDE DEF s
    <3>5. HttpNumbered(Append(s, x))
      BY <3>1, <3>4 DEF HttpNumbered
    <3>. QED BY <3>1, <3>5 DEF s
  <2>. QED BY <2>1, <2>2
<1>. QED BY <1>1, <1>2 DEF SentInOrder

-----------------------------------------------------------------------------
(* What is still to be read is the end of what was sent.                   *)
UnreadTail(s, w) ==
  /\ Len(w) <= Len(s)
  /\ \A i \in DOMAIN w : w[i] = s[Len(s) - Len(w) + i]

Unread == \A c \in Clients : UnreadTail(sent[c], wire[c])

\* The end grows at one end and is taken from at the other.
LEMMA TailGrows ==
  ASSUME NEW s \in Seq(Piece), NEW w \in Seq(Piece), UnreadTail(s, w), NEW x \in Piece
  PROVE  UnreadTail(Append(s, x), Append(w, x))
<1>1. /\ Len(Append(s, x)) = Len(s) + 1 /\ Len(Append(w, x)) = Len(w) + 1
      /\ Len(s) \in Nat /\ Len(w) \in Nat /\ DOMAIN w = 1..Len(w)
      /\ DOMAIN Append(w, x) = 1..(Len(w) + 1)
      /\ Append(s, x)[Len(s) + 1] = x /\ Append(w, x)[Len(w) + 1] = x
      /\ \A i \in 1..Len(s) : Append(s, x)[i] = s[i]
      /\ \A i \in 1..Len(w) : Append(w, x)[i] = w[i]
  OBVIOUS
<1>2. ASSUME NEW i \in 1..(Len(w) + 1)
      PROVE  Append(w, x)[i] = Append(s, x)[Len(s) + 1 - (Len(w) + 1) + i]
  <2>1. CASE i = Len(w) + 1
    BY <1>1, <2>1
  <2>2. CASE i \in 1..Len(w)
    <3>1. w[i] = s[Len(s) - Len(w) + i] /\ Len(w) <= Len(s)
      BY <1>1, <2>2 DEF UnreadTail
    <3>2. /\ Len(s) - Len(w) + i \in 1..Len(s)
          /\ Len(s) + 1 - (Len(w) + 1) + i = Len(s) - Len(w) + i
      BY <1>1, <2>2, <3>1
    <3>. QED BY <1>1, <2>2, <3>1, <3>2
  <2>3. \A n \in Nat : \A j \in 1..(n + 1) : j = n + 1 \/ j \in 1..n
    OBVIOUS
  <2>4. Len(w) \in Nat
    OBVIOUS
  <2>5. i = Len(w) + 1 \/ i \in 1..Len(w)
    BY ONLY <2>3, <2>4, ZenonT(30)
  <2>. QED BY <2>1, <2>2, <2>5
<1>. QED BY <1>1, <1>2 DEF UnreadTail

\* Reading some of the end leaves the end of it.
LEMMA TailShrinks ==
  ASSUME NEW s \in Seq(Piece), NEW w \in Seq(Piece), UnreadTail(s, w),
         NEW k \in 1..Len(w)
  PROVE  /\ UnreadTail(s, SubSeq(w, k + 1, Len(w)))
         /\ Len(SubSeq(w, k + 1, Len(w))) = Len(w) - k
<1>. DEFINE v == SubSeq(w, k + 1, Len(w))
<1>1. /\ Len(v) = Len(w) - k /\ Len(v) \in Nat /\ DOMAIN v = 1..Len(v)
      /\ \A i \in 1..Len(v) : v[i] = w[k + i]
      /\ Len(s) \in Nat /\ Len(w) \in Nat /\ DOMAIN w = 1..Len(w)
  OBVIOUS
<1>. HIDE DEF v
<1>2. ASSUME NEW i \in 1..Len(v) PROVE v[i] = s[Len(s) - Len(v) + i]
  <2>1. k + i \in 1..Len(w)
    BY <1>1
  <2>2. w[k + i] = s[Len(s) - Len(w) + (k + i)]
    BY <1>1, <2>1 DEF UnreadTail
  <2>3. Len(s) - Len(w) + (k + i) = Len(s) - Len(v) + i
    BY <1>1
  <2>. QED BY <1>1, <2>2, <2>3
<1>3. Len(v) <= Len(s)
  BY <1>1 DEF UnreadTail
<1>. QED BY <1>1, <1>2, <1>3 DEF UnreadTail, v

\* Reading one piece, which is the first not read yet.
LEMMA TailTaken ==
  ASSUME NEW s \in Seq(Piece), NEW w \in Seq(Piece), UnreadTail(s, w), w # <<>>
  PROVE  /\ UnreadTail(s, Tail(w)) /\ Len(Tail(w)) = Len(w) - 1
         /\ Len(s) - Len(w) + 1 \in DOMAIN s
         /\ Head(w) = s[Len(s) - Len(w) + 1]
<1>1. /\ Len(w) \in Nat /\ Len(s) \in Nat /\ 1 \in 1..Len(w) /\ DOMAIN w = 1..Len(w)
      /\ DOMAIN s = 1..Len(s) /\ Head(w) = w[1] /\ Tail(w) = SubSeq(w, 1 + 1, Len(w))
  OBVIOUS
<1>2. UnreadTail(s, Tail(w)) /\ Len(Tail(w)) = Len(w) - 1
  BY <1>1, TailShrinks
<1>3. Len(w) <= Len(s) /\ w[1] = s[Len(s) - Len(w) + 1]
  BY <1>1 DEF UnreadTail
<1>. QED BY <1>1, <1>2, <1>3

\* Clients write at one end, the callbacks read at the other.
LEMMA UnreadStep == TypeOK /\ Unread /\ [Next]_vars => Unread'
<1>. SUFFICES ASSUME TypeOK, Unread, [Next]_vars, NEW c \in Clients
              PROVE  UnreadTail(sent'[c], wire'[c])
  BY DEF Unread
<1>1. sent[c] \in Seq(Piece) /\ wire[c] \in Seq(Piece) /\ UnreadTail(sent[c], wire[c])
  BY TypeParts DEF ConnSorts, HistorySorts, Unread
<1>2. UnreadTail(sent[c], <<>>)
  BY <1>1 DEF UnreadTail
<1>3. CASE sent'[c] # sent[c]
  <2>1. PICK x \in Piece : Sends(c, x)
    BY <1>3, SentStep
  <2>. QED BY <1>1, <2>1, TailGrows DEF Sends
<1>4. CASE sent'[c] = sent[c] /\ (wire'[c] = wire[c] \/ wire'[c] = <<>>)
  BY <1>1, <1>2, <1>4
<1>5. CASE Reads(c)
  BY <1>1, <1>5, TailShrinks DEF Reads
<1>6. CASE Takes(c)
  BY <1>1, <1>6, TailTaken DEF Takes
<1>7. CASE SendsTcp(c) \/ SendsTail(c) \/ SendsHttp(c)
  <2>1. \E x : Sends(c, x)
    BY <1>7 DEF SendsTcp, SendsTail, SendsHttp
  <2>2. sent'[c] # sent[c]
    <3>1. PICK x : sent'[c] = Append(sent[c], x)
      BY <2>1 DEF Sends
    <3>2. Len(Append(sent[c], x)) = Len(sent[c]) + 1 /\ Len(sent[c]) \in Nat
      BY <1>1
    <3>. QED BY <3>1, <3>2
  <2>. QED BY <1>3, <2>2
<1>. QED
  BY <1>3, <1>4, <1>5, <1>6, <1>7, ClientStep
     DEF ClientChange, Stays, Ends, Opens, Closes, Returns, Delivers, Loses, Frees

\* Nothing has been sent.
LEMMA InitOrder == Init => Fresh /\ SentInOrder /\ Unread
<1>. SUFFICES ASSUME Init PROVE Fresh /\ SentInOrder /\ Unread
  OBVIOUS
<1>1. \A c \in Clients : /\ sent[c] = <<>> /\ got[c] = <<>> /\ wire[c] = <<>>
                         /\ work[c] = <<>> /\ out[c] = <<>>
  BY DEF Init
<1>2. HttpClients \subseteq Clients
  BY DEF Clients
<1>3. Numbered(<<>>, 0) /\ HttpNumbered(<<>>)
  <2>1. {<<>>[i].req : i \in DOMAIN <<>>} = {} /\ 1..0 = {} /\ DOMAIN <<>> = {}
    OBVIOUS
  <2>. QED BY <2>1 DEF Numbered, HttpNumbered
<1>4. SentInOrder
  BY <1>1, <1>2, <1>3 DEF SentInOrder
<1>5. Unread
  BY <1>1 DEF Unread, UnreadTail
<1>6. Fresh
  BY <1>1 DEF Fresh
<1>. QED BY <1>4, <1>5, <1>6

-----------------------------------------------------------------------------
(* HttpRepliesInStep.                                                      *)

\* The parameters of every request before the n-th could be read.
Clear(s, n) == \A j \in DOMAIN s : j < n => s[j].part # "unread"

\* x is the reply to the i-th request of s.
ReplyTo(s, x, i) ==
  /\ i \in DOMAIN s
  /\ x = Response(<<s[i]>>, IF s[i].part = "read" THEN 200 ELSE 400)

InStepAt(s, x, i) == Clear(s, i) => ReplyTo(s, x, i)

\* The client has sent s and got g.  Until a request comes whose parameters
\* cannot be read, each of those before w has one reply or is with its handler;
\* after that, the first of them is among those that have replies.
Working(s, g, w, k, o) ==
  LET p == Len(s) - Len(w)
  IN  /\ \A j \in DOMAIN o : InStepAt(s, o[j], Len(g) + j)
      /\ Clear(s, p + 1) =>
           /\ Len(g) + Len(o) + Len(k) = p
           /\ k # <<>> => k = <<s[p]>> /\ s[p].part = "read"
      /\ ~Clear(s, p + 1) => ~Clear(s, Len(g) + Len(o) + 1)

InStep ==
  \A c \in HttpClients :
    /\ \A i \in DOMAIN got[c] : InStepAt(sent[c], got[c][i], i)
    /\ conn[c] \in {"none", "up", "eof"} =>
         Working(sent[c], got[c], wire[c], work[c], out[c])

\* Requests sent later change nothing for those before.
LEMMA ClearStays ==
  ASSUME NEW s \in Seq(Piece), NEW x \in Piece
  PROVE  /\ \A n \in Int : n <= Len(s) + 1 => (Clear(Append(s, x), n) <=> Clear(s, n))
         /\ \A n \in Int : ~Clear(s, n) => ~Clear(Append(s, x), n)
         /\ \A y : \A i \in Int : InStepAt(s, y, i) => InStepAt(Append(s, x), y, i)
<1>. DEFINE t == Append(s, x)
<1>1. /\ Len(s) \in Nat /\ DOMAIN s = 1..Len(s) /\ DOMAIN t = 1..(Len(s) + 1)
      /\ \A i \in 1..Len(s) : t[i] = s[i]
  OBVIOUS
<1>. HIDE DEF t
<1>2. \A n \in Int : n <= Len(s) + 1 => (Clear(t, n) <=> Clear(s, n))
  BY <1>1 DEF Clear
<1>3. \A n \in Int : ~Clear(s, n) => ~Clear(t, n)
  BY <1>1 DEF Clear
<1>4. ASSUME NEW y, NEW i \in Int, InStepAt(s, y, i), Clear(t, i) PROVE ReplyTo(t, y, i)
  <2>1. ReplyTo(s, y, i)
    BY <1>3, <1>4 DEF InStepAt
  <2>2. i \in DOMAIN t /\ t[i] = s[i]
    BY <1>1, <2>1 DEF ReplyTo
  <2>. QED BY <2>1, <2>2 DEF ReplyTo
<1>. QED BY <1>2, <1>3, <1>4 DEF InStepAt, t

\* A request more has been sent.
LEMMA WorkingSend ==
  ASSUME NEW s \in Seq(Piece), NEW g \in Seq(Reply), NEW w \in Seq(Piece),
         NEW k \in Seq(Piece), NEW o \in Seq(Reply),
         Working(s, g, w, k, o), Len(w) <= Len(s), NEW x \in Piece
  PROVE  Working(Append(s, x), g, Append(w, x), k, o)
<1>. DEFINE t == Append(s, x)  v == Append(w, x)  p == Len(s) - Len(w)
<1>1. /\ Len(s) \in Nat /\ Len(w) \in Nat /\ p \in Nat /\ p <= Len(s)
      /\ Len(t) - Len(v) = p /\ \A i \in 1..Len(s) : t[i] = s[i]
      /\ Len(g) \in Nat /\ Len(o) \in Nat /\ DOMAIN o = 1..Len(o) /\ Len(k) \in Nat
      /\ k # <<>> => Len(k) > 0
  OBVIOUS
<1>2. /\ \A n \in Int : n <= Len(s) + 1 => (Clear(t, n) <=> Clear(s, n))
      /\ \A n \in Int : ~Clear(s, n) => ~Clear(t, n)
      /\ \A y : \A i \in Int : InStepAt(s, y, i) => InStepAt(t, y, i)
  BY ClearStays
<1>3. /\ \A j \in DOMAIN o : InStepAt(s, o[j], Len(g) + j)
      /\ Clear(s, p + 1) => /\ Len(g) + Len(o) + Len(k) = p
                            /\ k # <<>> => k = <<s[p]>> /\ s[p].part = "read"
      /\ ~Clear(s, p + 1) => ~Clear(s, Len(g) + Len(o) + 1)
  BY DEF Working
<1>. HIDE DEF t, v, p
<1>4. \A j \in DOMAIN o : InStepAt(t, o[j], Len(g) + j)
  BY <1>1, <1>2, <1>3
<1>5. Clear(t, p + 1) <=> Clear(s, p + 1)
  BY <1>1, <1>2
<1>6. ASSUME Clear(s, p + 1), k # <<>> PROVE k = <<t[p]>> /\ t[p].part = "read"
  <2>1. p \in 1..Len(s)
    BY <1>1, <1>3, <1>6
  <2>. QED BY <1>1, <1>3, <1>6, <2>1
<1>7. ~Clear(s, Len(g) + Len(o) + 1) => ~Clear(t, Len(g) + Len(o) + 1)
  BY <1>1, <1>2
<1>. QED BY <1>1, <1>3, <1>4, <1>5, <1>6, <1>7 DEF Working, t, v

\* The handler comes back.
LEMMA WorkingReturn ==
  ASSUME NEW s \in Seq(Piece), NEW g \in Seq(Reply), NEW w \in Seq(Piece),
         NEW k \in Seq(Piece), NEW o \in Seq(Reply),
         Working(s, g, w, k, o), Len(w) <= Len(s), k # <<>>
  PROVE  Working(s, g, w, <<>>, Append(o, Response(k, 200)))
<1>. DEFINE p == Len(s) - Len(w)  x == Response(k, 200)  q == Append(o, x)
<1>1. /\ \A j \in DOMAIN o : InStepAt(s, o[j], Len(g) + j)
      /\ Clear(s, p + 1) => /\ Len(g) + Len(o) + Len(k) = p
                            /\ k # <<>> => k = <<s[p]>> /\ s[p].part = "read"
      /\ ~Clear(s, p + 1) => ~Clear(s, Len(g) + Len(o) + 1)
  BY DEF Working
<1>2. /\ Len(g) \in Nat /\ Len(o) \in Nat /\ Len(s) \in Nat /\ DOMAIN s = 1..Len(s)
      /\ p \in Int /\ p <= Len(s) /\ DOMAIN o = 1..Len(o)
      /\ Len(q) = Len(o) + 1 /\ DOMAIN q = 1..(Len(o) + 1) /\ q[Len(o) + 1] = x
      /\ \A j \in 1..Len(o) : q[j] = o[j]
  OBVIOUS
<1>. HIDE DEF p, q
<1>3. InStepAt(s, x, Len(g) + (Len(o) + 1))
  <2>1. CASE Clear(s, p + 1)
    <3>1. k = <<s[p]>> /\ s[p].part = "read" /\ Len(k) = 1
      BY <1>1, <2>1
    <3>2. Len(g) + (Len(o) + 1) = p /\ p \in DOMAIN s
      BY <1>1, <1>2, <2>1, <3>1
    <3>. QED BY <3>1, <3>2 DEF InStepAt, ReplyTo
  <2>2. CASE ~Clear(s, p + 1)
    <3>1. ~Clear(s, Len(g) + (Len(o) + 1))
      BY <1>1, <1>2, <2>2 DEF Clear
    <3>. QED BY <3>1 DEF InStepAt
  <2>. QED BY <2>1, <2>2
<1>. HIDE DEF x
<1>4. \A j \in DOMAIN q : InStepAt(s, q[j], Len(g) + j)
  <2>. SUFFICES ASSUME NEW j \in DOMAIN q PROVE InStepAt(s, q[j], Len(g) + j)
    OBVIOUS
  <2>1. CASE j = Len(o) + 1
    BY <1>2, <1>3, <2>1
  <2>2. CASE j \in 1..Len(o)
    BY <1>1, <1>2, <2>2
  <2>. QED BY <1>2, <2>1, <2>2
<1>5. Clear(s, p + 1) => Len(g) + Len(q) + 0 = p
  <2>. SUFFICES ASSUME Clear(s, p + 1) PROVE Len(g) + Len(q) + 0 = p
    OBVIOUS
  <2>1. k = <<s[p]>> /\ Len(g) + Len(o) + Len(k) = p
    BY <1>1
  <2>2. Len(k) = 1
    BY <2>1
  <2>3. Len(g) + Len(o) + 1 = p
    BY <2>1, <2>2
  <2>. QED BY <1>2, <2>3
<1>6. ~Clear(s, p + 1) => ~Clear(s, Len(g) + Len(q) + 1)
  BY <1>1, <1>2 DEF Clear
<1>7. Len(<<>>) = 0
  OBVIOUS
<1>. QED BY <1>4, <1>5, <1>6, <1>7 DEF Working, p, q, x

\* A request is taken, and replied to at once or left to its handler.
LEMMA WorkingTake ==
  ASSUME NEW s \in Seq(Piece), NEW g \in Seq(Reply), NEW w \in Seq(Piece),
         Working(s, g, w, <<>>, <<>>), UnreadTail(s, w), w # <<>>
  PROVE  /\ Head(w).part = "read" => Working(s, g, Tail(w), <<Head(w)>>, <<>>)
         /\ Head(w).part = "other" =>
              Working(s, g, Tail(w), <<>>, <<Response(<<Head(w)>>, 400)>>)
         /\ Head(w).part = "unread" => Working(s, g, Tail(w), <<>>, UnreadReplies(Head(w)))
<1>. DEFINE p == Len(s) - Len(w)  n == p + 1  h == Head(w)  v == Tail(w)
            a == Response(<<h>>, 400)  b == Response(<<h>>, 200)  d == Response(<<h>>, 0)
<1>1. /\ Len(v) = Len(w) - 1 /\ n \in DOMAIN s /\ h = s[n]
      /\ Len(s) \in Nat /\ Len(w) \in Nat /\ Len(g) \in Nat /\ p \in Nat
      /\ Len(s) - Len(v) = n
  <2>1. /\ Len(Tail(w)) = Len(w) - 1 /\ Len(s) - Len(w) + 1 \in DOMAIN s
        /\ Head(w) = s[Len(s) - Len(w) + 1]
    BY TailTaken
  <2>2. Len(s) \in Nat /\ Len(w) \in Nat /\ Len(g) \in Nat /\ Len(w) <= Len(s)
    BY DEF UnreadTail
  <2>. QED BY <2>1, <2>2
<1>2. /\ Clear(s, p + 1) => Len(g) = p
      /\ ~Clear(s, p + 1) => ~Clear(s, Len(g) + 1)
  <2>1. Len(<<>>) = 0
    OBVIOUS
  <2>2. /\ Clear(s, p + 1) => Len(g) + Len(<<>>) + Len(<<>>) = p
        /\ ~Clear(s, p + 1) => ~Clear(s, Len(g) + Len(<<>>) + 1)
    BY DEF Working
  <2>. HIDE DEF p
  <2>. QED BY <1>1, <2>1, <2>2
<1>. HIDE DEF p, h, v
<1>3. n = p + 1 /\ n \in Nat
  BY <1>1
<1>. HIDE DEF n
<1>4. h.part # "read" => InStepAt(s, a, Len(g) + 1)
  <2>. SUFFICES ASSUME h.part # "read", Clear(s, Len(g) + 1) PROVE ReplyTo(s, a, Len(g) + 1)
    BY DEF InStepAt
  <2>1. Len(g) + 1 = n
    BY <1>1, <1>2, <1>3
  <2>. QED BY <1>1, <2>1 DEF ReplyTo
<1>5. h.part = "unread" => \A m \in Nat : m >= 2 => ~Clear(s, Len(g) + m)
  <2>. SUFFICES ASSUME h.part = "unread", NEW m \in Nat, m >= 2 PROVE ~Clear(s, Len(g) + m)
    OBVIOUS
  <2>1. CASE Clear(s, p + 1)
    <3>1. n < Len(g) + m
      BY <1>1, <1>2, <1>3, <2>1
    <3>. QED BY <1>1, <3>1 DEF Clear
  <2>2. CASE ~Clear(s, p + 1)
    BY <1>1, <1>2, <2>2 DEF Clear
  <2>. QED BY <2>1, <2>2
<1>6. h.part # "unread" => (Clear(s, n + 1) <=> Clear(s, p + 1))
  BY <1>1, <1>3 DEF Clear
<1>. HIDE DEF a, b, d
<1>7. ASSUME h.part = "read" PROVE Working(s, g, v, <<h>>, <<>>)
  <2>1. Len(<<>>) = 0 /\ Len(<<h>>) = 1 /\ DOMAIN <<>> = {}
    OBVIOUS
  <2>2. Clear(s, n + 1) => Len(g) + Len(<<>>) + Len(<<h>>) = n
    BY <1>1, <1>2, <1>3, <1>6, <1>7, <2>1
  <2>3. ~Clear(s, n + 1) => ~Clear(s, Len(g) + Len(<<>>) + 1)
    BY <1>1, <1>2, <1>6, <1>7, <2>1
  <2>. QED BY <1>1, <1>7, <2>1, <2>2, <2>3 DEF Working
<1>8. ASSUME h.part = "other" PROVE Working(s, g, v, <<>>, <<a>>)
  <2>1. Len(<<>>) = 0 /\ Len(<<a>>) = 1 /\ DOMAIN <<a>> = {1} /\ <<a>>[1] = a
    OBVIOUS
  <2>2. Clear(s, n + 1) => Len(g) + Len(<<a>>) + Len(<<>>) = n
    BY <1>1, <1>2, <1>3, <1>6, <1>8, <2>1
  <2>3. ~Clear(s, n + 1) => ~Clear(s, Len(g) + Len(<<a>>) + 1)
    BY <1>1, <1>2, <1>6, <1>8, <2>1 DEF Clear
  <2>4. \A j \in DOMAIN <<a>> : InStepAt(s, <<a>>[j], Len(g) + j)
    BY <1>4, <1>8, <2>1
  <2>. QED BY <1>1, <2>1, <2>2, <2>3, <2>4 DEF Working
<1>9. ASSUME h.part = "unread" PROVE Working(s, g, v, <<>>, <<a, b, d>>)
  <2>. DEFINE q == <<a, b, d>>
  <2>1. Len(<<>>) = 0 /\ Len(q) = 3 /\ DOMAIN q = 1..3 /\ q[1] = a
    OBVIOUS
  <2>. HIDE DEF q
  <2>2. ~Clear(s, n + 1)
    BY <1>1, <1>3, <1>9 DEF Clear
  <2>3. ~Clear(s, Len(g) + Len(q) + 1)
    <3>1. Len(g) + Len(q) + 1 = Len(g) + 4
      BY <1>1, <2>1
    <3>2. ~Clear(s, Len(g) + 4)
      BY <1>5, <1>9
    <3>. QED BY <3>1, <3>2
  <2>4. ASSUME NEW j \in DOMAIN q PROVE InStepAt(s, q[j], Len(g) + j)
    <3>1. CASE j = 1
      BY <1>4, <1>9, <2>1, <3>1
    <3>2. CASE j # 1
      <4>1. j \in Nat /\ j >= 2
        BY <2>1, <3>2
      <4>. QED BY <1>5, <1>9, <4>1 DEF InStepAt
    <3>. QED BY <3>1, <3>2
  <2>5. Working(s, g, v, <<>>, q)
    BY <1>1, <2>2, <2>3, <2>4 DEF Working
  <2>. QED BY <2>5 DEF q
<1>10. UnreadReplies(h) = <<a, b, d>>
  BY DEF UnreadReplies, a, b, d
<1>. QED BY <1>7, <1>8, <1>9, <1>10 DEF a, h, v

\* A reply is delivered.
LEMMA WorkingDeliver ==
  ASSUME NEW s \in Seq(Piece), NEW g \in Seq(Reply), NEW w \in Seq(Piece),
         NEW o \in Seq(Reply), Working(s, g, w, <<>>, o), o # <<>>
  PROVE  /\ InStepAt(s, Head(o), Len(g) + 1)
         /\ Working(s, Append(g, Head(o)), w, <<>>, Tail(o))
<1>. DEFINE h == Append(g, Head(o))  q == Tail(o)  p == Len(s) - Len(w)
<1>1. /\ Len(h) = Len(g) + 1 /\ Len(q) = Len(o) - 1 /\ Len(g) \in Nat /\ Len(o) \in Nat
      /\ 1 \in DOMAIN o /\ Head(o) = o[1] /\ Len(q) \in Nat /\ DOMAIN q = 1..Len(q)
      /\ DOMAIN o = 1..Len(o) /\ \A j \in 1..Len(q) : q[j] = o[j + 1]
      /\ Len(<<>>) = 0
  OBVIOUS
<1>2. /\ \A j \in DOMAIN o : InStepAt(s, o[j], Len(g) + j)
      /\ Clear(s, p + 1) => Len(g) + Len(o) + Len(<<>>) = p
      /\ ~Clear(s, p + 1) => ~Clear(s, Len(g) + Len(o) + 1)
  BY DEF Working
<1>. HIDE DEF h, q, p
<1>3. ASSUME NEW j \in DOMAIN q PROVE InStepAt(s, q[j], Len(h) + j)
  <2>1. j \in 1..Len(q) /\ j \in Nat
    BY <1>1
  <2>2. j + 1 \in DOMAIN o
    BY <1>1, <2>1
  <2>3. q[j] = o[j + 1]
    BY <1>1, <2>1
  <2>4. Len(h) + j = Len(g) + (j + 1)
    BY <1>1, <2>1
  <2>. QED BY <1>2, <2>2, <2>3, <2>4
<1>4. Len(h) + Len(q) = Len(g) + Len(o)
  BY <1>1
<1>5. /\ Clear(s, p + 1) => Len(h) + Len(q) + Len(<<>>) = p
      /\ ~Clear(s, p + 1) => ~Clear(s, Len(h) + Len(q) + 1)
  BY <1>2, <1>4
<1>. QED BY <1>1, <1>2, <1>3, <1>5 DEF Working, h, q, p

\* Every step keeps the replies of a connection in step with its requests.
LEMMA InStepStep == TypeOK /\ Fresh /\ Unread /\ InStep /\ [Next]_vars => InStep'
<1>. SUFFICES ASSUME TypeOK, Fresh, Unread, InStep, [Next]_vars, NEW c \in HttpClients
              PROVE  /\ \A i \in DOMAIN got'[c] : InStepAt(sent'[c], got'[c][i], i)
                     /\ conn'[c] \in {"none", "up", "eof"} =>
                          Working(sent'[c], got'[c], wire'[c], work'[c], out'[c])
  BY DEF InStep
<1>. DEFINE s == sent[c]  g == got[c]  w == wire[c]  k == work[c]  o == out[c]
            Old == conn[c] \in {"none", "up", "eof"} => Working(s, g, w, k, o)
            Goal == /\ \A i \in DOMAIN got'[c] : InStepAt(sent'[c], got'[c][i], i)
                    /\ conn'[c] \in {"none", "up", "eof"} =>
                         Working(sent'[c], got'[c], wire'[c], work'[c], out'[c])
<1>a. /\ c \in Clients /\ c \notin TcpClients
      /\ s \in Seq(Piece) /\ g \in Seq(Reply) /\ w \in Seq(Piece)
      /\ k \in Seq(Piece) /\ o \in Seq(Reply)
  BY TypeParts, EventServerAssumption DEF Clients, ConnSorts, HistorySorts
<1>b. UnreadTail(s, w) /\ Len(w) <= Len(s)
  BY <1>a DEF Unread, UnreadTail
<1>c. (\A i \in DOMAIN g : InStepAt(s, g[i], i)) /\ Old
  BY DEF InStep
<1>d. ClientChange(c)
  BY <1>a, ClientStep
<1>. HIDE DEF s, g, w, k, o
<1>1. CASE Stays(c) \/ Opens(c) \/ Closes(c)
  BY <1>1, <1>c DEF Stays, Opens, Closes, s, g, w, k, o
<1>2. CASE Frees(c) \/ Loses(c)
  <2>1. sent'[c] = s /\ got'[c] = g /\ conn'[c] \notin {"none", "up", "eof"}
    BY <1>2 DEF Frees, Loses, s, g
  <2>. QED BY <2>1, <1>c
<1>3. CASE Ends(c)
  <2>1. /\ sent'[c] = s /\ got'[c] = g /\ wire'[c] = <<>> /\ work'[c] = <<>> /\ out'[c] = <<>>
        /\ conn[c] = "none" => conn'[c] = "none"
        /\ conn[c] # "none" => conn'[c] = "freed"
    BY <1>3 DEF Ends, s, g
  <2>2. CASE conn[c] = "none"
    <3>1. w = <<>> /\ k = <<>> /\ o = <<>>
      BY <1>a, <2>2 DEF Fresh, w, k, o
    <3>. QED BY <1>c, <2>1, <2>2, <3>1
  <2>3. CASE conn[c] # "none"
    BY <1>c, <2>1, <2>3
  <2>. QED BY <2>2, <2>3
<1>4. CASE SendsHttp(c)
  <2>1. PICK x \in Piece : Sends(c, x)
    <3>1. Begun(c) \in Nat
      BY <1>a, BegunType
    <3>2. \A part \in HttpKinds : [req |-> Begun(c) + 1, part |-> part] \in Piece
      BY <3>1 DEF Piece
    <3>. QED BY <1>4, <3>2 DEF SendsHttp
  <2>2. /\ conn[c] = "up" /\ sent'[c] = Append(s, x) /\ wire'[c] = Append(w, x)
        /\ got'[c] = g /\ work'[c] = k /\ out'[c] = o
    BY <2>1 DEF Sends, s, g, w, k, o
  <2>3. Working(Append(s, x), g, Append(w, x), k, o)
    BY <1>a, <1>b, <1>c, <2>2, WorkingSend
  <2>4. \A i \in DOMAIN g : InStepAt(Append(s, x), g[i], i)
    <3>1. \A y : \A i \in Int : InStepAt(s, y, i) => InStepAt(Append(s, x), y, i)
      BY <1>a, ClearStays
    <3>2. \A i \in DOMAIN g : i \in Int
      BY <1>a
    <3>. QED BY <1>c, <3>1, <3>2
  <2>. QED BY <2>2, <2>3, <2>4
<1>5. CASE Returns(c)
  <2>1. /\ UNCHANGED conn[c] /\ sent'[c] = s /\ got'[c] = g /\ wire'[c] = w
        /\ k # <<>> /\ work'[c] = <<>> /\ out'[c] = Append(o, Response(k, 200))
    BY <1>5 DEF Returns, s, g, w, k, o
  <2>2. Working(s, g, w, k, o) => Working(s, g, w, <<>>, Append(o, Response(k, 200)))
    BY <1>a, <1>b, <2>1, WorkingReturn
  <2>. QED BY <1>c, <2>1, <2>2
<1>6. CASE Takes(c)
  <2>1. /\ UNCHANGED conn[c] /\ sent'[c] = s /\ got'[c] = g /\ k = <<>> /\ o = <<>>
        /\ w # <<>> /\ wire'[c] = Tail(w)
        /\ \/ Head(w).part = "read" /\ work'[c] = <<Head(w)>> /\ out'[c] = <<>>
           \/ Head(w).part = "unread" /\ work'[c] = <<>> /\ out'[c] = UnreadReplies(Head(w))
           \/ /\ Head(w).part = "other"
              /\ work'[c] = <<>> /\ out'[c] = <<Response(<<Head(w)>>, 400)>>
    BY <1>6 DEF Takes, s, g, w, k, o
  <2>2. ASSUME Working(s, g, w, <<>>, <<>>)
        PROVE  Working(s, g, wire'[c], work'[c], out'[c])
    <3>1. /\ Head(w).part = "read" => Working(s, g, Tail(w), <<Head(w)>>, <<>>)
          /\ Head(w).part = "other" =>
               Working(s, g, Tail(w), <<>>, <<Response(<<Head(w)>>, 400)>>)
          /\ Head(w).part = "unread" =>
               Working(s, g, Tail(w), <<>>, UnreadReplies(Head(w)))
      BY <1>a, <1>b, <2>1, <2>2, WorkingTake
    <3>. QED BY <2>1, <3>1
  <2>. QED BY <1>c, <2>1, <2>2
<1>7. CASE Delivers(c)
  <2>1. /\ conn[c] \in {"up", "eof"} /\ sent'[c] = s /\ k = <<>> /\ work'[c] = <<>> /\ o # <<>>
        /\ got'[c] = Append(g, Head(o)) /\ out'[c] = Tail(o)
        /\ conn'[c] = "freed" \/ wire'[c] = w
    BY <1>7 DEF Delivers, s, g, w, k, o
  <2>2. /\ InStepAt(s, Head(o), Len(g) + 1)
        /\ Working(s, Append(g, Head(o)), w, <<>>, Tail(o))
    BY <1>a, <1>c, <2>1, WorkingDeliver
  <2>3. Head(o) \in Reply
    BY <1>a, <2>1
  <2>4. \A i \in DOMAIN Append(g, Head(o)) : InStepAt(s, Append(g, Head(o))[i], i)
    <3>. DEFINE x == Head(o)
    <3>. HIDE DEF x
    <3>1. x \in Reply /\ InStepAt(s, x, Len(g) + 1)
      BY <2>2, <2>3 DEF x
    <3>2. /\ DOMAIN Append(g, x) = 1..(Len(g) + 1) /\ DOMAIN g = 1..Len(g) /\ Len(g) \in Nat
          /\ Append(g, x)[Len(g) + 1] = x
          /\ \A i \in 1..Len(g) : Append(g, x)[i] = g[i]
      BY <1>a, <3>1
    <3>3. ASSUME NEW i \in DOMAIN Append(g, x) PROVE InStepAt(s, Append(g, x)[i], i)
      <4>1. CASE i = Len(g) + 1
        BY <3>1, <3>2, <4>1
      <4>2. CASE i # Len(g) + 1
        <5>1. i \in 1..Len(g)
          BY <3>2, <4>2
        <5>. QED BY <1>c, <3>2, <5>1
      <4>. QED BY <4>1, <4>2
    <3>. QED BY <3>3 DEF x
  <2>. QED BY <2>1, <2>2, <2>4
<1>8. CASE SendsTcp(c) \/ SendsTail(c) \/ Reads(c)
  BY <1>8, <1>a DEF SendsTcp, SendsTail, Reads
<1>. HIDE DEF Goal
<1>. QED
  BY <1>d, <1>1, <1>2, <1>3, <1>4, <1>5, <1>6, <1>7, <1>8 DEF ClientChange, Goal

\* Until a request comes whose parameters cannot be read, an HTTP client gets
\* one reply to each request, in the order of the requests.
THEOREM RepliesInStep == Spec => []HttpRepliesInStep
<1>. DEFINE IInv == Fresh /\ SentInOrder /\ Unread /\ InStep
<1>1. Init => IInv
  <2>. SUFFICES ASSUME Init PROVE IInv
    OBVIOUS
  <2>1. \A c \in Clients : /\ sent[c] = <<>> /\ got[c] = <<>> /\ wire[c] = <<>>
                           /\ work[c] = <<>> /\ out[c] = <<>>
    BY DEF Init
  <2>2. HttpClients \subseteq Clients
    BY DEF Clients
  <2>3. Working(<<>>, <<>>, <<>>, <<>>, <<>>)
    BY DEF Working, Clear
  <2>4. InStep
    BY <2>1, <2>2, <2>3 DEF InStep
  <2>. QED BY <2>4, InitOrder
<1>2. TypeOK /\ IInv /\ [Next]_vars => IInv'
  BY FreshStep, OrderStep, UnreadStep, InStepStep
<1>3. IInv => HttpRepliesInStep
  BY DEF InStep, HttpRepliesInStep, InStepAt, ReplyTo, Clear
<1>. HIDE DEF IInv
<1>. QED BY <1>1, <1>2, <1>3, TypeCorrect, PTL DEF Spec

-----------------------------------------------------------------------------
(* ExitExplained.                                                          *)

\* Every response answers something.
Meant == \A c \in Clients : \A i \in DOMAIN out[c] : out[c][i].of # <<>>

\* r is the last of the replies to piece x, and one of g is.
Ending(r, x) == x \in ToSet(r.of) /\ (x.part = "unread" => r.code = 0)
Ended(g, x) == \E i \in DOMAIN g : Ending(g[i], x)

\* Piece x is answered by a response on its way, or being answered, or waits.
UnderWay(w, k, o, x) ==
  \/ \E i \in DOMAIN o : x \in ToSet(o[i].of)
  \/ x \in ToSet(k)
  \/ x \in ToSet(w)

\* What was sent is in one place: with the client, in one response, with the
\* handler or unread.
OnePlace(s, g, w, k, o) ==
  /\ \A x : Ended(g, x) \/ UnderWay(w, k, o, x) => x \in ToSet(s)
  /\ \A x : Ended(g, x) => ~UnderWay(w, k, o, x)
  /\ \A x : \A i \in DOMAIN o : Ending(o[i], x) =>
       /\ \A j \in DOMAIN o : i < j => x \notin ToSet(o[j].of)
       /\ x \notin ToSet(k) /\ x \notin ToSet(w)
  /\ \A x \in ToSet(k) : x \notin ToSet(w)

Whereabouts ==
  \A c \in Clients :
    /\ OnePlace(sent[c], got[c], wire[c], work[c], out[c])
    /\ conn[c] \in {"gone", "reset"} => c \in left

\* No callback answers nothing.
LEMMA MeantStep == TypeOK /\ Meant /\ [Next]_vars => Meant'
<1>. SUFFICES ASSUME TypeOK, Meant, [Next]_vars, NEW c \in Clients
              PROVE  \A i \in DOMAIN out'[c] : out'[c][i].of # <<>>
  BY DEF Meant
<1>. DEFINE o == out[c]  k == work[c]
<1>a. o \in Seq(Reply) /\ k \in Seq(Piece) /\ wire[c] \in Seq(Piece)
  BY TypeParts DEF ConnSorts
<1>b. \A i \in DOMAIN o : o[i].of # <<>>
  BY DEF Meant
<1>c. ClientChange(c)
  BY ClientStep
<1>. HIDE DEF o, k
<1>1. CASE out'[c] = o \/ out'[c] = <<>>
  BY <1>1, <1>b
<1>2. CASE Returns(c)
  <2>. DEFINE x == Response(k, 200)
  <2>1. x \in Reply /\ x.of = k /\ k # <<>> /\ out'[c] = Append(o, x)
    BY <1>2, <1>a, ResponseType DEF Returns, o, k
  <2>. HIDE DEF x
  <2>2. \A i \in DOMAIN Append(o, x) : Append(o, x)[i].of # <<>>
    BY <1>a, <1>b, <2>1
  <2>. QED BY <2>1, <2>2
<1>3. CASE Takes(c)
  <2>1. /\ wire[c] # <<>>
        /\ \/ out'[c] = o
           \/ out'[c] = UnreadReplies(Head(wire[c]))
           \/ out'[c] = <<Response(<<Head(wire[c])>>, 400)>>
    BY <1>3 DEF Takes, o
  <2>. DEFINE h == Head(wire[c])
              a == Response(<<h>>, 400)  b == Response(<<h>>, 200)  d == Response(<<h>>, 0)
  <2>. HIDE DEF h
  <2>3. a.of # <<>> /\ b.of # <<>> /\ d.of # <<>>
    <3>1. a.of = <<h>> /\ b.of = <<h>> /\ d.of = <<h>>
      BY DEF Response
    <3>2. <<h>> # <<>>
      OBVIOUS
    <3>. HIDE DEF a, b, d
    <3>. QED BY <3>1, <3>2
  <2>4. UnreadReplies(h) = <<a, b, d>>
    BY DEF UnreadReplies
  <2>5. out'[c] = o \/ out'[c] = <<a, b, d>> \/ out'[c] = <<a>>
    BY <2>1, <2>4 DEF h
  <2>. HIDE DEF a, b, d
  <2>6. /\ \A i \in DOMAIN <<a>> : <<a>>[i].of # <<>>
        /\ \A i \in DOMAIN <<a, b, d>> : <<a, b, d>>[i].of # <<>>
    BY <2>3
  <2>. QED BY <1>b, <2>5, <2>6
<1>4. CASE Delivers(c)
  <2>1. o # <<>> /\ out'[c] = Tail(o)
    BY <1>4 DEF Delivers, o
  <2>2. \A i \in DOMAIN Tail(o) : Tail(o)[i].of # <<>>
    BY <1>a, <1>b, <2>1
  <2>. QED BY <2>1, <2>2
<1>5. CASE Loses(c)
  <2>1. \/ out'[c] = <<>>
        \/ \E n \in 0..Len(o) : out'[c] = SubSeq(o, n + 1, Len(o))
    BY <1>5 DEF Loses, o
  <2>2. ASSUME NEW n \in 0..Len(o), NEW i \in DOMAIN SubSeq(o, n + 1, Len(o))
        PROVE  SubSeq(o, n + 1, Len(o))[i].of # <<>>
    <3>. DEFINE q == SubSeq(o, n + 1, Len(o))
    <3>1. /\ Len(o) \in Nat /\ DOMAIN o = 1..Len(o) /\ n \in Nat /\ i \in Nat
          /\ DOMAIN q = 1..(Len(o) - n) /\ \A j \in 1..(Len(o) - n) : q[j] = o[j + n]
      BY <1>a
    <3>2. i + n \in DOMAIN o /\ q[i] = o[i + n]
      BY <3>1
    <3>. QED BY <1>b, <3>2
  <2>. QED BY <1>1, <2>1, <2>2
<1>6. CASE Stays(c) \/ Ends(c) \/ Opens(c) \/ Closes(c) \/ Reads(c) \/ Frees(c)
  BY <1>1, <1>6 DEF Stays, Ends, Opens, Closes, Reads, Frees, o
<1>7. CASE SendsTcp(c) \/ SendsTail(c) \/ SendsHttp(c)
  BY <1>1, <1>7 DEF SendsTcp, SendsTail, SendsHttp, Sends, o
<1>. QED BY <1>c, <1>2, <1>3, <1>4, <1>5, <1>6, <1>7 DEF ClientChange

\* What is in parts of a sequence of pieces.
LEMMA PiecesOf ==
  /\ ToSet(<<>>) = {} /\ \A x : ToSet(<<x>>) = {x}
  /\ \A a \in Seq(Piece) : \A x \in Piece : ToSet(Append(a, x)) = ToSet(a) \cup {x}
  /\ \A a \in Seq(Piece) : \A n \in 1..Len(a) :
       /\ ToSet(SubSeq(a, 1, n)) = {a[i] : i \in 1..n}
       /\ ToSet(SubSeq(a, n + 1, Len(a))) = {a[i] : i \in (n + 1)..Len(a)}
  /\ \A a \in Seq(Piece) : ToSet(a) = {a[i] : i \in 1..Len(a)}
<1>1. ToSet(<<>>) = {} /\ \A x : ToSet(<<x>>) = {x}
  BY DEF ToSet
<1>2. ASSUME NEW a \in Seq(Piece), NEW x \in Piece
      PROVE  ToSet(Append(a, x)) = ToSet(a) \cup {x}
  <2>. DEFINE t == Append(a, x)
  <2>1. /\ DOMAIN a = 1..Len(a) /\ DOMAIN t = 1..(Len(a) + 1) /\ Len(a) \in Nat
        /\ t[Len(a) + 1] = x /\ \A i \in 1..Len(a) : t[i] = a[i]
    OBVIOUS
  <2>. HIDE DEF t
  <2>2. \A i \in DOMAIN t : t[i] \in ToSet(a) \cup {x}
    BY <2>1 DEF ToSet
  <2>3. \A i \in DOMAIN a : i \in DOMAIN t /\ t[i] = a[i]
    BY <2>1
  <2>4. Len(a) + 1 \in DOMAIN t
    BY <2>1
  <2>5. ToSet(t) \subseteq ToSet(a) \cup {x}
    BY <2>2 DEF ToSet
  <2>6. ToSet(a) \subseteq ToSet(t) /\ x \in ToSet(t)
    BY <2>1, <2>3, <2>4 DEF ToSet
  <2>. QED BY <2>5, <2>6 DEF t
<1>3. ASSUME NEW a \in Seq(Piece) PROVE ToSet(a) = {a[i] : i \in 1..Len(a)}
  BY DEF ToSet
<1>4. ASSUME NEW a \in Seq(Piece), NEW n \in 1..Len(a)
      PROVE  /\ ToSet(SubSeq(a, 1, n)) = {a[i] : i \in 1..n}
             /\ ToSet(SubSeq(a, n + 1, Len(a))) = {a[i] : i \in (n + 1)..Len(a)}
  <2>. DEFINE u == SubSeq(a, 1, n)  v == SubSeq(a, n + 1, Len(a))
  <2>1. /\ DOMAIN u = 1..n /\ \A i \in 1..n : u[i] = a[i]
        /\ DOMAIN v = 1..(Len(a) - n) /\ \A i \in 1..(Len(a) - n) : v[i] = a[n + i]
        /\ n \in Nat /\ Len(a) \in Nat
    OBVIOUS
  <2>. HIDE DEF u, v
  <2>2. ToSet(u) = {a[i] : i \in 1..n}
    BY <2>1 DEF ToSet
  <2>3. \A i \in 1..(Len(a) - n) : n + i \in (n + 1)..Len(a) /\ v[i] = a[n + i]
    BY <2>1
  <2>4. \A i \in (n + 1)..Len(a) : i - n \in 1..(Len(a) - n) /\ v[i - n] = a[i]
    <3>. SUFFICES ASSUME NEW i \in (n + 1)..Len(a)
                  PROVE  i - n \in 1..(Len(a) - n) /\ v[i - n] = a[i]
      OBVIOUS
    <3>1. i - n \in 1..(Len(a) - n) /\ n + (i - n) = i
      BY <2>1
    <3>. QED BY <2>1, <3>1
  <2>5. ToSet(v) = {v[i] : i \in 1..(Len(a) - n)}
    BY <2>1 DEF ToSet
  <2>6. ToSet(v) \subseteq {a[i] : i \in (n + 1)..Len(a)}
    BY <2>3, <2>5
  <2>7. {a[i] : i \in (n + 1)..Len(a)} \subseteq ToSet(v)
    BY <2>4, <2>5
  <2>. QED BY <2>2, <2>6, <2>7 DEF u, v
<1>. QED BY <1>1, <1>2, <1>3, <1>4

\* Another piece has been sent.
LEMMA PlaceSend ==
  ASSUME NEW s \in Seq(Piece), NEW w \in Seq(Piece), NEW g, NEW k, NEW o,
         OnePlace(s, g, w, k, o), NEW x \in Piece, x \notin ToSet(s)
  PROVE  OnePlace(Append(s, x), g, Append(w, x), k, o)
<1>1. /\ ToSet(Append(s, x)) = ToSet(s) \cup {x}
      /\ ToSet(Append(w, x)) = ToSet(w) \cup {x}
  BY PiecesOf
<1>2. \A y : UnderWay(Append(w, x), k, o, y) <=> UnderWay(w, k, o, y) \/ y = x
  BY <1>1 DEF UnderWay
<1>3. ~Ended(g, x) /\ ~UnderWay(w, k, o, x)
  BY DEF OnePlace
<1>4. \A i \in DOMAIN o : ~Ending(o[i], x)
  BY <1>3 DEF UnderWay, Ending
<1>5. x \notin ToSet(k)
  BY <1>3 DEF UnderWay
<1>6. \A y : Ended(g, y) \/ UnderWay(Append(w, x), k, o, y) => y \in ToSet(Append(s, x))
  BY <1>1, <1>2 DEF OnePlace
<1>7. \A y : Ended(g, y) => ~UnderWay(Append(w, x), k, o, y)
  BY <1>2, <1>3 DEF OnePlace
<1>8. \A y : \A i \in DOMAIN o : Ending(o[i], y) =>
        /\ \A j \in DOMAIN o : i < j => y \notin ToSet(o[j].of)
        /\ y \notin ToSet(k) /\ y \notin ToSet(Append(w, x))
  BY <1>1, <1>4 DEF OnePlace
<1>9. \A y \in ToSet(k) : y \notin ToSet(Append(w, x))
  BY <1>1, <1>5 DEF OnePlace
<1>. QED BY <1>6, <1>7, <1>8, <1>9 DEF OnePlace

\* Pieces that have been read go to the handler.
LEMMA PlaceRead ==
  ASSUME NEW s, NEW g, NEW w, NEW o, OnePlace(s, g, w, <<>>, o),
         NEW v, NEW k, ToSet(w) = ToSet(v) \cup ToSet(k), ToSet(v) \cap ToSet(k) = {}
  PROVE  OnePlace(s, g, v, k, o)
<1>1. ToSet(<<>>) = {}
  BY PiecesOf
<1>2. \A x : UnderWay(v, k, o, x) <=> UnderWay(w, <<>>, o, x)
  BY <1>1 DEF UnderWay
<1>3. \A x : (x \in ToSet(v) \/ x \in ToSet(k)) <=> x \in ToSet(w)
  OBVIOUS
<1>. QED BY <1>2, <1>3 DEF OnePlace

\* The handler answers its pieces in one response.
LEMMA PlaceAnswer ==
  ASSUME NEW s, NEW g, NEW w, NEW k, NEW o \in Seq(Reply), OnePlace(s, g, w, k, o),
         NEW x \in Reply, x.of = k
  PROVE  OnePlace(s, g, w, <<>>, Append(o, x))
<1>. DEFINE q == Append(o, x)  m == Len(o) + 1
<1>1. /\ DOMAIN o = 1..Len(o) /\ Len(o) \in Nat /\ DOMAIN q = 1..m /\ q[m] = x
      /\ \A i \in DOMAIN o : i \in DOMAIN q /\ q[i] = o[i]
      /\ \A i \in DOMAIN q : i # m => i \in DOMAIN o
      /\ m \in DOMAIN q
  OBVIOUS
<1>2. \A i, j \in DOMAIN q : i < j => i \in DOMAIN o /\ i # m
  BY <1>1
<1>3. ToSet(<<>>) = {}
  BY PiecesOf
<1>. HIDE DEF q, m
<1>4. \A y : UnderWay(w, <<>>, q, y) <=> UnderWay(w, k, o, y)
  BY <1>1, <1>3 DEF UnderWay
<1>5. ASSUME NEW y, NEW i \in DOMAIN q, Ending(q[i], y)
      PROVE  /\ \A j \in DOMAIN q : i < j => y \notin ToSet(q[j].of)
             /\ y \notin ToSet(<<>>) /\ y \notin ToSet(w)
  <2>1. CASE i = m
    <3>1. y \in ToSet(k)
      BY <1>1, <1>5, <2>1 DEF Ending
    <3>2. y \notin ToSet(w)
      BY <3>1 DEF OnePlace
    <3>. QED BY <1>2, <1>3, <2>1, <3>2
  <2>2. CASE i # m
    <3>1. i \in DOMAIN o /\ Ending(o[i], y)
      BY <1>1, <1>5, <2>2
    <3>2. /\ \A j \in DOMAIN o : i < j => y \notin ToSet(o[j].of)
          /\ y \notin ToSet(k) /\ y \notin ToSet(w)
      BY <3>1 DEF OnePlace
    <3>3. ASSUME NEW j \in DOMAIN q, i < j PROVE y \notin ToSet(q[j].of)
      <4>1. CASE j = m
        BY <1>1, <3>2, <4>1
      <4>2. CASE j # m
        BY <1>1, <3>2, <3>3, <4>2
      <4>. QED BY <4>1, <4>2
    <3>. QED BY <1>3, <3>2, <3>3
  <2>. QED BY <2>1, <2>2
<1>6. \A y : Ended(g, y) \/ UnderWay(w, <<>>, q, y) => y \in ToSet(s)
  BY <1>4 DEF OnePlace
<1>7. \A y : Ended(g, y) => ~UnderWay(w, <<>>, q, y)
  BY <1>4 DEF OnePlace
<1>. QED BY <1>3, <1>5, <1>6, <1>7 DEF OnePlace, q

\* A request is answered at once, in one reply or several, the last of which is
\* the end.
LEMMA PlaceReplies ==
  ASSUME NEW s, NEW g, NEW w, NEW h, OnePlace(s, g, w, <<h>>, <<>>),
         NEW q \in Seq(Reply), q # <<>>, \A i \in DOMAIN q : q[i].of = <<h>>,
         \A i, j \in DOMAIN q : i < j => ~Ending(q[i], h)
  PROVE  OnePlace(s, g, w, <<>>, q)
<1>1. ToSet(<<>>) = {} /\ ToSet(<<h>>) = {h} /\ DOMAIN <<>> = {}
  BY PiecesOf
<1>2. \E i \in DOMAIN q : TRUE
  <2>1. 1 \in DOMAIN q
    OBVIOUS
  <2>. QED BY <2>1
<1>3. \A y : UnderWay(w, <<>>, q, y) <=> UnderWay(w, <<h>>, <<>>, y)
  BY <1>1, <1>2 DEF UnderWay
<1>4. h \notin ToSet(w)
  BY <1>1 DEF OnePlace
<1>5. ASSUME NEW y, NEW i \in DOMAIN q, Ending(q[i], y)
      PROVE  /\ \A j \in DOMAIN q : i < j => y \notin ToSet(q[j].of)
             /\ y \notin ToSet(<<>>) /\ y \notin ToSet(w)
  <2>1. y = h
    BY <1>1, <1>5 DEF Ending
  <2>. QED BY <1>1, <1>4, <1>5, <2>1
<1>6. \A y : Ended(g, y) \/ UnderWay(w, <<>>, q, y) => y \in ToSet(s)
  BY <1>3 DEF OnePlace
<1>7. \A y : Ended(g, y) => ~UnderWay(w, <<>>, q, y)
  BY <1>3 DEF OnePlace
<1>. QED BY <1>1, <1>5, <1>6, <1>7 DEF OnePlace

\* A response reaches the client.
LEMMA PlaceDeliver ==
  ASSUME NEW s, NEW g \in Seq(Reply), NEW w, NEW k, NEW o \in Seq(Reply),
         OnePlace(s, g, w, k, o), o # <<>>
  PROVE  OnePlace(s, Append(g, Head(o)), w, k, Tail(o))
<1>. DEFINE x == Head(o)  q == Tail(o)  f == Append(g, x)
<1>1. /\ Len(o) \in Nat /\ DOMAIN o = 1..Len(o) /\ 1 \in DOMAIN o /\ x = o[1] /\ x \in Reply
      /\ Len(q) = Len(o) - 1 /\ DOMAIN q = 1..(Len(o) - 1)
      /\ \A i \in 1..(Len(o) - 1) : q[i] = o[i + 1]
  OBVIOUS
<1>2. \A i \in DOMAIN q : i + 1 \in DOMAIN o /\ 1 < i + 1 /\ q[i] = o[i + 1] /\ i \in Nat
  BY <1>1
<1>. HIDE DEF x
<1>3. /\ DOMAIN f = 1..(Len(g) + 1) /\ DOMAIN g = 1..Len(g) /\ Len(g) \in Nat
      /\ f[Len(g) + 1] = x /\ \A i \in 1..Len(g) : f[i] = g[i]
  BY <1>1
<1>. HIDE DEF q, f
<1>4. \A y : Ended(f, y) <=> Ended(g, y) \/ Ending(x, y)
  <2>1. \A i \in DOMAIN f : i = Len(g) + 1 \/ i \in DOMAIN g
    BY <1>3
  <2>2. Len(g) + 1 \in DOMAIN f /\ \A i \in DOMAIN g : i \in DOMAIN f /\ f[i] = g[i]
    BY <1>3
  <2>. QED BY <1>3, <2>1, <2>2 DEF Ended
<1>5. \A y : UnderWay(w, k, q, y) => UnderWay(w, k, o, y)
  BY <1>2 DEF UnderWay
<1>6. \A y : Ending(x, y) => UnderWay(w, k, o, y)
  BY <1>1 DEF UnderWay, Ending
<1>7. ASSUME NEW y, Ending(x, y) PROVE ~UnderWay(w, k, q, y)
  <2>1. /\ \A j \in DOMAIN o : 1 < j => y \notin ToSet(o[j].of)
        /\ y \notin ToSet(k) /\ y \notin ToSet(w)
    BY <1>1, <1>7 DEF OnePlace
  <2>. QED BY <1>2, <2>1 DEF UnderWay
<1>8. ASSUME NEW y, NEW i \in DOMAIN q, Ending(q[i], y)
      PROVE  /\ \A j \in DOMAIN q : i < j => y \notin ToSet(q[j].of)
             /\ y \notin ToSet(k) /\ y \notin ToSet(w)
  <2>1. i + 1 \in DOMAIN o /\ Ending(o[i + 1], y)
    BY <1>2, <1>8
  <2>2. /\ \A j \in DOMAIN o : i + 1 < j => y \notin ToSet(o[j].of)
        /\ y \notin ToSet(k) /\ y \notin ToSet(w)
    BY <2>1 DEF OnePlace
  <2>3. \A j \in DOMAIN q : i < j => i + 1 < j + 1
    BY <1>2
  <2>. QED BY <1>2, <2>2, <2>3
<1>9. \A y : Ended(f, y) \/ UnderWay(w, k, q, y) => y \in ToSet(s)
  BY <1>4, <1>5, <1>6 DEF OnePlace
<1>10. \A y : Ended(f, y) => ~UnderWay(w, k, q, y)
  BY <1>4, <1>5, <1>7 DEF OnePlace
<1>11. \A y \in ToSet(k) : y \notin ToSet(w)
  BY DEF OnePlace
<1>. QED BY <1>8, <1>9, <1>10, <1>11 DEF OnePlace, f, q, x

\* Some of the responses are lost, from the first on.
LEMMA PlaceLose ==
  ASSUME NEW s, NEW g, NEW w, NEW k, NEW o \in Seq(Reply), OnePlace(s, g, w, k, o),
         NEW n \in 0..Len(o)
  PROVE  OnePlace(s, g, w, k, SubSeq(o, n + 1, Len(o)))
<1>. DEFINE q == SubSeq(o, n + 1, Len(o))
<1>1. /\ Len(o) \in Nat /\ DOMAIN o = 1..Len(o) /\ n \in Nat
      /\ DOMAIN q = 1..(Len(o) - n) /\ \A i \in 1..(Len(o) - n) : q[i] = o[i + n]
  OBVIOUS
<1>2. \A i \in DOMAIN q : i + n \in DOMAIN o /\ q[i] = o[i + n] /\ i \in Nat
  BY <1>1
<1>. HIDE DEF q
<1>3. \A y : UnderWay(w, k, q, y) => UnderWay(w, k, o, y)
  BY <1>2 DEF UnderWay
<1>4. ASSUME NEW y, NEW i \in DOMAIN q, Ending(q[i], y)
      PROVE  /\ \A j \in DOMAIN q : i < j => y \notin ToSet(q[j].of)
             /\ y \notin ToSet(k) /\ y \notin ToSet(w)
  <2>1. i + n \in DOMAIN o /\ Ending(o[i + n], y)
    BY <1>2, <1>4
  <2>2. /\ \A j \in DOMAIN o : i + n < j => y \notin ToSet(o[j].of)
        /\ y \notin ToSet(k) /\ y \notin ToSet(w)
    BY <2>1 DEF OnePlace
  <2>3. \A j \in DOMAIN q : i < j => i + n < j + n
    BY <1>1, <1>2
  <2>. QED BY <1>2, <2>2, <2>3
<1>5. \A y : Ended(g, y) \/ UnderWay(w, k, q, y) => y \in ToSet(s)
  BY <1>3 DEF OnePlace
<1>6. \A y : Ended(g, y) => ~UnderWay(w, k, q, y)
  BY <1>3 DEF OnePlace
<1>7. \A y \in ToSet(k) : y \notin ToSet(w)
  BY DEF OnePlace
<1>. QED BY <1>4, <1>5, <1>6, <1>7 DEF OnePlace, q

\* What was not read is dropped, or all that is under way is.
LEMMA PlaceEnd ==
  ASSUME NEW s, NEW g, NEW w, NEW k, NEW o, OnePlace(s, g, w, k, o)
  PROVE  /\ OnePlace(s, g, <<>>, k, o)
         /\ OnePlace(s, g, <<>>, <<>>, <<>>)
<1>1. ToSet(<<>>) = {} /\ DOMAIN <<>> = {}
  BY PiecesOf
<1>2. /\ \A y : UnderWay(<<>>, k, o, y) => UnderWay(w, k, o, y)
      /\ \A y : ~UnderWay(<<>>, <<>>, <<>>, y)
  BY <1>1 DEF UnderWay
<1>. QED BY <1>1, <1>2 DEF OnePlace

\* No two pieces a client sends are the same.
LEMMA PiecesDiffer ==
  ASSUME NEW s \in Seq(Piece), NEW b \in Nat, Numbered(s, b),
         NEW i \in DOMAIN s, NEW j \in DOMAIN s, i < j
  PROVE  s[i] # s[j]
<1>1. s[i] \in Piece /\ s[j] \in Piece
  OBVIOUS
<1>2. s[i].req \in Nat /\ s[j].req \in Nat
  BY <1>1 DEF Piece
<1>3. \/ s[i].req < s[j].req
      \/ s[i].part = "head" /\ s[j].part = "tail"
  BY DEF Numbered
<1>. QED BY <1>2, <1>3

\* So what one read takes is not among what it leaves.
LEMMA TakenOnce ==
  ASSUME NEW s \in Seq(Piece), NEW b \in Nat, Numbered(s, b),
         NEW w \in Seq(Piece), UnreadTail(s, w), NEW n \in 1..Len(w)
  PROVE  LET u == SubSeq(w, 1, n)  v == SubSeq(w, n + 1, Len(w))
         IN  ToSet(w) = ToSet(v) \cup ToSet(u) /\ ToSet(v) \cap ToSet(u) = {}
<1>. DEFINE u == SubSeq(w, 1, n)  v == SubSeq(w, n + 1, Len(w))
<1>1. /\ ToSet(u) = {w[i] : i \in 1..n} /\ ToSet(v) = {w[i] : i \in (n + 1)..Len(w)}
      /\ ToSet(w) = {w[i] : i \in 1..Len(w)}
  BY PiecesOf
<1>2. Len(w) \in Nat /\ Len(s) \in Nat /\ n \in Nat /\ n <= Len(w) /\ DOMAIN w = 1..Len(w)
      /\ DOMAIN s = 1..Len(s)
  OBVIOUS
<1>. HIDE DEF u, v
<1>3. \A i : i \in 1..Len(w) <=> i \in 1..n \/ i \in (n + 1)..Len(w)
  BY <1>2
<1>4. ToSet(w) = ToSet(v) \cup ToSet(u)
  BY <1>1, <1>3
<1>5. ASSUME NEW i \in 1..n, NEW j \in (n + 1)..Len(w) PROVE w[i] # w[j]
  <2>. DEFINE d == Len(s) - Len(w)
  <2>0. i \in DOMAIN w /\ j \in DOMAIN w
    BY <1>2
  <2>1. Len(w) <= Len(s) /\ w[i] = s[d + i] /\ w[j] = s[d + j]
    BY <2>0 DEF UnreadTail
  <2>2. d + i \in DOMAIN s /\ d + j \in DOMAIN s /\ d + i < d + j
    BY <1>2, <2>1
  <2>. HIDE DEF d
  <2>. QED BY <2>1, <2>2, PiecesDiffer
<1>6. ToSet(v) \cap ToSet(u) = {}
  BY <1>1, <1>5
<1>. QED BY <1>4, <1>6 DEF u, v

\* Where the pieces of a connection are, step by step.
LEMMA WhereaboutsStep ==
  TypeOK /\ SentInOrder /\ Unread /\ Whereabouts /\ [Next]_vars => Whereabouts'
<1>. SUFFICES ASSUME TypeOK, SentInOrder, Unread, Whereabouts, [Next]_vars, NEW c \in Clients
              PROVE  /\ OnePlace(sent'[c], got'[c], wire'[c], work'[c], out'[c])
                     /\ conn'[c] \in {"gone", "reset"} => c \in left'
  BY DEF Whereabouts
<1>. DEFINE s == sent[c]  g == got[c]  w == wire[c]  k == work[c]  o == out[c]
<1>a. /\ s \in Seq(Piece) /\ g \in Seq(Reply) /\ w \in Seq(Piece)
      /\ k \in Seq(Piece) /\ o \in Seq(Reply)
  BY TypeParts DEF ConnSorts, HistorySorts
<1>b. UnreadTail(s, w) /\ OnePlace(s, g, w, k, o) /\ (conn[c] \in {"gone", "reset"} => c \in left)
  BY DEF Unread, Whereabouts
<1>c. PICK b \in Nat : Numbered(s, b)
  BY DEF SentInOrder
<1>d. ClientChange(c) /\ left \subseteq left'
  BY ClientStep, LateStep
<1>e. conn'[c] \in {"gone", "reset"} => c \in left'
  BY <1>b, <1>d
     DEF ClientChange, Stays, Ends, Opens, Closes, Sends, SendsTcp, SendsTail, SendsHttp,
         Reads, Returns, Takes, Delivers, Loses, Frees
<1>. SUFFICES OnePlace(sent'[c], got'[c], wire'[c], work'[c], out'[c])
  BY <1>e
<1>. HIDE DEF s, g, w, k, o
<1>1. CASE Stays(c) \/ Opens(c) \/ Closes(c)
  BY <1>1, <1>b DEF Stays, Opens, Closes, s, g, w, k, o
<1>2. CASE Ends(c)
  <2>1. OnePlace(s, g, <<>>, <<>>, <<>>)
    BY <1>b, PlaceEnd
  <2>. QED BY <1>2, <2>1 DEF Ends, s, g
<1>3. CASE sent'[c] # s
  <2>1. PICK x \in Piece : Sends(c, x)
    BY <1>3, SentStep DEF s
  <2>2. sent'[c] = Append(s, x) /\ wire'[c] = Append(w, x) /\ UNCHANGED <<work[c], out[c], got[c]>>
    BY <2>1 DEF Sends, s, w
  <2>3. x \notin ToSet(s)
    <3>1. SentInOrder'
      BY OrderStep
    <3>2. PICK e \in Nat : Numbered(Append(s, x), e)
      BY <2>2, <3>1 DEF SentInOrder
    <3>. DEFINE t == Append(s, x)  m == Len(s) + 1
    <3>3. /\ t \in Seq(Piece) /\ m \in DOMAIN t /\ t[m] = x
          /\ \A i \in DOMAIN s : i \in DOMAIN t /\ i < m /\ t[i] = s[i]
      BY <1>a
    <3>4. Numbered(t, e)
      BY <3>2
    <3>. HIDE DEF t, m
    <3>5. \A i \in DOMAIN s : s[i] # x
      BY <3>3, <3>4, PiecesDiffer
    <3>. QED BY <3>5 DEF ToSet
  <2>4. OnePlace(Append(s, x), g, Append(w, x), k, o)
    BY <1>a, <1>b, <2>3, PlaceSend
  <2>. QED BY <2>2, <2>4 DEF g, k, o
<1>4. CASE Reads(c)
  <2>1. PICK n \in 1..Len(w) :
          work'[c] = SubSeq(w, 1, n) /\ wire'[c] = SubSeq(w, n + 1, Len(w))
    BY <1>4 DEF Reads, w
  <2>2. sent'[c] = s /\ got'[c] = g /\ k = <<>> /\ out'[c] = o
    BY <1>4 DEF Reads, s, g, k, o
  <2>3. /\ ToSet(w) = ToSet(wire'[c]) \cup ToSet(work'[c])
        /\ ToSet(wire'[c]) \cap ToSet(work'[c]) = {}
    BY <1>a, <1>b, <1>c, <2>1, TakenOnce
  <2>4. OnePlace(s, g, wire'[c], work'[c], o)
    BY <1>b, <2>2, <2>3, PlaceRead
  <2>. QED BY <2>2, <2>4
<1>5. CASE Returns(c)
  <2>. DEFINE x == Response(k, 200)
  <2>1. x \in Reply /\ x.of = k
    BY <1>a, ResponseType
  <2>2. /\ out'[c] = Append(o, x) /\ work'[c] = <<>> /\ wire'[c] = w /\ sent'[c] = s
        /\ got'[c] = g
    BY <1>5 DEF Returns, s, g, w, k, o
  <2>. HIDE DEF x
  <2>3. OnePlace(s, g, w, <<>>, Append(o, x))
    BY <1>a, <1>b, <2>1, PlaceAnswer
  <2>. QED BY <2>2, <2>3
<1>6. CASE Takes(c)
  <2>. DEFINE h == Head(w)
  <2>1. /\ w # <<>> /\ wire'[c] = Tail(w) /\ k = <<>> /\ o = <<>> /\ sent'[c] = s /\ got'[c] = g
        /\ \/ work'[c] = <<h>> /\ out'[c] = <<>>
           \/ work'[c] = <<>> /\ out'[c] = UnreadReplies(h) /\ h.part = "unread"
           \/ work'[c] = <<>> /\ out'[c] = <<Response(<<h>>, 400)>>
    BY <1>6 DEF Takes, s, g, w, k, o
  <2>2. /\ h \in Piece /\ 1 \in 1..Len(w)
        /\ SubSeq(w, 1, 1) = <<h>> /\ SubSeq(w, 1 + 1, Len(w)) = Tail(w)
    <3>1. h \in Piece /\ Len(w) \in Nat /\ Len(w) >= 1 /\ w[1] = h
      BY <1>a, <2>1
    <3>2. Tail(w) = SubSeq(w, 1 + 1, Len(w))
      OBVIOUS
    <3>. DEFINE q == SubSeq(w, 1, 1)
    <3>3. Len(q) = 1 /\ q[1] = h /\ q \in Seq(Piece)
      BY <1>a, <3>1
    <3>. HIDE DEF q, h
    <3>4. q = <<h>>
      BY <3>3
    <3>. QED BY <3>1, <3>2, <3>4 DEF q
  <2>. HIDE DEF h
  <2>3. ToSet(w) = ToSet(Tail(w)) \cup ToSet(<<h>>) /\ ToSet(Tail(w)) \cap ToSet(<<h>>) = {}
    <3>1. PICK n \in 1..Len(w) : n = 1
      BY <2>2
    <3>2. /\ ToSet(w) = ToSet(SubSeq(w, n + 1, Len(w))) \cup ToSet(SubSeq(w, 1, n))
          /\ ToSet(SubSeq(w, n + 1, Len(w))) \cap ToSet(SubSeq(w, 1, n)) = {}
      BY <1>a, <1>b, <1>c, TakenOnce
    <3>. QED BY <2>2, <3>1, <3>2
  <2>4. OnePlace(s, g, Tail(w), <<h>>, <<>>)
    BY <1>b, <2>1, <2>3, PlaceRead
  <2>5. <<h>> \in Seq(Piece)
    BY <2>2
  <2>. DEFINE y == <<h>>
  <2>5a. y \in Seq(Piece)
    BY <2>5
  <2>5b. y = <<h>>
    OBVIOUS
  <2>. HIDE DEF y
  <2>. DEFINE a == Response(y, 400)  d == Response(y, 200)  e == Response(y, 0)
  <2>6. /\ a \in Reply /\ a.of = y /\ a.code = 400 /\ d \in Reply /\ d.of = y /\ d.code = 200
        /\ e \in Reply /\ e.of = y
    BY <2>5a, ResponseType
  <2>7. <<Response(<<h>>, 400)>> = <<a>> /\ UnreadReplies(h) = <<a, d, e>>
    BY <2>5b DEF UnreadReplies
  <2>. HIDE DEF a, d, e
  <2>8. OnePlace(s, g, Tail(w), <<>>, <<a>>)
    <3>1. /\ <<a>> \in Seq(Reply) /\ <<a>> # <<>> /\ DOMAIN <<a>> = {1} /\ <<a>>[1] = a
      BY <2>6
    <3>2. \A i, j \in DOMAIN <<a>> : i < j => ~Ending(<<a>>[i], h)
      BY <3>1
    <3>. DEFINE q == <<a>>
    <3>3. q \in Seq(Reply) /\ q # <<>> /\ \A i \in DOMAIN q : q[i].of = <<h>>
      BY <2>5b, <2>6, <3>1
    <3>4. \A i, j \in DOMAIN q : i < j => ~Ending(q[i], h)
      BY <3>2
    <3>. HIDE DEF q
    <3>5. OnePlace(s, g, Tail(w), <<>>, q)
      BY <2>4, <3>3, <3>4, PlaceReplies
    <3>. QED BY <3>5 DEF q
  <2>9. h.part = "unread" => OnePlace(s, g, Tail(w), <<>>, <<a, d, e>>)
    <3>. DEFINE q == <<a, d, e>>
    <3>1. /\ q \in Seq(Reply) /\ q # <<>> /\ DOMAIN q = 1..3
          /\ q[1] = a /\ q[2] = d /\ q[3] = e
      BY <2>6
    <3>. HIDE DEF q
    <3>2. \A i \in DOMAIN q : i = 1 \/ i = 2 \/ i = 3
      BY <3>1
    <3>3. \A i \in DOMAIN q : q[i].of = <<h>>
      BY <2>5b, <2>6, <3>1, <3>2
    <3>4. h.part = "unread" => \A i, j \in DOMAIN q : i < j => ~Ending(q[i], h)
      <4>1. h.part = "unread" => ~Ending(a, h) /\ ~Ending(d, h)
        BY <2>6 DEF Ending
      <4>2. \A i, j \in DOMAIN q : i < j => i = 1 \/ i = 2
        BY <3>1
      <4>. QED BY <3>1, <4>1, <4>2
    <3>5. h.part = "unread" => OnePlace(s, g, Tail(w), <<>>, q)
      BY <2>4, <3>1, <3>3, <3>4, PlaceReplies
    <3>. QED BY <3>5 DEF q
  <2>10. CASE work'[c] = <<h>> /\ out'[c] = <<>>
    BY <2>1, <2>4, <2>10
  <2>11. CASE work'[c] = <<>> /\ out'[c] = UnreadReplies(h) /\ h.part = "unread"
    BY <2>1, <2>7, <2>9, <2>11
  <2>12. CASE work'[c] = <<>> /\ out'[c] = <<Response(<<h>>, 400)>>
    BY <2>1, <2>7, <2>8, <2>12
  <2>. QED BY <2>1, <2>10, <2>11, <2>12
<1>7. CASE Delivers(c)
  <2>1. /\ sent'[c] = s /\ work'[c] = k /\ o # <<>>
        /\ got'[c] = Append(g, Head(o)) /\ out'[c] = Tail(o)
        /\ wire'[c] = <<>> \/ wire'[c] = w
    BY <1>7 DEF Delivers, s, g, w, k, o
  <2>2. OnePlace(s, Append(g, Head(o)), w, k, Tail(o))
    BY <1>a, <1>b, <2>1, PlaceDeliver
  <2>3. OnePlace(s, Append(g, Head(o)), <<>>, k, Tail(o))
    BY <2>2, PlaceEnd
  <2>. QED BY <2>1, <2>2, <2>3
<1>8. CASE Loses(c)
  <2>1. /\ sent'[c] = s /\ got'[c] = g /\ work'[c] = k /\ k = <<>>
        /\ \/ wire'[c] = <<>> /\ out'[c] = <<>>
           \/ wire'[c] = w /\ \E n \in 0..Len(o) : out'[c] = SubSeq(o, n + 1, Len(o))
    BY <1>8 DEF Loses, s, g, w, k, o
  <2>2. OnePlace(s, g, <<>>, <<>>, <<>>)
    BY <1>b, PlaceEnd
  <2>3. \A n \in 0..Len(o) : OnePlace(s, g, w, k, SubSeq(o, n + 1, Len(o)))
    BY <1>a, <1>b, PlaceLose
  <2>. QED BY <2>1, <2>2, <2>3
<1>9. CASE Frees(c)
  <2>1. OnePlace(s, g, <<>>, <<>>, <<>>)
    BY <1>b, PlaceEnd
  <2>2. k = <<>> /\ work'[c] = k /\ sent'[c] = s /\ got'[c] = g
    BY <1>9 DEF Frees, s, g, k
  <2>. QED BY <1>9, <2>1, <2>2 DEF Frees
<1>10. CASE (SendsTcp(c) \/ SendsTail(c) \/ SendsHttp(c)) /\ sent'[c] = s
  <2>1. PICK x : sent'[c] = Append(s, x)
    BY <1>10 DEF SendsTcp, SendsTail, SendsHttp, Sends, s
  <2>2. Len(Append(s, x)) # Len(s)
    BY <1>a
  <2>. QED BY <1>10, <2>1, <2>2
<1>. QED
  BY <1>d, <1>1, <1>2, <1>3, <1>4, <1>5, <1>6, <1>7, <1>8, <1>9, <1>10
     DEF ClientChange

\* A piece under way is one the client has sent, and is not served.
LEMMA NotServed ==
  ASSUME Whereabouts, NEW c \in Clients, NEW x, UnderWay(wire[c], work[c], out[c], x)
  PROVE  x \in ToSet(sent[c]) /\ ~Served(c, x)
<1>1. x \in ToSet(sent[c]) /\ ~Ended(got[c], x)
  BY DEF Whereabouts, OnePlace
<1>. QED BY <1>1 DEF Served, Ended, Ending

\* The invariant that holds of every connection.
Connections == Fresh /\ SentInOrder /\ Unread /\ Meant /\ Whereabouts

\* An end has one of the causes, and nothing that happens later changes it.
LEMMA ExitStep ==
  TypeOK /\ Stages /\ Connections /\ ExitExplained /\ [Next]_vars => ExitExplained'
<1>. SUFFICES ASSUME TypeOK, Stages, Connections, ExitExplained, [Next]_vars, stage' = "exited"
              PROVE  \/ status' = "killed" /\ signalled' # {}
                     \/ status' = "2" /\ ("stop" \in signalled' \/ listening' < Len(Servers))
                     \/ /\ status' = "1"
                        /\ \E c \in HttpClients : \E piece \in ToSet(sent'[c]) :
                             piece.part = "empty" /\ ~Served(c, piece)'
                     \/ /\ status' = "crash"
                        /\ \E c \in Clients : \E piece \in ToSet(sent'[c]) :
                             <<c, piece.req>> \in Formats /\ ~Served(c, piece)'
                     \/ /\ status' = "pipe"
                        /\ \E c \in left' : \E piece \in ToSet(sent'[c]) : ~Served(c, piece)'
  BY DEF ExitExplained
<1>a. ASSUME NEW c \in Clients, NEW x, got' = got PROVE Served(c, x)' <=> Served(c, x)
  BY <1>a DEF Served
<1>1. CASE Dies
  <2>1. /\ listening' = listening /\ got' = got /\ sent' = sent /\ left' = left
        /\ signalled \subseteq signalled'
    BY <1>1 DEF Dies
  <2>2. \A c \in Clients : \A x : UnderWay(wire[c], work[c], out[c], x) =>
          x \in ToSet(sent'[c]) /\ ~Served(c, x)'
    BY <1>a, <2>1, NotServed DEF Connections
  <2>3. ASSUME NEW c \in Clients, wire[c] # <<>>
        PROVE  UnderWay(wire[c], work[c], out[c], Head(wire[c]))
    <3>1. 1 \in DOMAIN wire[c] /\ Head(wire[c]) = wire[c][1]
      <4>1. wire[c] \in Seq(Piece)
        BY TypeParts DEF ConnSorts
      <4>. QED BY <2>3, <4>1
    <3>. QED BY <3>1 DEF UnderWay, ToSet
  <2>4. CASE status' = "killed" /\ signalled' # {}
    BY <2>4
  <2>5. CASE status' = "2" /\ stage \in {"init", "break"}
    BY <2>1, <2>5 DEF Stages, Started
  <2>6. CASE status' = "1" /\ \E c \in HttpClients :
               wire[c] # <<>> /\ Head(wire[c]).part = "empty"
    <3>1. PICK c \in HttpClients : wire[c] # <<>> /\ Head(wire[c]).part = "empty"
      BY <2>6
    <3>2. c \in Clients
      BY DEF Clients
    <3>3. PICK x : x = Head(wire[c])
      OBVIOUS
    <3>4. x \in ToSet(sent'[c]) /\ x.part = "empty" /\ ~Served(c, x)'
      BY <2>2, <2>3, <3>1, <3>2, <3>3
    <3>. QED BY <2>6, <3>4
  <2>7. CASE status' = "crash" /\ \E c \in Clients :
               \/ \E i \in DOMAIN work[c] : <<c, work[c][i].req>> \in Formats
               \/ wire[c] # <<>> /\ <<c, Head(wire[c]).req>> \in Formats
    <3>1. PICK c \in Clients :
               \/ \E i \in DOMAIN work[c] : <<c, work[c][i].req>> \in Formats
               \/ wire[c] # <<>> /\ <<c, Head(wire[c]).req>> \in Formats
      BY <2>7
    <3>2. PICK x : <<c, x.req>> \in Formats /\ UnderWay(wire[c], work[c], out[c], x)
      <4>1. CASE \E i \in DOMAIN work[c] : <<c, work[c][i].req>> \in Formats
        <5>1. PICK i \in DOMAIN work[c] : <<c, work[c][i].req>> \in Formats
          BY <4>1
        <5>2. UnderWay(wire[c], work[c], out[c], work[c][i])
          BY DEF UnderWay, ToSet
        <5>. QED BY <5>1, <5>2
      <4>2. CASE wire[c] # <<>> /\ <<c, Head(wire[c]).req>> \in Formats
        BY <2>3, <4>2
      <4>. QED BY <3>1, <4>1, <4>2
    <3>3. x \in ToSet(sent'[c]) /\ ~Served(c, x)'
      BY <2>2, <3>2
    <3>. QED BY <2>7, <3>2, <3>3
  <2>8. CASE status' = "pipe" /\ \E c \in Clients : conn[c] = "reset" /\ out[c] # <<>>
    <3>1. PICK c \in Clients : conn[c] = "reset" /\ out[c] # <<>>
      BY <2>8
    <3>2. PICK x : UnderWay(wire[c], work[c], out[c], x)
      <4>1. out[c] \in Seq(Reply)
        BY TypeParts DEF ConnSorts
      <4>2. 1 \in DOMAIN out[c] /\ out[c][1] \in Reply
        BY <3>1, <4>1
      <4>3. out[c][1].of \in Seq(Piece) /\ out[c][1].of # <<>>
        BY <4>2 DEF Reply, Connections, Meant
      <4>4. 1 \in DOMAIN out[c][1].of
        BY <4>3
      <4>5. UnderWay(wire[c], work[c], out[c], out[c][1].of[1])
        BY <4>2, <4>4 DEF UnderWay, ToSet
      <4>. QED BY <4>5
    <3>3. x \in ToSet(sent'[c]) /\ ~Served(c, x)'
      BY <2>2, <3>2
    <3>4. c \in left'
      BY <2>1, <3>1 DEF Connections, Whereabouts
    <3>. QED BY <2>8, <3>3, <3>4
  <2>. QED BY <1>1, <2>4, <2>5, <2>6, <2>7, <2>8 DEF Dies
<1>2. CASE GoesOn
  <2>1. /\ stage = "exited" /\ left \subseteq left' /\ status' = status /\ listening' = listening
        /\ signalled \subseteq signalled' /\ got' = got /\ sent' = sent
    BY <1>2, LateStep DEF GoesOn
  <2>2. HttpClients \subseteq Clients /\ left \subseteq Clients
    BY TypeParts DEF HistorySorts, Clients
  <2>3. \A c \in Clients : \A x : Served(c, x)' <=> Served(c, x)
    BY <1>a, <2>1
  <2>4. \/ status = "killed" /\ signalled # {}
        \/ status = "2" /\ ("stop" \in signalled \/ listening < Len(Servers))
        \/ /\ status = "1"
           /\ \E c \in HttpClients : \E piece \in ToSet(sent[c]) :
                piece.part = "empty" /\ ~Served(c, piece)
        \/ /\ status = "crash"
           /\ \E c \in Clients : \E piece \in ToSet(sent[c]) :
                <<c, piece.req>> \in Formats /\ ~Served(c, piece)
        \/ /\ status = "pipe"
           /\ \E c \in left : \E piece \in ToSet(sent[c]) : ~Served(c, piece)
    BY <2>1 DEF ExitExplained
  <2>5. CASE status = "killed" /\ signalled # {}
    BY <2>1, <2>5
  <2>6. CASE status = "2" /\ ("stop" \in signalled \/ listening < Len(Servers))
    BY <2>1, <2>6
  <2>7. CASE /\ status = "1"
             /\ \E c \in HttpClients : \E piece \in ToSet(sent[c]) :
                  piece.part = "empty" /\ ~Served(c, piece)
    BY <2>1, <2>2, <2>3, <2>7
  <2>8. CASE /\ status = "crash"
             /\ \E c \in Clients : \E piece \in ToSet(sent[c]) :
                  <<c, piece.req>> \in Formats /\ ~Served(c, piece)
    BY <2>1, <2>3, <2>8
  <2>9. CASE /\ status = "pipe"
             /\ \E c \in left : \E piece \in ToSet(sent[c]) : ~Served(c, piece)
    BY <2>1, <2>2, <2>3, <2>9
  <2>. QED BY <2>4, <2>5, <2>6, <2>7, <2>8, <2>9
<1>3. CASE Binds \/ Breaks
  BY <1>3 DEF Binds, Breaks
<1>. QED BY <1>1, <1>2, <1>3, ProcessStep

\* Nothing has been sent, so nothing is anywhere.
LEMMA InitConnections == Init => Connections
<1>. SUFFICES ASSUME Init PROVE Connections
  OBVIOUS
<1>1. \A c \in Clients : /\ sent[c] = <<>> /\ got[c] = <<>> /\ wire[c] = <<>>
                         /\ work[c] = <<>> /\ out[c] = <<>> /\ conn[c] = "none"
  BY DEF Init
<1>2. Meant
  BY <1>1 DEF Meant
<1>3. OnePlace(<<>>, <<>>, <<>>, <<>>, <<>>)
  <2>1. ToSet(<<>>) = {} /\ DOMAIN <<>> = {}
    BY PiecesOf
  <2>2. \A x : ~Ended(<<>>, x) /\ ~UnderWay(<<>>, <<>>, <<>>, x)
    BY <2>1 DEF Ended, UnderWay
  <2>. QED BY <2>1, <2>2 DEF OnePlace
<1>4. Whereabouts
  BY <1>1, <1>3 DEF Whereabouts
<1>. QED BY <1>2, <1>4, InitOrder DEF Connections

\* Every step keeps the invariant of connections.
LEMMA ConnectionsStep == TypeOK /\ Connections /\ [Next]_vars => Connections'
BY FreshStep, OrderStep, UnreadStep, MeantStep, WhereaboutsStep DEF Connections

\* Every end of the service has the cause its status tells of.
THEOREM EndsExplained == Spec => []ExitExplained
<1>1. Init => Connections /\ ExitExplained
  <2>1. Init => ExitExplained
    BY DEF Init, ExitExplained
  <2>. QED BY <2>1, InitConnections
<1>2. TypeOK /\ Connections /\ [Next]_vars => Connections'
  BY ConnectionsStep
<1>3. TypeOK /\ Stages /\ Connections /\ ExitExplained /\ [Next]_vars => ExitExplained'
  BY ExitStep
<1>. QED BY <1>1, <1>2, <1>3, TypeInvariance, PTL DEF Spec

-----------------------------------------------------------------------------
(* TalksAsDialogue.                                                        *)

\* The service starts with no dialogue begun.
LEMMA TalkInit ==
  ASSUME Init, NEW c \in TcpClients
  PROVE  Talk(c)!DInit
<1>1. /\ c \in Clients /\ wire[c] = <<>> /\ work[c] = <<>> /\ out[c] = <<>> /\ got[c] = <<>>
      /\ stage = "init" /\ conn[c] = "none"
  BY DEF Init, Clients
<1>2. /\ [i \in DOMAIN out[c] |-> out[c][i].of] = <<>>
      /\ [i \in DOMAIN got[c] |-> got[c][i].of] = <<>>
  BY <1>1
<1>. QED BY <1>1, <1>2 DEF Talk!DInit

\* What a TCP client sends is not HTTP.
TcpSent == \A c \in TcpClients : \A i \in DOMAIN sent[c] : sent[c][i].part \in TcpParts

\* The parts are those TcpSend and TcpSendTail send.
LEMMA TcpSentStep == TypeOK /\ TcpSent /\ [Next]_vars => TcpSent'
<1>. SUFFICES ASSUME TypeOK, TcpSent, [Next]_vars, NEW c \in TcpClients
              PROVE  \A i \in DOMAIN sent'[c] : sent'[c][i].part \in TcpParts
  BY DEF TcpSent
<1>. DEFINE s == sent[c]
<1>1. /\ c \in Clients /\ c \notin HttpClients /\ s \in Seq(Piece)
      /\ \A i \in DOMAIN s : s[i].part \in TcpParts
  BY TypeParts, EventServerAssumption DEF Clients, HistorySorts, TcpSent
<1>2. CASE sent'[c] # s
  <2>1. PICK x \in Piece : sent'[c] = Append(s, x) /\ x.part \in TcpParts
    BY <1>1, <1>2, SentStep DEF Sends, TcpParts
  <2>. HIDE DEF s
  <2>2. \A i \in DOMAIN Append(s, x) : Append(s, x)[i].part \in TcpParts
    BY <1>1, <2>1
  <2>. QED BY <2>1, <2>2
<1>. QED BY <1>1, <1>2

\* So none of its responses closes the connection.
LEMMA TcpStaysOpen ==
  ASSUME TypeOK, Meant, TcpSent, Whereabouts, NEW c \in TcpClients, out[c] # <<>>
  PROVE  ~ClosedWith(Head(out[c]))
<1>. DEFINE o == out[c]  f == Head(o).of
<1>1. c \in Clients /\ o \in Seq(Reply)
  BY TypeParts DEF Clients, ConnSorts
<1>2. 1 \in DOMAIN o /\ Head(o) = o[1] /\ Head(o) \in Reply
  BY <1>1
<1>3. f \in Seq(Piece) /\ f # <<>>
  BY <1>1, <1>2 DEF Reply, Meant
<1>. HIDE DEF f
<1>4. Last(f) \in ToSet(f)
  <2>1. Len(f) \in DOMAIN f
    BY <1>3
  <2>. QED BY <2>1 DEF ToSet, Last
<1>5. UnderWay(wire[c], work[c], out[c], Last(f))
  BY <1>2, <1>4 DEF UnderWay, f
<1>6. Last(f) \in ToSet(sent[c])
  BY <1>1, <1>5, NotServed
<1>7. Last(f).part \in TcpParts
  BY <1>6 DEF TcpSent, ToSet
<1>. QED BY <1>7 DEF ClosedWith, TcpParts, f

\* A step of the service is a step of each dialogue, or none.
LEMMA TalkStep ==
  ASSUME TypeOK, Connections, TcpSent, [Next]_vars, NEW c \in TcpClients
  PROVE  [Talk(c)!DNext]_(Talk(c)!dialogueVars)
<1>. DEFINE g == got[c]  w == wire[c]  k == work[c]  o == out[c]
            Open == stage # "exited" /\ conn[c] \in {"none", "up", "eof"}
            NextOpen == stage' # "exited" /\ conn'[c] \in {"none", "up", "eof"}
<1>a. /\ c \in Clients /\ c \notin HttpClients
      /\ g \in Seq(Reply) /\ w \in Seq(Piece) /\ k \in Seq(Piece) /\ o \in Seq(Reply)
  BY TypeParts, EventServerAssumption DEF Clients, ConnSorts
<1>b. ClientChange(c)
  BY <1>a, ClientStep
<1>c. ~Dies => (stage' = "exited" <=> stage = "exited")
  BY ProcessStep DEF Binds, GoesOn, Breaks
<1>d. Dies => Ends(c)
  BY <1>a DEF Dies
<1>. USE DEF Talk!DNext, Talk!dialogueVars
<1>1. CASE Ends(c)
  <2>1. Talk(c)!End
    <3>1. /\ wire'[c] = <<>> /\ work'[c] = <<>> /\ out'[c] = <<>> /\ got'[c] = got[c]
          /\ stage' = "exited"
      BY <1>1 DEF Ends
    <3>2. [i \in DOMAIN out'[c] |-> out'[c][i].of] = <<>>
      BY <3>1
    <3>. QED BY <3>1, <3>2 DEF Talk!End
  <2>. QED BY <2>1
<1>2. CASE ~Dies /\ Stays(c)
  <2>1. /\ wire'[c] = wire[c] /\ work'[c] = work[c] /\ out'[c] = out[c] /\ got'[c] = got[c]
        /\ conn'[c] = conn[c] /\ (stage' = "exited" <=> stage = "exited")
    BY <1>2, <1>c DEF Stays
  <2>. QED BY <2>1
<1>3. CASE ~Dies /\ Opens(c)
  <2>1. /\ wire'[c] = wire[c] /\ work'[c] = work[c] /\ out'[c] = out[c] /\ got'[c] = got[c]
        /\ conn'[c] = "up" /\ conn[c] = "none" /\ (stage' = "exited" <=> stage = "exited")
    BY <1>3, <1>c DEF Opens
  <2>. QED BY <2>1
<1>4. CASE ~Dies /\ Closes(c)
  <2>1. /\ wire'[c] = wire[c] /\ work'[c] = work[c] /\ out'[c] = out[c] /\ got'[c] = got[c]
        /\ conn[c] \in {"up", "eof"} /\ conn'[c] \in {"eof", "gone"}
        /\ (stage' = "exited" <=> stage = "exited")
    BY <1>4, <1>c DEF Closes
  <2>2. CASE NextOpen <=> Open
    BY <2>1, <2>2
  <2>3. CASE ~NextOpen /\ Open
    <3>1. Talk(c)!Close
      BY <2>1, <2>3 DEF Talk!Close
    <3>. QED BY <3>1
  <2>. QED BY <2>1, <2>2, <2>3
<1>5. CASE ~Dies /\ (SendsTcp(c) \/ SendsTail(c) \/ SendsHttp(c))
  <2>1. PICK x : Sends(c, x)
    BY <1>5 DEF SendsTcp, SendsTail, SendsHttp
  <2>2. /\ wire'[c] = Append(w, x) /\ work'[c] = work[c] /\ out'[c] = out[c] /\ got'[c] = got[c]
        /\ conn'[c] = conn[c] /\ (stage' = "exited" <=> stage = "exited")
    BY <2>1, <1>5, <1>c DEF Sends
  <2>3. Len(Append(w, x)) = Len(w) + 1 /\ SubSeq(Append(w, x), 1, Len(w)) = w
    BY <1>a
  <2>4. Talk(c)!Send
    BY <2>2, <2>3 DEF Talk!Send
  <2>. QED BY <2>4
<1>6. CASE ~Dies /\ Reads(c)
  <2>1. Talk(c)!Take
    <3>1. /\ work[c] = <<>>
          /\ \E n \in 1..Len(wire[c]) :
               work'[c] = SubSeq(wire[c], 1, n) /\ wire'[c] = SubSeq(wire[c], n + 1, Len(wire[c]))
          /\ out'[c] = out[c] /\ got'[c] = got[c]
          /\ conn'[c] = conn[c] /\ (stage' = "exited" <=> stage = "exited")
      BY <1>6, <1>c DEF Reads
    <3>. QED BY <3>1 DEF Talk!Take
  <2>. QED BY <2>1
<1>7. CASE ~Dies /\ Returns(c)
  <2>. DEFINE x == Response(k, 200)
  <2>1. /\ work[c] # <<>> /\ work'[c] = <<>> /\ out'[c] = Append(o, x)
        /\ wire'[c] = wire[c] /\ got'[c] = got[c]
        /\ conn'[c] = conn[c] /\ (stage' = "exited" <=> stage = "exited")
    BY <1>7, <1>c DEF Returns
  <2>2. x \in Reply /\ x.of = work[c]
    BY <1>a, ResponseType
  <2>. HIDE DEF x
  <2>3. Parts(Append(o, x)) = Append(Parts(o), x.of)
    BY <1>a, <2>2, PartsOf
  <2>4. [i \in DOMAIN out'[c] |-> out'[c][i].of]
          = Append([i \in DOMAIN out[c] |-> out[c][i].of], work[c])
    BY <2>1, <2>2, <2>3 DEF Parts
  <2>5. Talk(c)!Answer
    BY <2>1, <2>4 DEF Talk!Answer
  <2>. QED BY <2>5
<1>8. CASE ~Dies /\ Delivers(c)
  <2>. DEFINE x == Head(o)  q == Tail(o)
  <2>0. conn[c] \in {"up", "eof"} /\ o # <<>>
    BY <1>8 DEF Delivers
  <2>1. ~ClosedWith(Head(out[c]))
    BY <2>0, TcpStaysOpen DEF Connections
  <2>2. /\ stage # "exited" /\ work'[c] = work[c] /\ wire'[c] = wire[c]
        /\ got'[c] = Append(g, x) /\ out'[c] = q
        /\ conn'[c] = conn[c] /\ (stage' = "exited" <=> stage = "exited")
    BY <1>8, <1>c, <2>1 DEF Delivers
  <2>3. /\ Parts(Append(g, x)) = Append(Parts(g), x.of)
        /\ Parts(o) # <<>> /\ Head(Parts(o)) = x.of /\ Parts(q) = Tail(Parts(o))
    <3>1. x \in Reply
      BY <1>a, <2>0
    <3>. QED BY <1>a, <2>0, <3>1, PartsOf
  <2>. HIDE DEF x, q
  <2>4. /\ [i \in DOMAIN out[c] |-> out[c][i].of] # <<>>
        /\ [i \in DOMAIN got'[c] |-> got'[c][i].of]
             = Append([i \in DOMAIN got[c] |-> got[c][i].of],
                      Head([i \in DOMAIN out[c] |-> out[c][i].of]))
        /\ [i \in DOMAIN out'[c] |-> out'[c][i].of]
             = Tail([i \in DOMAIN out[c] |-> out[c][i].of])
    BY <2>2, <2>3 DEF Parts
  <2>5. Talk(c)!Deliver
    BY <2>0, <2>2, <2>4 DEF Talk!Deliver
  <2>. QED BY <2>5
<1>9. CASE ~Dies /\ Loses(c)
  <2>1. /\ conn[c] = "gone" /\ conn'[c] \in {"freed", "reset"}
        /\ work[c] = <<>> /\ work'[c] = <<>> /\ got'[c] = got[c]
    BY <1>9 DEF Loses
  <2>2. CASE wire'[c] = <<>> /\ out'[c] = <<>>
    <3>1. [i \in DOMAIN out'[c] |-> out'[c][i].of] = <<>>
      BY <2>2
    <3>2. Talk(c)!End
      BY <2>1, <2>2, <3>1 DEF Talk!End
    <3>. QED BY <3>2
  <2>3. CASE /\ wire'[c] = wire[c]
             /\ \E n \in 0..Len(o) : out'[c] = SubSeq(o, n + 1, Len(o))
    <3>1. PICK n \in 0..Len(o) : out'[c] = SubSeq(o, n + 1, Len(o))
      BY <2>3
    <3>2. /\ Parts(out'[c]) = SubSeq(Parts(o), n + 1, Len(Parts(o)))
          /\ n \in 0..Len(Parts(o))
      BY <1>a, <3>1, PartsOfRest
    <3>3. \E m \in 0..Len([i \in DOMAIN out[c] |-> out[c][i].of]) :
            [i \in DOMAIN out'[c] |-> out'[c][i].of]
              = SubSeq([i \in DOMAIN out[c] |-> out[c][i].of], m + 1,
                       Len([i \in DOMAIN out[c] |-> out[c][i].of]))
      BY <3>2 DEF Parts
    <3>4. Talk(c)!Lose
      BY <2>1, <2>3, <3>3 DEF Talk!Lose
    <3>. QED BY <3>4
  <2>. QED BY <1>9, <2>2, <2>3 DEF Loses
<1>10. CASE ~Dies /\ Frees(c)
  <2>1. /\ conn'[c] = "freed" /\ wire'[c] = <<>> /\ out'[c] = <<>>
        /\ work[c] = <<>> /\ work'[c] = <<>> /\ got'[c] = got[c]
    BY <1>10 DEF Frees
  <2>2. [i \in DOMAIN out'[c] |-> out'[c][i].of] = <<>>
    BY <2>1
  <2>3. Talk(c)!End
    BY <2>1, <2>2 DEF Talk!End
  <2>. QED BY <2>3
<1>11. CASE Takes(c)
  BY <1>11, <1>a DEF Takes
<1>. HIDE DEF Talk!DNext, Talk!dialogueVars
<1>. QED
  BY <1>b, <1>d, <1>1, <1>2, <1>3, <1>4, <1>5, <1>6, <1>7, <1>8, <1>9, <1>10, <1>11
     DEF ClientChange

\* What each TCP client sees of the service is the dialogue of the abstract
\* specification, whatever the others do.
THEOREM Talks == Spec => TalksAsDialogue
<1>1. Init => (\A c \in TcpClients : Talk(c)!DInit) /\ Connections /\ TcpSent
  <2>1. Init => TcpSent
    BY DEF Init, TcpSent, Clients
  <2>. QED BY <2>1, TalkInit, InitConnections
<1>2. TypeOK /\ Connections /\ [Next]_vars => Connections'
  BY ConnectionsStep
<1>3. TypeOK /\ TcpSent /\ [Next]_vars => TcpSent'
  BY TcpSentStep
<1>4. TypeOK /\ Connections /\ TcpSent /\ [Next]_vars
        => \A c \in TcpClients : [Talk(c)!DNext]_(Talk(c)!dialogueVars)
  BY TalkStep
<1>. QED BY <1>1, <1>2, <1>3, <1>4, TypeCorrect, PTL DEF Spec, TalksAsDialogue
=============================================================================
