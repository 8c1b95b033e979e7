-------------------------- MODULE TcpClientProofs --------------------------
(***************************************************************************)
(* Proofs about TcpClient, for every set of replies, every read size,      *)
(* every limit on handles and any number of calls.                         *)
(***************************************************************************)
EXTENDS TcpClient, SequenceTheorems, TLAPS

-----------------------------------------------------------------------------
(* The inductive invariant: where a call stands determines what it holds,  *)
(* what its buffers contain and why its loop was told to exit.             *)

Buffers ==
  /\ phase = "ready" => /\ rcvData = <<>> /\ rcvDataSize = 0
                        /\ kernel = <<>> /\ arrived = 0
                        /\ result = <<>>
  /\ phase = "loop" => result = <<>>
  /\ phase = "returned" => result = IF ret = "true" THEN rcvData ELSE <<>>
  /\ NothingLostOrRepeated

Holdings ==
  /\ phase \in {"idle", "ready"} => ~base
  /\ phase = "loop" => base /\ bev
  /\ phase = "returned" /\ ret = "true" => base
  /\ phase = "returned" => ret # "none"
  /\ NothingArmedOutsideLoop
  /\ HandlesBalance

Causes ==
  /\ phase = "ready" => ~exiting
  /\ exiting <=> cause # {}
  /\ phase = "returned" /\ ret = "true" => exiting
  /\ phase \in {"loop", "returned"} /\ "complete" \in cause =>
       rcvDataSize \in CompleteAt(reply)

IInv == TypeOK /\ Buffers /\ Holdings /\ Causes

-----------------------------------------------------------------------------
(* Byte sequences.                                                         *)

\* Bytes a to b are b - a + 1 numbers, in order.
LEMMA BytesType ==
  ASSUME NEW a \in Nat, NEW b \in Nat, a <= b + 1
  PROVE  /\ Bytes(a, b) \in Seq(Nat)
         /\ Len(Bytes(a, b)) = b - a + 1
         /\ \A i \in 1..(b - a + 1) : Bytes(a, b)[i] = a + i - 1
<1>. DEFINE s == Bytes(a, b)
<1>1. s = [i \in 1..(b - a + 1) |-> a + i - 1]
  BY DEF Bytes
<1>2. b - a + 1 \in Nat /\ \A i \in 1..(b - a + 1) : a + i - 1 \in Nat
  OBVIOUS
<1>3. s \in Seq(Nat)
  BY <1>1, <1>2
<1>4. Len(s) = b - a + 1
  BY <1>1, <1>2
<1>. QED  BY <1>1, <1>3, <1>4

\* Bytes that arrive extend the bytes that were there.
LEMMA BytesConcat ==
  ASSUME NEW a \in Nat, NEW k \in Nat
  PROVE  Bytes(1, a) \o Bytes(a + 1, a + k) = Bytes(1, a + k)
<1>. DEFINE s == Bytes(1, a)
            t == Bytes(a + 1, a + k)
            u == Bytes(1, a + k)
<1>1. /\ s \in Seq(Nat) /\ Len(s) = a
      /\ \A i \in 1..a : s[i] = i
  <2>. 1 \in Nat /\ 1 <= a + 1 /\ a - 1 + 1 = a /\ \A i \in 1..a : 1 + i - 1 = i
    OBVIOUS
  <2>. QED  BY BytesType
<1>2. /\ u \in Seq(Nat) /\ Len(u) = a + k
      /\ \A i \in 1..(a + k) : u[i] = i
  <2>. /\ 1 \in Nat /\ a + k \in Nat /\ 1 <= a + k + 1 /\ (a + k) - 1 + 1 = a + k
       /\ \A i \in 1..(a + k) : 1 + i - 1 = i
    OBVIOUS
  <2>. QED  BY BytesType
<1>3. /\ t \in Seq(Nat) /\ Len(t) = k
      /\ \A i \in 1..k : t[i] = a + i
  <2>. /\ a + 1 \in Nat /\ a + k \in Nat /\ a + 1 <= (a + k) + 1
       /\ (a + k) - (a + 1) + 1 = k /\ \A i \in 1..k : (a + 1) + i - 1 = a + i
    OBVIOUS
  <2>. QED  BY BytesType
<1>. HIDE DEF s, t, u
<1>4. /\ s \o t \in Seq(Nat) /\ Len(s \o t) = a + k
      /\ \A i \in 1..(a + k) : (s \o t)[i] = IF i <= a THEN s[i] ELSE t[i - a]
  BY <1>1, <1>3, ConcatProperties
<1>5. \A i \in 1..(a + k) : (s \o t)[i] = u[i]
  <2>. TAKE i \in 1..(a + k)
  <2>1. CASE i <= a
    BY <2>1, <1>1, <1>2, <1>4
  <2>2. CASE ~(i <= a)
    <3>. i - a \in 1..k
      BY <2>2
    <3>. QED  BY <2>2, <1>2, <1>3, <1>4
  <2>. QED  BY <2>1, <2>2
<1>6. s \o t = u
  BY <1>2, <1>4, <1>5, SeqEqual
<1>. QED  BY <1>6 DEF s, t, u

\* Moving a prefix of one sequence to the end of another keeps their
\* concatenation: what readCb does to the kernel buffer and m_rcvData.
LEMMA MovePrefix ==
  ASSUME NEW s \in Seq(Nat), NEW t \in Seq(Nat), NEW k \in 1..Len(t)
  PROVE  LET u == SubSeq(t, 1, k)
             v == SubSeq(t, k + 1, Len(t))
         IN  /\ s \o u \in Seq(Nat) /\ Len(s \o u) = Len(s) + k
             /\ v \in Seq(Nat)
             /\ (s \o u) \o v = s \o t
<1>. DEFINE u == SubSeq(t, 1, k)
            v == SubSeq(t, k + 1, Len(t))
<1>1. Len(t) \in Nat /\ \A i \in 1..Len(t) : t[i] \in Nat
  OBVIOUS
<1>2. u \in Seq(Nat) /\ Len(u) = k
  BY <1>1, SubSeqProperties
<1>3. v \in Seq(Nat)
  <2>. \A i \in (k + 1)..Len(t) : t[i] \in Nat
    BY <1>1
  <2>. QED  BY <1>1, SubSeqProperties
<1>4. u \o v = t
  BY <1>1, ConcatAdjacentSubSeq, SubSeqFull
<1>. HIDE DEF u, v
<1>5. (s \o u) \o v = s \o (u \o v)
  BY <1>2, <1>3, ConcatAssociative, SMTT(120)
<1>6. s \o u \in Seq(Nat) /\ Len(s \o u) = Len(s) + k
  BY <1>2, ConcatProperties
<1>. QED  BY <1>3, <1>4, <1>5, <1>6 DEF u, v

-----------------------------------------------------------------------------
(* The inductive invariant.                                                *)

LEMMA InitIInv == Init => IInv
<1>. SUFFICES ASSUME Init PROVE IInv
  OBVIOUS
<1>1. reply.size \in Nat
  BY TcpClientAssumption DEF Init
<1>2. TypeOK
  <2>1. arrived \in 0..reply.size /\ calls \in 0..MaxCalls
    BY <1>1, TcpClientAssumption DEF Init
  <2>2. kernel \in Seq(Nat) /\ rcvData \in Seq(Nat) /\ result \in Seq(Nat)
    BY DEF Init
  <2>. QED  BY <2>1, <2>2 DEF Init, TypeOK
<1>3. Buffers
  BY DEF Init, Buffers, NothingLostOrRepeated
<1>4. Holdings
  BY DEF Init, Holdings, NothingArmedOutsideLoop, HandlesBalance, Open
<1>5. Causes
  BY DEF Init, Causes
<1>. QED  BY <1>2, <1>3, <1>4, <1>5 DEF IInv

\* What readCb does to the buffers, in terms of what it takes.
LEMMA ReadCbTakes ==
  ASSUME TypeOK, ReadCb
  PROVE  \E k \in 1..Len(kernel) :
           /\ rcvData' = rcvData \o SubSeq(kernel, 1, k)
           /\ rcvDataSize' = rcvDataSize + k
           /\ kernel' = SubSeq(kernel, k + 1, Len(kernel))
<1>. DEFINE k == Least(Len(kernel), MaxRead)
<1>1. k \in 1..Len(kernel)
  BY TcpClientAssumption DEF TypeOK, ReadCb, Least
<1>. HIDE DEF k
<1>2. /\ rcvData' = rcvData \o SubSeq(kernel, 1, k)
      /\ rcvDataSize' = rcvDataSize + k
      /\ kernel' = SubSeq(kernel, k + 1, Len(kernel))
  BY DEF ReadCb, Drain, k
<1>. QED  BY <1>1, <1>2

LEMMA ReadCbBuffers ==
  ASSUME TypeOK, Buffers, ReadCb
  PROVE  /\ rcvData' \in Seq(Nat) /\ kernel' \in Seq(Nat)
         /\ rcvDataSize' \in Nat
         /\ rcvData' \o kernel' = rcvData \o kernel
         /\ rcvDataSize' = Len(rcvData')
         /\ rcvDataSize' \in 1..arrived
<1>1. PICK k \in 1..Len(kernel) :
           /\ rcvData' = rcvData \o SubSeq(kernel, 1, k)
           /\ rcvDataSize' = rcvDataSize + k
           /\ kernel' = SubSeq(kernel, k + 1, Len(kernel))
  BY ReadCbTakes
<1>2. rcvData \in Seq(Nat) /\ kernel \in Seq(Nat) /\ rcvDataSize \in Nat
  BY DEF TypeOK
<1>3. /\ rcvData' \in Seq(Nat) /\ Len(rcvData') = Len(rcvData) + k
      /\ kernel' \in Seq(Nat)
      /\ rcvData' \o kernel' = rcvData \o kernel
  BY <1>1, <1>2, MovePrefix
<1>4. rcvDataSize = Len(rcvData) /\ rcvData \o kernel = Bytes(1, arrived)
  BY DEF Buffers, NothingLostOrRepeated, ReadCb
<1>5. Len(rcvData) + Len(kernel) = arrived
  <2>1. Len(rcvData \o kernel) = Len(rcvData) + Len(kernel)
    BY <1>2, ConcatProperties
  <2>2. arrived \in Nat
    BY TcpClientAssumption DEF TypeOK
  <2>3. Len(Bytes(1, arrived)) = arrived
    BY <2>2, BytesType
  <2>. QED  BY <2>1, <2>3, <1>4
<1>6. Len(rcvData) \in Nat /\ Len(kernel) \in Nat /\ arrived \in Nat
  BY <1>2, <1>5
<1>7. rcvDataSize' \in 1..arrived
  BY <1>1, <1>4, <1>5, <1>6
<1>8. rcvDataSize' \in Nat
  BY <1>1, <1>2, <1>6
<1>. QED  BY <1>1, <1>3, <1>4, <1>7, <1>8

\* What an arrival does to the kernel buffer.
LEMMA PeerSendsBuffers ==
  ASSUME TypeOK, Buffers, PeerSends
  PROVE  /\ kernel' \in Seq(Nat)
         /\ arrived' \in 0..reply.size
         /\ rcvData \o kernel' = Bytes(1, arrived')
<1>1. PICK k \in 1..(reply.size - arrived) :
           /\ arrived' = arrived + k
           /\ kernel' = kernel \o Bytes(arrived + 1, arrived + k)
  BY DEF PeerSends
<1>2. /\ reply.size \in Nat /\ arrived \in 0..reply.size
      /\ rcvData \in Seq(Nat) /\ kernel \in Seq(Nat)
  BY TcpClientAssumption DEF TypeOK
<1>3. rcvData \o kernel = Bytes(1, arrived)
  BY DEF Buffers, NothingLostOrRepeated, PeerSends
<1>. DEFINE new == Bytes(arrived + 1, arrived + k)
<1>4. new \in Seq(Nat)
  <2>. /\ arrived + 1 \in Nat /\ arrived + k \in Nat
       /\ arrived + 1 <= (arrived + k) + 1
    BY <1>2
  <2>. QED  BY BytesType
<1>5. Bytes(1, arrived) \o new = Bytes(1, arrived + k)
  <2>. arrived \in Nat /\ k \in Nat
    BY <1>2
  <2>. QED  BY BytesConcat
<1>. HIDE DEF new
<1>6. kernel' = kernel \o new /\ kernel' \in Seq(Nat)
  BY <1>1, <1>2, <1>4, ConcatProperties DEF new
<1>7. (rcvData \o kernel) \o new = rcvData \o (kernel \o new)
  BY <1>2, <1>4, ConcatAssociative, SMTT(30)
<1>8. rcvData \o kernel' = Bytes(1, arrived')
  BY <1>1, <1>3, <1>5, <1>6, <1>7
<1>9. arrived' \in 0..reply.size
  BY <1>1, <1>2
<1>. QED  BY <1>6, <1>8, <1>9

-----------------------------------------------------------------------------
(* Every step keeps it, one lemma per conjunct, one case per action.       *)

LEMMA StepTypeOK ==
  ASSUME IInv, [Next]_vars
  PROVE  TypeOK'
<1>. USE DEF TypeOK
<1>. TypeOK /\ Buffers /\ Holdings
  BY DEF IInv
<1>0. /\ \A r \in Replies : r.size \in Nat
      /\ MaxCalls \in Nat
  BY TcpClientAssumption
<1>1. CASE NewClient
  <2>1. calls' \in 0..MaxCalls /\ reply' \in Replies /\ arrived' \in 0..reply'.size
    BY <1>0, <1>1 DEF NewClient
  <2>2. kernel' \in Seq(Nat) /\ rcvData' \in Seq(Nat) /\ result' \in Seq(Nat)
    BY <1>1 DEF NewClient
  <2>. QED  BY <1>1, <2>1, <2>2 DEF NewClient
<1>2. CASE DoRequestNoBase
  BY <1>2 DEF DoRequestNoBase, netVars, dataVars, loopVars, accountVars
<1>3. CASE DoRequestNotSent
  BY <1>3 DEF DoRequestNotSent, netVars, dataVars
<1>4. CASE DoRequestDispatch
  BY <1>4 DEF DoRequestDispatch, dataVars, retVars
<1>5. CASE LoopEnd
  <2>1. handles' \in Nat
    BY <1>5 DEF LoopEnd, Holdings, HandlesBalance, Open
  <2>. QED  BY <1>5, <2>1 DEF LoopEnd, netVars, dataVars
<1>6. CASE Delete
  <2>1. handles' \in Nat
    BY <1>6 DEF Delete, Holdings, HandlesBalance, NothingArmedOutsideLoop, Open
  <2>2. rcvData' \in Seq(Nat)
    BY <1>6 DEF Delete
  <2>. QED  BY <1>6, <2>1, <2>2 DEF Delete, netVars, retVars
<1>7. CASE Abandon
  <2>1. lost' \in Nat
    BY <1>7 DEF Abandon
  <2>. QED  BY <1>7, <2>1 DEF Abandon, netVars, dataVars, retVars
<1>8. CASE Connected
  BY <1>8 DEF Connected, dataVars, loopVars, retVars, accountVars
<1>9. CASE PeerSends
  <2>1. kernel' \in Seq(Nat) /\ arrived' \in 0..reply.size
    BY <1>9, PeerSendsBuffers
  <2>. QED  BY <1>9, <2>1 DEF PeerSends, dataVars, loopVars, retVars, accountVars
<1>10. CASE PeerEnds
  BY <1>10 DEF PeerEnds, dataVars, loopVars, retVars, accountVars
<1>11. CASE ReadCb
  <2>1. kernel' \in Seq(Nat) /\ rcvData' \in Seq(Nat) /\ rcvDataSize' \in Nat
    BY <1>11, ReadCbBuffers
  <2>2. exiting' \in BOOLEAN
    BY <1>11 DEF ReadCb, LoopExit
  <2>3. cause' \subseteq {"complete", "timeout", "eof", "error"}
    BY <1>11 DEF ReadCb, LoopExit
  <2>. QED  BY <1>11, <2>1, <2>2, <2>3 DEF ReadCb, retVars, accountVars
<1>12. CASE EventCb
  BY <1>12 DEF EventCb, LoopExit, netVars, dataVars, retVars, accountVars
<1>13. CASE ReqTimeoutCb
  BY <1>13 DEF ReqTimeoutCb, LoopExit, netVars, dataVars, retVars, accountVars
<1>14. CASE UNCHANGED vars
  BY <1>14 DEF vars, netVars, dataVars, loopVars, retVars, accountVars
<1>. QED
  BY <1>1, <1>2, <1>3, <1>4, <1>5, <1>6, <1>7, <1>8, <1>9, <1>10, <1>11,
     <1>12, <1>13, <1>14
     DEF Next, DoRequestStart, Callbacks, Peer, Caller

LEMMA StepBuffers ==
  ASSUME IInv, [Next]_vars
  PROVE  Buffers'
<1>. USE DEF Buffers, NothingLostOrRepeated
<1>. TypeOK /\ Buffers
  BY DEF IInv
<1>1. CASE NewClient
  BY <1>1 DEF NewClient
<1>2. CASE DoRequestNoBase
  <2>. rcvData \o kernel = Bytes(1, arrived) /\ Len(rcvData) = rcvDataSize
    BY <1>2 DEF DoRequestNoBase, Bytes
  <2>. QED  BY <1>2 DEF DoRequestNoBase, netVars, dataVars
<1>3. CASE DoRequestNotSent
  <2>. rcvData \o kernel = Bytes(1, arrived) /\ Len(rcvData) = rcvDataSize
    BY <1>3 DEF DoRequestNotSent, Bytes
  <2>. QED  BY <1>3 DEF DoRequestNotSent, netVars, dataVars
<1>4. CASE DoRequestDispatch
  <2>. rcvData \o kernel = Bytes(1, arrived) /\ Len(rcvData) = rcvDataSize
    BY <1>4 DEF DoRequestDispatch, Bytes
  <2>. QED  BY <1>4 DEF DoRequestDispatch, dataVars, retVars
<1>5. CASE LoopEnd
  BY <1>5 DEF LoopEnd, netVars, dataVars
<1>6. CASE Delete
  BY <1>6 DEF Delete
<1>7. CASE Abandon
  BY <1>7 DEF Abandon
<1>8. CASE Connected
  BY <1>8 DEF Connected, dataVars, retVars
<1>9. CASE PeerSends
  BY <1>9, PeerSendsBuffers DEF PeerSends, dataVars, retVars
<1>10. CASE PeerEnds
  BY <1>10 DEF PeerEnds, dataVars, retVars
<1>11. CASE ReadCb
  BY <1>11, ReadCbBuffers DEF ReadCb, retVars
<1>12. CASE EventCb
  BY <1>12 DEF EventCb, LoopExit, netVars, dataVars, retVars
<1>13. CASE ReqTimeoutCb
  BY <1>13 DEF ReqTimeoutCb, LoopExit, netVars, dataVars, retVars
<1>14. CASE UNCHANGED vars
  BY <1>14 DEF vars, netVars, dataVars, retVars
<1>. QED
  BY <1>1, <1>2, <1>3, <1>4, <1>5, <1>6, <1>7, <1>8, <1>9, <1>10, <1>11,
     <1>12, <1>13, <1>14
     DEF Next, DoRequestStart, Callbacks, Peer, Caller

LEMMA StepHoldings ==
  ASSUME IInv, [Next]_vars
  PROVE  Holdings'
<1>. USE DEF Holdings, NothingArmedOutsideLoop, HandlesBalance, Open
<1>1. Holdings /\ base \in BOOLEAN /\ bev \in BOOLEAN /\ lost \in Nat /\ handles \in Nat
  BY DEF IInv, TypeOK
<1>2. CASE NewClient
  BY <1>1, <1>2 DEF NewClient
<1>3. CASE DoRequestNoBase
  BY <1>1, <1>3 DEF DoRequestNoBase, loopVars, accountVars
<1>4. CASE DoRequestNotSent
  BY <1>1, <1>4 DEF DoRequestNotSent
<1>5. CASE DoRequestDispatch
  BY <1>1, <1>5 DEF DoRequestDispatch, retVars
<1>6. CASE LoopEnd
  BY <1>1, <1>6 DEF LoopEnd
<1>7. CASE Delete
  BY <1>1, <1>7 DEF Delete, retVars
<1>8. CASE Abandon
  BY <1>1, <1>8 DEF Abandon, retVars
<1>9. CASE Connected \/ PeerSends \/ PeerEnds
  BY <1>1, <1>9 DEF Connected, PeerSends, PeerEnds, loopVars, retVars, accountVars
<1>10. CASE ReadCb
  BY <1>1, <1>10 DEF ReadCb, retVars, accountVars
<1>11. CASE EventCb
  BY <1>1, <1>11 DEF EventCb, LoopExit, retVars, accountVars
<1>12. CASE ReqTimeoutCb
  BY <1>1, <1>12 DEF ReqTimeoutCb, LoopExit, retVars, accountVars
<1>13. CASE UNCHANGED vars
  BY <1>1, <1>13 DEF vars, loopVars, retVars, accountVars
<1>. QED
  BY <1>2, <1>3, <1>4, <1>5, <1>6, <1>7, <1>8, <1>9, <1>10, <1>11, <1>12, <1>13
     DEF Next, DoRequestStart, Callbacks, Peer, Caller

LEMMA StepCauses ==
  ASSUME IInv, [Next]_vars
  PROVE  Causes'
<1>. USE DEF Causes
<1>1. TypeOK /\ Buffers /\ Causes
  BY DEF IInv
<1>2. CASE NewClient
  BY <1>2 DEF NewClient
<1>3. CASE DoRequestNoBase
  BY <1>1, <1>3 DEF DoRequestNoBase, loopVars
<1>4. CASE DoRequestNotSent
  BY <1>1, <1>4 DEF DoRequestNotSent
<1>5. CASE DoRequestDispatch
  BY <1>1, <1>5 DEF DoRequestDispatch
<1>6. CASE LoopEnd
  BY <1>1, <1>6 DEF LoopEnd, netVars, dataVars
<1>7. CASE Delete
  BY <1>1, <1>7 DEF Delete
<1>8. CASE Abandon
  BY <1>1, <1>8 DEF Abandon
<1>9. CASE Connected \/ PeerSends \/ PeerEnds
  BY <1>1, <1>9 DEF Connected, PeerSends, PeerEnds, dataVars, loopVars, retVars
<1>10. CASE ReadCb
  <2>1. rcvDataSize' \in 1..reply.size
    <3>1. rcvDataSize' \in 1..arrived
      BY <1>1, <1>10, ReadCbBuffers
    <3>2. reply.size \in Nat /\ arrived \in 0..reply.size
      BY <1>1, TcpClientAssumption DEF TypeOK
    <3>. QED  BY <3>1, <3>2
  <2>2. /\ phase' = "loop" /\ reply' = reply
        /\ ~exiting
    BY <1>10 DEF ReadCb
  <2>4. cause = {}
    BY <1>1, <2>2
  <2>5. CASE CheckReadDataCompleted(reply, rcvDataSize')
    <3>1. rcvDataSize' \in CompleteAt(reply')
      BY <2>1, <2>2, <2>5 DEF CompleteAt
    <3>2. exiting' = TRUE /\ cause' = cause \cup {"complete"}
      BY <1>10, <2>5 DEF ReadCb, ReadDataCompleted, LoopExit
    <3>. QED  BY <2>2, <3>1, <3>2
  <2>6. CASE ~CheckReadDataCompleted(reply, rcvDataSize')
    <3>1. exiting' = exiting /\ cause' = cause
      BY <1>10, <2>6 DEF ReadCb, ReadDataCompleted
    <3>. QED  BY <2>2, <2>4, <3>1
  <2>. QED  BY <2>5, <2>6
<1>11. CASE EventCb
  BY <1>1, <1>11 DEF EventCb, LoopExit, netVars, dataVars
<1>12. CASE ReqTimeoutCb
  BY <1>1, <1>12 DEF ReqTimeoutCb, LoopExit, netVars, dataVars
<1>13. CASE UNCHANGED vars
  BY <1>1, <1>13 DEF vars, netVars, dataVars, loopVars, retVars
<1>. QED
  BY <1>2, <1>3, <1>4, <1>5, <1>6, <1>7, <1>8, <1>9, <1>10, <1>11, <1>12, <1>13
     DEF Next, DoRequestStart, Callbacks, Peer, Caller

LEMMA StepIInv == IInv /\ [Next]_vars => IInv'
  BY StepTypeOK, StepBuffers, StepHoldings, StepCauses DEF IInv

THEOREM Inductive == Spec => []IInv
  BY InitIInv, StepIInv, PTL DEF Spec

-----------------------------------------------------------------------------
(* The theorems.                                                           *)

\* Every variable keeps its type; in particular handles is never negative and
\* the peer never sends past its reply.
THEOREM TypeCorrect == Spec => []TypeOK
<1>. IInv => TypeOK
  BY DEF IInv
<1>. QED  BY Inductive, PTL

\* readCb and the growing m_rcvData neither lose, repeat nor reorder a byte,
\* for any reply, any read size and any cut of the stream into reads.
THEOREM StreamIntact == Spec => []NothingLostOrRepeated
<1>. IInv => NothingLostOrRepeated
  BY DEF IInv, Buffers
<1>. QED  BY Inductive, PTL

\* The event bases and sockets held are those of the call in progress and of
\* the clients the callers abandoned (sentinel.cpp lines 35 and 127).
THEOREM HandlesAccounted == Spec => []HandlesBalance
<1>. IInv => HandlesBalance
  BY DEF IInv, Holdings
<1>. QED  BY Inductive, PTL

\* No bufferevent and no timer with a pointer to the client outlives doRequest.
THEOREM NothingArmed == Spec => []NothingArmedOutsideLoop
<1>. IInv => NothingArmedOutsideLoop
  BY DEF IInv, Holdings
<1>. QED  BY Inductive, PTL

\* A cut answer of a reply whose end is found exactly was interrupted by the
\* timer or the peer.
THEOREM CutExplained == Spec => []CutOnlyIfInterrupted
<1>1. ASSUME IInv, phase = "returned", ret = "true", Exact(reply),
             cause \cap {"timeout", "eof", "error"} = {}
      PROVE  Len(result) = reply.size
  <2>1. cause # {} /\ cause \subseteq {"complete", "timeout", "eof", "error"}
    BY <1>1 DEF IInv, Causes, TypeOK
  <2>2. "complete" \in cause
    BY <1>1, <2>1
  <2>3. rcvDataSize \in CompleteAt(reply)
    BY <1>1, <2>2 DEF IInv, Causes
  <2>4. rcvDataSize = reply.size
    BY <1>1, <2>3 DEF Exact
  <2>5. result = rcvData /\ rcvDataSize = Len(rcvData)
    BY <1>1 DEF IInv, Buffers, NothingLostOrRepeated
  <2>. QED  BY <2>4, <2>5
<1>2. IInv => CutOnlyIfInterrupted
  <2>. SUFFICES ASSUME IInv, phase = "returned", ret = "true",
                       Len(result) < reply.size, Exact(reply),
                       cause \cap {"timeout", "eof", "error"} = {}
                PROVE  FALSE
    BY DEF CutOnlyIfInterrupted
  <2>1. Len(result) = reply.size
    BY <1>1
  <2>2. reply.size \in Nat
    BY TcpClientAssumption DEF IInv, TypeOK
  <2>. QED  BY <2>1, <2>2
<1>. QED  BY Inductive, <1>2, PTL

-----------------------------------------------------------------------------
(* TcpClient implements BoundedCall.                                       *)

\* What readCb gathered is one of the answers the callers expect.
LEMMA GatheredIsAnAnswer ==
  ASSUME IInv, phase = "loop"
  PROVE  rcvData \in Abstract!Answers(reply)
<1>. DEFINE n == Len(rcvData)
<1>1. /\ rcvData \in Seq(Nat) /\ kernel \in Seq(Nat)
      /\ reply.size \in Nat /\ arrived \in 0..reply.size
      /\ rcvData \o kernel = Bytes(1, arrived)
  BY TcpClientAssumption DEF IInv, TypeOK, Buffers, NothingLostOrRepeated
<1>2. /\ Len(rcvData \o kernel) = n + Len(kernel)
      /\ \A i \in 1..(n + Len(kernel)) : (rcvData \o kernel)[i] =
                     IF i <= n THEN rcvData[i] ELSE kernel[i - n]
  BY <1>1, ConcatProperties
<1>3. /\ Len(Bytes(1, arrived)) = arrived
      /\ \A i \in 1..arrived : Bytes(1, arrived)[i] = i
  <2>. /\ 1 \in Nat /\ arrived \in Nat /\ 1 <= arrived + 1
       /\ arrived - 1 + 1 = arrived /\ \A i \in 1..arrived : 1 + i - 1 = i
    BY <1>1
  <2>. QED  BY BytesType
<1>4. n \in Nat /\ Len(kernel) \in Nat /\ n + Len(kernel) = arrived
  BY <1>1, <1>2, <1>3
<1>5. n \in 0..reply.size
  BY <1>1, <1>4
<1>6. \A i \in 1..n : rcvData[i] = i
  BY <1>1, <1>2, <1>3, <1>4
<1>7. rcvData = [i \in 1..n |-> i]
  BY <1>1, <1>6
<1>. QED  BY <1>5, <1>7 DEF Abstract!Answers, Abstract!Prefix

LEMMA InitRefines == Init => Abstract!BCInit
  BY DEF Init, Abstract!BCInit

LEMMA StepRefines ==
  ASSUME IInv, [Next]_vars
  PROVE  [Abstract!BCNext]_Abstract!callVars
<1>. USE DEF Abstract!BCNext, Abstract!callVars, Abstract!Return
<1>1. TypeOK /\ Buffers /\ Holdings
  BY DEF IInv
<1>2. CASE NewClient
  <2>. reply' \in Replies /\ phase = "idle" /\ phase' = "ready"
    BY <1>2 DEF NewClient
  <2>. Abstract!Call
    BY DEF Abstract!Call
  <2>. QED  OBVIOUS
<1>3. CASE DoRequestNoBase \/ DoRequestNotSent
  <2>. /\ phase = "ready" /\ phase' = "returned" /\ ret' = "false"
       /\ result' = result /\ reply' = reply
    BY <1>3 DEF DoRequestNoBase, DoRequestNotSent, netVars
  <2>. result = <<>>
    BY <1>1 DEF Buffers
  <2>. Abstract!ReturnFalse
    BY DEF Abstract!ReturnFalse
  <2>. QED  OBVIOUS
<1>4. CASE DoRequestDispatch
  BY <1>4 DEF DoRequestDispatch, retVars
<1>5. CASE LoopEnd
  <2>1. rcvData \in Abstract!Answers(reply)
    BY <1>5, GatheredIsAnAnswer DEF LoopEnd
  <2>2. /\ phase = "loop" /\ phase' = "returned" /\ ret' = "true"
        /\ result' = rcvData /\ reply' = reply
    BY <1>5 DEF LoopEnd, netVars
  <2>. Abstract!ReturnTrue
    BY <2>1, <2>2 DEF Abstract!ReturnTrue
  <2>. QED  OBVIOUS
<1>6. CASE Delete \/ Abandon
  <2>. phase = "returned" /\ phase' = "idle" /\ reply' = reply
    BY <1>6 DEF Delete, Abandon, netVars
  <2>. Abstract!Consume
    BY DEF Abstract!Consume
  <2>. QED  OBVIOUS
<1>7. CASE Peer \/ Callbacks
  <2>. phase = "loop" /\ phase' = phase /\ reply' = reply
    BY <1>7 DEF Peer, Connected, PeerSends, PeerEnds, Callbacks, ReadCb,
                EventCb, ReqTimeoutCb, netVars
  <2>. QED  OBVIOUS
<1>8. CASE UNCHANGED vars
  BY <1>8 DEF vars, netVars, retVars
<1>. QED
  BY <1>2, <1>3, <1>4, <1>5, <1>6, <1>7, <1>8 DEF Next, DoRequestStart, Caller

\* Every run of the client is, to its callers, a run of BoundedCall: false and
\* nothing, or true and a prefix of the reply, one call at a time.
THEOREM Refinement == Spec => Abstract!BCSafety
  BY InitRefines, StepRefines, Inductive, PTL DEF Spec, Abstract!BCSafety
=============================================================================
