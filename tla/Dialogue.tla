------------------------------ MODULE Dialogue ------------------------------
(***************************************************************************)
(* What one TCP client of the service can count on, whatever other clients *)
(* do: the service takes what the client sent, some of it at a time and in *)
(* order, answers each part it took once, and delivers the answers in the  *)
(* order it took the parts, as long as the client is there to receive      *)
(* them.  The dialogue may end at any time.                                *)
(***************************************************************************)
EXTENDS Naturals, Sequences

VARIABLES input,        \* what the client sent and the service has not taken
          work,         \* the part it is working on
          out,          \* its answers on their way, each the part it answers
          got,          \* the answers the client has
          open          \* the client receives

dialogueVars == <<input, work, out, got, open>>

DInit == input = <<>> /\ work = <<>> /\ out = <<>> /\ got = <<>> /\ open

Send == /\ Len(input') = Len(input) + 1
        /\ SubSeq(input', 1, Len(input)) = input
        /\ UNCHANGED <<work, out, got, open>>

Take == /\ work = <<>>
        /\ \E k \in 1..Len(input) :
             /\ work' = SubSeq(input, 1, k)
             /\ input' = SubSeq(input, k + 1, Len(input))
        /\ UNCHANGED <<out, got, open>>

Answer == /\ work # <<>>
          /\ out' = Append(out, work)
          /\ work' = <<>>
          /\ UNCHANGED <<input, got, open>>

Deliver == /\ open /\ out # <<>>
           /\ got' = Append(got, Head(out))
           /\ out' = Tail(out)
           /\ UNCHANGED <<input, work, open>>

\* The client closes; what is written to it afterwards is lost, the whole of an
\* answer or a part of it.
Close == open /\ open' = FALSE /\ UNCHANGED <<input, work, out, got>>

Lose == /\ ~open
        /\ \E k \in 0..Len(out) : out' = SubSeq(out, k + 1, Len(out))
        /\ UNCHANGED <<input, work, got, open>>

End == /\ input' = <<>> /\ work' = <<>> /\ out' = <<>>
       /\ open' = FALSE
       /\ UNCHANGED got

DNext == Send \/ Take \/ Answer \/ Deliver \/ Close \/ Lose \/ End

DSpec == DInit /\ [][DNext]_dialogueVars
=============================================================================
