---------------------------- MODULE BoundedCall ----------------------------
(***************************************************************************)
(* What EventTcpClient::doRequest promises to its callers (sentinel.cpp):  *)
(* one call at a time; a call always comes back, with FALSE and nothing,   *)
(* or with TRUE and some prefix of what the server answered: all of it,    *)
(* part of it, or nothing.  The caller is not told which.                  *)
(***************************************************************************)
EXTENDS Naturals, Sequences

CONSTANT Replies        \* the replies the server may give, each with its size

VARIABLES st,           \* "idle", "calling" or "done"
          request,      \* the reply the server has for the call in progress
          ok,           \* the boolean doRequest returned
          answer        \* what it left in the caller's string

callVars == <<st, request, ok, answer>>

\* The first n bytes of any reply; a byte is named by its place.
Prefix(n) == [i \in 1..n |-> i]

\* Everything a call may leave in the caller's string.
Answers(r) == {Prefix(n) : n \in 0..r.size}

BCInit == /\ st = "idle"
          /\ request \in Replies
          /\ ok = FALSE
          /\ answer = <<>>

Call == /\ st = "idle"
        /\ st' = "calling"
        /\ request' \in Replies
        /\ UNCHANGED <<ok, answer>>

ReturnFalse == /\ st = "calling"
               /\ st' = "done"
               /\ ok' = FALSE
               /\ answer' = <<>>
               /\ UNCHANGED request

ReturnTrue == /\ st = "calling"
              /\ st' = "done"
              /\ ok' = TRUE
              /\ answer' \in Answers(request)
              /\ UNCHANGED request

\* The caller uses the result and forgets it.
Consume == /\ st = "done"
           /\ st' = "idle"
           /\ ok' = FALSE
           /\ answer' = <<>>
           /\ UNCHANGED request

Return == ReturnFalse \/ ReturnTrue

BCNext == Call \/ Return \/ Consume

BCSafety == BCInit /\ [][BCNext]_callVars

BCSpec == BCSafety /\ WF_callVars(Return)
=============================================================================
