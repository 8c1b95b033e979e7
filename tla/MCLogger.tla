------------------------------ MODULE MCLogger ------------------------------
(* Two processes that log into one directory, for a day and a half of two seconds. *)
EXTENDS Logger, TLC

CONSTANTS p1, p2

TwoProcs == {p1, p2}
ThreeAndOne == [p \in TwoProcs |-> IF p = p1 THEN 3 ELSE 1]
=============================================================================
