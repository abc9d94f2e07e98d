------------------------------ MODULE CmdFifo -------------------------------
(***************************************************************************)
(* What the gpu thread and the sound thread promise their caller: the      *)
(* effects of the commands, and the slices of sound, appear in the order   *)
(* in which they were submitted, each once.                                *)
(***************************************************************************)
EXTENDS Integers, Sequences

CONSTANT Batches     \* the sequences of effects that one call submits
VARIABLE todo        \* the effects submitted and not yet carried out

Init == todo = <<>>

Submit == \E cs \in Batches : todo' = todo \o cs

CarryOut == \E n \in 1 .. Len(todo) : todo' = SubSeq(todo, n + 1, Len(todo))

Next == Submit \/ CarryOut
Spec == Init /\ [][Next]_todo
=============================================================================
