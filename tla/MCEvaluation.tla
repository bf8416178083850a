---------------------------- MODULE MCEvaluation -----------------------------
(* What chance does to an arrival.  Only ftp looks at the prediction and   *)
(* only online_rand at the draw, so that each needs to occur in some pair. *)
EXTENDS Evaluation

SomeChances ==
  {[pred |-> 0, drawn |-> <<2>>], [pred |-> 5, drawn |-> <<0, 2>>],
   [pred |-> 0, drawn |-> <<1, 2>>]}
=============================================================================
