----------------------------- MODULE MCBlockPool -----------------------------
(* Prompts for BlockPool: those of r1 and r2 start with the same block, as *)
(* the gate prompts of one domain start with its system prompt, and r3     *)
(* loads the pool with a prompt of its own.                                *)
EXTENDS BlockPool

CONSTANTS r1, r2, r3

Shared == r1 :> <<"sys", "a">> @@ r2 :> <<"sys", "b">> @@ r3 :> <<"c1", "c2">>
=============================================================================
