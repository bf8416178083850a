---------------------------- MODULE MCPinnedBench ----------------------------
(* Two suspended contexts, the second of which continues the first, and    *)
(* two background requests of one full block: the first has a prompt of    *)
(* its own, the second starts like the contexts, as prompts of one domain  *)
(* do, and may touch and unpin their first block.  Three blocks: with both *)
(* contexts pinned the load has one left.                                  *)
EXTENDS PinnedBench

CONSTANTS s1, s2, p1, p2, q1, q2

TwoSends == <<s1, s2>>
TwoProbes == <<p1, p2>>
AllRequests == {s1, s2, p1, p2, q1, q2}
Prompts ==
  [r \in {s1, p1} |-> <<"a1">>] @@ [r \in {s2, p2} |-> <<"a1", "b2">>]
    @@ q1 :> <<"c1">> @@ q2 :> <<"a1">>

\* Three of the points of main() with --Ns 2 0 1 and --arms pinned stock: the
\* later ones follow points that left pins behind, and maybe a request
ThreePoints ==
  <<[arm |-> "pinned", N |-> 2], [arm |-> "stock", N |-> 0], [arm |-> "pinned", N |-> 1]>>
=============================================================================
