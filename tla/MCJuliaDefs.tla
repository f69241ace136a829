---------------------------- MODULE MCJuliaDefs ----------------------------
(* Instances of JuliaDefs for TLC. *)
EXTENDS JuliaDefs, TLC

CONSTANTS c1, c2, d1, d2, d3

MCIOShapes == {[ins |-> 1, outs |-> 1]}

\* Two JuliaDefs of one client and one of another.
MCOwner == (d1 :> c1) @@ (d2 :> c1) @@ (d3 :> c2)

Symmetry == Permutations(Names) \cup Permutations({d1, d2})
=============================================================================
