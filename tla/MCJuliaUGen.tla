----------------------------- MODULE MCJuliaUGen -----------------------------
(* Instances of JuliaUGen for TLC. *)
EXTENDS JuliaUGen, TLC

\* One input or two: a recompilation can ask for more than a UGen has.
MCIOShapes == {[ins |-> 1, outs |-> 1], [ins |-> 2, outs |-> 1]}

UGenSymmetry == Permutations(UGens)
=============================================================================
