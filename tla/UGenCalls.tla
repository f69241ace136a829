------------------------------ MODULE UGenCalls ------------------------------
(***************************************************************************)
(* What the bodies of the Julia UGen's callbacks do to one UGen and to the *)
(* global object id dict once they hold the barriers they need: the        *)
(* initialisation, the reaction to a recompiled or freed @object, the      *)
(* destruction.  No state is declared here; JuliaUGen runs a body as one   *)
(* step, JuliaServer puts it between the steps that take and release the   *)
(* barriers.                                                               *)
(***************************************************************************)
EXTENDS JuliaObjects

CONSTANTS
    UGens,      \* the UGen instances of a run
    Failures    \* which calls into Julia can fail: a subset of FailurePoints

\* The points at which a call into Julia may fail.  The checks for null functions
\* and instances of a compiled entry (Julia.cpp:447-477, 760-792) are none:
\* `compiled` is set when every stage has filled its own (JuliaObjectCompiler.cpp:
\* 214-233), and a UGen looks behind the compiler barrier.
FailurePoints == {"init", "destructor", "remove_ref", "constructor", "create_ref", "root_ref"}

ASSUME UGensAssumption == IsFiniteSet(UGens)
ASSUME FailuresAssumption == Failures \subseteq FailurePoints

\* The calc function of a UGen, with the phases of its life around it.
Calcs == {"unborn", "ctor", "next_NRT_busy", "next_julia_code", "output_silence",
          "released", "gone"}

\* A __UGen__ object is identified by its UGen and the compilation that made
\* it, its __UGenRef__ likewise; NullFun stands for a null pointer.
Refs == UGens \X Funs
NullRef == <<>>

(***************************************************************************)
(* fun is args[0], the __perform__ function the UGen was last set up with; *)
(* arg1 is args[1], the __UGen__ that __perform__ runs on; ugen_object and *)
(* ref are the members of those names.  late_destructor records that a     *)
(* destructor was called on a __UGen__ whose __UGenRef__ was not in the    *)
(* dict any more.                                                          *)
(***************************************************************************)
UGenState ==
    [calc : Calcs, entry : Entries, io : IOShapes \cup {NoIO}, valid : BOOLEAN,
     fun : Funs \cup {NullFun}, arg1 : Funs \cup {NullFun},
     ugen_object : Funs \cup {NullFun}, ref : Funs \cup {NullFun},
     late_destructor : BOOLEAN]

\* A Synth creates the UGen with the id of a JuliaDef and with the number of
\* inputs and outputs that JuliaDef had at the time.
Born(entry, io) ==
    [calc |-> "ctor", entry |-> entry, io |-> io, valid |-> FALSE, fun |-> NullFun,
     arg1 |-> NullFun, ugen_object |-> NullFun, ref |-> NullFun, late_destructor |-> FALSE]

Unborn == [Born(0, NoIO) EXCEPT !.calc = "unborn"]

\* Mutants of CountUp and CountDown: a way through the constructor or the
\* destructor that leaves the counter alone.
CountUpNot(active) == active
CountDownNot(active) == active

\* active_julia_ugens++ and active_julia_ugens--.
CountUp(active) == active + 1
CountDown(active) == active - 1

\* UGens that are counted in active_julia_ugens.
Counted(g) == g.calc \notin {"unborn", "gone"}

-----------------------------------------------------------------------------
(* Initialisation: the constructor, or next_NRT_busy on its behalf *)

\* allocate_args_costructor_perform, get_destructor and
\* add_ugen_ref_to_global_object_id_dict.  If any of them fails the UGen is
\* silent for good and nothing it made is used again.
Playing(g, fun) ==
    [g EXCEPT !.calc = "next_julia_code", !.valid = TRUE, !.fun = fun, !.arg1 = fun,
              !.ugen_object = fun, !.ref = fun]

Initialised(g, fun, ok) ==
    IF ok THEN Playing(g, fun) ELSE [g EXCEPT !.calc = "output_silence"]

InitOutcomes == {TRUE} \cup IF "init" \in Failures THEN {FALSE} ELSE {}

\* The constructor wants the counts of the UGen and of the @object equal;
\* next_NRT_busy does not look at them.
ConstructorAccepts(g, o) == o.compiled /\ g.io = o.io
BusyAccepts(g, o) == o.compiled

-----------------------------------------------------------------------------
(* next_julia_code finds that perform_fun is not what it runs *)

\* perform_destructor
Destructed(u, g, dict) ==
    [g EXCEPT !.late_destructor = @ \/ <<u, g.ugen_object>> \notin dict]

\* Mutant of RefRemoved: nothing is ever taken out of the dict.
RefRemovedNever(g, outcome) == FALSE

\* remove_ugen_ref_from_global_object_id_dict refuses a null ugen_ref_object.
RefRemoved(g, outcome) == outcome # "remove_ref" /\ g.ref # NullFun

DictWithout(u, g, dict, outcome) ==
    IF RefRemoved(g, outcome) THEN dict \ {<<u, g.ref>>} ELSE dict

\* Mutant of Invalidated: valid is not reset.
InvalidatedNot(u, g, dict) == Destructed(u, g, dict)

\* valid = false, on every way out of next_julia_code after perform_destructor.
Invalidated(u, g, dict) == [Destructed(u, g, dict) EXCEPT !.valid = FALSE]

\* The @object was freed: destructor and removal, whatever they return, then
\* silence for good.  A UGen that is not valid stays as it is.
Freed(u, g, dict) ==
    [Invalidated(u, g, dict) EXCEPT !.calc = "output_silence"]

\* Fewer inputs or outputs than the recompiled @object needs.
Fits(g, o) == o.io.ins <= g.io.ins /\ g.io.outs <= o.io.outs

ReallocateOutcomes == {"done"} \cup (Failures \ {"init"})

\* The last step that a reallocation reaches: the old object is destructed and
\* its reference removed before the counts are compared, and args[0] is set
\* before the new object exists.
ReachesRemoval(outcome) == outcome # "destructor"

\* Mutant of ReachesFit: a removal that fails does not end the reallocation.
ReachesFitAnyway(g, outcome) == ReachesRemoval(outcome)

ReachesFit(g, outcome) == ReachesRemoval(outcome) /\ RefRemoved(g, outcome)
ReachesCode(g, o, outcome) == ReachesFit(g, outcome) /\ Fits(g, o)

\* The @object was recompiled: the UGen after the branch that ends in
\* just_reallocated, or in one of its early returns.
Reallocated(u, g, dict, o, outcome) ==
    LET new == o.perform_fun
        old == Invalidated(u, g, dict)
    IN  IF ~ReachesCode(g, o, outcome) THEN old
        ELSE CASE outcome = "constructor" -> [old EXCEPT !.fun = new, !.ugen_object = NullFun]
               [] outcome = "create_ref"  -> [old EXCEPT !.fun = new, !.ugen_object = new,
                                                         !.arg1 = new, !.ref = NullFun]
               [] outcome = "root_ref"    -> [old EXCEPT !.fun = new, !.ugen_object = new,
                                                         !.arg1 = new, !.ref = new]
               [] OTHER                   -> [old EXCEPT !.fun = new, !.ugen_object = new,
                                                         !.arg1 = new, !.ref = new, !.valid = TRUE]

DictReallocated(u, g, dict, o, outcome) ==
    LET kept == IF ReachesRemoval(outcome) THEN DictWithout(u, g, dict, outcome) ELSE dict
    IN  IF ReachesCode(g, o, outcome) /\ outcome \notin {"constructor", "create_ref", "root_ref"}
        THEN kept \cup {<<u, o.perform_fun>>} ELSE kept
=============================================================================
