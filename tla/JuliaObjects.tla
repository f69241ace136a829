---------------------------- MODULE JuliaObjects ----------------------------
(***************************************************************************)
(* The table of compiled @objects, as data: what one JuliaObject record    *)
(* holds, how the loops of JuliaObjectsArray.cpp search the table, and what *)
(* a compilation or an unload leaves in an entry.  No state is declared    *)
(* here: JuliaObjectsArray, JuliaUGen and JuliaServer build their actions  *)
(* from these operators.                                                   *)
(***************************************************************************)
EXTENDS Integers, FiniteSets, FiniteSetsExt

CONSTANTS
    NumEntries,   \* JULIA_OBJECTS_ARRAY_COUNT, 1000 in the code
    Names,        \* module names an @object file can declare
    NoName,       \* the name pointer of an unloaded entry
    IOShapes,     \* [ins, outs] counts an @object or a UGen can have
    MaxCompiles   \* bound of the model: compilations that succeed

ASSUME NumEntriesAssumption == NumEntries \in Nat \ {0}
ASSUME NamesAssumption == NoName \notin Names
ASSUME IOShapesAssumption == IOShapes \subseteq [ins : Nat, outs : Nat]
ASSUME MaxCompilesAssumption == MaxCompiles \in Nat

Entries == 0 .. NumEntries - 1

\* Every successful compilation creates a new __perform__ function, so the
\* pointer perform_fun identifies the compilation: the n-th one is n.
NullFun == 0
Funs == 1 .. MaxCompiles

NoIO == [ins |-> 0, outs |-> 0]

\* What calloc, and the memset of unload_julia_object, leave in an entry.
NoObject == [compiled |-> FALSE, name |-> NoName, perform_fun |-> NullFun, io |-> NoIO]

\* An entry that precompile_julia_object and create_julia_object filled.
CompiledObject(name, fun, io) ==
    [compiled |-> TRUE, name |-> name, perform_fun |-> fun, io |-> io]

JuliaObject ==
    {NoObject} \cup {CompiledObject(name, fun, io) : name \in Names, fun \in Funs, io \in IOShapes}

CompiledEntries(objs) == {i \in Entries : objs[i].compiled}

EmptyEntries(objs) == {i \in Entries : ~objs[i].compiled}

\* Mutant of Scanned: the loop returns before it looks at the entry that makes
\* the count complete.
ScannedOneShort(objs, active) ==
    {i \in CompiledEntries(objs) :
        Cardinality({j \in CompiledEntries(objs) : j < i}) < active - 1}

\* The entries a search loop looks at: it goes up the array and returns once
\* it has counted as many compiled entries as the counter of active entries
\* says there are, so the counter decides how far it gets.
Scanned(objs, active) ==
    {i \in CompiledEntries(objs) :
        Cardinality({j \in CompiledEntries(objs) : j < i}) < active}

\* Mutant of Matching: the first compiled entry is taken, whatever its name.
MatchingAnyName(objs, active, name) == Scanned(objs, active)

\* The entries check_existing_module and get_julia_object_by_name can match.
Matching(objs, active, name) == {i \in Scanned(objs, active) : objs[i].name = name}

\* Mutants of Decreased: the counter is left alone, or goes below zero.
DecreasedNot(active) == active
DecreasedUnclamped(active) == active - 1

\* decrease_active_entries, clamped at zero.
Decreased(active) == IF active > 0 THEN active - 1 ELSE 0
=============================================================================
