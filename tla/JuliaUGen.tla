------------------------------ MODULE JuliaUGen ------------------------------
(***************************************************************************)
(* The life of the Julia UGens as their users see it: every callback takes *)
(* effect in one step, every command of the NRT thread in one step, and    *)
(* the garbage collector empties what the destructors left to it.          *)
(*                                                                         *)
(* This is the specification that the threads and barriers of JuliaServer  *)
(* implement.  A callback that finds a barrier taken does nothing here,    *)
(* except where the code then takes another way: the constructor defers,   *)
(* the destructor posts its reference.                                     *)
(***************************************************************************)
EXTENDS UGenCalls

VARIABLES
    objects,              \* the table of @objects
    compiles,             \* successful compilations so far
    ugens,                \* the UGen instances
    id_dict,              \* __UGenRef__s in the global object id dict
    posted,               \* __UGenRef__s that gc_array holds
    active_julia_ugens    \* the counter of that name

vars == <<objects, compiles, ugens, id_dict, posted, active_julia_ugens>>
nrtVars == <<objects, compiles>>

TypeOK ==
    /\ objects \in [Entries -> JuliaObject]
    /\ compiles \in 0 .. MaxCompiles
    /\ ugens \in [UGens -> UGenState]
    /\ id_dict \subseteq Refs
    /\ posted \subseteq Refs
    /\ active_julia_ugens \in Nat

Init ==
    /\ objects = [i \in Entries |-> NoObject]
    /\ compiles = 0
    /\ ugens = [u \in UGens |-> Unborn]
    /\ id_dict = {}
    /\ posted = {}
    /\ active_julia_ugens = 0

ObjectOf(u) == objects[ugens[u].entry]

\* The audio thread runs one constructor or destructor at a time.
Undisturbed(u) == \A v \in UGens \ {u} : ugens[v].calc \notin {"ctor", "released"}

-----------------------------------------------------------------------------
(* The constructor and next_NRT_busy *)

BeginConstructor(u, entry, io) ==
    /\ Undisturbed(u)
    /\ ugens[u].calc = "unborn"
    /\ ugens' = [ugens EXCEPT ![u] = Born(entry, io)]
    /\ active_julia_ugens' = CountUp(active_julia_ugens)
    /\ UNCHANGED <<nrtVars, id_dict, posted>>

\* The gc or the compiler barrier is taken.
DeferConstructor(u) ==
    /\ ugens[u].calc = "ctor"
    /\ ugens' = [ugens EXCEPT ![u].calc = "next_NRT_busy"]
    /\ UNCHANGED <<nrtVars, id_dict, posted, active_julia_ugens>>

Initialise(u, accepted, ok) ==
    /\ ugens' = [ugens EXCEPT ![u] = Initialised(@, ObjectOf(u).perform_fun, accepted /\ ok)]
    /\ id_dict' = IF accepted /\ ok THEN id_dict \cup {<<u, ObjectOf(u).perform_fun>>}
                  ELSE id_dict
    /\ UNCHANGED <<nrtVars, posted, active_julia_ugens>>

Constructor(u, ok) ==
    /\ ugens[u].calc = "ctor"
    /\ Initialise(u, ConstructorAccepts(ugens[u], ObjectOf(u)), ok)

NextNRTBusy(u, ok) ==
    /\ Undisturbed(u)
    /\ ugens[u].calc = "next_NRT_busy"
    /\ Initialise(u, BusyAccepts(ugens[u], ObjectOf(u)), ok)

-----------------------------------------------------------------------------
(* next_julia_code *)

\* The entry holds other code, or none: args[0] != julia_object->perform_fun.
Outdated(u) ==
    /\ ugens[u].calc = "next_julia_code"
    /\ ugens[u].fun # ObjectOf(u).perform_fun

FollowFree(u, outcome) ==
    /\ Undisturbed(u)
    /\ Outdated(u)
    /\ ~ObjectOf(u).compiled
    /\ ugens[u].valid
    /\ ugens' = [ugens EXCEPT ![u] = Freed(u, @, id_dict)]
    /\ id_dict' = DictWithout(u, ugens[u], id_dict, outcome)
    /\ UNCHANGED <<nrtVars, posted, active_julia_ugens>>

FollowRecompilation(u, outcome) ==
    /\ Undisturbed(u)
    /\ Outdated(u)
    /\ ObjectOf(u).compiled
    /\ ugens' = [ugens EXCEPT ![u] = Reallocated(u, @, id_dict, ObjectOf(u), outcome)]
    /\ id_dict' = DictReallocated(u, ugens[u], id_dict, ObjectOf(u), outcome)
    /\ UNCHANGED <<nrtVars, posted, active_julia_ugens>>

-----------------------------------------------------------------------------
(* The destructor *)

Destructible(u) ==
    /\ Undisturbed(u)
    /\ ugens[u].calc \in {"next_NRT_busy", "next_julia_code", "output_silence"}

DestroyInvalid(u) ==
    /\ Destructible(u)
    /\ ~ugens[u].valid
    /\ ugens' = [ugens EXCEPT ![u].calc = "gone"]
    /\ active_julia_ugens' = CountDown(active_julia_ugens)
    /\ UNCHANGED <<nrtVars, id_dict, posted>>

\* Both barriers are free: __destructor__ runs and the reference is removed,
\* whatever the two return.
Destroy(u, outcome) ==
    /\ Destructible(u)
    /\ ugens[u].valid
    /\ ugens' = [ugens EXCEPT ![u] = [Destructed(u, @, id_dict) EXCEPT !.calc = "released"]]
    /\ id_dict' = DictWithout(u, ugens[u], id_dict, outcome)
    /\ UNCHANGED <<nrtVars, posted, active_julia_ugens>>

\* A barrier is taken: the reference is left to the garbage collector, or
\* dropped when no slot of gc_array is found empty.
PostRef(u, kept) ==
    /\ Destructible(u)
    /\ ugens[u].valid
    /\ ugens' = [ugens EXCEPT ![u].calc = "released"]
    /\ posted' = IF kept THEN posted \cup {<<u, ugens[u].ref>>} ELSE posted
    /\ UNCHANGED <<nrtVars, id_dict, active_julia_ugens>>

Uncount(u) ==
    /\ ugens[u].calc = "released"
    /\ ugens' = [ugens EXCEPT ![u].calc = "gone"]
    /\ active_julia_ugens' = CountDown(active_julia_ugens)
    /\ UNCHANGED <<nrtVars, id_dict, posted>>

-----------------------------------------------------------------------------
(* The garbage collector and the commands of the NRT thread *)

UnrootPosted(r) ==
    /\ r \in posted \cap id_dict
    /\ id_dict' = id_dict \ {r}
    /\ UNCHANGED <<nrtVars, ugens, posted, active_julia_ugens>>

\* A reference that could not be removed is cleared from gc_array all the same.
ClearPosted(r) ==
    /\ r \in posted
    /\ r \in id_dict => "remove_ref" \in Failures
    /\ posted' = posted \ {r}
    /\ UNCHANGED <<nrtVars, ugens, id_dict, active_julia_ugens>>

\* /julia_load: whichever entry create_julia_object chose holds the new
\* @object; what it held before is gone in the same step.
Load(entry, name, io) ==
    /\ compiles < MaxCompiles
    /\ compiles' = compiles + 1
    /\ objects' = [objects EXCEPT ![entry] = CompiledObject(name, compiles + 1, io)]
    /\ UNCHANGED <<ugens, id_dict, posted, active_julia_ugens>>

\* /julia_free, or a /julia_load whose compilation failed after the @object
\* that it replaces was deleted.
Unload(entry) ==
    /\ objects' = [objects EXCEPT ![entry] = NoObject]
    /\ UNCHANGED <<compiles, ugens, id_dict, posted, active_julia_ugens>>

-----------------------------------------------------------------------------
RemovalOutcomes == {"done"} \cup (Failures \cap {"remove_ref"})

Next ==
    \/ \E u \in UGens :
          \/ \E entry \in Entries, io \in IOShapes : BeginConstructor(u, entry, io)
          \/ DeferConstructor(u)
          \/ \E ok \in InitOutcomes : Constructor(u, ok) \/ NextNRTBusy(u, ok)
          \/ \E outcome \in RemovalOutcomes : FollowFree(u, outcome) \/ Destroy(u, outcome)
          \/ \E outcome \in ReallocateOutcomes : FollowRecompilation(u, outcome)
          \/ DestroyInvalid(u)
          \/ \E kept \in BOOLEAN : PostRef(u, kept)
          \/ Uncount(u)
    \/ \E r \in Refs : UnrootPosted(r) \/ ClearPosted(r)
    \/ \E entry \in Entries :
          \/ Unload(entry)
          \/ \E name \in Names, io \in IOShapes : Load(entry, name, io)

Spec == Init /\ [][Next]_vars

-----------------------------------------------------------------------------
(* Properties *)

\* A valid UGen is wholly set up: the code in args[0], the __UGen__ in args[1],
\* the one its destructor will get and the __UGenRef__ that keeps it alive
\* belong together, and the reference is in the dict, so no collection can
\* take the object from under it.  This must survive every way that a
\* reallocation, which changes these one by one, can end.
ValidIsRooted ==
    \A u \in UGens : ugens[u].calc = "next_julia_code" /\ ugens[u].valid =>
        /\ <<u, ugens[u].ref>> \in id_dict
        /\ ugens[u].fun = ugens[u].ref
        /\ ugens[u].arg1 = ugens[u].ref
        /\ ugens[u].ugen_object = ugens[u].ref

\* No UGen has two references in the dict: a reallocation that could not
\* remove the old one does not add a new one, so that nothing is left behind
\* that no pointer leads to.
OneRefPerUGen == \A r, s \in id_dict : r[1] = s[1] => r = s

\* The counter that tells the collector's thread whether it may run is the
\* number of UGens between their constructor and the end of their destructor,
\* whichever way out of the two they took.
ActiveCountsUGens == active_julia_ugens = Cardinality({u \in UGens : Counted(ugens[u])})

\* Julia.cpp:700 "DESTRUCTOR must always be before the removal of
\* __UGenRef__ from global object id dict": no destructor is called on an
\* object whose reference has been removed.
DestructorBeforeRemoval == \A u \in UGens : ~ugens[u].late_destructor

\* What next_julia_code is about to perform on is kept alive by the dict.
PlayedObjectIsRooted ==
    \A u \in UGens : ugens[u].calc = "next_julia_code" /\ ~Outdated(u) =>
        <<u, ugens[u].arg1>> \in id_dict
=============================================================================
