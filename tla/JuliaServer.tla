----------------------------- MODULE JuliaServer -----------------------------
(***************************************************************************)
(* The three threads of a booted server and the barriers between them.     *)
(*                                                                         *)
(*   rt   the audio thread: constructors, calc functions and destructors   *)
(*        of the UGens.  It never waits: RTTrylock or another way.         *)
(*   nrt  the thread of the asynchronous commands: it spins on the         *)
(*        barriers, changes the table of @objects, and collects garbage    *)
(*        after each /julia_load.                                          *)
(*   gc   the thread that wakes every ten seconds and collects garbage     *)
(*        when no Julia UGen exists.                                       *)
(*                                                                         *)
(* One action is one access to state that threads share: taking or         *)
(* releasing a barrier, a step on the counter, the flag or gc_array.  What *)
(* a callback does between two barriers without touching anything another  *)
(* thread can reach is one step, taken from UGenCalls.                     *)
(***************************************************************************)
EXTENDS UGenCalls

CONSTANT GCArraySize    \* gc_array_num, 1000 in the code

ASSUME GCArraySizeAssumption == GCArraySize \in Nat \ {0}

VARIABLES
    objects,              \* the table of @objects
    compiles,             \* successful compilations so far
    settled,              \* auxiliary: the table as the last whole command left it
    loading,              \* the entry and name create_julia_object works on
    ugens,                \* the UGen instances
    id_dict,              \* __UGenRef__s in the global object id dict
    gc_array,             \* references left by destructors
    needs_emptying,       \* gc_array_needs_emptying
    active_julia_ugens,   \* the counter of that name
    taken,                \* the three barriers
    pc,                   \* where each thread is
    cur,                  \* the UGen whose callback rt runs
    slot,                 \* rt's index into gc_array
    scan,                 \* perform_gc's index into gc_array
    owed                  \* auxiliary: what gc_array held as perform_gc began

vars == <<objects, compiles, settled, loading, ugens, id_dict, gc_array, needs_emptying,
          active_julia_ugens, taken, pc, cur, slot, scan, owed>>

tableVars == <<objects, compiles, settled, loading>>
collectorVars == <<scan, owed>>
postVars == <<gc_array, needs_emptying>>
lifeVars == <<ugens, id_dict>>
\* Everything but the barriers and the places of the threads.
sharedVars == <<tableVars, lifeVars, postVars, active_julia_ugens, cur, slot, collectorVars>>

Threads == {"rt", "nrt", "gc"}
Barriers == {"compiler", "gc", "compiler_gc"}
Slots == 1 .. GCArraySize
ObjectOf(u) == objects[ugens[u].entry]

-----------------------------------------------------------------------------
(* Where a thread can be, and what it holds there *)

RTPcs ==
    {"idle",
     "ctor_gc", "ctor_compiler", "ctor_body", "busy_gc", "busy_compiler", "busy_body",
     "init_unlock_gc", "init_unlock_compiler",
     "calc_compiler", "calc_check", "calc_perform", "calc_gc", "calc_body",
     "unlock_gc_compiler", "unlock_compiler_gc", "unlock_compiler", "unlock_gc",
     "dtor_gc", "dtor_compiler", "dtor_body", "dtor_unlock_gc", "dtor_unlock_compiler",
     "dtor_uncount", "post", "post_uncount", "post_flag",
     "locked_post", "locked_post_uncount", "locked_post_flag"}

\* perform_gc, in whichever thread runs it.
GCPcs == {"gc_enter", "gc_scan", "gc_clear", "gc_flag", "gc_collect", "gc_done"}

Collecting == GCPcs \ {"gc_done"}

NRTPcs == GCPcs \cup
    {"idle", "load_compiler", "free_compiler", "query_compiler", "load_compiler_gc",
     "free_compiler_gc", "query_compiler_gc", "create", "compile", "free", "query",
     "spin_gc", "unlock_compiler", "unlock_compiler_gc"}

GCThreadPcs == GCPcs \cup {"sleep", "spin_gc", "check", "unlock_compiler_gc"}

\* Holding[b][t]: where thread t is between taking and releasing barrier b.
Holding ==
    [gc |->
        [rt |-> {"ctor_compiler", "ctor_body", "busy_compiler", "busy_body", "init_unlock_gc",
                 "calc_body", "unlock_gc_compiler", "unlock_compiler_gc", "unlock_gc",
                 "dtor_compiler", "dtor_body", "dtor_unlock_gc", "locked_post",
                 "locked_post_uncount", "locked_post_flag"},
         nrt |-> GCPcs,
         gc |-> GCPcs \cup {"check"}],
     compiler |->
        [rt |-> {"ctor_body", "busy_body", "init_unlock_gc", "init_unlock_compiler",
                 "calc_check", "calc_perform", "calc_gc", "calc_body", "unlock_gc_compiler",
                 "unlock_compiler_gc", "unlock_compiler", "dtor_body", "dtor_unlock_gc",
                 "dtor_unlock_compiler"},
         nrt |-> GCPcs \cup {"load_compiler_gc", "free_compiler_gc", "query_compiler_gc",
                             "create", "compile", "free", "query", "spin_gc",
                             "unlock_compiler"},
         gc |-> {}],
     compiler_gc |->
        [rt |-> {},
         nrt |-> GCPcs \cup {"create", "compile", "free", "query", "spin_gc",
                             "unlock_compiler", "unlock_compiler_gc"},
         gc |-> GCPcs \cup {"spin_gc", "check", "unlock_compiler_gc"}]]

Holds(t, b) == pc[t] \in Holding[b][t]

\* A thread is inside the runtime while it runs or compiles Julia code, walks
\* or changes the table of @objects, or runs perform_gc.
RuntimePcs ==
    [rt |-> {"ctor_body", "busy_body", "calc_perform", "calc_body", "dtor_body"},
     nrt |-> Collecting \cup {"create", "compile", "free", "query", "spin_gc"},
     gc |-> Collecting]

InRuntime(t) == pc[t] \in RuntimePcs[t]

-----------------------------------------------------------------------------
TypeOK ==
    /\ objects \in [Entries -> JuliaObject]
    /\ settled \in [Entries -> JuliaObject]
    /\ compiles \in 0 .. MaxCompiles
    /\ loading \in [entry : Entries, name : Names \cup {NoName}]
    /\ ugens \in [UGens -> UGenState]
    /\ id_dict \subseteq Refs
    /\ gc_array \in [Slots -> Refs \cup {NullRef}]
    /\ needs_emptying \in BOOLEAN
    /\ active_julia_ugens \in Nat
    /\ taken \in [Barriers -> BOOLEAN]
    /\ pc \in [Threads -> RTPcs \cup NRTPcs \cup GCThreadPcs]
    /\ pc["rt"] \in RTPcs /\ pc["nrt"] \in NRTPcs /\ pc["gc"] \in GCThreadPcs
    /\ cur \in UGens
    /\ slot \in 1 .. GCArraySize + 1
    /\ scan \in 1 .. GCArraySize + 1
    /\ owed \subseteq Refs

NotLoading == [entry |-> 0, name |-> NoName]

Init ==
    /\ objects = [i \in Entries |-> NoObject]
    /\ settled = objects
    /\ compiles = 0
    /\ loading = NotLoading
    /\ ugens = [u \in UGens |-> Unborn]
    /\ id_dict = {}
    /\ gc_array = [i \in Slots |-> NullRef]
    /\ needs_emptying = FALSE
    /\ active_julia_ugens = 0
    /\ taken = [b \in Barriers |-> FALSE]
    /\ pc = [t \in Threads |-> IF t = "gc" THEN "sleep" ELSE "idle"]
    /\ cur \in UGens
    /\ slot = 1
    /\ scan = 1
    /\ owed = {}

\* Thread t moves on.
Goto(t, from, to) ==
    /\ pc[t] = from
    /\ pc' = [pc EXCEPT ![t] = to]

\* compare_exchange on a free barrier, and a trylock that fails.  A barrier
\* has no owner: Unlock stores false whoever calls it.
Take(b) == ~taken[b] /\ taken' = [taken EXCEPT ![b] = TRUE]
TryFails(b) == taken[b] /\ UNCHANGED taken
Unlock(b) == taken' = [taken EXCEPT ![b] = FALSE]

-----------------------------------------------------------------------------
(* rt: the constructor and next_NRT_busy *)

RTConstruct(u) ==
    /\ Goto("rt", "idle", "ctor_gc")
    /\ ugens[u].calc = "unborn"
    /\ \E entry \in Entries, io \in IOShapes : ugens' = [ugens EXCEPT ![u] = Born(entry, io)]
    /\ active_julia_ugens' = CountUp(active_julia_ugens)
    /\ cur' = u
    /\ UNCHANGED <<tableVars, id_dict, postVars, taken, slot, collectorVars>>

\* set_calc_function runs next_NRT_busy once as it installs it.
RTCtorGCBusy ==
    /\ Goto("rt", "ctor_gc", "busy_gc")
    /\ TryFails("gc")
    /\ ugens' = [ugens EXCEPT ![cur].calc = "next_NRT_busy"]
    /\ UNCHANGED <<tableVars, id_dict, postVars, active_julia_ugens, cur, slot, collectorVars>>

\* The first next_NRT_busy runs before the gc barrier is released here, finds
\* it taken by its own constructor, and defers to the next cycle.
RTCtorCompilerBusy ==
    /\ Goto("rt", "ctor_compiler", "unlock_gc")
    /\ TryFails("compiler")
    /\ ugens' = [ugens EXCEPT ![cur].calc = "next_NRT_busy"]
    /\ UNCHANGED <<tableVars, id_dict, postVars, active_julia_ugens, cur, slot, collectorVars>>

RTTakeGC ==
    /\ \/ Goto("rt", "ctor_gc", "ctor_compiler")
       \/ Goto("rt", "busy_gc", "busy_compiler")
       \/ Goto("rt", "calc_gc", "calc_body")
       \/ Goto("rt", "dtor_gc", "dtor_compiler")
    /\ Take("gc")
    /\ UNCHANGED sharedVars

RTTakeCompiler ==
    /\ \/ Goto("rt", "ctor_compiler", "ctor_body")
       \/ Goto("rt", "busy_compiler", "busy_body")
       \/ Goto("rt", "calc_compiler", "calc_check")
       \/ Goto("rt", "dtor_compiler", "dtor_body")
    /\ Take("compiler")
    /\ UNCHANGED sharedVars

\* Mutant of RTBusyAgain: it returns with the gc barrier taken.
RTBusyAgainLocked ==
    /\ \/ Goto("rt", "busy_gc", "idle") /\ TryFails("gc")
       \/ Goto("rt", "busy_compiler", "idle") /\ TryFails("compiler")
    /\ UNCHANGED sharedVars

\* next_NRT_busy tries again in the next cycle.
RTBusyAgain ==
    /\ \/ Goto("rt", "busy_gc", "idle") /\ TryFails("gc")
       \/ Goto("rt", "busy_compiler", "unlock_gc") /\ TryFails("compiler")
    /\ UNCHANGED sharedVars

RTInitialise(accepted, ok) ==
    /\ ugens' = [ugens EXCEPT ![cur] =
                    Initialised(@, ObjectOf(cur).perform_fun, accepted /\ ok)]
    /\ id_dict' = IF accepted /\ ok THEN id_dict \cup {<<cur, ObjectOf(cur).perform_fun>>}
                  ELSE id_dict
    /\ UNCHANGED <<tableVars, postVars, active_julia_ugens, taken, cur, slot, collectorVars>>

RTCtorBody(ok) ==
    /\ Goto("rt", "ctor_body", "init_unlock_gc")
    /\ RTInitialise(ConstructorAccepts(ugens[cur], ObjectOf(cur)), ok)

RTBusyBody(ok) ==
    /\ Goto("rt", "busy_body", "init_unlock_gc")
    /\ RTInitialise(BusyAccepts(ugens[cur], ObjectOf(cur)), ok)

\* An initialised UGen runs next_julia_code once, with the barriers released.
RTInitUnlock ==
    /\ \/ Goto("rt", "init_unlock_gc", "init_unlock_compiler") /\ Unlock("gc")
       \/ /\ Goto("rt", "init_unlock_compiler",
                  IF ugens[cur].calc = "next_julia_code" THEN "calc_compiler" ELSE "idle")
          /\ Unlock("compiler")
    /\ UNCHANGED sharedVars

-----------------------------------------------------------------------------
(* rt: the calc functions *)

\* scsynth calls the calc function of every UGen in every block;
\* output_silence touches nothing that is modelled here.
RTCalc(u) ==
    /\ \/ ugens[u].calc = "next_NRT_busy" /\ Goto("rt", "idle", "busy_gc")
       \/ ugens[u].calc = "next_julia_code" /\ Goto("rt", "idle", "calc_compiler")
    /\ cur' = u
    /\ UNCHANGED <<tableVars, lifeVars, postVars, active_julia_ugens, taken, slot, collectorVars>>

\* Mutant of RTSilence: the compiler barrier stays taken.
RTSilenceLocked ==
    /\ \/ Goto("rt", "calc_compiler", "idle") /\ TryFails("compiler")
       \/ Goto("rt", "calc_gc", "idle") /\ TryFails("gc")
    /\ UNCHANGED sharedVars

\* The compiler is busy, or the gc barrier is taken: silence for this block.
RTSilence ==
    /\ \/ Goto("rt", "calc_compiler", "idle") /\ TryFails("compiler")
       \/ Goto("rt", "calc_gc", "unlock_compiler") /\ TryFails("gc")
    /\ UNCHANGED sharedVars

\* Mutant of UpToDate: any compiled @object will do.
UpToDateIfCompiled(u) == ObjectOf(u).compiled

UpToDate(u) == ugens[u].fun = ObjectOf(u).perform_fun

\* args[0] != julia_object->perform_fun; julia_instance if they are the same.
RTCheck ==
    /\ Goto("rt", "calc_check", IF UpToDate(cur) THEN "calc_perform" ELSE "calc_gc")
    /\ UNCHANGED <<sharedVars, taken>>

RTPerformed ==
    /\ Goto("rt", "calc_perform", "unlock_compiler")
    /\ UNCHANGED <<sharedVars, taken>>

RTFollowFree(outcome) ==
    /\ Goto("rt", "calc_body", "unlock_gc_compiler")
    /\ ~ObjectOf(cur).compiled
    /\ IF ugens[cur].valid
       THEN /\ ugens' = [ugens EXCEPT ![cur] = Freed(cur, @, id_dict)]
            /\ id_dict' = DictWithout(cur, ugens[cur], id_dict, outcome)
       ELSE UNCHANGED lifeVars
    /\ UNCHANGED <<tableVars, postVars, active_julia_ugens, taken, cur, slot, collectorVars>>

\* The two returns on a mismatch of inputs or outputs release the compiler
\* barrier first, every other way out the gc barrier.
RTFollowRecompilation(outcome) ==
    /\ Goto("rt", "calc_body",
            IF ReachesFit(ugens[cur], outcome) /\ ~Fits(ugens[cur], ObjectOf(cur))
            THEN "unlock_compiler_gc" ELSE "unlock_gc_compiler")
    /\ ObjectOf(cur).compiled
    /\ ugens' = [ugens EXCEPT ![cur] = Reallocated(cur, @, id_dict, ObjectOf(cur), outcome)]
    /\ id_dict' = DictReallocated(cur, ugens[cur], id_dict, ObjectOf(cur), outcome)
    /\ UNCHANGED <<tableVars, postVars, active_julia_ugens, taken, cur, slot, collectorVars>>

RTUnlock ==
    /\ \/ Goto("rt", "unlock_gc_compiler", "unlock_compiler") /\ Unlock("gc")
       \/ Goto("rt", "unlock_compiler_gc", "unlock_gc") /\ Unlock("compiler")
       \/ Goto("rt", "unlock_compiler", "idle") /\ Unlock("compiler")
       \/ Goto("rt", "unlock_gc", "idle") /\ Unlock("gc")
    /\ UNCHANGED sharedVars

-----------------------------------------------------------------------------
(* rt: the destructor *)

Destructible(u) == ugens[u].calc \in {"next_NRT_busy", "next_julia_code", "output_silence"}

\* A UGen that is not valid is only taken off the counter.
RTDestroyInvalid(u) ==
    /\ Goto("rt", "idle", "idle")
    /\ Destructible(u) /\ ~ugens[u].valid
    /\ ugens' = [ugens EXCEPT ![u].calc = "gone"]
    /\ active_julia_ugens' = CountDown(active_julia_ugens)
    /\ UNCHANGED <<tableVars, id_dict, postVars, taken, cur, slot, collectorVars>>

RTDestroyValid(u) ==
    /\ Goto("rt", "idle", "dtor_gc")
    /\ Destructible(u) /\ ugens[u].valid
    /\ cur' = u
    /\ UNCHANGED <<tableVars, lifeVars, postVars, active_julia_ugens, taken, slot, collectorVars>>

RTDtorBody(outcome) ==
    /\ Goto("rt", "dtor_body", "dtor_unlock_gc")
    /\ ugens' = [ugens EXCEPT ![cur] = [Destructed(cur, @, id_dict) EXCEPT !.calc = "released"]]
    /\ id_dict' = DictWithout(cur, ugens[cur], id_dict, outcome)
    /\ UNCHANGED <<tableVars, postVars, active_julia_ugens, taken, cur, slot, collectorVars>>

RTDtorUnlock ==
    /\ \/ Goto("rt", "dtor_unlock_gc", "dtor_unlock_compiler") /\ Unlock("gc")
       \/ Goto("rt", "dtor_unlock_compiler", "dtor_uncount") /\ Unlock("compiler")
    /\ UNCHANGED sharedVars

\* The collector or the compiler is at work: post the reference.  In the
\* second case the gc barrier stays taken until the flag is set.
RTDtorBusy ==
    /\ \/ Goto("rt", "dtor_gc", "post") /\ TryFails("gc")
       \/ Goto("rt", "dtor_compiler", "locked_post") /\ TryFails("compiler")
    /\ slot' = 1
    /\ UNCHANGED <<tableVars, lifeVars, postVars, active_julia_ugens, cur, collectorVars>>

\* The loop over gc_array passes a slot that holds a reference.
RTSkipSlot ==
    /\ pc["rt"] \in {"post", "locked_post"}
    /\ slot <= GCArraySize
    /\ gc_array[slot] # NullRef
    /\ slot' = slot + 1
    /\ UNCHANGED <<tableVars, lifeVars, postVars, active_julia_ugens, taken, pc, cur,
                   collectorVars>>

\* An empty slot takes the reference; if none is found it is dropped.
RTPost ==
    /\ \/ Goto("rt", "post", "post_uncount")
       \/ Goto("rt", "locked_post", "locked_post_uncount")
    /\ slot <= GCArraySize => gc_array[slot] = NullRef
    /\ gc_array' = IF slot <= GCArraySize
                   THEN [gc_array EXCEPT ![slot] = <<cur, ugens[cur].ref>>]
                   ELSE gc_array
    /\ ugens' = [ugens EXCEPT ![cur].calc = "released"]
    /\ slot' = 1
    /\ UNCHANGED <<tableVars, id_dict, needs_emptying, active_julia_ugens, taken, cur,
                   collectorVars>>

RTUncount ==
    /\ \/ Goto("rt", "dtor_uncount", "idle")
       \/ Goto("rt", "post_uncount", "post_flag")
       \/ Goto("rt", "locked_post_uncount", "locked_post_flag")
    /\ active_julia_ugens' = CountDown(active_julia_ugens)
    /\ ugens' = [ugens EXCEPT ![cur].calc = "gone"]
    /\ UNCHANGED <<tableVars, id_dict, postVars, taken, cur, slot, collectorVars>>

RTFlag ==
    /\ \/ Goto("rt", "post_flag", "idle")
       \/ Goto("rt", "locked_post_flag", "unlock_gc")
    /\ needs_emptying' = TRUE
    /\ UNCHANGED <<tableVars, lifeVars, gc_array, active_julia_ugens, taken, cur, slot,
                   collectorVars>>

-----------------------------------------------------------------------------
(* perform_gc, run by t with the gc barrier taken *)

Collectors == {"nrt", "gc"}

\* References whose destructor has come to its end, flag included.
Delivered(r) ==
    ~( /\ r[1] = cur
       /\ pc["rt"] \in {"post_uncount", "post_flag", "locked_post_uncount", "locked_post_flag"} )

Posted == {gc_array[i] : i \in Slots} \ {NullRef}

\* The flag decides whether the array is looked at.
GCEnter(t) ==
    /\ Goto(t, "gc_enter", IF needs_emptying THEN "gc_scan" ELSE "gc_collect")
    /\ owed' = {r \in Posted : Delivered(r)}
    /\ scan' = 1
    /\ UNCHANGED <<tableVars, lifeVars, postVars, active_julia_ugens, taken, cur, slot>>

\* A slot that holds a reference is cleared next, whether delete_index took the
\* reference out of the dict or failed.
GCScan(t, outcome) ==
    /\ \/ /\ scan > GCArraySize
          /\ Goto(t, "gc_scan", "gc_flag")
          /\ UNCHANGED <<id_dict, scan>>
       \/ /\ scan <= GCArraySize
          /\ gc_array[scan] = NullRef
          /\ Goto(t, "gc_scan", "gc_scan")
          /\ scan' = scan + 1
          /\ UNCHANGED id_dict
       \/ /\ scan <= GCArraySize
          /\ gc_array[scan] # NullRef
          /\ Goto(t, "gc_scan", "gc_clear")
          /\ id_dict' = IF outcome = "remove_ref" THEN id_dict
                        ELSE id_dict \ {gc_array[scan]}
          /\ UNCHANGED scan
    /\ UNCHANGED <<tableVars, ugens, postVars, active_julia_ugens, taken, cur, slot, owed>>

GCClear(t) ==
    /\ Goto(t, "gc_clear", "gc_scan")
    /\ gc_array' = [gc_array EXCEPT ![scan] = NullRef]
    /\ scan' = scan + 1
    /\ UNCHANGED <<tableVars, lifeVars, needs_emptying, active_julia_ugens, taken, cur, slot, owed>>

GCFlag(t) ==
    /\ Goto(t, "gc_flag", "gc_collect")
    /\ needs_emptying' = FALSE
    /\ UNCHANGED <<tableVars, lifeVars, gc_array, active_julia_ugens, taken, cur, slot,
                   collectorVars>>

\* jl_gc_collect, if the pool has changed since the last time.
GCCollect(t) ==
    /\ Goto(t, "gc_collect", "gc_done")
    /\ UNCHANGED <<sharedVars, taken>>

RemovalOutcomes == {"done"} \cup (Failures \cap {"remove_ref"})

PerformGC(t) ==
    \/ GCEnter(t) \/ GCClear(t) \/ GCFlag(t) \/ GCCollect(t)
    \/ \E outcome \in RemovalOutcomes : GCScan(t, outcome)

-----------------------------------------------------------------------------
(* gc: perform_gc_on_spawned_thread *)

\* A trylock that fails only means another ten seconds of sleep.
GCTake ==
    /\ \/ Goto("gc", "sleep", "spin_gc") /\ Take("compiler_gc")
       \/ Goto("gc", "spin_gc", "check") /\ Take("gc")
    /\ UNCHANGED sharedVars

\* Mutant of NoUGenActive: the counter is not looked at.
NoUGenActiveUnchecked == TRUE

NoUGenActive == active_julia_ugens = 0

GCCheck ==
    /\ Goto("gc", "check", IF NoUGenActive THEN "gc_enter" ELSE "gc_done")
    /\ UNCHANGED <<sharedVars, taken>>

GCUnlock ==
    /\ \/ /\ Goto("gc", "gc_done", "unlock_compiler_gc")
          /\ Unlock("gc")
       \/ /\ Goto("gc", "unlock_compiler_gc", "sleep")
          /\ Unlock("compiler_gc")
    /\ owed' = {}
    /\ UNCHANGED <<tableVars, lifeVars, postVars, active_julia_ugens, cur, slot, scan>>

-----------------------------------------------------------------------------
(* nrt: julia_load, julia_free, and the two queries, which only read *)

NRTReceive ==
    /\ \/ Goto("nrt", "idle", "load_compiler")
       \/ Goto("nrt", "idle", "free_compiler")
       \/ Goto("nrt", "idle", "query_compiler")
    /\ UNCHANGED <<sharedVars, taken>>

\* Mutant of NRTTakeCompiler: a command goes on without the barrier.
NRTTakeCompilerNot ==
    /\ \/ Goto("nrt", "load_compiler", "load_compiler_gc")
       \/ Goto("nrt", "free_compiler", "free_compiler_gc")
       \/ Goto("nrt", "query_compiler", "query_compiler_gc")
    /\ UNCHANGED <<sharedVars, taken>>

NRTTakeCompiler ==
    /\ \/ Goto("nrt", "load_compiler", "load_compiler_gc")
       \/ Goto("nrt", "free_compiler", "free_compiler_gc")
       \/ Goto("nrt", "query_compiler", "query_compiler_gc")
    /\ Take("compiler")
    /\ UNCHANGED sharedVars

NRTTakeCompilerGC ==
    /\ \/ Goto("nrt", "load_compiler_gc", "create")
       \/ Goto("nrt", "free_compiler_gc", "free")
       \/ Goto("nrt", "query_compiler_gc", "query")
    /\ Take("compiler_gc")
    /\ UNCHANGED sharedVars

NRTTakeGC ==
    /\ Goto("nrt", "spin_gc", "gc_enter")
    /\ Take("gc")
    /\ UNCHANGED sharedVars

\* The array is full, or the file does not evaluate to a module.
NRTLoadRefused ==
    /\ Goto("nrt", "create", "spin_gc")
    /\ UNCHANGED <<sharedVars, taken>>

\* create_julia_object takes the entry of the @object of that name, deleting
\* what it holds, or an empty one.  JuliaObjectsArray has the search.
NRTCreate(name, entry) ==
    /\ Goto("nrt", "create", "compile")
    /\ \/ objects[entry].name = name
       \/ /\ \A i \in CompiledEntries(objects) : objects[i].name # name
          /\ ~objects[entry].compiled
    /\ loading' = [entry |-> entry, name |-> name]
    /\ objects' = [objects EXCEPT ![entry] = NoObject]
    /\ UNCHANGED <<compiles, settled, lifeVars, postVars, active_julia_ugens, taken, cur, slot,
                   collectorVars>>

NRTCompile(io, ok) ==
    /\ Goto("nrt", "compile", "spin_gc")
    /\ ok => compiles < MaxCompiles
    /\ IF ok THEN /\ compiles' = compiles + 1
                  /\ objects' = [objects EXCEPT ![loading.entry] =
                                    CompiledObject(loading.name, compiles + 1, io)]
             ELSE UNCHANGED <<compiles, objects>>
    /\ loading' = NotLoading
    /\ settled' = objects'
    /\ UNCHANGED <<lifeVars, postVars, active_julia_ugens, taken, cur, slot, collectorVars>>

NRTFree(entry) ==
    /\ Goto("nrt", "free", "unlock_compiler")
    /\ objects' = [objects EXCEPT ![entry] = NoObject]
    /\ settled' = objects'
    /\ UNCHANGED <<compiles, loading, lifeVars, postVars, active_julia_ugens, taken, cur,
                   slot, collectorVars>>

NRTQuery ==
    /\ Goto("nrt", "query", "unlock_compiler")
    /\ UNCHANGED <<sharedVars, taken>>

NRTUnlock ==
    /\ \/ Goto("nrt", "gc_done", "unlock_compiler") /\ Unlock("gc")
       \/ Goto("nrt", "unlock_compiler", "unlock_compiler_gc") /\ Unlock("compiler")
       \/ Goto("nrt", "unlock_compiler_gc", "idle") /\ Unlock("compiler_gc")
    /\ owed' = {}
    /\ UNCHANGED <<tableVars, lifeVars, postVars, active_julia_ugens, cur, slot, scan>>

-----------------------------------------------------------------------------
\* What scsynth asks of the audio thread...
RTBegin(u) == RTConstruct(u) \/ RTCalc(u) \/ RTDestroyInvalid(u) \/ RTDestroyValid(u)

\* ... and how it goes on with the callback it is in.
RTContinue ==
    \/ RTCtorGCBusy \/ RTCtorCompilerBusy \/ RTBusyAgain \/ RTSilence \/ RTDtorBusy
    \/ RTTakeGC \/ RTTakeCompiler
    \/ \E ok \in InitOutcomes : RTCtorBody(ok) \/ RTBusyBody(ok)
    \/ RTInitUnlock \/ RTCheck \/ RTPerformed
    \/ \E outcome \in RemovalOutcomes : RTFollowFree(outcome) \/ RTDtorBody(outcome)
    \/ \E outcome \in ReallocateOutcomes : RTFollowRecompilation(outcome)
    \/ RTUnlock \/ RTDtorUnlock \/ RTSkipSlot \/ RTPost \/ RTUncount \/ RTFlag

\* What a command does once it holds the barriers it needs.
NRTContinue ==
    \/ NRTLoadRefused
    \/ \E name \in Names, entry \in Entries : NRTCreate(name, entry)
    \/ \E io \in IOShapes, ok \in BOOLEAN : NRTCompile(io, ok)
    \/ \E entry \in Entries : NRTFree(entry)
    \/ NRTQuery \/ NRTUnlock
    \/ PerformGC("nrt")

GCContinue == GCCheck \/ PerformGC("gc") \/ GCUnlock

RTNext == (\E u \in UGens : RTBegin(u)) \/ RTContinue
NRTNext == NRTReceive \/ NRTTakeCompiler \/ NRTTakeCompilerGC \/ NRTTakeGC \/ NRTContinue
GCNext == GCTake \/ GCContinue

Next == RTNext \/ NRTNext \/ GCNext

Spec == Init /\ [][Next]_vars

(***************************************************************************)
(* Fairness.  Each thread goes on with what it has begun.  The two threads *)
(* that spin get the barrier if it is free again and again: the audio      *)
(* thread holds it for a part of a block and then waits for the next one.  *)
(* scsynth calls every UGen in every block, thousands of times in the ten  *)
(* seconds that the collector sleeps after each round, so not every        *)
(* callback of a UGen meets a collector that is awake.                     *)
(***************************************************************************)
GCAsleep == pc["gc"] = "sleep"

Fairness ==
    /\ WF_vars(RTContinue) /\ WF_vars(NRTContinue) /\ WF_vars(GCContinue)
    /\ SF_vars(NRTTakeCompiler) /\ SF_vars(NRTTakeCompilerGC) /\ SF_vars(NRTTakeGC)
    /\ SF_vars(GCTake)
    /\ \A u \in UGens : /\ SF_vars(RTCalc(u) /\ GCAsleep)
                        /\ SF_vars(cur = u /\ RTTakeGC)
                        /\ SF_vars(cur = u /\ RTTakeCompiler /\ GCAsleep)
                        /\ SF_vars(cur = u /\ RTCheck /\ GCAsleep)
                        /\ SF_vars(cur = u /\ RTUnlock /\ GCAsleep)

FairSpec == Spec /\ Fairness

-----------------------------------------------------------------------------
(* Properties *)

\* A barrier is taken exactly while one thread is between taking and releasing
\* it.  The barriers have no owner, so one Unlock too many, or of the wrong
\* one, on any of the ways out of a callback would open it for somebody else.
BarriersOwned ==
    \A b \in Barriers :
        /\ taken[b] <=> \E t \in Threads : Holds(t, b)
        /\ \A s, t \in Threads : Holds(s, b) /\ Holds(t, b) => s = t

\* Julia runs, compiles and collects in one thread at a time.  The collector's
\* thread does not take the compiler barrier and a UGen that plays does not
\* take the gc barrier: only the counter of active UGens keeps them apart.
RuntimeExclusive == \A s, t \in Threads : InRuntime(s) /\ InRuntime(t) => s = t

\* With all their interleavings the threads do what JuliaUGen says in whole
\* steps: no callback sees a table that a load has not finished with, and no
\* UGen is lost or changed behind its own callbacks.
Lifecycle == INSTANCE JuliaUGen WITH objects <- settled, posted <- Posted
LifecycleSpec == Lifecycle!Spec

\* Every reference in the dict is that of a UGen that still has it, or waits in
\* gc_array.  (With a gc_array that has room, and calls into Julia that do not
\* fail.)
RefsAccounted ==
    \A r \in id_dict :
        \/ r \in Posted
        \/ /\ ugens[r[1]].calc = "next_julia_code"
           /\ ugens[r[1]].valid
           /\ ugens[r[1]].ref = r[2]

\* Julia.cpp:168-169 "posting the UGen ref to an array that will be consumed on
\* next GC": what a destructor that has returned left in gc_array is out of the
\* dict when the next perform_gc ends.
ConsumedOnNextGC ==
    \A t \in Collectors : pc[t] = "gc_done" => owed \cap id_dict = {}

\* A command that the NRT thread has begun ends: the spin locks, taken in the
\* order compiler, compiler_gc, gc, never wait on each other for ever.
CommandEnds == pc["nrt"] # "idle" ~> pc["nrt"] = "idle"

\* The clients send no command any more.
CommandsCease == <>[](pc["nrt"] = "idle")

\* A UGen whose initialisation was deferred gets it, once no command keeps the
\* compiler busy.
DeferredStarts ==
    CommandsCease =>
        \A u \in UGens : ugens[u].calc = "next_NRT_busy" ~> ugens[u].calc # "next_NRT_busy"

\* The object a UGen made with code that was freed or recompiled since leaves
\* the dict, so that it can be collected, if the UGen is not destructed first.
OldCodeReleased ==
    CommandsCease =>
        \A r \in Refs :
            ( /\ r \in id_dict
              /\ ugens[r[1]].calc = "next_julia_code"
              /\ ObjectOf(r[1]).perform_fun # r[2] )
            ~> (r \notin id_dict \/ ugens[r[1]].calc \in {"released", "gone"})
=============================================================================
