------------------------- MODULE JuliaLifecycleProofs -------------------------
(***************************************************************************)
(* JuliaServer implements JuliaUGen, for any number of UGens, entries and  *)
(* slots of gc_array and any set of calls that fail: each step of the      *)
(* three threads is one of the steps JuliaUGen describes, or changes       *)
(* nothing that it speaks of.                                              *)
(*                                                                         *)
(* A body of the audio thread reads the table of @objects, and the table   *)
(* that JuliaUGen speaks of is the one the last whole command left; that   *)
(* the two agree there, that what next_julia_code read before it took the  *)
(* gc barrier still holds behind it, and that the collector never unroots  *)
(* what a callback uses, is what the invariant below adds to the one of    *)
(* JuliaServerProofs.                                                      *)
(*                                                                         *)
(* On the same invariant rests what the last section proves: that the dict *)
(* holds no reference that is nobody's.                                    *)
(***************************************************************************)
EXTENDS JuliaServerProofs

Dead == {"released", "gone"}

\* The table is the settled one, but while a load has deleted what it replaces
\* and has not come to its end.
TableSettled ==
    /\ pc["nrt"] # "compile" => settled = objects
    /\ pc["nrt"] = "compile" => objects = [settled EXCEPT ![loading.entry] = NoObject]

\* Only the UGen whose callback runs is in its constructor or destructor.
CtorPcs == {"ctor_gc", "ctor_compiler", "ctor_body"}
ReleasedPcs == {"dtor_unlock_gc", "dtor_unlock_compiler", "dtor_uncount", "post_uncount",
                "locked_post_uncount"}
OneInCallback ==
    \A v \in UGens :
        /\ ugens[v].calc = "ctor" => v = cur /\ pc["rt"] \in CtorPcs
        /\ ugens[v].calc = "released" => v = cur /\ pc["rt"] \in ReleasedPcs

\* What calc_check found is true until calc_body has acted on it.
StillOutdated == pc["rt"] \in {"calc_gc", "calc_body"} => ~UpToDate(cur)

\* gc_array holds references of UGens that are through with their destructor.
PostedAreDead == \A r \in Posted : ugens[r[1]].calc \in Dead

\* What perform_gc clears from gc_array it has taken out of the dict, if that
\* cannot fail.
UnrootedFirst ==
    \A t \in Collectors :
        pc[t] = "gc_clear" =>
            /\ gc_array[scan] # NullRef
            /\ gc_array[scan] \in id_dict => "remove_ref" \in Failures

Apart == OneInCallback /\ PostedAreDead /\ UnrootedFirst

Linked == TableSettled /\ StillOutdated /\ Apart

\* A step of the server is one of JuliaUGen, or none.
Simulated == [Lifecycle!Next]_(Lifecycle!vars)

-----------------------------------------------------------------------------
(* The bodies that JuliaUGen and JuliaServer share *)

LEMMA SameBodies ==
  ASSUME NEW u, NEW g, NEW dict, NEW outcome
  PROVE  /\ Lifecycle!Destructed(u, g, dict) = Destructed(u, g, dict)
         /\ Lifecycle!Freed(u, g, dict) = Freed(u, g, dict)
         /\ Lifecycle!DictWithout(u, g, dict, outcome) = DictWithout(u, g, dict, outcome)
BY DEF Lifecycle!Destructed, Lifecycle!Invalidated, Lifecycle!Freed, Lifecycle!DictWithout,
       Lifecycle!RefRemoved, Lifecycle!NullFun, Destructed, Invalidated, Freed, DictWithout,
       RefRemoved, NullFun

LEMMA SameReallocation ==
  ASSUME NEW u, NEW g, NEW dict, NEW o, NEW outcome
  PROVE  /\ Lifecycle!Reallocated(u, g, dict, o, outcome) = Reallocated(u, g, dict, o, outcome)
         /\ Lifecycle!DictReallocated(u, g, dict, o, outcome)
              = DictReallocated(u, g, dict, o, outcome)
BY DEF Lifecycle!Destructed, Lifecycle!Invalidated, Lifecycle!DictWithout, Lifecycle!RefRemoved,
       Lifecycle!ReachesRemoval, Lifecycle!ReachesFit, Lifecycle!ReachesCode, Lifecycle!Fits,
       Lifecycle!NullFun, Lifecycle!Reallocated, Lifecycle!DictReallocated,
       Destructed, Invalidated, DictWithout, RefRemoved, ReachesRemoval, ReachesFit,
       ReachesCode, Fits, NullFun, Reallocated, DictReallocated

LEMMA SameInitialisation ==
  ASSUME NEW g, NEW o, NEW fun, NEW ok, NEW entry, NEW io
  PROVE  /\ Lifecycle!Initialised(g, fun, ok) = Initialised(g, fun, ok)
         /\ Lifecycle!ConstructorAccepts(g, o) = ConstructorAccepts(g, o)
         /\ Lifecycle!BusyAccepts(g, o) = BusyAccepts(g, o)
         /\ Lifecycle!Born(entry, io) = Born(entry, io)
BY DEF Lifecycle!Initialised, Lifecycle!Playing, Lifecycle!ConstructorAccepts,
       Lifecycle!BusyAccepts, Lifecycle!Born, Lifecycle!NullFun,
       Initialised, Playing, ConstructorAccepts, BusyAccepts, Born, NullFun

LEMMA SameTable ==
  /\ Lifecycle!Refs = Refs
  /\ Lifecycle!Entries = Entries
  /\ Lifecycle!NoObject = NoObject
  /\ Lifecycle!Unborn = Unborn
  /\ Lifecycle!InitOutcomes = InitOutcomes
  /\ Lifecycle!RemovalOutcomes = RemovalOutcomes
  /\ Lifecycle!ReallocateOutcomes = ReallocateOutcomes
  /\ \A name, fun, io : Lifecycle!CompiledObject(name, fun, io) = CompiledObject(name, fun, io)
  /\ \A n : Lifecycle!CountUp(n) = CountUp(n) /\ Lifecycle!CountDown(n) = CountDown(n)
BY DEF Lifecycle!Refs, Lifecycle!Funs, Lifecycle!Entries, Lifecycle!NoObject, Lifecycle!NoIO,
       Lifecycle!NullFun, Lifecycle!Unborn, Lifecycle!Born, Lifecycle!InitOutcomes,
       Lifecycle!RemovalOutcomes, Lifecycle!ReallocateOutcomes, Lifecycle!CompiledObject,
       Lifecycle!CountUp, Lifecycle!CountDown,
       Refs, Funs, Entries, NoObject, NoIO, NullFun, Unborn, Born, InitOutcomes,
       RemovalOutcomes, ReallocateOutcomes, CompiledObject, CountUp, CountDown

-----------------------------------------------------------------------------
(* What each thread leaves alone *)

LEMMA RTLeaves ==
  ASSUME TypeOK, RTNext
  PROVE  UNCHANGED <<tableVars, collectorVars>> /\ pc'["nrt"] = pc["nrt"] /\ pc'["gc"] = pc["gc"]
<1> USE DEF Goto, TypeOK, Threads, sharedVars
<1>1. ASSUME NEW u \in UGens, RTBegin(u)
      PROVE  /\ UNCHANGED <<tableVars, collectorVars>>
             /\ pc'["nrt"] = pc["nrt"] /\ pc'["gc"] = pc["gc"]
  BY <1>1 DEF RTBegin, RTConstruct, RTCalc, RTDestroyInvalid, RTDestroyValid
<1>2. CASE RTContinue
  <2>1. CASE RTCtorGCBusy \/ RTCtorCompilerBusy \/ RTBusyAgain \/ RTSilence \/ RTDtorBusy
    BY <2>1 DEF RTCtorGCBusy, RTCtorCompilerBusy, RTBusyAgain, RTSilence, RTDtorBusy
  <2>2. CASE RTTakeGC \/ RTTakeCompiler \/ RTInitUnlock \/ RTUnlock \/ RTDtorUnlock
    BY <2>2 DEF RTTakeGC, RTTakeCompiler, RTInitUnlock, RTUnlock, RTDtorUnlock
  <2>3. CASE \/ \E ok \in InitOutcomes : RTCtorBody(ok) \/ RTBusyBody(ok)
             \/ \E outcome \in RemovalOutcomes : RTFollowFree(outcome) \/ RTDtorBody(outcome)
             \/ \E outcome \in ReallocateOutcomes : RTFollowRecompilation(outcome)
    BY <2>3 DEF RTCtorBody, RTBusyBody, RTInitialise, RTFollowFree, RTDtorBody,
                RTFollowRecompilation
  <2>4. CASE RTCheck \/ RTPerformed \/ RTSkipSlot \/ RTPost \/ RTUncount \/ RTFlag
    BY <2>4 DEF RTCheck, RTPerformed, RTSkipSlot, RTPost, RTUncount, RTFlag
  <2> QED
    BY <1>2, <2>1, <2>2, <2>3, <2>4 DEF RTContinue
<1> QED
  BY <1>1, <1>2 DEF RTNext

LEMMA CollectorLeaves ==
  ASSUME TypeOK, NEW t \in Collectors, PerformGC(t)
  PROVE  /\ UNCHANGED <<tableVars, ugens, active_julia_ugens, cur, slot>>
         /\ \A s \in Threads \ {t} : pc'[s] = pc[s]
         /\ pc[t] \in GCPcs /\ pc'[t] \in GCPcs
BY DEF PerformGC, GCEnter, GCScan, GCClear, GCFlag, GCCollect, Goto, TypeOK, Threads, Collectors,
       sharedVars, lifeVars, GCPcs

LEMMA NRTLeaves ==
  ASSUME TypeOK, NRTNext
  PROVE  /\ UNCHANGED <<ugens, active_julia_ugens, cur, slot>>
         /\ pc'["rt"] = pc["rt"] /\ pc'["gc"] = pc["gc"]
         /\ \/ UNCHANGED tableVars /\ pc["nrt"] # "compile" /\ pc'["nrt"] # "compile"
            \/ \E name \in Names, entry \in Entries : NRTCreate(name, entry)
            \/ \E io \in IOShapes, ok \in BOOLEAN : NRTCompile(io, ok)
            \/ \E entry \in Entries : NRTFree(entry)
<1>1. CASE PerformGC("nrt")
  BY <1>1, CollectorLeaves DEF Collectors, Threads, GCPcs
<1>2. CASE ~PerformGC("nrt")
  BY <1>2 DEF NRTNext, NRTContinue, NRTReceive, NRTTakeCompiler, NRTTakeCompilerGC, NRTTakeGC,
              NRTLoadRefused, NRTCreate, NRTCompile, NRTFree, NRTQuery, NRTUnlock,
              Goto, TypeOK, Threads, sharedVars, lifeVars
<1> QED
  BY <1>1, <1>2

LEMMA GCLeaves ==
  ASSUME TypeOK, GCNext
  PROVE  /\ UNCHANGED <<tableVars, ugens, active_julia_ugens, cur, slot>>
         /\ pc'["rt"] = pc["rt"] /\ pc'["nrt"] = pc["nrt"]
<1>1. CASE PerformGC("gc")
  BY <1>1, CollectorLeaves DEF Collectors, Threads
<1>2. CASE ~PerformGC("gc")
  BY <1>2 DEF GCNext, GCContinue, GCTake, GCCheck, GCUnlock, Goto, TypeOK, Threads, sharedVars,
              lifeVars
<1> QED
  BY <1>1, <1>2

-----------------------------------------------------------------------------
(* The table and what calc_check read in it *)

\* No step changes the table behind a command, and a command ends with it
\* settled.
LEMMA TableStays ==
  ASSUME IInv, TableSettled, [Next]_vars
  PROVE  TableSettled'
<1>1. CASE UNCHANGED tableVars /\ pc'["nrt"] = pc["nrt"]
  BY <1>1 DEF TableSettled, tableVars
<1>2. CASE RTNext \/ GCNext
  BY <1>1, <1>2, RTLeaves, GCLeaves DEF IInv, Rest
<1>3. CASE NRTNext
  <2>1. CASE UNCHANGED tableVars /\ pc["nrt"] # "compile" /\ pc'["nrt"] # "compile"
    BY <2>1 DEF TableSettled, tableVars
  <2>2. ASSUME NEW name \in Names, NEW entry \in Entries, NRTCreate(name, entry)
        PROVE  TableSettled'
    BY <2>2 DEF NRTCreate, TableSettled, Goto, IInv, Rest, TypeOK, Threads
  <2>3. ASSUME NEW io \in IOShapes, NEW ok \in BOOLEAN, NRTCompile(io, ok)
        PROVE  TableSettled'
    <3>1. pc'["nrt"] = "spin_gc" /\ settled' = objects'
      BY <2>3 DEF NRTCompile, Goto, IInv, Rest, TypeOK, Threads
    <3> QED
      BY <3>1 DEF TableSettled
  <2>4. ASSUME NEW entry \in Entries, NRTFree(entry)
        PROVE  TableSettled'
    <3>1. pc'["nrt"] = "unlock_compiler" /\ settled' = objects'
      BY <2>4 DEF NRTFree, Goto, IInv, Rest, TypeOK, Threads
    <3> QED
      BY <3>1 DEF TableSettled
  <2> QED
    BY <1>3, <2>1, <2>2, <2>3, <2>4, NRTLeaves DEF IInv, Rest
<1>4. CASE UNCHANGED vars
  BY <1>1, <1>4 DEF vars, tableVars
<1> QED
  BY <1>2, <1>3, <1>4 DEF Next

\* A thread that holds the compiler barrier reads the settled table.
LEMMA CompilerHeld ==
  ASSUME IInv, pc["rt"] \in Holding["compiler"]["rt"]
  PROVE  pc["nrt"] \notin {"create", "compile", "free"}
BY DEF IInv, BarriersOwned, Holds, Holding, Barriers, Threads

\* The table does not change between calc_check and calc_body.
LEMMA OutdatedStays ==
  ASSUME IInv, StillOutdated, [Next]_vars
  PROVE  StillOutdated'
<1> SUFFICES ASSUME pc'["rt"] \in {"calc_gc", "calc_body"}
             PROVE  ~UpToDate(cur)'
  BY DEF StillOutdated
<1>1. CASE RTNext
  <2>1. UNCHANGED tableVars
    BY <1>1, RTLeaves DEF IInv, Rest
  <2>2. \/ RTCheck /\ pc["rt"] = "calc_check"
        \/ RTTakeGC /\ pc["rt"] = "calc_gc"
        \/ RTSkipSlot
    BY <1>1 DEF RTNext, RTBegin, RTContinue, RTConstruct, RTCalc, RTDestroyInvalid,
                RTDestroyValid, RTCtorGCBusy, RTCtorCompilerBusy, RTBusyAgain, RTSilence,
                RTDtorBusy, RTTakeGC, RTTakeCompiler, RTInitUnlock, RTUnlock, RTDtorUnlock,
                RTCtorBody, RTBusyBody, RTInitialise, RTFollowFree, RTDtorBody,
                RTFollowRecompilation, RTCheck, RTPerformed, RTPost, RTUncount, RTFlag,
                Goto, IInv, Rest, TypeOK, Threads
  <2>3. CASE RTCheck /\ pc["rt"] = "calc_check"
    BY <2>3 DEF RTCheck, Goto, IInv, Rest, TypeOK, Threads, UpToDate, ObjectOf, sharedVars,
                tableVars, lifeVars
  <2>4. CASE RTTakeGC /\ pc["rt"] = "calc_gc"
    BY <2>4 DEF RTTakeGC, StillOutdated, UpToDate, ObjectOf, sharedVars, tableVars, lifeVars
  <2>5. CASE RTSkipSlot
    BY <2>5 DEF RTSkipSlot
  <2> QED
    BY <2>2, <2>3, <2>4, <2>5
<1>2. CASE NRTNext
  <2>1. pc["rt"] \in {"calc_gc", "calc_body"} /\ UNCHANGED <<ugens, cur>>
    BY <1>2, NRTLeaves DEF IInv, Rest
  <2>2. pc["nrt"] \notin {"create", "compile", "free"}
    BY <2>1, CompilerHeld DEF Holding
  <2>3. objects' = objects
    BY <1>2, <2>2, NRTLeaves DEF IInv, Rest, NRTCreate, NRTCompile, NRTFree, Goto, tableVars
  <2> QED
    BY <2>1, <2>3 DEF StillOutdated, UpToDate, ObjectOf
<1>3. CASE GCNext
  BY <1>3, GCLeaves DEF IInv, Rest, StillOutdated, UpToDate, ObjectOf, tableVars
<1>4. CASE UNCHANGED vars
  BY <1>4 DEF vars, StillOutdated, UpToDate, ObjectOf
<1> QED
  BY <1>1, <1>2, <1>3, <1>4 DEF Next
-----------------------------------------------------------------------------
(* Steps of rt *)

\* While the callback of u runs, or none does, no other UGen is in between.
LEMMA Alone ==
  ASSUME OneInCallback, NEW u \in UGens, u = cur \/ pc["rt"] = "idle"
  PROVE  Lifecycle!Undisturbed(u)
BY DEF OneInCallback, Lifecycle!Undisturbed, CtorPcs, ReleasedPcs

\* A reference in gc_array.
LEMMA PostedRef ==
  ASSUME TypeOK, NEW r \in Posted
  PROVE  r \in Refs /\ r[1] \in UGens
<1>1. r \in Refs
  BY DEF TypeOK, Posted
<1> QED
  BY <1>1 DEF Refs

\* Steps that JuliaUGen does not see: rt moves and no UGen changes.
LEMMA RTQuiet ==
  ASSUME IInv, Apart,
         \/ RTBusyAgain \/ RTSilence \/ RTTakeGC \/ RTTakeCompiler \/ RTInitUnlock
         \/ RTCheck \/ RTPerformed \/ RTUnlock \/ RTDtorUnlock
         \/ RTDtorBusy \/ RTSkipSlot \/ RTFlag
         \/ \E u \in UGens : RTCalc(u) \/ RTDestroyValid(u)
  PROVE  Apart' /\ Simulated
<1> USE DEF RTBusyAgain, RTSilence, RTTakeGC, RTTakeCompiler, RTInitUnlock, RTCheck, RTPerformed,
            RTUnlock, RTDtorUnlock, RTDtorBusy, RTSkipSlot, RTFlag, RTCalc, RTDestroyValid
<1>1. UNCHANGED <<tableVars, ugens, id_dict, gc_array, active_julia_ugens, scan>>
  BY DEF sharedVars, lifeVars, postVars, collectorVars
<1>2. pc'["nrt"] = pc["nrt"] /\ pc'["gc"] = pc["gc"]
  BY DEF Goto, IInv, Rest, TypeOK, Threads
<1>3. OneInCallback'
  BY <1>1 DEF Apart, OneInCallback, CtorPcs, ReleasedPcs, Goto, IInv, Rest, TypeOK, Threads,
              sharedVars
<1>4. Posted' = Posted
  BY <1>1 DEF Posted
<1>5. PostedAreDead' /\ UnrootedFirst'
  BY <1>1, <1>2, <1>4 DEF Apart, PostedAreDead, UnrootedFirst, Collectors
<1>6. UNCHANGED Lifecycle!vars
  BY <1>1, <1>4 DEF Lifecycle!vars, tableVars
<1> QED
  BY <1>3, <1>5, <1>6 DEF Apart, Simulated

\* What a step that changes the UGen u has to respect.
LEMMA RTChanges ==
  ASSUME IInv, Apart, RTNext, NEW u \in UGens, NEW g \in UGenState,
         u = cur \/ pc["rt"] = "idle",
         ugens' = [ugens EXCEPT ![u] = g],
         g.calc = "ctor" => u = cur' /\ pc'["rt"] \in CtorPcs,
         g.calc = "released" => u = cur' /\ pc'["rt"] \in ReleasedPcs,
         ugens[u].calc \in Dead => g.calc \in Dead,
         \A i \in Slots :
            \/ gc_array'[i] = gc_array[i]
            \/ gc_array[i] = NullRef /\ gc_array'[i][1] = u /\ g.calc \in Dead,
         \A r \in id_dict' \ id_dict : r[1] = u /\ ugens[u].calc \notin Dead
  PROVE  Apart'
<1>1. ugens'[u] = g /\ \A v \in UGens \ {u} : ugens'[v] = ugens[v]
  BY DEF IInv, Rest, TypeOK
<1>2. /\ UNCHANGED collectorVars
      /\ pc'["nrt"] = pc["nrt"] /\ pc'["gc"] = pc["gc"]
  BY RTLeaves DEF IInv, Rest
<1>3. OneInCallback'
  BY <1>1 DEF Apart, OneInCallback, CtorPcs, ReleasedPcs
<1>4. PostedAreDead'
  <2> SUFFICES ASSUME NEW r \in Posted'
               PROVE  ugens'[r[1]].calc \in Dead
    BY DEF PostedAreDead
  <2>1. PICK i \in Slots : r = gc_array'[i] /\ r # NullRef
    BY DEF Posted
  <2>2. CASE gc_array'[i] = gc_array[i]
    <3>1. r \in Posted
      BY <2>1, <2>2 DEF Posted
    <3>2. r[1] \in UGens /\ ugens[r[1]].calc \in Dead
      BY <3>1, PostedRef DEF IInv, Rest, Apart, PostedAreDead
    <3> QED
      BY <1>1, <3>2
  <2>3. CASE gc_array'[i][1] = u /\ g.calc \in Dead
    BY <1>1, <2>1, <2>3
  <2> QED
    BY <2>2, <2>3
<1>5. UnrootedFirst'
  <2> SUFFICES ASSUME NEW t \in Collectors, pc[t] = "gc_clear"
               PROVE  /\ gc_array'[scan] # NullRef
                      /\ gc_array'[scan] \in id_dict' => "remove_ref" \in Failures
    BY <1>2 DEF UnrootedFirst, Collectors, collectorVars
  <2>1. scan \in Slots
    BY DEF IInv, Rest, ScanInRange, Collectors
  <2>2. /\ gc_array[scan] # NullRef
        /\ gc_array[scan] \in id_dict => "remove_ref" \in Failures
    BY DEF Apart, UnrootedFirst
  <2>3. gc_array'[scan] = gc_array[scan]
    BY <2>1, <2>2
  <2>4. gc_array[scan] \in Posted
    BY <2>1, <2>2 DEF Posted
  <2>5. ugens[gc_array[scan][1]].calc \in Dead
    BY <2>4 DEF Apart, PostedAreDead
  <2> QED
    BY <2>2, <2>3, <2>5
<1> QED
  BY <1>3, <1>4, <1>5 DEF Apart

\* A constructor begins; the UGen defers.
LEMMA ConstructLinked ==
  ASSUME IInv, Apart, NEW u \in UGens, RTConstruct(u)
  PROVE  Apart' /\ Simulated
<1>1. PICK entry \in Entries, io \in IOShapes : ugens' = [ugens EXCEPT ![u] = Born(entry, io)]
  BY DEF RTConstruct
<1> DEFINE g == Born(entry, io)
<1>2. g \in UGenState /\ g.calc = "ctor"
  BY DEF Born, UGenState, Calcs
<1>3. /\ pc["rt"] = "idle"
      /\ ugens[u].calc = "unborn"
      /\ cur' = u
      /\ active_julia_ugens' = CountUp(active_julia_ugens)
      /\ UNCHANGED <<tableVars, id_dict, postVars>>
      /\ pc'["rt"] \in CtorPcs
  BY DEF RTConstruct, Goto, IInv, Rest, TypeOK, Threads, CtorPcs
<1>4. RTNext
  BY DEF RTNext, RTBegin
<1>5. Apart'
  <2> HIDE DEF g
  <2> QED
    BY <1>1, <1>2, <1>3, <1>4, RTChanges DEF Dead, postVars, g
<1>6. Lifecycle!BeginConstructor(u, entry, io)
  BY <1>1, <1>3, Alone, SameInitialisation, SameTable
     DEF Apart, Lifecycle!BeginConstructor, Lifecycle!nrtVars, Posted, tableVars, postVars
<1>7. Lifecycle!Next
  BY <1>6, SameTable DEF Lifecycle!Next
<1> QED
  BY <1>5, <1>7 DEF Simulated

\* Steps that set calc and nothing else.
LEMMA CalcLinked ==
  ASSUME IInv, Apart, RTNext, NEW u \in UGens, NEW calc \in Calcs,
         u = cur \/ pc["rt"] = "idle",
         ugens' = [ugens EXCEPT ![u] = [ugens[u] EXCEPT !.calc = calc]],
         \/ calc = "next_NRT_busy" /\ ugens[u].calc = "ctor"
         \/ calc = "gone"
         \/ calc = "released" /\ u = cur' /\ pc'["rt"] \in ReleasedPcs,
         \A i \in Slots :
            \/ gc_array'[i] = gc_array[i]
            \/ gc_array[i] = NullRef /\ gc_array'[i][1] = u /\ calc = "released",
         id_dict' = id_dict
  PROVE  Apart'
<1> DEFINE g == [ugens[u] EXCEPT !.calc = calc]
<1>1. g \in UGenState /\ g.calc = calc
  BY WithCalc DEF IInv, Rest, TypeOK
<1>2. ugens' = [ugens EXCEPT ![u] = g]
  OBVIOUS
<1> HIDE DEF g
<1>3. /\ g.calc # "ctor"
      /\ g.calc = "released" => u = cur' /\ pc'["rt"] \in ReleasedPcs
      /\ ugens[u].calc \in Dead => g.calc \in Dead
  BY <1>1 DEF Dead
<1>4. \A i \in Slots :
         \/ gc_array'[i] = gc_array[i]
         \/ gc_array[i] = NullRef /\ gc_array'[i][1] = u /\ g.calc \in Dead
  BY <1>1 DEF Dead
<1>5. id_dict' \ id_dict = {}
  OBVIOUS
<1> QED
  BY <1>1, <1>2, <1>3, <1>4, <1>5, RTChanges

LEMMA DeferLinked ==
  ASSUME IInv, Apart, RTCtorGCBusy \/ RTCtorCompilerBusy
  PROVE  Apart' /\ Simulated
<1>1. /\ ugens' = [ugens EXCEPT ![cur] = [ugens[cur] EXCEPT !.calc = "next_NRT_busy"]]
      /\ UNCHANGED <<tableVars, id_dict, postVars, active_julia_ugens, cur>>
      /\ cur \in UGens /\ ugens[cur].calc = "ctor"
  BY DEF RTCtorGCBusy, RTCtorCompilerBusy, Goto, IInv, Rest, TypeOK, CalcAtPc
<1>2. RTNext
  BY DEF RTNext, RTContinue
<1>3. Apart'
  BY <1>1, <1>2, CalcLinked DEF Calcs, postVars
<1>4. Lifecycle!DeferConstructor(cur)
  BY <1>1 DEF Lifecycle!DeferConstructor, Lifecycle!nrtVars, Posted, tableVars, postVars
<1>5. Lifecycle!Next
  BY <1>1, <1>4 DEF Lifecycle!Next
<1> QED
  BY <1>3, <1>5 DEF Simulated

\* Where a body of rt runs, the settled table is the table.
LEMMA BodyReadsSettled ==
  ASSUME IInv, TableSettled, pc["rt"] \in {"ctor_body", "busy_body", "calc_body"}
  PROVE  /\ settled = objects
         /\ Lifecycle!ObjectOf(cur) = ObjectOf(cur)
         /\ ugens[cur] \in UGenState
         /\ ObjectOf(cur) \in JuliaObject
<1>1. settled = objects
  BY CompilerHeld DEF Holding, TableSettled
<1>2. ugens[cur] \in UGenState
  BY DEF IInv, Rest, TypeOK
<1> QED
  BY <1>1, <1>2 DEF Lifecycle!ObjectOf, ObjectOf, IInv, Rest, TypeOK, UGenState

\* The initialisation, in the constructor or in next_NRT_busy.
LEMMA InitialiseLinked ==
  ASSUME IInv, Linked, NEW ok \in InitOutcomes, RTCtorBody(ok) \/ RTBusyBody(ok)
  PROVE  Apart' /\ Simulated
<1> DEFINE o == ObjectOf(cur)
           accepted == IF pc["rt"] = "ctor_body" THEN ConstructorAccepts(ugens[cur], o)
                       ELSE BusyAccepts(ugens[cur], o)
           g == Initialised(ugens[cur], o.perform_fun, accepted /\ ok)
<1>1. /\ pc["rt"] \in {"ctor_body", "busy_body"}
      /\ RTInitialise(accepted, ok)
  BY DEF RTCtorBody, RTBusyBody, Goto
<1>2. /\ settled = objects
      /\ Lifecycle!ObjectOf(cur) = o
      /\ ugens[cur] \in UGenState
      /\ o \in JuliaObject
  BY <1>1, BodyReadsSettled DEF Linked
<1>3. accepted /\ ok => o.perform_fun \in Funs
  BY <1>2, CompiledHasFun DEF ConstructorAccepts, BusyAccepts
<1>4. /\ cur \in UGens
      /\ ugens[cur].calc \in {"ctor", "next_NRT_busy"}
      /\ pc["rt"] = "ctor_body" => ugens[cur].calc = "ctor"
      /\ pc["rt"] = "busy_body" => ugens[cur].calc = "next_NRT_busy"
  BY <1>1 DEF IInv, Rest, TypeOK, CalcAtPc
<1>5. /\ ugens' = [ugens EXCEPT ![cur] = g]
      /\ id_dict' = IF accepted /\ ok THEN id_dict \cup {<<cur, o.perform_fun>>} ELSE id_dict
      /\ UNCHANGED <<tableVars, postVars, active_julia_ugens, cur>>
  BY <1>1 DEF RTInitialise
<1>6. g \in UGenState /\ g.calc \in {"next_julia_code", "output_silence"}
  <2>1. CASE accepted /\ ok
    BY <1>2, <1>3, <2>1, PlayingType DEF Initialised
  <2>2. CASE ~(accepted /\ ok)
    BY <1>2, <2>2, WithCalc DEF Initialised, Calcs
  <2> QED
    BY <2>1, <2>2
<1>7. RTNext
  BY DEF RTNext, RTContinue
<1>8. Apart'
  <2>1. \A r \in id_dict' \ id_dict : r[1] = cur /\ ugens[cur].calc \notin Dead
    BY <1>4, <1>5 DEF Dead
  <2>2. ugens[cur].calc \notin Dead
    BY <1>4 DEF Dead
  <2>3. gc_array' = gc_array
    BY <1>5 DEF postVars
  <2>4. ugens' = [ugens EXCEPT ![cur] = g]
    BY <1>5
  <2> HIDE DEF g, accepted, o
  <2> QED
    BY <1>4, <1>6, <1>7, <2>1, <2>2, <2>3, <2>4, RTChanges DEF Linked
<1>9. Lifecycle!Undisturbed(cur)
  BY <1>4, Alone DEF Linked, Apart
<1>10. Lifecycle!Initialise(cur, accepted, ok)
  <2>1. Lifecycle!Initialised(ugens[cur], o.perform_fun, accepted /\ ok) = g
    BY SameInitialisation
  <2>2. UNCHANGED <<Lifecycle!nrtVars, Posted, active_julia_ugens>>
    BY <1>5 DEF Lifecycle!nrtVars, Posted, tableVars, postVars
  <2> HIDE DEF g, accepted, o
  <2> QED
    BY <1>2, <1>5, <2>1, <2>2 DEF Lifecycle!Initialise
<1>11. Lifecycle!Constructor(cur, ok) \/ Lifecycle!NextNRTBusy(cur, ok)
  <2>1. CASE pc["rt"] = "ctor_body"
    <3>1. accepted = ConstructorAccepts(ugens[cur], o)
      BY <2>1
    <3> HIDE DEF accepted
    <3> QED
      BY <1>2, <1>4, <1>10, <2>1, <3>1, SameInitialisation DEF Lifecycle!Constructor
  <2>2. CASE pc["rt"] = "busy_body"
    <3>1. accepted = BusyAccepts(ugens[cur], o)
      BY <2>2
    <3> HIDE DEF accepted
    <3> QED
      BY <1>2, <1>4, <1>9, <1>10, <2>2, <3>1, SameInitialisation DEF Lifecycle!NextNRTBusy
  <2> QED
    BY <1>1, <2>1, <2>2
<1>12. Lifecycle!Next
  BY <1>4, <1>11, SameTable DEF Lifecycle!Next
<1> QED
  BY <1>8, <1>12 DEF Simulated

\* A removal takes at most one reference out of the dict and adds none.
LEMMA NoneAdded ==
  ASSUME NEW u, NEW g, NEW dict, NEW outcome
  PROVE  DictWithout(u, g, dict, outcome) \ dict = {}
BY DEF DictWithout

LEMMA FollowFreeLinked ==
  ASSUME IInv, Linked, NEW outcome \in RemovalOutcomes, RTFollowFree(outcome)
  PROVE  Apart' /\ Simulated
<1> DEFINE g == Freed(cur, ugens[cur], id_dict)
<1>1. /\ pc["rt"] = "calc_body"
      /\ ~ObjectOf(cur).compiled
      /\ UNCHANGED <<tableVars, postVars, active_julia_ugens, cur>>
  BY DEF RTFollowFree, Goto
<1>2. /\ settled = objects
      /\ Lifecycle!ObjectOf(cur) = ObjectOf(cur)
      /\ ugens[cur] \in UGenState
  BY <1>1, BodyReadsSettled DEF Linked
<1>3. /\ cur \in UGens
      /\ ugens[cur].calc = "next_julia_code"
      /\ ugens[cur].fun # ObjectOf(cur).perform_fun
  BY <1>1 DEF IInv, Rest, TypeOK, CalcAtPc, Linked, StillOutdated, UpToDate
<1>4. RTNext
  BY DEF RTNext, RTContinue
<1>5. CASE ugens[cur].valid
  <2>1. /\ ugens' = [ugens EXCEPT ![cur] = g]
        /\ id_dict' = DictWithout(cur, ugens[cur], id_dict, outcome)
    BY <1>5 DEF RTFollowFree
  <2>2. g \in UGenState /\ g.calc = "output_silence"
    BY <1>2, FreedIsSilent
  <2>3. Apart'
    <3>1. id_dict' \ id_dict = {} /\ gc_array' = gc_array
      BY <1>1, <2>1, NoneAdded DEF postVars
    <3> HIDE DEF g
    <3> QED
      BY <1>3, <1>4, <2>1, <2>2, <3>1, RTChanges DEF Linked, Dead
  <2>4. Lifecycle!FollowFree(cur, outcome)
    <3>1. Lifecycle!Undisturbed(cur)
      BY <1>3, Alone DEF Linked, Apart
    <3>2. Lifecycle!Outdated(cur)
      BY <1>2, <1>3 DEF Lifecycle!Outdated
    <3>3. UNCHANGED <<settled, compiles, Posted, active_julia_ugens>>
      BY <1>1 DEF tableVars, postVars, Posted
    <3> QED
      BY <1>1, <1>2, <1>5, <2>1, <3>1, <3>2, <3>3, SameBodies
         DEF Lifecycle!FollowFree, Lifecycle!nrtVars
  <2>5. Lifecycle!Next
    BY <1>3, <2>4, SameTable DEF Lifecycle!Next
  <2> QED
    BY <2>3, <2>5 DEF Simulated
<1>6. CASE ~ugens[cur].valid
  <2>1. UNCHANGED <<tableVars, ugens, id_dict, gc_array, active_julia_ugens, cur>>
    BY <1>1, <1>6 DEF RTFollowFree, lifeVars, postVars
  <2>2. /\ pc'["rt"] = "unlock_gc_compiler"
        /\ pc'["nrt"] = pc["nrt"] /\ pc'["gc"] = pc["gc"]
        /\ UNCHANGED scan
    BY DEF RTFollowFree, Goto, IInv, Rest, TypeOK, Threads, collectorVars
  <2>3. Posted' = Posted
    BY <2>1 DEF Posted
  <2>4. Apart'
    BY <1>1, <2>1, <2>2, <2>3
       DEF Linked, Apart, OneInCallback, CtorPcs, ReleasedPcs, PostedAreDead, UnrootedFirst,
           Collectors
  <2>5. UNCHANGED Lifecycle!vars
    BY <2>1, <2>3 DEF Lifecycle!vars, tableVars
  <2> QED
    BY <2>4, <2>5 DEF Simulated
<1> QED
  BY <1>5, <1>6

LEMMA FollowRecompilationLinked ==
  ASSUME IInv, Linked, NEW outcome \in ReallocateOutcomes, RTFollowRecompilation(outcome)
  PROVE  Apart' /\ Simulated
<1> DEFINE o == ObjectOf(cur)
           g == Reallocated(cur, ugens[cur], id_dict, o, outcome)
           d == DictReallocated(cur, ugens[cur], id_dict, o, outcome)
<1>1. /\ pc["rt"] = "calc_body"
      /\ o.compiled
      /\ ugens' = [ugens EXCEPT ![cur] = g]
      /\ id_dict' = d
      /\ UNCHANGED <<tableVars, postVars, active_julia_ugens, cur>>
  BY DEF RTFollowRecompilation, Goto
<1>2. /\ settled = objects
      /\ Lifecycle!ObjectOf(cur) = o
      /\ ugens[cur] \in UGenState
      /\ o \in JuliaObject
  BY <1>1, BodyReadsSettled DEF Linked
<1>3. /\ cur \in UGens
      /\ ugens[cur].calc = "next_julia_code"
      /\ ugens[cur].fun # o.perform_fun
  BY <1>1 DEF IInv, Rest, TypeOK, CalcAtPc, Linked, StillOutdated, UpToDate
<1>4. RTNext
  BY DEF RTNext, RTContinue
<1> HIDE DEF o
<1>5. g \in UGenState /\ g.calc = "next_julia_code"
  BY <1>1, <1>2, <1>3, ReallocatedKeeps
<1>6. Apart'
  <2>1. \A r \in d \ id_dict : r[1] = cur
    BY NoneAdded DEF DictReallocated
  <2>2. gc_array' = gc_array
    BY <1>1 DEF postVars
  <2> HIDE DEF g, d
  <2> QED
    BY <1>1, <1>3, <1>4, <1>5, <2>1, <2>2, RTChanges DEF Linked, Dead
<1>7. Lifecycle!FollowRecompilation(cur, outcome)
  <2>1. Lifecycle!Undisturbed(cur)
    BY <1>3, Alone DEF Linked, Apart
  <2>2. Lifecycle!Outdated(cur)
    BY <1>2, <1>3 DEF Lifecycle!Outdated
  <2>3. UNCHANGED <<settled, compiles, Posted, active_julia_ugens>>
    BY <1>1 DEF tableVars, postVars, Posted
  <2>4. /\ Lifecycle!Reallocated(cur, ugens[cur], id_dict, o, outcome) = g
        /\ Lifecycle!DictReallocated(cur, ugens[cur], id_dict, o, outcome) = d
    BY SameReallocation
  <2> HIDE DEF g, d
  <2> QED
    BY <1>1, <1>2, <2>1, <2>2, <2>3, <2>4
       DEF Lifecycle!FollowRecompilation, Lifecycle!nrtVars
<1>8. Lifecycle!Next
  BY <1>3, <1>7, SameTable DEF Lifecycle!Next
<1> QED
  BY <1>6, <1>8 DEF Simulated

LEMMA DestroyInvalidLinked ==
  ASSUME IInv, Apart, NEW u \in UGens, RTDestroyInvalid(u)
  PROVE  Apart' /\ Simulated
<1>1. /\ pc["rt"] = "idle"
      /\ Destructible(u) /\ ~ugens[u].valid
      /\ ugens' = [ugens EXCEPT ![u] = [ugens[u] EXCEPT !.calc = "gone"]]
      /\ active_julia_ugens' = CountDown(active_julia_ugens)
      /\ UNCHANGED <<tableVars, id_dict, postVars>>
  BY DEF RTDestroyInvalid, Goto
<1>2. RTNext
  BY DEF RTNext, RTBegin
<1>3. Apart'
  BY <1>1, <1>2, CalcLinked DEF Calcs, postVars
<1>4. Lifecycle!DestroyInvalid(u)
  BY <1>1, Alone, SameTable
     DEF Apart, Lifecycle!DestroyInvalid, Lifecycle!Destructible, Destructible,
         Lifecycle!nrtVars, Posted, tableVars, postVars
<1>5. Lifecycle!Next
  BY <1>4 DEF Lifecycle!Next
<1> QED
  BY <1>3, <1>5 DEF Simulated

LEMMA DtorBodyLinked ==
  ASSUME IInv, Apart, NEW outcome \in RemovalOutcomes, RTDtorBody(outcome)
  PROVE  Apart' /\ Simulated
<1> DEFINE d == Destructed(cur, ugens[cur], id_dict)
           g == [d EXCEPT !.calc = "released"]
<1>1. /\ pc["rt"] = "dtor_body"
      /\ pc'["rt"] = "dtor_unlock_gc"
      /\ ugens' = [ugens EXCEPT ![cur] = g]
      /\ id_dict' = DictWithout(cur, ugens[cur], id_dict, outcome)
      /\ UNCHANGED <<tableVars, postVars, active_julia_ugens, cur>>
  BY DEF RTDtorBody, Goto, IInv, Rest, TypeOK, Threads
<1>2. /\ cur \in UGens
      /\ ugens[cur] \in UGenState
      /\ Destructible(cur) /\ ugens[cur].valid
  BY <1>1 DEF IInv, Rest, TypeOK, CalcAtPc
<1>3. d \in UGenState
  BY <1>2, DestructedKeeps
<1>4. RTNext
  BY DEF RTNext, RTContinue
<1>5. Lifecycle!Destroy(cur, outcome)
  <2>1. Lifecycle!Undisturbed(cur)
    BY <1>2, Alone DEF Apart
  <2>2. Lifecycle!Destructible(cur)
    BY <1>2, <2>1 DEF Destructible, Lifecycle!Destructible
  <2>3. UNCHANGED <<settled, compiles, Posted, active_julia_ugens>>
    BY <1>1 DEF tableVars, postVars, Posted
  <2>4. /\ Lifecycle!Destructed(cur, ugens[cur], id_dict) = d
        /\ Lifecycle!DictWithout(cur, ugens[cur], id_dict, outcome) = id_dict'
    BY <1>1, SameBodies
  <2> HIDE DEF d
  <2> QED
    BY <1>1, <1>2, <2>2, <2>3, <2>4 DEF Lifecycle!Destroy, Lifecycle!nrtVars
<1> HIDE DEF d
<1>6. g \in UGenState /\ g.calc = "released"
  BY <1>3, WithCalc DEF Calcs
<1>7. Apart'
  <2>1. id_dict' \ id_dict = {} /\ gc_array' = gc_array
    BY <1>1, NoneAdded DEF postVars
  <2> HIDE DEF g
  <2> QED
    BY <1>1, <1>2, <1>4, <1>6, <2>1, RTChanges DEF Dead, ReleasedPcs
<1>8. Lifecycle!Next
  BY <1>2, <1>5, SameTable DEF Lifecycle!Next
<1> QED
  BY <1>7, <1>8 DEF Simulated

LEMMA PostLinked ==
  ASSUME IInv, Apart, RTPost
  PROVE  Apart' /\ Simulated
<1> DEFINE r == <<cur, ugens[cur].ref>>
           kept == slot <= GCArraySize
<1>1. /\ pc["rt"] \in {"post", "locked_post"}
      /\ pc'["rt"] \in {"post_uncount", "locked_post_uncount"}
      /\ kept => gc_array[slot] = NullRef
      /\ gc_array' = IF kept THEN [gc_array EXCEPT ![slot] = r] ELSE gc_array
      /\ ugens' = [ugens EXCEPT ![cur] = [ugens[cur] EXCEPT !.calc = "released"]]
      /\ UNCHANGED <<tableVars, id_dict, active_julia_ugens, cur>>
  BY DEF RTPost, Goto, IInv, Rest, TypeOK, Threads
<1>2. /\ cur \in UGens
      /\ Destructible(cur) /\ ugens[cur].valid
  BY <1>1 DEF IInv, Rest, TypeOK, CalcAtPc
<1>3. kept => slot \in Slots
  BY GCArraySizeAssumption DEF IInv, Rest, TypeOK, Slots
<1>4. gc_array \in [Slots -> Refs \cup {NullRef}]
  BY DEF IInv, Rest, TypeOK
<1>5. r # NullRef /\ r[1] = cur
  BY DEF NullRef
<1>6. Posted' = IF kept THEN Posted \cup {r} ELSE Posted
  <2>1. CASE kept
    <3> HIDE DEF r
    <3> QED
      BY <1>1, <1>3, <1>4, <1>5, <2>1 DEF Posted
  <2>2. CASE ~kept
    BY <1>1, <2>2 DEF Posted
  <2> QED
    BY <2>1, <2>2
<1>7. RTNext
  BY DEF RTNext, RTContinue
<1>8. Apart'
  <2>1. \A i \in Slots :
           \/ gc_array'[i] = gc_array[i]
           \/ gc_array[i] = NullRef /\ gc_array'[i][1] = cur
    <3> HIDE DEF r
    <3> QED
      BY <1>1, <1>4, <1>5
  <2>2. /\ ugens' = [ugens EXCEPT ![cur] = [ugens[cur] EXCEPT !.calc = "released"]]
        /\ cur \in UGens /\ cur' = cur /\ id_dict' = id_dict
        /\ pc'["rt"] \in ReleasedPcs
    BY <1>1, <1>2 DEF ReleasedPcs
  <2>3. "released" \in Calcs
    BY DEF Calcs
  <2> HIDE DEF r, kept
  <2> QED
    BY <1>7, <2>1, <2>2, <2>3, CalcLinked
<1>9. Lifecycle!PostRef(cur, kept)
  <2>1. Lifecycle!Undisturbed(cur)
    BY <1>2, Alone DEF Apart
  <2>2. Lifecycle!Destructible(cur)
    BY <1>2, <2>1 DEF Destructible, Lifecycle!Destructible
  <2> HIDE DEF kept
  <2> QED
    BY <1>1, <1>2, <1>6, <2>2 DEF Lifecycle!PostRef, Lifecycle!nrtVars, tableVars
<1>10. kept \in BOOLEAN
  OBVIOUS
<1>11. Lifecycle!Next
  <2> HIDE DEF kept
  <2> QED
    BY <1>2, <1>9, <1>10 DEF Lifecycle!Next
<1> QED
  BY <1>8, <1>11 DEF Simulated

LEMMA UncountLinked ==
  ASSUME IInv, Apart, RTUncount
  PROVE  Apart' /\ Simulated
<1>1. /\ ugens' = [ugens EXCEPT ![cur] = [ugens[cur] EXCEPT !.calc = "gone"]]
      /\ active_julia_ugens' = CountDown(active_julia_ugens)
      /\ UNCHANGED <<tableVars, id_dict, postVars, cur>>
      /\ cur \in UGens /\ ugens[cur].calc = "released"
  BY DEF RTUncount, Goto, IInv, Rest, TypeOK, CalcAtPc
<1>2. RTNext
  BY DEF RTNext, RTContinue
<1>3. Apart'
  BY <1>1, <1>2, CalcLinked DEF Calcs, postVars
<1>4. Lifecycle!Uncount(cur)
  BY <1>1, SameTable DEF Lifecycle!Uncount, Lifecycle!nrtVars, Posted, tableVars, postVars
<1>5. Lifecycle!Next
  BY <1>1, <1>4 DEF Lifecycle!Next
<1> QED
  BY <1>3, <1>5 DEF Simulated

\* Every step of rt.
LEMMA RTLinked ==
  ASSUME IInv, Linked, RTNext
  PROVE  Apart' /\ Simulated
<1>1. Apart
  BY DEF Linked
<1>2. CASE \E u \in UGens : RTBegin(u)
  BY <1>1, <1>2, RTQuiet, ConstructLinked, DestroyInvalidLinked DEF RTBegin
<1>3. CASE RTContinue
  <2>1. CASE \/ RTBusyAgain \/ RTSilence \/ RTTakeGC \/ RTTakeCompiler \/ RTInitUnlock
             \/ RTCheck \/ RTPerformed \/ RTUnlock \/ RTDtorUnlock
             \/ RTDtorBusy \/ RTSkipSlot \/ RTFlag
    BY <1>1, <2>1, RTQuiet
  <2>2. CASE RTCtorGCBusy \/ RTCtorCompilerBusy \/ RTPost \/ RTUncount
    BY <1>1, <2>2, DeferLinked, PostLinked, UncountLinked
  <2>3. CASE \E ok \in InitOutcomes : RTCtorBody(ok) \/ RTBusyBody(ok)
    BY <2>3, InitialiseLinked
  <2>4. CASE \E outcome \in RemovalOutcomes : RTFollowFree(outcome) \/ RTDtorBody(outcome)
    BY <1>1, <2>4, FollowFreeLinked, DtorBodyLinked
  <2>5. CASE \E outcome \in ReallocateOutcomes : RTFollowRecompilation(outcome)
    BY <2>5, FollowRecompilationLinked
  <2> QED
    BY <1>3, <2>1, <2>2, <2>3, <2>4, <2>5 DEF RTContinue
<1> QED
  BY <1>2, <1>3 DEF RTNext

-----------------------------------------------------------------------------
(* Steps of the collector and of the commands *)

\* perform_gc takes posted references out of the dict, then out of gc_array.
LEMMA CollectorLinked ==
  ASSUME IInv, Linked, NEW t \in Collectors, PerformGC(t)
  PROVE  Apart' /\ Simulated
<1>1. /\ UNCHANGED <<tableVars, ugens, active_julia_ugens, cur>>
      /\ pc'["rt"] = pc["rt"]
      /\ \A s \in Collectors \ {t} : pc'[s] = pc[s]
  BY CollectorLeaves DEF IInv, Rest, Collectors, Threads
<1>2. \A s \in Collectors \ {t} : pc'[s] # "gc_clear"
  <2>1. \A s \in Collectors \ {t} : pc[s] \notin GCPcs
    BY CollectorLeaves
       DEF GCPcs, IInv, Rest, BarriersOwned, Barriers, Threads, Holds, Holding, Collectors
  <2> QED
    BY <1>1, <2>1 DEF GCPcs
<1>3. OneInCallback'
  BY <1>1 DEF Linked, Apart, OneInCallback
<1>4. gc_array \in [Slots -> Refs \cup {NullRef}] /\ pc \in [Threads -> RTPcs \cup NRTPcs \cup GCThreadPcs]
  BY DEF IInv, Rest, TypeOK
<1>5. CASE GCEnter(t) \/ GCFlag(t) \/ GCCollect(t)
  <2>1. UNCHANGED <<id_dict, gc_array>> /\ pc'[t] # "gc_clear"
    BY <1>4, <1>5 DEF GCEnter, GCFlag, GCCollect, Goto, lifeVars, postVars, sharedVars,
                      Collectors, Threads
  <2>2. Posted' = Posted
    BY <2>1 DEF Posted
  <2>3. PostedAreDead' /\ UnrootedFirst'
    BY <1>1, <1>2, <2>1, <2>2 DEF Linked, Apart, PostedAreDead, UnrootedFirst
  <2>4. UNCHANGED Lifecycle!vars
    BY <1>1, <2>1, <2>2 DEF Lifecycle!vars, tableVars
  <2> QED
    BY <1>3, <2>3, <2>4 DEF Apart, Simulated
<1>6. ASSUME NEW outcome \in RemovalOutcomes, GCScan(t, outcome)
      PROVE  Apart' /\ Simulated
  <2>1. gc_array' = gc_array /\ Posted' = Posted
    BY <1>6 DEF GCScan, postVars, Posted
  <2>2. PostedAreDead'
    BY <1>1, <2>1 DEF Linked, Apart, PostedAreDead
  <2>3. CASE id_dict' = id_dict /\ pc'[t] # "gc_clear"
    <3>1. UnrootedFirst'
      BY <1>2, <2>3 DEF UnrootedFirst
    <3>2. UNCHANGED Lifecycle!vars
      BY <1>1, <2>1, <2>3 DEF Lifecycle!vars, tableVars
    <3> QED
      BY <1>3, <2>2, <3>1, <3>2 DEF Apart, Simulated
  <2>4. CASE /\ scan \in Slots
             /\ gc_array[scan] # NullRef
             /\ id_dict' = id_dict \ {gc_array[scan]}
             /\ scan' = scan
    <3>1. UnrootedFirst'
      BY <1>2, <2>1, <2>4 DEF UnrootedFirst
    <3>2. gc_array[scan] \in Posted
      BY <2>4 DEF Posted
    <3>3. gc_array[scan] \in Lifecycle!Refs
      BY <3>2, PostedRef, SameTable DEF IInv, Rest
    <3>4. UNCHANGED <<settled, compiles, ugens, Posted, active_julia_ugens>>
      BY <1>1, <2>1 DEF tableVars
    <3>5. CASE gc_array[scan] \in id_dict
      <4>1. Lifecycle!UnrootPosted(gc_array[scan])
        BY <2>4, <3>2, <3>4, <3>5 DEF Lifecycle!UnrootPosted, Lifecycle!nrtVars
      <4>2. Lifecycle!Next
        BY <3>3, <4>1 DEF Lifecycle!Next
      <4> QED
        BY <1>3, <2>2, <3>1, <4>2 DEF Apart, Simulated
    <3>6. CASE gc_array[scan] \notin id_dict
      <4>1. id_dict' = id_dict
        BY <2>4, <3>6
      <4>2. UNCHANGED Lifecycle!vars
        BY <3>4, <4>1 DEF Lifecycle!vars
      <4> QED
        BY <1>3, <2>2, <3>1, <4>2 DEF Apart, Simulated
    <3> QED
      BY <3>5, <3>6
  <2>5. CASE /\ scan \in Slots
             /\ gc_array[scan] # NullRef
             /\ outcome = "remove_ref"
             /\ id_dict' = id_dict
             /\ scan' = scan
    <3>1. "remove_ref" \in Failures
      BY <1>6, <2>5 DEF RemovalOutcomes
    <3>2. UnrootedFirst'
      BY <1>2, <2>1, <2>5, <3>1 DEF UnrootedFirst
    <3>3. UNCHANGED Lifecycle!vars
      BY <1>1, <2>1, <2>5 DEF Lifecycle!vars, tableVars
    <3> QED
      BY <1>3, <2>2, <3>2, <3>3 DEF Apart, Simulated
  <2>6. scan <= GCArraySize => scan \in Slots
    BY GCArraySizeAssumption DEF IInv, Rest, TypeOK, Slots
  <2> QED
    BY <1>4, <1>6, <2>3, <2>4, <2>5, <2>6 DEF GCScan, Goto, Collectors, Threads
<1>7. CASE GCClear(t)
  <2> DEFINE r == gc_array[scan]
  <2>1. /\ pc[t] = "gc_clear" /\ pc'[t] # "gc_clear"
        /\ gc_array' = [gc_array EXCEPT ![scan] = NullRef]
        /\ id_dict' = id_dict
    BY <1>4, <1>7 DEF GCClear, Goto, Collectors, Threads, lifeVars
  <2>2. scan \in Slots
    BY <2>1 DEF IInv, Rest, ScanInRange, Collectors
  <2>3. /\ r # NullRef /\ r \in Posted
        /\ r \in id_dict => "remove_ref" \in Failures
    BY <2>1, <2>2 DEF Linked, Apart, UnrootedFirst, Posted
  <2>4. Posted' = Posted \/ Posted' = Posted \ {r}
    <3>1. Posted' \subseteq Posted
      BY <1>4, <2>1, <2>2 DEF Posted
    <3>2. Posted \ {r} \subseteq Posted'
      BY <1>4, <2>1, <2>2 DEF Posted
    <3> QED
      BY <3>1, <3>2
  <2>5. PostedAreDead'
    BY <1>1, <2>4 DEF Linked, Apart, PostedAreDead
  <2>6. UnrootedFirst'
    BY <1>2, <2>1 DEF UnrootedFirst
  <2>7. UNCHANGED <<settled, compiles, ugens, id_dict, active_julia_ugens>>
    BY <1>1, <2>1 DEF tableVars
  <2>8. CASE Posted' = Posted
    <3>1. UNCHANGED Lifecycle!vars
      BY <2>7, <2>8 DEF Lifecycle!vars
    <3> QED
      BY <1>3, <2>5, <2>6, <3>1 DEF Apart, Simulated
  <2>9. CASE Posted' = Posted \ {r}
    <3> HIDE DEF r
    <3>1. r \in Lifecycle!Refs
      BY <2>3, PostedRef, SameTable DEF IInv, Rest
    <3>2. Lifecycle!ClearPosted(r)
      BY <2>3, <2>7, <2>9 DEF Lifecycle!ClearPosted, Lifecycle!nrtVars
    <3>3. Lifecycle!Next
      BY <3>1, <3>2 DEF Lifecycle!Next
    <3> QED
      BY <1>3, <2>5, <2>6, <3>3 DEF Apart, Simulated
  <2> QED
    BY <2>4, <2>8, <2>9
<1> QED
  BY <1>5, <1>6, <1>7 DEF PerformGC

\* A step that changes neither the UGens nor their references, and brings no
\* collector to where it clears a slot.
LEMMA LeavesApart ==
  ASSUME Apart, UNCHANGED <<ugens, id_dict, gc_array, cur>>, pc'["rt"] = pc["rt"],
         \A t \in Collectors :
            pc'[t] = "gc_clear" => pc[t] = "gc_clear" /\ scan' = scan
  PROVE  Apart' /\ Posted' = Posted
<1>1. Posted' = Posted
  BY DEF Posted
<1> QED
  BY <1>1 DEF Apart, OneInCallback, PostedAreDead, UnrootedFirst

\* The commands: only their ends are seen.
LEMMA NRTLinked ==
  ASSUME IInv, Linked, NRTNext
  PROVE  Apart' /\ Simulated
<1>1. CASE PerformGC("nrt")
  BY <1>1, CollectorLinked DEF Collectors
<1>2. CASE ~PerformGC("nrt")
  <2> USE DEF NRTNext, NRTContinue, NRTReceive, NRTTakeCompiler, NRTTakeCompilerGC, NRTTakeGC,
              NRTLoadRefused, NRTCreate, NRTCompile, NRTFree, NRTQuery, NRTUnlock
  <2>1. UNCHANGED <<ugens, id_dict, gc_array, cur, active_julia_ugens, scan>>
    BY <1>2 DEF sharedVars, lifeVars, postVars, collectorVars
  <2>2. /\ pc'["rt"] = pc["rt"] /\ pc'["gc"] = pc["gc"]
        /\ pc'["nrt"] # "gc_clear"
    BY <1>2 DEF Goto, IInv, Rest, TypeOK, Threads
  <2>3. Apart' /\ Posted' = Posted
    BY <2>1, <2>2, LeavesApart DEF Linked, Collectors
  <2> USE DEF TableSettled, Linked
  <2>4. CASE UNCHANGED tableVars
    BY <2>1, <2>3, <2>4 DEF Simulated, Lifecycle!vars, tableVars
  <2>5. ASSUME NEW name \in Names, NEW entry \in Entries, NRTCreate(name, entry)
        PROVE  Simulated
    BY <2>1, <2>3, <2>5 DEF Simulated, Lifecycle!vars
  <2>6. ASSUME NEW entry \in Entries, NRTFree(entry)
        PROVE  Simulated
    <3>1. settled' = [settled EXCEPT ![entry] = NoObject] /\ compiles' = compiles
      BY <2>6 DEF Goto
    <3>2. Lifecycle!Unload(entry)
      BY <2>1, <2>3, <3>1, SameTable DEF Lifecycle!Unload
    <3> QED
      BY <3>2, SameTable DEF Simulated, Lifecycle!Next
  <2>7. ASSUME NEW io \in IOShapes, NEW ok \in BOOLEAN, NRTCompile(io, ok)
        PROVE  Simulated
    <3> DEFINE entry == loading.entry
               name == loading.name
    <3>1. pc["nrt"] = "compile" /\ settled' = objects'
      BY <2>7 DEF Goto
    <3>2. entry \in Entries /\ name \in Names
      BY <3>1 DEF IInv, Rest, TypeOK, LoadingNamed
    <3>3. objects = [settled EXCEPT ![entry] = NoObject]
      BY <3>1
    <3>4. settled \in [Entries -> JuliaObject]
      BY DEF IInv, Rest, TypeOK
    <3> HIDE DEF entry, name
    <3>5. CASE ok
      <4> DEFINE new == CompiledObject(name, compiles + 1, io)
      <4>1. /\ compiles < MaxCompiles
            /\ compiles' = compiles + 1
            /\ objects' = [objects EXCEPT ![entry] = new]
        BY <2>7, <3>5 DEF entry, name
      <4> HIDE DEF new
      <4>2. settled' = [settled EXCEPT ![entry] = new]
        BY <3>1, <3>2, <3>3, <3>4, <4>1
      <4>3. new = Lifecycle!CompiledObject(name, compiles + 1, io)
        BY SameTable DEF new
      <4>4. Lifecycle!Load(entry, name, io)
        BY <2>1, <2>3, <4>1, <4>2, <4>3 DEF Lifecycle!Load
      <4> QED
        BY <3>2, <4>4, SameTable DEF Simulated, Lifecycle!Next
    <3>6. CASE ~ok
      <4>1. settled' = [settled EXCEPT ![entry] = NoObject] /\ compiles' = compiles
        BY <2>7, <3>1, <3>3, <3>6
      <4>2. Lifecycle!Unload(entry)
        BY <2>1, <2>3, <4>1, SameTable DEF Lifecycle!Unload
      <4> QED
        BY <3>2, <4>2, SameTable DEF Simulated, Lifecycle!Next
    <3> QED
      BY <3>5, <3>6
  <2>8. Simulated
    BY <2>4, <2>5, <2>6, <2>7, NRTLeaves DEF IInv, Rest
  <2> QED
    BY <2>3, <2>8
<1> QED
  BY <1>1, <1>2

LEMMA GCLinked ==
  ASSUME IInv, Linked, GCNext
  PROVE  Apart' /\ Simulated
<1>1. CASE PerformGC("gc")
  BY <1>1, CollectorLinked DEF Collectors
<1>2. CASE ~PerformGC("gc")
  <2> USE DEF GCNext, GCContinue, GCTake, GCCheck, GCUnlock
  <2>1. UNCHANGED <<tableVars, ugens, id_dict, gc_array, cur, active_julia_ugens, scan>>
    BY <1>2 DEF sharedVars, lifeVars, postVars, collectorVars
  <2>2. /\ pc'["rt"] = pc["rt"] /\ pc'["nrt"] = pc["nrt"]
        /\ pc'["gc"] # "gc_clear"
    BY <1>2 DEF Goto, IInv, Rest, TypeOK, Threads
  <2>3. Apart' /\ Posted' = Posted
    BY <2>1, <2>2, LeavesApart DEF Linked, Collectors
  <2>4. Simulated
    BY <2>1, <2>3 DEF Simulated, Lifecycle!vars, tableVars
  <2> QED
    BY <2>3, <2>4
<1> QED
  BY <1>1, <1>2

-----------------------------------------------------------------------------
(* The refinement *)

LEMMA InitLinked ==
  ASSUME Init
  PROVE  Linked /\ Lifecycle!Init
<1>1. Posted = {}
  BY DEF Init, Posted
<1>2. Unborn.calc = "unborn"
  BY DEF Unborn, Born
<1>3. pc["rt"] = "idle" /\ pc["nrt"] = "idle" /\ pc["gc"] = "sleep"
  BY DEF Init, Threads
<1>4. Linked
  BY <1>1, <1>2, <1>3 DEF Init, Linked, TableSettled, StillOutdated, Apart, OneInCallback,
                          PostedAreDead, UnrootedFirst, Collectors
<1>5. Lifecycle!Init
  BY <1>1, SameTable DEF Init, Lifecycle!Init
<1> QED
  BY <1>4, <1>5

\* Each step preserves what links the two, and is a step of JuliaUGen or none.
LEMMA StepLinked ==
  ASSUME IInv, Linked, [Next]_vars
  PROVE  Linked' /\ Simulated
<1>1. TableSettled' /\ StillOutdated'
  BY TableStays, OutdatedStays DEF Linked
<1>2. CASE UNCHANGED vars
  <2>1. Apart' /\ Posted' = Posted
    BY <1>2, LeavesApart DEF vars, Linked
  <2>2. UNCHANGED Lifecycle!vars
    BY <1>2, <2>1 DEF vars, Lifecycle!vars
  <2> QED
    BY <1>1, <2>1, <2>2 DEF Linked, Simulated
<1>3. CASE Next
  BY <1>1, <1>3, RTLinked, NRTLinked, GCLinked DEF Next, Linked
<1> QED
  BY <1>2, <1>3

\* Whatever the scheduler does with the three threads, constructors, calc
\* functions, destructors, commands and collections take effect as if each
\* were one step, as JuliaUGen describes.
THEOREM LifecycleRefinement == Spec => LifecycleSpec
<1>1. Init => Linked /\ Lifecycle!Init
  BY InitLinked
<1>2. IInv /\ Linked /\ [Next]_vars => Linked' /\ [Lifecycle!Next]_(Lifecycle!vars)
  BY StepLinked DEF Simulated
<1> QED
  BY <1>1, <1>2, Invariance, PTL DEF Spec, LifecycleSpec, Lifecycle!Spec

-----------------------------------------------------------------------------
(***************************************************************************)
(* What the dict holds.  A reference gets lost when a call into Julia that *)
(* should remove it fails, and when a destructor finds no empty slot in    *)
(* gc_array; where neither happens, every reference in the dict is         *)
(* accounted for.  There is an empty slot if there are no more UGens than  *)
(* slots: a collector may have cleared the slots that the loop of a        *)
(* destructor has passed, so what counts is not what they hold, but whose  *)
(* references they held.                                                   *)
(***************************************************************************)

\* No UGen has two references in gc_array.
SlotsApart ==
    \A i, j \in Slots :
        gc_array[i] # NullRef /\ gc_array[j] # NullRef /\ gc_array[i][1] = gc_array[j][1] => i = j

\* The slots that the loop of a destructor has passed held the references of as
\* many other UGens, none of which has another further up.
PassedByOthers ==
    pc["rt"] \in {"post", "locked_post"} =>
        \E P \in SUBSET (UGens \ {cur}) :
            /\ Cardinality(P) = slot - 1
            /\ \A i \in Slots : i >= slot /\ gc_array[i] # NullRef => gc_array[i][1] \notin P

HasRoom == SlotsApart /\ PassedByOthers

\* Is the reference that of a UGen that still has it?
Had(r) ==
    /\ ugens[r[1]].calc = "next_julia_code"
    /\ ugens[r[1]].valid
    /\ ugens[r[1]].ref = r[2]

\* A slot for each UGen.
EnoughSlots == Cardinality(UGens) <= GCArraySize

\* A destructor that has looked at all slots is one of too many UGens.
LEMMA RoomFound ==
  ASSUME IInv, HasRoom, EnoughSlots, pc["rt"] \in {"post", "locked_post"}
  PROVE  slot <= GCArraySize
<1> SUFFICES ASSUME slot = GCArraySize + 1
             PROVE  FALSE
  BY GCArraySizeAssumption DEF IInv, Rest, TypeOK
<1>1. PICK P \in SUBSET (UGens \ {cur}) : Cardinality(P) = slot - 1
  BY DEF HasRoom, PassedByOthers
<1>2. IsFiniteSet(UGens) /\ cur \in UGens
  BY UGensAssumption DEF IInv, Rest, TypeOK
<1>3. /\ IsFiniteSet(UGens \ {cur})
      /\ Cardinality(UGens \ {cur}) = Cardinality(UGens) - 1
  BY <1>2, FS_RemoveElement
<1>4. Cardinality(P) <= Cardinality(UGens) - 1
  BY <1>1, <1>3, FS_Subset
<1>5. Cardinality(UGens) \in Nat
  BY <1>2, FS_CardinalityType
<1> QED
  BY <1>1, <1>4, <1>5, GCArraySizeAssumption DEF EnoughSlots

\* The slots, when rt moves.
LEMMA RTKeepsRoom ==
  ASSUME IInv, Linked, HasRoom, RTNext
  PROVE  HasRoom'
<1>1. gc_array \in [Slots -> Refs \cup {NullRef}] /\ cur \in UGens /\ slot \in 1 .. GCArraySize + 1
  BY DEF IInv, Rest, TypeOK
<1>2. CASE RTSkipSlot
  <2>1. /\ pc["rt"] \in {"post", "locked_post"}
        /\ slot \in Slots /\ gc_array[slot] # NullRef
        /\ slot' = slot + 1
        /\ UNCHANGED <<gc_array, cur, pc>>
    BY <1>1, <1>2, GCArraySizeAssumption DEF RTSkipSlot, postVars, Slots
  <2>2. PICK P \in SUBSET (UGens \ {cur}) :
            /\ Cardinality(P) = slot - 1
            /\ \A i \in Slots : i >= slot /\ gc_array[i] # NullRef => gc_array[i][1] \notin P
    BY <2>1 DEF HasRoom, PassedByOthers
  <2>3. PICK v : v = gc_array[slot][1]
    OBVIOUS
  <2>4. v \in UGens /\ ugens[v].calc \in Dead
    <3>1. gc_array[slot] \in Posted
      BY <2>1 DEF Posted
    <3> QED
      BY <2>3, <3>1, PostedRef DEF IInv, Rest, Linked, Apart, PostedAreDead
  <2>5. v # cur
    BY <2>1, <2>4 DEF IInv, Rest, CalcAtPc, Destructible, Dead
  <2>6. v \notin P
    BY <2>1, <2>2, <2>3, GCArraySizeAssumption DEF Slots
  <2>7. Cardinality(P \cup {v}) = slot
    <3>1. IsFiniteSet(P)
      BY UGensAssumption, FS_Subset
    <3>2. Cardinality(P \cup {v}) = Cardinality(P) + 1
      BY <2>6, <3>1, FS_AddElement
    <3> QED
      BY <1>1, <2>2, <3>2
  <2>8. \A i \in Slots : i >= slot + 1 /\ gc_array[i] # NullRef => gc_array[i][1] \notin P \cup {v}
    <3> SUFFICES ASSUME NEW i \in Slots, i >= slot + 1, gc_array[i] # NullRef
                 PROVE  gc_array[i][1] \notin P /\ gc_array[i][1] # v
      OBVIOUS
    <3>1. i >= slot /\ i # slot
      BY <1>1 DEF Slots
    <3> QED
      BY <2>1, <2>2, <2>3, <3>1 DEF HasRoom, SlotsApart
  <2>9. P \cup {v} \in SUBSET (UGens \ {cur})
    BY <2>2, <2>4, <2>5
  <2>10. PassedByOthers'
    <3>1. slot' - 1 = slot
      BY <1>1, <2>1
    <3> QED
      BY <2>1, <2>7, <2>8, <2>9, <3>1 DEF PassedByOthers
  <2> QED
    BY <2>1, <2>10 DEF HasRoom, SlotsApart
<1>3. CASE RTDtorBusy
  <2>1. slot' = 1 /\ gc_array' = gc_array /\ cur' = cur
    BY <1>3 DEF RTDtorBusy, postVars
  <2>2. {} \in SUBSET (UGens \ {cur}) /\ Cardinality({}) = slot' - 1
    BY <2>1, FS_EmptySet
  <2>3. PassedByOthers'
    BY <2>1, <2>2 DEF PassedByOthers
  <2> QED
    BY <2>1, <2>3 DEF HasRoom, SlotsApart
<1>4. CASE RTPost
  <2>1. /\ pc["rt"] \in {"post", "locked_post"}
        /\ pc'["rt"] \notin {"post", "locked_post"}
        /\ gc_array' = IF slot <= GCArraySize
                       THEN [gc_array EXCEPT ![slot] = <<cur, ugens[cur].ref>>]
                       ELSE gc_array
    BY <1>4 DEF RTPost, Goto, IInv, Rest, TypeOK, Threads
  <2>2. \A i \in Slots : gc_array[i] # NullRef => gc_array[i][1] # cur
    <3> SUFFICES ASSUME NEW i \in Slots, gc_array[i] # NullRef, gc_array[i][1] = cur
                 PROVE  FALSE
      OBVIOUS
    <3>1. gc_array[i] \in Posted
      BY DEF Posted
    <3>2. ugens[cur].calc \in Dead
      BY <3>1 DEF Linked, Apart, PostedAreDead
    <3> QED
      BY <2>1, <3>2 DEF IInv, Rest, CalcAtPc, Destructible, Dead
  <2>3. PICK r : r = <<cur, ugens[cur].ref>>
    OBVIOUS
  <2>4. r[1] = cur
    BY <2>3
  <2>5. SlotsApart'
    BY <1>1, <2>1, <2>2, <2>3, <2>4 DEF HasRoom, SlotsApart
  <2> QED
    BY <2>1, <2>5 DEF HasRoom, PassedByOthers
<1>5. CASE ~(RTSkipSlot \/ RTDtorBusy \/ RTPost)
  <2>1. gc_array' = gc_array /\ pc'["rt"] \notin {"post", "locked_post"}
    <3> USE DEF Goto, IInv, Rest, TypeOK, Threads, sharedVars, postVars
    <3>1. CASE \E u \in UGens : RTBegin(u)
      BY <3>1 DEF RTBegin, RTConstruct, RTCalc, RTDestroyInvalid, RTDestroyValid
    <3>2. CASE \/ RTCtorGCBusy \/ RTCtorCompilerBusy \/ RTBusyAgain \/ RTSilence
               \/ RTCheck \/ RTPerformed
      BY <3>2 DEF RTCtorGCBusy, RTCtorCompilerBusy, RTBusyAgain, RTSilence, RTCheck, RTPerformed
    <3>3. CASE RTTakeGC \/ RTTakeCompiler \/ RTInitUnlock \/ RTUnlock \/ RTDtorUnlock
      BY <3>3 DEF RTTakeGC, RTTakeCompiler, RTInitUnlock, RTUnlock, RTDtorUnlock
    <3>4. CASE \/ \E ok \in InitOutcomes : RTCtorBody(ok) \/ RTBusyBody(ok)
               \/ \E outcome \in RemovalOutcomes : RTFollowFree(outcome) \/ RTDtorBody(outcome)
               \/ \E outcome \in ReallocateOutcomes : RTFollowRecompilation(outcome)
      BY <3>4 DEF RTCtorBody, RTBusyBody, RTInitialise, RTFollowFree, RTDtorBody,
                  RTFollowRecompilation
    <3>5. CASE RTUncount \/ RTFlag
      BY <3>5 DEF RTUncount, RTFlag
    <3> QED
      BY <1>5, <3>1, <3>2, <3>3, <3>4, <3>5 DEF RTNext, RTContinue
  <2> QED
    BY <2>1 DEF HasRoom, SlotsApart, PassedByOthers
<1> QED
  BY <1>2, <1>3, <1>4, <1>5

\* What the other two threads do to the slots: a collector empties some.
LEMMA SlotsOnlyEmptied ==
  ASSUME IInv, NRTNext \/ GCNext
  PROVE  /\ UNCHANGED <<ugens, cur, slot>> /\ pc'["rt"] = pc["rt"]
         /\ \A i \in Slots : gc_array'[i] \in {gc_array[i], NullRef}
<1>1. gc_array \in [Slots -> Refs \cup {NullRef}]
  BY DEF IInv, Rest, TypeOK
<1>2. UNCHANGED <<ugens, cur, slot>> /\ pc'["rt"] = pc["rt"]
  BY NRTLeaves, GCLeaves DEF IInv, Rest
<1>3. CASE \E t \in Collectors : GCClear(t)
  BY <1>1, <1>2, <1>3 DEF GCClear
<1>4. CASE ~\E t \in Collectors : GCClear(t)
  <2>1. gc_array' = gc_array
    <3> USE DEF sharedVars, postVars
    <3>1. CASE \E t \in Collectors : PerformGC(t)
      BY <1>4, <3>1 DEF PerformGC, GCEnter, GCScan, GCFlag, GCCollect
    <3>2. CASE GCTake \/ GCCheck \/ GCUnlock
      BY <3>2 DEF GCTake, GCCheck, GCUnlock
    <3>3. CASE NRTReceive \/ NRTTakeCompiler \/ NRTTakeCompilerGC \/ NRTTakeGC
      BY <3>3 DEF NRTReceive, NRTTakeCompiler, NRTTakeCompilerGC, NRTTakeGC
    <3>4. CASE NRTContinue /\ ~PerformGC("nrt")
      BY <3>4 DEF NRTContinue, NRTLoadRefused, NRTCreate, NRTCompile, NRTFree, NRTQuery, NRTUnlock
    <3> QED
      BY <3>1, <3>2, <3>3, <3>4 DEF NRTNext, GCNext, NRTContinue, GCContinue, Collectors
  <2> QED
    BY <1>2, <2>1
<1> QED
  BY <1>3, <1>4

LEMMA OthersKeepRoom ==
  ASSUME IInv, HasRoom, NRTNext \/ GCNext
  PROVE  HasRoom'
<1>1. /\ UNCHANGED <<cur, slot>> /\ pc'["rt"] = pc["rt"]
      /\ \A i \in Slots : gc_array'[i] # NullRef => gc_array'[i] = gc_array[i]
  BY SlotsOnlyEmptied
<1>2. SlotsApart'
  BY <1>1 DEF HasRoom, SlotsApart
<1>3. PassedByOthers'
  <2> SUFFICES ASSUME pc["rt"] \in {"post", "locked_post"}
               PROVE  \E P \in SUBSET (UGens \ {cur}) :
                         /\ Cardinality(P) = slot - 1
                         /\ \A i \in Slots :
                               i >= slot /\ gc_array'[i] # NullRef => gc_array'[i][1] \notin P
    BY <1>1 DEF PassedByOthers
  <2> QED
    BY <1>1 DEF HasRoom, PassedByOthers
<1> QED
  BY <1>2, <1>3 DEF HasRoom

\* A step of rt that changes the UGen u and leaves the references of the others
\* as they are.
LEMMA OneAccounts ==
  ASSUME TypeOK, RefsAccounted, NEW u \in UGens, NEW g,
         ugens' = [ugens EXCEPT ![u] = g],
         Posted \subseteq Posted',
         \A r \in id_dict' : \/ r \in id_dict /\ r[1] # u
                             \/ r[1] = u /\ r \in Posted'
                             \/ r[1] = u /\ g.calc = "next_julia_code" /\ g.valid /\ g.ref = r[2]
  PROVE  RefsAccounted'
<1> SUFFICES ASSUME NEW r \in id_dict', r \notin Posted'
             PROVE  Had(r)'
  BY DEF RefsAccounted, Had
<1>1. ugens'[u] = g /\ \A v \in UGens \ {u} : ugens'[v] = ugens[v]
  BY DEF TypeOK
<1>2. CASE r \in id_dict /\ r[1] # u
  <2>1. r[1] \in UGens
    BY <1>2 DEF TypeOK, Refs
  <2>2. ugens'[r[1]] = ugens[r[1]]
    BY <1>1, <1>2, <2>1
  <2> QED
    BY <1>2, <2>2 DEF RefsAccounted, Had
<1>3. CASE r[1] = u /\ g.calc = "next_julia_code" /\ g.valid /\ g.ref = r[2]
  BY <1>1, <1>3 DEF Had
<1> QED
  BY <1>2, <1>3

\* A UGen that does not play, or is not valid, has no reference in the dict but
\* one that is posted.
LEMMA SilentHaveNone ==
  ASSUME RefsAccounted, NEW r \in id_dict,
         ugens[r[1]].calc # "next_julia_code" \/ ~ugens[r[1]].valid
  PROVE  r \in Posted
BY DEF RefsAccounted

\* A UGen that is alive has at most one reference in the dict, its own.
LEMMA LivingHaveOne ==
  ASSUME Linked, RefsAccounted, NEW r \in id_dict, ugens[r[1]].calc \notin Dead
  PROVE  Had(r)
BY DEF Linked, Apart, PostedAreDead, RefsAccounted, Had

\* The dict after a removal that does not fail.
LEMMA RemovalAccounts ==
  ASSUME IInv, Linked, RefsAccounted, NEW u \in UGens, ugens[u].calc \notin Dead,
         NEW r \in DictWithout(u, ugens[u], id_dict, "done")
  PROVE  r \in id_dict /\ r[1] # u
<1>1. r \in id_dict
  BY DEF DictWithout
<1>2. ASSUME r[1] = u
      PROVE  FALSE
  <2>1. ugens[u].valid /\ ugens[u].ref = r[2]
    BY <1>1, <1>2, LivingHaveOne DEF Had
  <2>2. ugens[u].ref # NullFun
    BY <2>1 DEF IInv, Rest, RefsExist
  <2>3. r = <<u, ugens[u].ref>>
    BY <1>1, <1>2, <2>1 DEF IInv, Rest, TypeOK, Refs
  <2> QED
    BY <2>2, <2>3 DEF DictWithout, RefRemoved
<1> QED
  BY <1>1, <1>2

\* Steps that leave the dict alone and change at most the calc function of a
\* UGen that does not play, or is not valid.
LEMMA SilentAccounts ==
  ASSUME IInv, RefsAccounted, NEW u \in UGens, NEW g,
         ugens[u].calc # "next_julia_code" \/ ~ugens[u].valid,
         ugens' = [ugens EXCEPT ![u] = g],
         UNCHANGED <<id_dict, gc_array>>
  PROVE  RefsAccounted'
<1>1. Posted' = Posted
  BY DEF Posted
<1>2. \A r \in id_dict' : r[1] = u => r \in Posted'
  BY <1>1, SilentHaveNone
<1> QED
  BY <1>1, <1>2, OneAccounts DEF IInv, Rest

LEMMA InitialiseAccounts ==
  ASSUME IInv, Linked, RefsAccounted, NEW ok \in InitOutcomes, RTCtorBody(ok) \/ RTBusyBody(ok)
  PROVE  RefsAccounted'
<1>1. PICK yes : RTInitialise(yes, ok)
  BY DEF RTCtorBody, RTBusyBody
<1> DEFINE fun == ObjectOf(cur).perform_fun
           g == Initialised(ugens[cur], fun, yes /\ ok)
<1>2. /\ cur \in UGens /\ ugens[cur] \in UGenState
      /\ ugens[cur].calc \in {"ctor", "next_NRT_busy"}
  BY DEF RTCtorBody, RTBusyBody, Goto, IInv, Rest, TypeOK, CalcAtPc
<1>3. /\ ugens' = [ugens EXCEPT ![cur] = g]
      /\ id_dict' = IF yes /\ ok THEN id_dict \cup {<<cur, fun>>} ELSE id_dict
      /\ gc_array' = gc_array
  BY <1>1 DEF RTInitialise, postVars
<1>4. Posted' = Posted
  BY <1>3 DEF Posted
<1>5. yes /\ ok => g.calc = "next_julia_code" /\ g.valid /\ g.ref = fun
  BY <1>2 DEF Initialised, Playing, UGenState
<1>6. \A r \in id_dict : r[1] = cur => r \in Posted'
  BY <1>2, <1>4, SilentHaveNone
<1> HIDE DEF g, fun
<1>7. \A r \in id_dict' \ id_dict : yes /\ ok /\ r = <<cur, fun>>
  BY <1>3
<1>8. \A r \in id_dict' \ id_dict :
          r[1] = cur /\ g.calc = "next_julia_code" /\ g.valid /\ g.ref = r[2]
  BY <1>5, <1>7
<1>9. /\ ugens' = [ugens EXCEPT ![cur] = g]
      /\ Posted \subseteq Posted'
  BY <1>3, <1>4
<1> QED
  BY <1>2, <1>6, <1>8, <1>9, OneAccounts DEF IInv, Rest

LEMMA FollowFreeAccounts ==
  ASSUME IInv, Linked, RefsAccounted, RTFollowFree("done")
  PROVE  RefsAccounted'
<1>1. /\ cur \in UGens /\ ugens[cur].calc = "next_julia_code"
  BY DEF RTFollowFree, Goto, IInv, Rest, TypeOK, CalcAtPc
<1>2. Posted' = Posted
  BY DEF RTFollowFree, postVars, Posted
<1>3. CASE ugens[cur].valid
  <2>1. /\ ugens' = [ugens EXCEPT ![cur] = Freed(cur, ugens[cur], id_dict)]
        /\ id_dict' = DictWithout(cur, ugens[cur], id_dict, "done")
    BY <1>3 DEF RTFollowFree
  <2>2. \A r \in id_dict' : r \in id_dict /\ r[1] # cur
    BY <1>1, <2>1, RemovalAccounts DEF Dead
  <2> QED
    BY <1>1, <1>2, <2>1, <2>2, OneAccounts DEF IInv, Rest
<1>4. CASE ~ugens[cur].valid
  <2>1. UNCHANGED <<ugens, id_dict>>
    BY <1>4 DEF RTFollowFree, lifeVars
  <2> QED
    BY <1>2, <2>1 DEF RefsAccounted
<1> QED
  BY <1>3, <1>4

LEMMA FollowRecompilationAccounts ==
  ASSUME IInv, Linked, RefsAccounted, RTFollowRecompilation("done")
  PROVE  RefsAccounted'
<1> DEFINE o == ObjectOf(cur)
           g == Reallocated(cur, ugens[cur], id_dict, o, "done")
           kept == DictWithout(cur, ugens[cur], id_dict, "done")
           new == ReachesCode(ugens[cur], o, "done")
<1>1. /\ cur \in UGens /\ ugens[cur].calc = "next_julia_code" /\ ugens[cur] \in UGenState
  BY DEF RTFollowRecompilation, Goto, IInv, Rest, TypeOK, CalcAtPc
<1>2. /\ ugens' = [ugens EXCEPT ![cur] = g]
      /\ id_dict' = IF new THEN kept \cup {<<cur, o.perform_fun>>} ELSE kept
      /\ Posted' = Posted
  BY DEF RTFollowRecompilation, DictReallocated, ReachesRemoval, postVars, Posted
<1>3. new => g.calc = "next_julia_code" /\ g.valid /\ g.ref = o.perform_fun
  BY <1>1 DEF Reallocated, Invalidated, Destructed, UGenState
<1>4. \A r \in kept : r \in id_dict /\ r[1] # cur
  BY <1>1, RemovalAccounts DEF Dead
<1> HIDE DEF g, kept, new, o
<1>5. \A r \in id_dict' \ kept : new /\ r = <<cur, o.perform_fun>>
  BY <1>2
<1>6. \A r \in id_dict' \ kept :
          r[1] = cur /\ g.calc = "next_julia_code" /\ g.valid /\ g.ref = r[2]
  BY <1>3, <1>5
<1> QED
  BY <1>1, <1>2, <1>4, <1>6, OneAccounts DEF IInv, Rest

LEMMA DtorBodyAccounts ==
  ASSUME IInv, Linked, RefsAccounted, RTDtorBody("done")
  PROVE  RefsAccounted'
<1>1. cur \in UGens /\ ugens[cur].calc \notin Dead
  BY DEF RTDtorBody, Goto, IInv, Rest, TypeOK, CalcAtPc, Destructible, Dead
<1>2. PICK g : ugens' = [ugens EXCEPT ![cur] = g]
  BY DEF RTDtorBody
<1>3. id_dict' = DictWithout(cur, ugens[cur], id_dict, "done") /\ Posted' = Posted
  BY DEF RTDtorBody, postVars, Posted
<1>4. \A r \in id_dict' : r \in id_dict /\ r[1] # cur
  BY <1>1, <1>3, RemovalAccounts
<1> QED
  BY <1>1, <1>2, <1>3, <1>4, OneAccounts DEF IInv, Rest

\* There is a slot, and the reference is in it.
LEMMA PostAccounts ==
  ASSUME IInv, Linked, RefsAccounted, HasRoom, EnoughSlots, RTPost
  PROVE  RefsAccounted'
<1>1. /\ pc["rt"] \in {"post", "locked_post"}
      /\ slot <= GCArraySize => gc_array[slot] = NullRef
      /\ id_dict' = id_dict
  BY DEF RTPost, Goto
<1>2. slot <= GCArraySize /\ slot \in Slots
  BY <1>1, RoomFound, GCArraySizeAssumption DEF IInv, Rest, TypeOK, Slots
<1>3. PICK s : s = <<cur, ugens[cur].ref>>
  OBVIOUS
<1>4. gc_array' = [gc_array EXCEPT ![slot] = s] /\ gc_array[slot] = NullRef
  BY <1>1, <1>2, <1>3 DEF RTPost
<1>5. PICK g : ugens' = [ugens EXCEPT ![cur] = g]
  BY DEF RTPost
<1>6. gc_array \in [Slots -> Refs \cup {NullRef}]
  BY DEF IInv, Rest, TypeOK
<1>7. s # NullRef
  BY <1>3 DEF NullRef
<1>8. Posted \subseteq Posted' /\ s \in Posted'
  BY <1>2, <1>4, <1>6, <1>7 DEF Posted
<1>9. cur \in UGens /\ ugens[cur].calc \notin Dead
  BY <1>1 DEF IInv, Rest, TypeOK, CalcAtPc, Destructible, Dead
<1>10. ASSUME NEW r \in id_dict, r[1] = cur
       PROVE  r \in Posted'
  <2>1. r[2] = ugens[cur].ref
    BY <1>9, <1>10, LivingHaveOne DEF Had
  <2>2. r = s
    BY <1>3, <1>10, <2>1 DEF IInv, Rest, TypeOK, Refs
  <2> QED
    BY <1>8, <2>2
<1> QED
  BY <1>1, <1>5, <1>8, <1>9, <1>10, OneAccounts DEF IInv, Rest

LEMMA RTAccounts ==
  ASSUME IInv, Linked, RefsAccounted, HasRoom, EnoughSlots, Failures = {}, RTNext
  PROVE  RefsAccounted'
<1>1. RemovalOutcomes = {"done"} /\ ReallocateOutcomes = {"done"}
  BY DEF RemovalOutcomes, ReallocateOutcomes
<1>2. CASE \E u \in UGens : RTBegin(u)
  <2>1. PICK u \in UGens : RTBegin(u)
    BY <1>2
  <2>2. CASE RTConstruct(u)
    <3>1. PICK g : ugens' = [ugens EXCEPT ![u] = g]
      BY <2>2 DEF RTConstruct
    <3> QED
      BY <2>2, <3>1, SilentAccounts DEF RTConstruct, postVars
  <2>3. CASE RTDestroyInvalid(u)
    <3>1. PICK g : ugens' = [ugens EXCEPT ![u] = g]
      BY <2>3 DEF RTDestroyInvalid
    <3> QED
      BY <2>3, <3>1, SilentAccounts DEF RTDestroyInvalid, postVars
  <2>4. CASE RTCalc(u) \/ RTDestroyValid(u)
    BY <2>4 DEF RTCalc, RTDestroyValid, lifeVars, postVars, RefsAccounted, Posted
  <2> QED
    BY <2>1, <2>2, <2>3, <2>4 DEF RTBegin
<1>3. CASE RTContinue
  <2>1. CASE \/ RTBusyAgain \/ RTSilence \/ RTTakeGC \/ RTTakeCompiler \/ RTInitUnlock
             \/ RTCheck \/ RTPerformed \/ RTUnlock \/ RTDtorUnlock
             \/ RTDtorBusy \/ RTSkipSlot \/ RTFlag
    <3>1. UNCHANGED <<ugens, id_dict, gc_array>>
      BY <2>1 DEF RTBusyAgain, RTSilence, RTTakeGC, RTTakeCompiler, RTInitUnlock, RTCheck,
                  RTPerformed, RTUnlock, RTDtorUnlock, RTDtorBusy, RTSkipSlot, RTFlag,
                  sharedVars, lifeVars, postVars
    <3> QED
      BY <3>1 DEF RefsAccounted, Posted
  <2>2. CASE RTCtorGCBusy \/ RTCtorCompilerBusy \/ RTUncount
    <3>1. cur \in UGens /\ ugens[cur].calc # "next_julia_code"
      BY <2>2 DEF RTCtorGCBusy, RTCtorCompilerBusy, RTUncount, Goto, IInv, Rest, TypeOK, CalcAtPc
    <3>2. PICK g : ugens' = [ugens EXCEPT ![cur] = g]
      BY <2>2 DEF RTCtorGCBusy, RTCtorCompilerBusy, RTUncount
    <3>3. UNCHANGED <<id_dict, gc_array>>
      BY <2>2 DEF RTCtorGCBusy, RTCtorCompilerBusy, RTUncount, postVars
    <3> QED
      BY <3>1, <3>2, <3>3, SilentAccounts
  <2>3. CASE \E ok \in InitOutcomes : RTCtorBody(ok) \/ RTBusyBody(ok)
    BY <2>3, InitialiseAccounts
  <2>4. CASE \E outcome \in RemovalOutcomes : RTFollowFree(outcome) \/ RTDtorBody(outcome)
    BY <1>1, <2>4, FollowFreeAccounts, DtorBodyAccounts
  <2>5. CASE \E outcome \in ReallocateOutcomes : RTFollowRecompilation(outcome)
    BY <1>1, <2>5, FollowRecompilationAccounts
  <2>6. CASE RTPost
    BY <2>6, PostAccounts
  <2> QED
    BY <1>3, <2>1, <2>2, <2>3, <2>4, <2>5, <2>6 DEF RTContinue
<1> QED
  BY <1>2, <1>3 DEF RTNext

\* perform_gc takes a reference out of the dict before it clears its slot.
LEMMA OthersAccount ==
  ASSUME IInv, Linked, RefsAccounted, Failures = {}, NRTNext \/ GCNext
  PROVE  RefsAccounted'
<1>1. ugens' = ugens /\ gc_array \in [Slots -> Refs \cup {NullRef}]
  BY SlotsOnlyEmptied DEF IInv, Rest, TypeOK
<1>2. CASE \E t \in Collectors : GCClear(t)
  <2>1. /\ gc_array' = [gc_array EXCEPT ![scan] = NullRef]
        /\ id_dict' = id_dict
        /\ gc_array[scan] \notin id_dict
    BY <1>2 DEF GCClear, Goto, lifeVars, Linked, Apart, UnrootedFirst
  <2>2. \A r \in id_dict : r \in Posted => r \in Posted'
    BY <1>1, <2>1 DEF Posted
  <2> QED
    BY <1>1, <2>1, <2>2 DEF RefsAccounted
<1>3. CASE ~\E t \in Collectors : GCClear(t)
  <2>1. gc_array' = gc_array /\ id_dict' \subseteq id_dict
    <3> USE DEF sharedVars, lifeVars, postVars
    <3>1. CASE \E t \in Collectors : PerformGC(t)
      BY <1>3, <3>1 DEF PerformGC, GCEnter, GCScan, GCFlag, GCCollect
    <3>2. CASE GCTake \/ GCCheck \/ GCUnlock
      BY <3>2 DEF GCTake, GCCheck, GCUnlock
    <3>3. CASE NRTReceive \/ NRTTakeCompiler \/ NRTTakeCompilerGC \/ NRTTakeGC
      BY <3>3 DEF NRTReceive, NRTTakeCompiler, NRTTakeCompilerGC, NRTTakeGC
    <3>4. CASE NRTContinue /\ ~PerformGC("nrt")
      BY <3>4 DEF NRTContinue, NRTLoadRefused, NRTCreate, NRTCompile, NRTFree, NRTQuery, NRTUnlock
    <3> QED
      BY <3>1, <3>2, <3>3, <3>4 DEF NRTNext, GCNext, NRTContinue, GCContinue, Collectors
  <2>2. Posted' = Posted
    BY <2>1 DEF Posted
  <2> QED
    BY <1>1, <2>1, <2>2 DEF RefsAccounted
<1> QED
  BY <1>2, <1>3

LEMMA StepAccounts ==
  ASSUME IInv, Linked, RefsAccounted, HasRoom, EnoughSlots, Failures = {}, [Next]_vars
  PROVE  RefsAccounted' /\ HasRoom'
<1>1. CASE RTNext
  BY <1>1, RTAccounts, RTKeepsRoom
<1>2. CASE NRTNext \/ GCNext
  BY <1>2, OthersAccount, OthersKeepRoom
<1>3. CASE UNCHANGED vars
  BY <1>3 DEF vars, RefsAccounted, Posted, HasRoom, SlotsApart, PassedByOthers
<1> QED
  BY <1>1, <1>2, <1>3 DEF Next

LEMMA InitAccounts ==
  ASSUME Init
  PROVE  RefsAccounted /\ HasRoom
<1>1. id_dict = {} /\ pc["rt"] = "idle" /\ \A i \in Slots : gc_array[i] = NullRef
  BY DEF Init, Threads
<1> QED
  BY <1>1 DEF RefsAccounted, HasRoom, SlotsApart, PassedByOthers

\* With calls into Julia that do not fail and a gc_array that has a slot for each
\* UGen, whatever way a destructor takes and wherever a collector is meanwhile,
\* no reference stays in the dict that nobody would ever take out.
THEOREM ReferencesAccounted ==
  ASSUME Failures = {}, Cardinality(UGens) <= GCArraySize
  PROVE  Spec => []RefsAccounted
<1>1. EnoughSlots
  BY DEF EnoughSlots
<1>2. Init => RefsAccounted /\ HasRoom /\ Linked
  BY InitAccounts, InitLinked
<1>3. IInv /\ Linked /\ RefsAccounted /\ HasRoom /\ [Next]_vars
         => Linked' /\ RefsAccounted' /\ HasRoom'
  BY <1>1, StepLinked, StepAccounts
<1> QED
  BY <1>2, <1>3, Invariance, PTL DEF Spec
=============================================================================
