-------------------------- MODULE JuliaServerProofs --------------------------
(***************************************************************************)
(* Theorems about JuliaServer, for any number of UGens, entries and slots  *)
(* of gc_array.  RuntimeExclusive is not inductive: that a UGen which      *)
(* plays is never beside the collector rests on what the counter said when *)
(* the collector looked at it, on the counter being right, and on no UGen  *)
(* being initialised while the collector holds the gc barrier.             *)
(***************************************************************************)
EXTENDS JuliaServer, UGenCallsProofs, FiniteSetTheorems, TLAPS

\* The phase of the UGen whose callback rt is in.
CalcAtPc ==
    LET calc == ugens[cur].calc
    IN  /\ pc["rt"] \in {"ctor_gc", "ctor_compiler", "ctor_body"} => calc = "ctor"
        /\ pc["rt"] \in {"busy_gc", "busy_compiler", "busy_body"} => calc = "next_NRT_busy"
        /\ pc["rt"] \in {"calc_compiler", "calc_check", "calc_perform", "calc_gc", "calc_body"}
              => calc = "next_julia_code"
        /\ pc["rt"] \in {"dtor_gc", "dtor_compiler", "dtor_body", "post", "locked_post"}
              => Destructible(cur) /\ ugens[cur].valid
        /\ pc["rt"] \in {"dtor_unlock_gc", "dtor_unlock_compiler", "dtor_uncount",
                         "post_uncount", "locked_post_uncount"}
              => calc = "released"

\* A valid UGen has a __UGenRef__, and a load that compiles has a name.
RefsExist == \A u \in UGens : ugens[u].valid => ugens[u].ref # NullFun
LoadingNamed == pc["nrt"] = "compile" => loading.name \in Names

\* perform_gc clears a slot of gc_array.
ScanInRange == \A t \in {"nrt", "gc"} : pc[t] = "gc_clear" => scan \in Slots

\* The counter is right.
CountedUGens == {u \in UGens : Counted(ugens[u])}
CounterRight == active_julia_ugens = Cardinality(CountedUGens)

\* No UGen plays while the collector's thread collects.
NonePlaysWhileCollecting ==
    pc["gc"] \in Collecting => \A u \in UGens : ugens[u].calc # "next_julia_code"

Rest ==
    /\ TypeOK
    /\ CalcAtPc
    /\ RefsExist
    /\ LoadingNamed
    /\ ScanInRange
    /\ CounterRight
    /\ NonePlaysWhileCollecting

IInv == Rest /\ BarriersOwned

-----------------------------------------------------------------------------
(* Barriers *)

\* No step opens a barrier that another thread holds, or leaves one taken that
\* nobody holds.
LEMMA BarriersOwnedStep ==
  ASSUME TypeOK, BarriersOwned, [Next]_vars
  PROVE  BarriersOwned'
<1> USE DEF BarriersOwned, TypeOK, Goto, Take, TryFails, Unlock, Barriers, Threads, Holds,
            Holding, RTPcs, GCPcs, NRTPcs, GCThreadPcs
<1>1. CASE \E u \in UGens : RTBegin(u)
  BY <1>1 DEF RTBegin, RTConstruct, RTCalc, RTDestroyInvalid, RTDestroyValid
<1>2. CASE RTContinue
  <2>1. CASE RTCtorGCBusy \/ RTCtorCompilerBusy \/ RTBusyAgain \/ RTSilence \/ RTDtorBusy
    BY <2>1 DEF RTCtorGCBusy, RTCtorCompilerBusy, RTBusyAgain, RTSilence, RTDtorBusy
  <2>2. CASE RTTakeGC \/ RTTakeCompiler
    BY <2>2 DEF RTTakeGC, RTTakeCompiler
  <2>3. CASE \E ok \in InitOutcomes : RTCtorBody(ok) \/ RTBusyBody(ok)
    BY <2>3 DEF RTCtorBody, RTBusyBody, RTInitialise
  <2>4. CASE RTInitUnlock \/ RTUnlock \/ RTDtorUnlock
    BY <2>4 DEF RTInitUnlock, RTUnlock, RTDtorUnlock
  <2>5. CASE RTCheck \/ RTPerformed \/ RTSkipSlot \/ RTPost \/ RTUncount \/ RTFlag
    BY <2>5 DEF RTCheck, RTPerformed, RTSkipSlot, RTPost, RTUncount, RTFlag
  <2>6. CASE \E outcome \in RemovalOutcomes : RTFollowFree(outcome) \/ RTDtorBody(outcome)
    BY <2>6 DEF RTFollowFree, RTDtorBody
  <2>7. CASE \E outcome \in ReallocateOutcomes : RTFollowRecompilation(outcome)
    BY <2>7 DEF RTFollowRecompilation
  <2> QED
    BY <1>2, <2>1, <2>2, <2>3, <2>4, <2>5, <2>6, <2>7 DEF RTContinue
<1>3. ASSUME NEW t \in {"nrt", "gc"}, PerformGC(t)
      PROVE  BarriersOwned'
  BY <1>3 DEF PerformGC, GCEnter, GCScan, GCClear, GCFlag, GCCollect
<1>4. CASE NRTNext
  <2>1. CASE NRTReceive \/ NRTLoadRefused \/ NRTQuery
    BY <2>1 DEF NRTReceive, NRTLoadRefused, NRTQuery
  <2>2. CASE NRTTakeCompiler \/ NRTTakeCompilerGC \/ NRTTakeGC
    BY <2>2 DEF NRTTakeCompiler, NRTTakeCompilerGC, NRTTakeGC
  <2>3. CASE \E name \in Names, entry \in Entries : NRTCreate(name, entry)
    BY <2>3 DEF NRTCreate
  <2>4. CASE \E io \in IOShapes, ok \in BOOLEAN : NRTCompile(io, ok)
    BY <2>4 DEF NRTCompile
  <2>5. CASE \E entry \in Entries : NRTFree(entry)
    BY <2>5 DEF NRTFree
  <2>6. CASE NRTUnlock
    BY <2>6 DEF NRTUnlock
  <2> QED
    BY <1>3, <1>4, <2>1, <2>2, <2>3, <2>4, <2>5, <2>6 DEF NRTNext, NRTContinue
<1>5. CASE GCNext
  <2>1. CASE GCTake \/ GCCheck
    BY <2>1 DEF GCTake, GCCheck
  <2>2. CASE GCUnlock
    BY <2>2 DEF GCUnlock
  <2> QED
    BY <1>3, <1>5, <2>1, <2>2 DEF GCNext, GCContinue
<1>6. CASE UNCHANGED vars
  BY <1>6 DEF vars
<1> QED
  BY <1>1, <1>2, <1>4, <1>5, <1>6 DEF Next, RTNext

-----------------------------------------------------------------------------
(* Steps that only move a thread and its barriers *)

\* rt moves: where the threads are after it.
LEMMA GotoRT ==
  ASSUME TypeOK, NEW to \in RTPcs, pc' = [pc EXCEPT !["rt"] = to]
  PROVE  /\ pc' \in [Threads -> RTPcs \cup NRTPcs \cup GCThreadPcs]
         /\ pc'["rt"] = to
         /\ pc'["nrt"] = pc["nrt"]
         /\ pc'["gc"] = pc["gc"]
BY DEF TypeOK, Threads

\* nrt moves.
LEMMA GotoNRT ==
  ASSUME TypeOK, NEW to \in NRTPcs, pc' = [pc EXCEPT !["nrt"] = to]
  PROVE  /\ pc' \in [Threads -> RTPcs \cup NRTPcs \cup GCThreadPcs]
         /\ pc'["nrt"] = to
         /\ pc'["rt"] = pc["rt"]
         /\ pc'["gc"] = pc["gc"]
BY DEF TypeOK, Threads

\* gc moves.
LEMMA GotoGC ==
  ASSUME TypeOK, NEW to \in GCThreadPcs, pc' = [pc EXCEPT !["gc"] = to]
  PROVE  /\ pc' \in [Threads -> RTPcs \cup NRTPcs \cup GCThreadPcs]
         /\ pc'["gc"] = to
         /\ pc'["rt"] = pc["rt"]
         /\ pc'["nrt"] = pc["nrt"]
BY DEF TypeOK, Threads

\* rt takes, misses or releases a barrier, or looks at perform_fun.
LEMMA MoveRT ==
  ASSUME IInv,
         RTTakeGC \/ RTTakeCompiler \/ RTBusyAgain \/ RTSilence \/ RTCheck \/ RTPerformed
            \/ RTInitUnlock \/ RTUnlock \/ RTDtorUnlock
  PROVE  Rest'
<1> USE DEF RTTakeGC, RTTakeCompiler, RTBusyAgain, RTSilence, RTCheck, RTPerformed,
            RTInitUnlock, RTUnlock, RTDtorUnlock, Goto
<1>1. UNCHANGED sharedVars
  OBVIOUS
<1>2. taken' \in [Barriers -> BOOLEAN]
  BY DEF IInv, Rest, TypeOK, Take, TryFails, Unlock, Barriers
<1>3. PICK to \in RTPcs : pc' = [pc EXCEPT !["rt"] = to]
  BY DEF RTPcs
<1>4. TypeOK'
  BY <1>1, <1>2, <1>3, GotoRT DEF IInv, Rest, TypeOK, sharedVars, tableVars, lifeVars, postVars,
                                  collectorVars
<1>5. CalcAtPc'
  BY <1>1 DEF IInv, Rest, TypeOK, CalcAtPc, Destructible, Threads, RTPcs, sharedVars, lifeVars
<1> QED
  BY <1>1, <1>3, <1>4, <1>5, GotoRT
     DEF IInv, Rest, RefsExist, LoadingNamed, ScanInRange, CounterRight, CountedUGens,
         NonePlaysWhileCollecting, sharedVars, lifeVars, tableVars,
         collectorVars

\* nrt takes a barrier, or refuses a load.
LEMMA MoveNRT ==
  ASSUME IInv,
         NRTReceive \/ NRTTakeCompiler \/ NRTTakeCompilerGC \/ NRTTakeGC \/ NRTLoadRefused
            \/ NRTQuery
  PROVE  Rest'
<1> USE DEF NRTReceive, NRTTakeCompiler, NRTTakeCompilerGC, NRTTakeGC, NRTLoadRefused,
            NRTQuery, Goto
<1>1. UNCHANGED sharedVars
  OBVIOUS
<1>2. taken' \in [Barriers -> BOOLEAN]
  BY DEF IInv, Rest, TypeOK, Take, Barriers
<1>3. PICK to \in NRTPcs \ {"compile", "gc_clear"} : pc' = [pc EXCEPT !["nrt"] = to]
  BY DEF NRTPcs, GCPcs
<1>4. TypeOK'
  BY <1>1, <1>2, <1>3, GotoNRT DEF IInv, Rest, TypeOK, sharedVars, tableVars, lifeVars,
                                   postVars, collectorVars
<1> QED
  BY <1>1, <1>3, <1>4, GotoNRT
     DEF IInv, Rest, CalcAtPc, Destructible, RefsExist, LoadingNamed, ScanInRange, CounterRight,
         CountedUGens, NonePlaysWhileCollecting, sharedVars, lifeVars, tableVars,
         collectorVars

\* The collector's thread goes on to collect only if no UGen is counted, and so
\* none plays.
LEMMA MoveGC ==
  ASSUME IInv, GCTake \/ GCCheck
  PROVE  Rest'
<1> USE DEF GCTake, GCCheck, Goto
<1>1. UNCHANGED sharedVars
  OBVIOUS
<1>2. taken' \in [Barriers -> BOOLEAN]
  BY DEF IInv, Rest, TypeOK, Take, Barriers
<1>3. PICK to \in GCThreadPcs \ {"gc_clear"} : /\ pc' = [pc EXCEPT !["gc"] = to]
                                               /\ to \in Collecting => NoUGenActive
  <2>1. CASE GCTake
    BY <2>1 DEF GCThreadPcs, GCPcs, Collecting
  <2>2. CASE GCCheck /\ NoUGenActive
    BY <2>2 DEF GCThreadPcs, GCPcs
  <2>3. CASE GCCheck /\ ~NoUGenActive
    BY <2>3 DEF GCThreadPcs, GCPcs, Collecting
  <2> QED
    BY <2>1, <2>2, <2>3
<1>4. TypeOK'
  BY <1>1, <1>2, <1>3, GotoGC DEF IInv, Rest, TypeOK, sharedVars, tableVars, lifeVars, postVars,
                                  collectorVars
<1>5. ASSUME NoUGenActive, NEW u \in UGens
      PROVE  ugens[u].calc # "next_julia_code"
  <2>1. IsFiniteSet(CountedUGens)
    BY UGensAssumption, FS_Subset DEF CountedUGens
  <2>2. CountedUGens = {}
    BY <1>5, <2>1, FS_EmptySet DEF IInv, Rest, CounterRight, NoUGenActive
  <2> QED
    BY <2>2 DEF CountedUGens, Counted
<1>6. NonePlaysWhileCollecting'
  BY <1>1, <1>3, <1>5, GotoGC DEF IInv, Rest, NonePlaysWhileCollecting, sharedVars, lifeVars
<1> QED
  BY <1>1, <1>3, <1>4, <1>6, GotoGC
     DEF IInv, Rest, CalcAtPc, Destructible, RefsExist, LoadingNamed, ScanInRange, CounterRight,
         CountedUGens, sharedVars, lifeVars, tableVars,
         collectorVars

-----------------------------------------------------------------------------
(* The commands and the collector *)

\* nrt and gc release a barrier.
LEMMA UnlockSteps ==
  ASSUME IInv, NRTUnlock \/ GCUnlock
  PROVE  Rest'
<1>1. UNCHANGED <<tableVars, lifeVars, postVars, active_julia_ugens, cur, slot, scan>>
  BY DEF NRTUnlock, GCUnlock
<1>2. taken' \in [Barriers -> BOOLEAN] /\ owed' = {}
  BY DEF IInv, Rest, TypeOK, NRTUnlock, GCUnlock, Unlock, Barriers
<1>3. CASE NRTUnlock
  <2>1. PICK to \in NRTPcs \ {"compile", "gc_clear"} : pc' = [pc EXCEPT !["nrt"] = to]
    BY <1>3 DEF NRTUnlock, Goto, NRTPcs, GCPcs
  <2>2. TypeOK'
    BY <1>1, <1>2, <2>1, GotoNRT DEF IInv, Rest, TypeOK, tableVars, lifeVars, postVars
  <2> QED
    BY <1>1, <2>1, <2>2, GotoNRT
       DEF IInv, Rest, CalcAtPc, Destructible, RefsExist, LoadingNamed, ScanInRange, CounterRight,
           CountedUGens, NonePlaysWhileCollecting, Collecting, GCPcs, lifeVars, tableVars
<1>4. CASE GCUnlock
  <2>1. PICK to \in GCThreadPcs \ Collecting : pc' = [pc EXCEPT !["gc"] = to]
    BY <1>4 DEF GCUnlock, Goto, GCThreadPcs, GCPcs, Collecting
  <2>2. TypeOK'
    BY <1>1, <1>2, <2>1, GotoGC DEF IInv, Rest, TypeOK, tableVars, lifeVars, postVars
  <2> QED
    BY <1>1, <2>1, <2>2, GotoGC
       DEF IInv, Rest, CalcAtPc, Destructible, RefsExist, LoadingNamed, ScanInRange, CounterRight,
           CountedUGens, NonePlaysWhileCollecting, Collecting, GCPcs, lifeVars, tableVars
<1> QED
  BY <1>3, <1>4

\* perform_gc looks at gc_array entry by entry and changes no UGen.
LEMMA CollectSteps ==
  ASSUME IInv, NEW t \in {"nrt", "gc"}, PerformGC(t)
  PROVE  Rest'
<1> USE DEF PerformGC, GCEnter, GCScan, GCClear, GCFlag, GCCollect
<1>1. /\ UNCHANGED <<tableVars, ugens, active_julia_ugens, taken, cur, slot>>
      /\ id_dict' \subseteq id_dict
  BY DEF sharedVars, lifeVars, postVars, collectorVars
<1>2. \A s \in {"nrt", "gc"} \ {t} : pc[s] \notin GCPcs
  BY DEF Goto, GCPcs, IInv, BarriersOwned, Barriers, Threads, Holds, Holding
<1>3. /\ scan' \in 1 .. GCArraySize + 1
      /\ gc_array' \in [Slots -> Refs \cup {NullRef}]
      /\ needs_emptying' \in BOOLEAN
  <2>1. CASE GCEnter(t)
    BY <2>1, GCArraySizeAssumption DEF IInv, Rest, TypeOK, postVars
  <2>2. CASE \E outcome \in RemovalOutcomes : GCScan(t, outcome)
    BY <2>2, GCArraySizeAssumption DEF IInv, Rest, TypeOK, postVars
  <2>3. CASE GCClear(t)
    BY <2>3, GCArraySizeAssumption DEF IInv, Rest, TypeOK, ScanInRange, Slots, Goto
  <2>4. CASE GCFlag(t) \/ GCCollect(t)
    BY <2>4 DEF IInv, Rest, TypeOK, collectorVars, sharedVars, postVars
  <2> QED
    BY <2>1, <2>2, <2>3, <2>4
<1>4. owed' \subseteq Refs
  BY DEF IInv, Rest, TypeOK, Posted, collectorVars, sharedVars
<1>5. /\ pc[t] \in Collecting
      /\ \E to \in GCPcs : pc' = [pc EXCEPT ![t] = to]
  BY DEF Goto, Collecting, GCPcs
<1>6. ScanInRange'
  BY <1>2 DEF IInv, Rest, TypeOK, ScanInRange, Slots, Goto, GCPcs, Threads
<1>7. CASE t = "nrt"
  <2>1. PICK to \in NRTPcs \ {"compile"} : pc' = [pc EXCEPT !["nrt"] = to]
    BY <1>5, <1>7 DEF NRTPcs, GCPcs
  <2>2. TypeOK'
    BY <1>1, <1>3, <1>4, <2>1, GotoNRT DEF IInv, Rest, TypeOK, tableVars
  <2> QED
    BY <1>1, <1>6, <2>1, <2>2, GotoNRT
       DEF IInv, Rest, CalcAtPc, Destructible, RefsExist, LoadingNamed, ScanInRange, CounterRight,
           CountedUGens, NonePlaysWhileCollecting, tableVars
<1>8. CASE t = "gc"
  <2>1. PICK to \in GCThreadPcs : pc' = [pc EXCEPT !["gc"] = to]
    BY <1>5, <1>8 DEF GCThreadPcs, GCPcs
  <2>2. TypeOK'
    BY <1>1, <1>3, <1>4, <2>1, GotoGC DEF IInv, Rest, TypeOK, tableVars
  <2> QED
    BY <1>1, <1>5, <1>8, <1>6, <2>1, <2>2, GotoGC
       DEF IInv, Rest, CalcAtPc, Destructible, RefsExist, LoadingNamed, ScanInRange, CounterRight,
           CountedUGens, NonePlaysWhileCollecting, tableVars
<1> QED
  BY <1>7, <1>8

\* What the commands write into the table are entries.
LEMMA TableSteps ==
  ASSUME IInv,
         \/ \E name \in Names, entry \in Entries : NRTCreate(name, entry)
         \/ \E io \in IOShapes, ok \in BOOLEAN : NRTCompile(io, ok)
         \/ \E entry \in Entries : NRTFree(entry)
  PROVE  Rest'
<1> USE DEF NRTCreate, NRTCompile, NRTFree, Goto
<1>1. UNCHANGED <<lifeVars, postVars, active_julia_ugens, taken, cur, slot, collectorVars>>
  OBVIOUS
<1>2. PICK to \in NRTPcs \ {"gc_clear"} : pc' = [pc EXCEPT !["nrt"] = to]
  BY DEF NRTPcs, GCPcs
<1>3. NotLoading \in [entry : Entries, name : Names \cup {NoName}]
  BY NumEntriesAssumption DEF NotLoading, Entries
<1>4. /\ objects' \in [Entries -> JuliaObject]
      /\ settled' \in [Entries -> JuliaObject]
      /\ compiles' \in 0 .. MaxCompiles
      /\ loading' \in [entry : Entries, name : Names \cup {NoName}]
      /\ LoadingNamed'
  <2>1. NoObject \in JuliaObject
    BY DEF JuliaObject
  <2>2. CASE \E name \in Names, entry \in Entries : NRTCreate(name, entry)
    BY <2>1, <2>2 DEF IInv, Rest, TypeOK, LoadingNamed
  <2>3. CASE \E io \in IOShapes : NRTCompile(io, TRUE)
    <3>1. PICK io \in IOShapes : NRTCompile(io, TRUE)
      BY <2>3
    <3>2. /\ loading.name \in Names
          /\ loading.entry \in Entries
          /\ compiles + 1 \in Funs
      BY <3>1, MaxCompilesAssumption DEF IInv, Rest, TypeOK, LoadingNamed, Funs
    <3>3. CompiledObject(loading.name, compiles + 1, io) \in JuliaObject
      BY <3>2 DEF JuliaObject
    <3>4. objects' = [objects EXCEPT ![loading.entry] =
                         CompiledObject(loading.name, compiles + 1, io)]
      BY <3>1
    <3>5. compiles' = compiles + 1 /\ settled' = objects' /\ loading' = NotLoading
      BY <3>1
    <3>6. LoadingNamed'
      BY <3>1 DEF IInv, Rest, TypeOK, Threads, LoadingNamed
    <3> QED
      BY <1>3, <3>2, <3>3, <3>4, <3>5, <3>6, MaxCompilesAssumption DEF IInv, Rest, TypeOK, Funs
  <2>4. CASE \E io \in IOShapes : NRTCompile(io, FALSE)
    <3>1. UNCHANGED <<objects, compiles>> /\ settled' = objects' /\ loading' = NotLoading
      BY <2>4
    <3>2. LoadingNamed'
      BY <2>4 DEF IInv, Rest, TypeOK, Threads, LoadingNamed
    <3> QED
      BY <1>3, <3>1, <3>2 DEF IInv, Rest, TypeOK
  <2>5. CASE \E entry \in Entries : NRTFree(entry)
    BY <2>1, <2>5, GotoNRT DEF IInv, Rest, TypeOK, LoadingNamed
  <2> QED
    BY <2>2, <2>3, <2>4, <2>5
<1>5. TypeOK'
  BY <1>1, <1>2, <1>4, GotoNRT DEF IInv, Rest, TypeOK, lifeVars, postVars, collectorVars
<1> QED
  BY <1>1, <1>2, <1>4, <1>5, GotoNRT
     DEF IInv, Rest, CalcAtPc, Destructible, RefsExist, ScanInRange, CounterRight, CountedUGens,
         NonePlaysWhileCollecting, lifeVars, collectorVars

-----------------------------------------------------------------------------
(* Callbacks that change a UGen *)

\* The counter follows a change of one UGen.
LEMMA CountKept ==
  ASSUME TypeOK, CounterRight, NEW u \in UGens, NEW g \in UGenState,
         ugens' = [ugens EXCEPT ![u] = g],
         Counted(g) <=> Counted(ugens[u]),
         active_julia_ugens' = active_julia_ugens
  PROVE  CounterRight'
<1>1. CountedUGens' = CountedUGens
  BY DEF TypeOK, CountedUGens
<1> QED
  BY <1>1 DEF CounterRight

\* A constructor begins.
LEMMA CountRaised ==
  ASSUME TypeOK, CounterRight, NEW u \in UGens, NEW g \in UGenState,
         ugens' = [ugens EXCEPT ![u] = g],
         ~Counted(ugens[u]), Counted(g),
         active_julia_ugens' = CountUp(active_julia_ugens)
  PROVE  CounterRight'
<1>1. IsFiniteSet(CountedUGens)
  BY UGensAssumption, FS_Subset DEF CountedUGens
<1>2. u \notin CountedUGens
  BY DEF CountedUGens
<1>3. CountedUGens' = CountedUGens \cup {u}
  BY DEF TypeOK, CountedUGens
<1> QED
  BY <1>1, <1>2, <1>3, FS_AddElement DEF CounterRight, CountUp

\* A destructor ends.
LEMMA CountLowered ==
  ASSUME TypeOK, CounterRight, NEW u \in UGens, NEW g \in UGenState,
         ugens' = [ugens EXCEPT ![u] = g],
         Counted(ugens[u]), ~Counted(g),
         active_julia_ugens' = CountDown(active_julia_ugens)
  PROVE  CounterRight'
<1>1. IsFiniteSet(CountedUGens)
  BY UGensAssumption, FS_Subset DEF CountedUGens
<1>2. u \in CountedUGens
  BY DEF CountedUGens
<1>3. CountedUGens' = CountedUGens \ {u}
  BY DEF TypeOK, CountedUGens
<1> QED
  BY <1>1, <1>2, <1>3, FS_RemoveElement DEF CounterRight, CountDown

\* What a step of rt that changes one UGen has to respect.
LEMMA RTChangesUGen ==
  ASSUME IInv, NEW u \in UGens, NEW g \in UGenState, NEW to \in RTPcs,
         pc' = [pc EXCEPT !["rt"] = to],
         ugens' = [ugens EXCEPT ![u] = g],
         g.valid => g.ref # NullFun,
         g.calc = "next_julia_code" =>
            ugens[u].calc = "next_julia_code" \/ pc["gc"] \notin Collecting,
         CalcAtPc', CounterRight',
         id_dict' \subseteq Refs,
         gc_array' \in [Slots -> Refs \cup {NullRef}],
         needs_emptying' \in BOOLEAN,
         taken' \in [Barriers -> BOOLEAN],
         cur' \in UGens,
         slot' \in 1 .. GCArraySize + 1,
         UNCHANGED <<tableVars, collectorVars>>
  PROVE  Rest'
<1>1. ugens' \in [UGens -> UGenState]
  BY DEF IInv, Rest, TypeOK
<1>2. active_julia_ugens' \in Nat
  <2>1. IsFiniteSet(CountedUGens')
    BY UGensAssumption, FS_Subset DEF CountedUGens
  <2> QED
    BY <2>1, FS_CardinalityType DEF CounterRight
<1>3. TypeOK'
  BY <1>1, <1>2, GotoRT DEF IInv, Rest, TypeOK, tableVars, collectorVars
<1>4. RefsExist'
  BY DEF IInv, Rest, TypeOK, RefsExist
<1>5. LoadingNamed' /\ ScanInRange'
  BY GotoRT DEF IInv, Rest, LoadingNamed, ScanInRange, tableVars, collectorVars
<1>6. NonePlaysWhileCollecting'
  BY GotoRT DEF IInv, Rest, TypeOK, NonePlaysWhileCollecting
<1> QED
  BY <1>3, <1>4, <1>5, <1>6 DEF Rest

\* The same for a step that changes none.
LEMMA RTKeepsUGens ==
  ASSUME IInv, NEW to \in RTPcs,
         pc' = [pc EXCEPT !["rt"] = to],
         UNCHANGED <<ugens, id_dict, active_julia_ugens, tableVars, collectorVars>>,
         CalcAtPc',
         gc_array' \in [Slots -> Refs \cup {NullRef}],
         needs_emptying' \in BOOLEAN,
         taken' \in [Barriers -> BOOLEAN],
         cur' \in UGens,
         slot' \in 1 .. GCArraySize + 1
  PROVE  Rest'
<1>1. TypeOK'
  BY GotoRT DEF IInv, Rest, TypeOK, tableVars, collectorVars
<1> QED
  BY <1>1, GotoRT DEF IInv, Rest, RefsExist, LoadingNamed, ScanInRange, CounterRight,
                      CountedUGens, NonePlaysWhileCollecting, tableVars, collectorVars

\* Steps that set calc and nothing else of the UGen that runs.
LEMMA RTSetsCalc ==
  ASSUME IInv, NEW u \in UGens, NEW calc \in Calcs \ {"next_julia_code"}, NEW to \in RTPcs,
         pc' = [pc EXCEPT !["rt"] = to],
         ugens' = [ugens EXCEPT ![u] = [ugens[u] EXCEPT !.calc = calc]],
         \/ /\ active_julia_ugens' = active_julia_ugens
            /\ Counted(ugens[u]) /\ calc \notin {"unborn", "gone"}
         \/ /\ active_julia_ugens' = CountDown(active_julia_ugens)
            /\ Counted(ugens[u]) /\ calc = "gone",
         CalcAtPc',
         id_dict' \subseteq Refs,
         gc_array' \in [Slots -> Refs \cup {NullRef}],
         needs_emptying' \in BOOLEAN,
         taken' \in [Barriers -> BOOLEAN],
         cur' \in UGens,
         slot' \in 1 .. GCArraySize + 1,
         UNCHANGED <<tableVars, collectorVars>>
  PROVE  Rest'
<1> DEFINE g == [ugens[u] EXCEPT !.calc = calc]
<1>1. ugens[u] \in UGenState
  BY DEF IInv, Rest, TypeOK
<1>2. /\ g \in UGenState
      /\ g.calc = calc
      /\ g.valid = ugens[u].valid
      /\ g.ref = ugens[u].ref
  BY <1>1, WithCalc
<1>3. g.valid => g.ref # NullFun
  BY <1>2 DEF IInv, Rest, RefsExist
<1>4. ugens' = [ugens EXCEPT ![u] = g]
  OBVIOUS
<1> HIDE DEF g
<1>5. CounterRight'
  <2>1. CASE /\ active_julia_ugens' = active_julia_ugens
             /\ Counted(ugens[u]) /\ calc \notin {"unborn", "gone"}
    BY <1>2, <1>4, <2>1, CountKept DEF IInv, Rest, Counted
  <2>2. CASE /\ active_julia_ugens' = CountDown(active_julia_ugens)
             /\ Counted(ugens[u]) /\ calc = "gone"
    BY <1>2, <1>4, <2>2, CountLowered DEF IInv, Rest, Counted
  <2> QED
    BY <2>1, <2>2
<1> QED
  BY <1>2, <1>3, <1>4, <1>5, RTChangesUGen

-----------------------------------------------------------------------------
(* The callbacks of the UGens, one by one *)

\* Julia(): the counter goes up before anything else.
LEMMA ConstructStep ==
  ASSUME IInv, NEW u \in UGens, RTConstruct(u)
  PROVE  Rest'
<1>1. PICK entry \in Entries, io \in IOShapes :
         ugens' = [ugens EXCEPT ![u] = Born(entry, io)]
  BY DEF RTConstruct
<1> DEFINE g == Born(entry, io)
<1>2. g \in UGenState /\ g.calc = "ctor" /\ g.valid = FALSE
  BY DEF Born, UGenState, Calcs
<1>3. ugens' = [ugens EXCEPT ![u] = g] /\ ugens'[u] = g
  BY <1>1 DEF IInv, Rest, TypeOK
<1> HIDE DEF g
<1>4. pc' = [pc EXCEPT !["rt"] = "ctor_gc"] /\ cur' = u
  BY DEF RTConstruct, Goto
<1>5. CalcAtPc'
  BY <1>2, <1>3, <1>4, GotoRT DEF IInv, Rest, CalcAtPc, RTPcs
<1>6. CounterRight'
  BY <1>2, <1>3, CountRaised DEF IInv, Rest, RTConstruct, Counted
<1>7. "ctor_gc" \in RTPcs
  BY DEF RTPcs
<1> QED
  BY <1>2, <1>3, <1>4, <1>5, <1>6, <1>7, RTChangesUGen
     DEF IInv, Rest, TypeOK, RTConstruct, postVars

\* A barrier is taken, and next_NRT_busy becomes the calc function.
LEMMA DeferStep ==
  ASSUME IInv, RTCtorGCBusy \/ RTCtorCompilerBusy
  PROVE  Rest'
<1>1. PICK to \in {"busy_gc", "unlock_gc"} : pc' = [pc EXCEPT !["rt"] = to]
  BY DEF RTCtorGCBusy, RTCtorCompilerBusy, Goto
<1>2. to \in RTPcs
  BY DEF RTPcs
<1>3. /\ ugens' = [ugens EXCEPT ![cur] = [ugens[cur] EXCEPT !.calc = "next_NRT_busy"]]
      /\ UNCHANGED <<tableVars, id_dict, postVars, active_julia_ugens, cur, slot, collectorVars>>
      /\ ugens[cur].calc = "ctor"
      /\ taken' = taken
  BY DEF RTCtorGCBusy, RTCtorCompilerBusy, TryFails, IInv, Rest, CalcAtPc, Goto
<1>4. ugens'[cur].calc = "next_NRT_busy"
  BY <1>3, WithCalc DEF IInv, Rest, TypeOK, Calcs
<1>5. CalcAtPc'
  BY <1>1, <1>2, <1>3, <1>4, GotoRT DEF IInv, Rest, CalcAtPc
<1>6. "next_NRT_busy" \in Calcs \ {"next_julia_code"}
  BY DEF Calcs
<1> QED
  BY <1>1, <1>2, <1>3, <1>5, <1>6, RTSetsCalc DEF IInv, Rest, TypeOK, Counted, postVars

\* Only here does a UGen begin to play, with the gc barrier held.
LEMMA Initialises ==
  ASSUME IInv, NEW accepted, NEW ok,
         accepted => ObjectOf(cur).compiled,
         RTInitialise(accepted, ok),
         pc["rt"] \in {"ctor_body", "busy_body"},
         pc' = [pc EXCEPT !["rt"] = "init_unlock_gc"]
  PROVE  Rest'
<1> DEFINE fun == ObjectOf(cur).perform_fun
<1>1. ugens[cur] \in UGenState /\ ObjectOf(cur) \in JuliaObject
  BY DEF IInv, Rest, TypeOK, UGenState, ObjectOf
<1>2. "init_unlock_gc" \in RTPcs
  BY DEF RTPcs
<1>3. UNCHANGED <<tableVars, postVars, active_julia_ugens, taken, cur, slot, collectorVars>>
  BY DEF RTInitialise
<1>4. Counted(ugens[cur])
  BY DEF IInv, Rest, CalcAtPc, Counted
<1>5. CASE accepted /\ ok
  <2> DEFINE g == Playing(ugens[cur], fun)
  <2>1. fun \in Funs
    BY <1>1, <1>5, CompiledHasFun
  <2>2. /\ g \in UGenState
        /\ g.calc = "next_julia_code"
        /\ g.ref # NullFun
    BY <1>1, <2>1, PlayingType
  <2>3. /\ ugens' = [ugens EXCEPT ![cur] = g]
        /\ id_dict' = id_dict \cup {<<cur, fun>>}
    BY <1>5, Zenon DEF RTInitialise, Initialised
  <2> HIDE DEF g, fun
  <2>4. pc["gc"] \notin Collecting
    BY DEF IInv, Rest, TypeOK, BarriersOwned, Barriers, Threads, Holds, Holding, Collecting
  <2>5. ugens'[cur].calc = "next_julia_code"
    BY <2>2, <2>3 DEF IInv, Rest, TypeOK
  <2>6. CalcAtPc'
    BY <1>2, <1>3, <2>5, GotoRT DEF IInv, Rest, CalcAtPc
  <2>7. CounterRight'
    <3>1. Counted(g)
      BY <2>2 DEF Counted
    <3> QED
      BY <1>3, <1>4, <2>2, <2>3, <3>1, CountKept DEF IInv, Rest, TypeOK
  <2>8. id_dict' \subseteq Refs
    BY <2>1, <2>3 DEF IInv, Rest, TypeOK, Refs
  <2> QED
    BY <1>2, <1>3, <2>2, <2>3, <2>4, <2>6, <2>7, <2>8, RTChangesUGen
       DEF IInv, Rest, TypeOK, postVars
<1>6. CASE ~(accepted /\ ok)
  <2>1. /\ ugens' = [ugens EXCEPT ![cur] = [ugens[cur] EXCEPT !.calc = "output_silence"]]
        /\ id_dict' = id_dict
    BY <1>6, Zenon DEF RTInitialise, Initialised
  <2>2. "output_silence" \in Calcs \ {"next_julia_code"}
    BY DEF Calcs
  <2>3. ugens'[cur].calc = "output_silence"
    BY <1>1, <2>1, <2>2, WithCalc DEF IInv, Rest, TypeOK
  <2>4. CalcAtPc'
    BY <1>2, <1>3, <2>3, GotoRT DEF IInv, Rest, CalcAtPc
  <2> QED
    BY <1>2, <1>3, <1>4, <2>1, <2>2, <2>4, RTSetsCalc DEF IInv, Rest, TypeOK, postVars
<1> QED
  BY <1>5, <1>6

\* The constructor and next_NRT_busy want different things of the @object.
LEMMA InitialiseStep ==
  ASSUME IInv, NEW ok \in InitOutcomes, RTCtorBody(ok) \/ RTBusyBody(ok)
  PROVE  Rest'
<1>1. CASE RTCtorBody(ok)
  <2> DEFINE accepted == ConstructorAccepts(ugens[cur], ObjectOf(cur))
  <2>1. accepted => ObjectOf(cur).compiled
    BY DEF ConstructorAccepts
  <2>2. /\ RTInitialise(accepted, ok)
        /\ pc["rt"] = "ctor_body"
        /\ pc' = [pc EXCEPT !["rt"] = "init_unlock_gc"]
    BY <1>1 DEF RTCtorBody, Goto
  <2> HIDE DEF accepted
  <2> QED
    BY <2>1, <2>2, Initialises
<1>2. CASE RTBusyBody(ok)
  <2> DEFINE accepted == BusyAccepts(ugens[cur], ObjectOf(cur))
  <2>1. accepted => ObjectOf(cur).compiled
    BY DEF BusyAccepts
  <2>2. /\ RTInitialise(accepted, ok)
        /\ pc["rt"] = "busy_body"
        /\ pc' = [pc EXCEPT !["rt"] = "init_unlock_gc"]
    BY <1>2 DEF RTBusyBody, Goto
  <2> HIDE DEF accepted
  <2> QED
    BY <2>1, <2>2, Initialises
<1> QED
  BY <1>1, <1>2

\* The @object of the UGen was freed.
LEMMA FollowFreeStep ==
  ASSUME IInv, NEW outcome, RTFollowFree(outcome)
  PROVE  Rest'
<1>1. /\ pc' = [pc EXCEPT !["rt"] = "unlock_gc_compiler"]
      /\ "unlock_gc_compiler" \in RTPcs
      /\ UNCHANGED <<tableVars, postVars, active_julia_ugens, taken, cur, slot, collectorVars>>
      /\ ugens[cur].calc = "next_julia_code"
  BY DEF RTFollowFree, Goto, RTPcs, IInv, Rest, CalcAtPc
<1>2. ugens[cur] \in UGenState
  BY DEF IInv, Rest, TypeOK
<1>3. CASE ugens[cur].valid
  <2> DEFINE g == Freed(cur, ugens[cur], id_dict)
  <2>1. g \in UGenState /\ g.calc = "output_silence" /\ g.valid = FALSE
    BY <1>2, FreedIsSilent
  <2>2. /\ ugens' = [ugens EXCEPT ![cur] = g]
        /\ id_dict' = DictWithout(cur, ugens[cur], id_dict, outcome)
    BY <1>3 DEF RTFollowFree
  <2>3. id_dict' \subseteq Refs
    BY <2>2 DEF DictWithout, IInv, Rest, TypeOK
  <2> HIDE DEF g
  <2>4. CalcAtPc'
    BY <1>1, GotoRT DEF IInv, Rest, CalcAtPc
  <2>5. CounterRight'
    <3>1. Counted(g) /\ Counted(ugens[cur])
      BY <1>1, <2>1 DEF Counted
    <3> QED
      BY <1>1, <2>1, <2>2, <3>1, CountKept DEF IInv, Rest, TypeOK
  <2> QED
    BY <1>1, <2>1, <2>2, <2>3, <2>4, <2>5, RTChangesUGen DEF IInv, Rest, TypeOK, postVars
<1>4. CASE ~ugens[cur].valid
  <2>1. UNCHANGED lifeVars
    BY <1>4 DEF RTFollowFree
  <2>2. CalcAtPc'
    BY <1>1, GotoRT DEF IInv, Rest, CalcAtPc
  <2> QED
    BY <1>1, <2>1, <2>2, RTKeepsUGens DEF IInv, Rest, TypeOK, lifeVars, postVars
<1> QED
  BY <1>3, <1>4

\* The @object of the UGen was recompiled.
LEMMA FollowRecompilationStep ==
  ASSUME IInv, NEW outcome, RTFollowRecompilation(outcome)
  PROVE  Rest'
<1> DEFINE o == ObjectOf(cur)
           g == Reallocated(cur, ugens[cur], id_dict, o, outcome)
<1>1. PICK to \in {"unlock_compiler_gc", "unlock_gc_compiler"} :
         pc' = [pc EXCEPT !["rt"] = to]
  BY DEF RTFollowRecompilation, Goto
<1>2. /\ to \in RTPcs
      /\ UNCHANGED <<tableVars, postVars, active_julia_ugens, taken, cur, slot, collectorVars>>
      /\ ugens[cur].calc = "next_julia_code"
      /\ o.compiled
      /\ ugens' = [ugens EXCEPT ![cur] = g]
      /\ id_dict' = DictReallocated(cur, ugens[cur], id_dict, o, outcome)
  BY DEF RTFollowRecompilation, Goto, RTPcs, IInv, Rest, CalcAtPc
<1>3. ugens[cur] \in UGenState /\ o \in JuliaObject
  BY DEF IInv, Rest, TypeOK, UGenState, ObjectOf
<1>4. /\ g \in UGenState
      /\ g.calc = "next_julia_code"
      /\ g.valid => g.ref # NullFun
  BY <1>2, <1>3, ReallocatedKeeps
<1>5. id_dict' \subseteq Refs
  <2>1. o.perform_fun \in Funs
    BY <1>2, <1>3, CompiledHasFun
  <2> HIDE DEF o
  <2> QED
    BY <1>2, <2>1 DEF DictReallocated, DictWithout, Refs, IInv, Rest, TypeOK
<1> HIDE DEF g
<1>6. CalcAtPc'
  BY <1>1, <1>2, GotoRT DEF IInv, Rest, CalcAtPc
<1>7. CounterRight'
  <2>1. Counted(g) /\ Counted(ugens[cur])
    BY <1>2, <1>4 DEF Counted
  <2> QED
    BY <1>2, <1>4, <2>1, CountKept DEF IInv, Rest, TypeOK
<1> QED
  BY <1>1, <1>2, <1>4, <1>5, <1>6, <1>7, RTChangesUGen DEF IInv, Rest, TypeOK, postVars

\* Callbacks that begin, and what sets no member of a UGen.
LEMMA QuietStep ==
  ASSUME IInv,
         \/ \E u \in UGens : RTCalc(u) \/ RTDestroyValid(u)
         \/ RTDtorBusy \/ RTFlag
  PROVE  Rest'
<1> USE DEF RTCalc, RTDestroyValid, RTDtorBusy, RTFlag, Goto
<1>1. PICK to \in RTPcs : pc' = [pc EXCEPT !["rt"] = to]
  BY DEF RTPcs
<1>2. /\ UNCHANGED <<ugens, id_dict, gc_array, active_julia_ugens, tableVars, collectorVars>>
      /\ taken' = taken
      /\ cur' \in UGens
  BY DEF IInv, Rest, TypeOK, TryFails, lifeVars, postVars
<1>3. slot' \in 1 .. GCArraySize + 1
  BY GCArraySizeAssumption DEF IInv, Rest, TypeOK
<1>4. needs_emptying' \in BOOLEAN
  <2>1. CASE RTFlag
    BY <2>1
  <2>2. CASE ~RTFlag
    BY <2>2 DEF IInv, Rest, TypeOK, postVars
  <2> QED
    BY <2>1, <2>2
<1>5. CalcAtPc'
  BY <1>2 DEF IInv, Rest, TypeOK, CalcAtPc, Destructible, Threads, RTPcs
<1> QED
  BY <1>1, <1>2, <1>3, <1>4, <1>5, RTKeepsUGens DEF IInv, Rest, TypeOK

\* ~Julia() of a UGen that is not valid.
LEMMA DestroyInvalidStep ==
  ASSUME IInv, NEW u \in UGens, RTDestroyInvalid(u)
  PROVE  Rest'
<1>1. /\ pc' = [pc EXCEPT !["rt"] = "idle"]
      /\ "idle" \in RTPcs
      /\ ugens' = [ugens EXCEPT ![u] = [ugens[u] EXCEPT !.calc = "gone"]]
      /\ active_julia_ugens' = CountDown(active_julia_ugens)
      /\ UNCHANGED <<tableVars, id_dict, postVars, taken, cur, slot, collectorVars>>
      /\ Counted(ugens[u])
  BY DEF RTDestroyInvalid, Goto, RTPcs, Destructible, Counted
<1>2. CalcAtPc'
  BY <1>1, GotoRT DEF IInv, Rest, CalcAtPc
<1>3. "gone" \in Calcs \ {"next_julia_code"}
  BY DEF Calcs
<1> QED
  BY <1>1, <1>2, <1>3, RTSetsCalc DEF IInv, Rest, TypeOK, postVars

\* ~Julia() with both barriers.
LEMMA DtorBodyStep ==
  ASSUME IInv, NEW outcome, RTDtorBody(outcome)
  PROVE  Rest'
<1> DEFINE d == Destructed(cur, ugens[cur], id_dict)
           g == [d EXCEPT !.calc = "released"]
<1>1. /\ pc' = [pc EXCEPT !["rt"] = "dtor_unlock_gc"]
      /\ "dtor_unlock_gc" \in RTPcs
      /\ ugens' = [ugens EXCEPT ![cur] = g]
      /\ id_dict' = DictWithout(cur, ugens[cur], id_dict, outcome)
      /\ UNCHANGED <<tableVars, postVars, active_julia_ugens, taken, cur, slot, collectorVars>>
      /\ Counted(ugens[cur])
  BY DEF RTDtorBody, Goto, RTPcs, Destructible, Counted, IInv, Rest, CalcAtPc
<1>2. ugens[cur] \in UGenState
  BY DEF IInv, Rest, TypeOK
<1>3. d \in UGenState /\ d.ref = ugens[cur].ref /\ d.valid = ugens[cur].valid
  BY <1>2, DestructedKeeps
<1> HIDE DEF d
<1>4. /\ g \in UGenState
      /\ g.calc = "released"
      /\ g.valid = d.valid
      /\ g.ref = d.ref
  BY <1>3, WithCalc DEF Calcs
<1> HIDE DEF g
<1>5. g.valid => g.ref # NullFun
  BY <1>3, <1>4 DEF IInv, Rest, TypeOK, RefsExist
<1>6. ugens'[cur].calc = "released" /\ cur' = cur
  BY <1>1, <1>4 DEF IInv, Rest, TypeOK
<1>7. CalcAtPc'
  BY <1>1, <1>6, GotoRT DEF IInv, Rest, CalcAtPc
<1>8. CounterRight'
  <2>1. Counted(g)
    BY <1>4 DEF Counted
  <2> QED
    BY <1>1, <1>4, <2>1, CountKept DEF IInv, Rest, TypeOK
<1>9. id_dict' \subseteq Refs
  BY <1>1 DEF DictWithout, IInv, Rest, TypeOK
<1> QED
  BY <1>1, <1>4, <1>5, <1>7, <1>8, <1>9, RTChangesUGen DEF IInv, Rest, TypeOK, postVars

\* ~Julia() looks for an empty slot of gc_array.
LEMMA SkipSlotStep ==
  ASSUME IInv, RTSkipSlot
  PROVE  Rest'
<1> USE DEF RTSkipSlot
<1>1. TypeOK'
  BY GCArraySizeAssumption
     DEF IInv, Rest, TypeOK, tableVars, lifeVars, postVars, collectorVars
<1> QED
  BY <1>1 DEF IInv, Rest, CalcAtPc, Destructible, RefsExist, LoadingNamed, ScanInRange,
              CounterRight, CountedUGens, NonePlaysWhileCollecting, tableVars, lifeVars,
              collectorVars

\* ~Julia() leaves the reference to the collector.
LEMMA PostStep ==
  ASSUME IInv, RTPost
  PROVE  Rest'
<1>1. PICK to \in {"post_uncount", "locked_post_uncount"} : pc' = [pc EXCEPT !["rt"] = to]
  BY DEF RTPost, Goto
<1>2. /\ to \in RTPcs
      /\ ugens' = [ugens EXCEPT ![cur] = [ugens[cur] EXCEPT !.calc = "released"]]
      /\ UNCHANGED <<tableVars, id_dict, needs_emptying, active_julia_ugens, taken, cur,
                     collectorVars>>
      /\ slot' = 1
  BY <1>1 DEF RTPost, RTPcs
<1>3. Counted(ugens[cur]) /\ ugens[cur].valid
  BY DEF RTPost, Goto, Destructible, Counted, IInv, Rest, CalcAtPc
<1>4. ugens[cur] \in UGenState
  BY DEF IInv, Rest, TypeOK
<1>5. "released" \in Calcs \ {"next_julia_code"}
  BY DEF Calcs
<1>6. gc_array' \in [Slots -> Refs \cup {NullRef}]
  <2>1. <<cur, ugens[cur].ref>> \in Refs
    BY <1>3, <1>4 DEF IInv, Rest, TypeOK, RefsExist, UGenState, Refs
  <2>2. gc_array \in [Slots -> Refs \cup {NullRef}]
    BY DEF IInv, Rest, TypeOK
  <2> QED
    BY <2>1, <2>2 DEF RTPost
<1>7. ugens'[cur].calc = "released" /\ cur' = cur
  BY <1>2, <1>4, <1>5, WithCalc DEF IInv, Rest, TypeOK
<1>8. CalcAtPc'
  BY <1>1, <1>2, <1>7, GotoRT DEF IInv, Rest, CalcAtPc
<1>9. slot' \in 1 .. GCArraySize + 1
  BY <1>2, GCArraySizeAssumption
<1> QED
  BY <1>2, <1>1, <1>3, <1>5, <1>6, <1>8, <1>9, RTSetsCalc DEF IInv, Rest, TypeOK

\* ~Julia() comes to its end.
LEMMA UncountStep ==
  ASSUME IInv, RTUncount
  PROVE  Rest'
<1>1. PICK to \in {"idle", "post_flag", "locked_post_flag"} : pc' = [pc EXCEPT !["rt"] = to]
  BY DEF RTUncount, Goto
<1>2. /\ to \in RTPcs
      /\ ugens' = [ugens EXCEPT ![cur] = [ugens[cur] EXCEPT !.calc = "gone"]]
      /\ active_julia_ugens' = CountDown(active_julia_ugens)
      /\ UNCHANGED <<tableVars, id_dict, postVars, taken, cur, slot, collectorVars>>
      /\ Counted(ugens[cur])
  BY <1>1 DEF RTUncount, Goto, RTPcs, Counted, IInv, Rest, CalcAtPc
<1>3. CalcAtPc'
  BY <1>1, <1>2, GotoRT DEF IInv, Rest, CalcAtPc
<1>4. "gone" \in Calcs \ {"next_julia_code"}
  BY DEF Calcs
<1> QED
  BY <1>1, <1>2, <1>3, <1>4, RTSetsCalc DEF IInv, Rest, TypeOK, postVars

-----------------------------------------------------------------------------
(* The invariant *)

\* The initial state satisfies the invariant.
LEMMA InitEstablishes ==
  ASSUME Init
  PROVE  IInv
<1>1. TypeOK
  <2>1. NoObject \in JuliaObject
    BY DEF JuliaObject
  <2>2. NotLoading \in [entry : Entries, name : Names \cup {NoName}]
    BY NumEntriesAssumption DEF NotLoading, Entries
  <2>3. Unborn \in UGenState
    <3>1. Born(0, NoIO) \in UGenState
      BY NumEntriesAssumption DEF Born, UGenState, Calcs, Entries
    <3> QED
      BY <3>1, WithCalc DEF Unborn, Calcs
  <2>4. /\ pc \in [Threads -> RTPcs \cup NRTPcs \cup GCThreadPcs]
        /\ pc["rt"] \in RTPcs /\ pc["nrt"] \in NRTPcs /\ pc["gc"] \in GCThreadPcs
    BY DEF Init, Threads, RTPcs, NRTPcs, GCThreadPcs
  <2>5. taken \in [Barriers -> BOOLEAN] /\ gc_array \in [Slots -> Refs \cup {NullRef}]
    BY DEF Init
  <2>6. ugens \in [UGens -> UGenState] /\ objects \in [Entries -> JuliaObject]
    BY <2>1, <2>3 DEF Init
  <2>7. /\ compiles \in 0 .. MaxCompiles
        /\ active_julia_ugens \in Nat
        /\ slot \in 1 .. GCArraySize + 1
        /\ scan \in 1 .. GCArraySize + 1
    BY MaxCompilesAssumption, GCArraySizeAssumption DEF Init
  <2>8. /\ needs_emptying \in BOOLEAN
        /\ cur \in UGens
        /\ id_dict \subseteq Refs
        /\ owed \subseteq Refs
        /\ settled = objects
        /\ loading = NotLoading
    BY DEF Init
  <2> QED
    BY <2>2, <2>4, <2>5, <2>6, <2>7, <2>8, Zenon DEF TypeOK
<1>2. CounterRight
  <2>1. Unborn.calc = "unborn"
    BY DEF Unborn, Born
  <2>2. CountedUGens = {}
    BY <2>1 DEF Init, CountedUGens, Counted
  <2> QED
    BY <2>2, FS_EmptySet DEF Init, CounterRight
<1>3. RefsExist
  <2>1. Unborn.valid = FALSE
    BY DEF Unborn, Born
  <2> QED
    BY <2>1, Zenon DEF Init, RefsExist
<1>4. BarriersOwned
  BY DEF Init, BarriersOwned, Barriers, Threads, Holds, Holding, GCPcs
<1> QED
  BY <1>1, <1>2, <1>3, <1>4 DEF Init, IInv, Rest, CalcAtPc, LoadingNamed, ScanInRange,
                                NonePlaysWhileCollecting, Threads, Collecting, GCPcs

\* Every step preserves the invariant.
LEMMA StepPreserves ==
  ASSUME IInv, [Next]_vars
  PROVE  IInv'
<1>1. BarriersOwned'
  BY BarriersOwnedStep DEF IInv, Rest
<1>2. CASE \E u \in UGens : RTBegin(u)
  BY <1>1, <1>2, ConstructStep, QuietStep, DestroyInvalidStep DEF RTBegin, IInv
<1>3. CASE RTContinue
  <2>1. CASE \/ RTBusyAgain \/ RTSilence \/ RTTakeGC \/ RTTakeCompiler \/ RTInitUnlock
             \/ RTCheck \/ RTPerformed \/ RTUnlock \/ RTDtorUnlock
    BY <1>1, <2>1, MoveRT DEF IInv
  <2>2. CASE RTCtorGCBusy \/ RTCtorCompilerBusy
    BY <1>1, <2>2, DeferStep DEF IInv
  <2>3. CASE \E ok \in InitOutcomes : RTCtorBody(ok) \/ RTBusyBody(ok)
    BY <1>1, <2>3, InitialiseStep DEF IInv
  <2>4. CASE \E outcome \in RemovalOutcomes : RTFollowFree(outcome) \/ RTDtorBody(outcome)
    BY <1>1, <2>4, FollowFreeStep, DtorBodyStep DEF IInv
  <2>5. CASE \E outcome \in ReallocateOutcomes : RTFollowRecompilation(outcome)
    BY <1>1, <2>5, FollowRecompilationStep DEF IInv
  <2>6. CASE RTDtorBusy \/ RTSkipSlot \/ RTPost \/ RTUncount \/ RTFlag
    BY <1>1, <2>6, QuietStep, SkipSlotStep, PostStep, UncountStep DEF IInv
  <2> QED
    BY <1>3, <2>1, <2>2, <2>3, <2>4, <2>5, <2>6 DEF RTContinue
<1>4. CASE NRTNext
  BY <1>1, <1>4, MoveNRT, UnlockSteps, CollectSteps, TableSteps DEF NRTNext, NRTContinue, IInv
<1>5. CASE GCNext
  BY <1>1, <1>5, MoveGC, UnlockSteps, CollectSteps DEF GCNext, GCContinue, IInv
<1>6. CASE UNCHANGED vars
  <2>1. Rest'
    BY <1>6 DEF vars, IInv, Rest, TypeOK, CalcAtPc, Destructible, RefsExist, LoadingNamed,
                ScanInRange, CounterRight, CountedUGens, NonePlaysWhileCollecting
  <2> QED
    BY <1>1, <2>1 DEF IInv
<1> QED
  BY <1>2, <1>3, <1>4, <1>5, <1>6 DEF Next, RTNext

\* The inductive invariant holds in every reachable state.
THEOREM Invariance == Spec => []IInv
<1>1. Init => IInv
  BY InitEstablishes
<1>2. IInv /\ [Next]_vars => IInv'
  BY StepPreserves
<1> QED
  BY <1>1, <1>2, PTL DEF Spec

\* Every variable keeps its type: the counter of active UGens never goes below
\* zero and so never wraps around, and what destructors post are references
\* that UGens had.
THEOREM TypeCorrect == Spec => []TypeOK
<1>1. IInv => TypeOK
  BY DEF IInv, Rest
<1> QED
  BY <1>1, Invariance, PTL

\* Every barrier is taken exactly while one thread is between taking and
\* releasing it, on every way through every callback and command.
THEOREM BarriersCorrect == Spec => []BarriersOwned
<1>1. IInv => BarriersOwned
  BY DEF IInv
<1> QED
  BY <1>1, Invariance, PTL

-----------------------------------------------------------------------------
(* The runtime is entered by one thread at a time *)

\* rt and nrt are kept apart by the compiler barrier, nrt and gc by
\* compiler_gc, rt and gc by the gc barrier or by the counter.
LEMMA InvariantExcludes ==
  ASSUME IInv, NEW s \in Threads, NEW t \in Threads, InRuntime(s), InRuntime(t)
  PROVE  s = t
<1>1. ~(InRuntime("rt") /\ InRuntime("nrt"))
  <2>1. InRuntime("rt") => Holds("rt", "compiler")
    BY DEF InRuntime, RuntimePcs, Holds, Holding
  <2>2. InRuntime("nrt") => Holds("nrt", "compiler")
    BY DEF InRuntime, RuntimePcs, Holds, Holding, Collecting
  <2> QED
    BY <2>1, <2>2 DEF IInv, BarriersOwned, Threads, Barriers
<1>2. ~(InRuntime("nrt") /\ InRuntime("gc"))
  <2>1. InRuntime("nrt") => Holds("nrt", "compiler_gc")
    BY DEF InRuntime, RuntimePcs, Holds, Holding, Collecting
  <2>2. InRuntime("gc") => Holds("gc", "compiler_gc")
    BY DEF InRuntime, RuntimePcs, Holds, Holding, Collecting
  <2> QED
    BY <2>1, <2>2 DEF IInv, BarriersOwned, Threads, Barriers
<1>3. ~(InRuntime("rt") /\ InRuntime("gc"))
  <2>1. SUFFICES ASSUME InRuntime("rt"), InRuntime("gc")
                 PROVE  FALSE
    OBVIOUS
  <2>2. CASE pc["rt"] = "calc_perform"
    BY <2>1, <2>2 DEF IInv, Rest, TypeOK, CalcAtPc, NonePlaysWhileCollecting, InRuntime,
                      RuntimePcs
  <2>3. CASE pc["rt"] # "calc_perform"
    <3>1. Holds("rt", "gc") /\ Holds("gc", "gc")
      BY <2>1, <2>3 DEF InRuntime, RuntimePcs, Holds, Holding, Collecting
    <3> QED
      BY <3>1 DEF IInv, BarriersOwned, Threads, Barriers
  <2> QED
    BY <2>2, <2>3
<1> QED
  BY <1>1, <1>2, <1>3 DEF Threads

\* Julia code is run, compiled and collected in one thread at a time, for any
\* number of UGens.
THEOREM RuntimeExclusion == Spec => []RuntimeExclusive
<1>1. IInv => RuntimeExclusive
  BY InvariantExcludes DEF RuntimeExclusive
<1> QED
  BY <1>1, Invariance, PTL
=============================================================================
