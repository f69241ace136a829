--------------------------- MODULE JuliaUGenProofs ---------------------------
(***************************************************************************)
(* Theorems about JuliaUGen, for any number of UGens, entries and          *)
(* compilations and any set of calls into Julia that can fail.             *)
(* ValidIsRooted and OneRefPerUGen are not inductive: what a UGen has in   *)
(* the dict depends on what every earlier, perhaps failed, reallocation    *)
(* left in its members, and on the collector touching only references of   *)
(* UGens that are dead.                                                    *)
(***************************************************************************)
EXTENDS JuliaUGen, UGenCallsProofs, FiniteSetTheorems, TLAPS

\* Every UGen and its references in the dict agree.
AllSound == \A u \in UGens : Sound(u, ugens[u], id_dict)

\* What the collector is to unroot belongs to no UGen that could still play.
PostedAreDead == \A r \in posted : ugens[r[1]].calc \in {"released", "gone"}

CountedUGens == {u \in UGens : Counted(ugens[u])}

UGenInv ==
    /\ TypeOK
    /\ ActiveCountsUGens
    /\ AllSound
    /\ PostedAreDead

-----------------------------------------------------------------------------
(* A step of one UGen *)

\* The counter follows a change of one UGen: a constructor begins, a destructor
\* ends, or neither.
LEMMA CountFollows ==
  ASSUME TypeOK, ActiveCountsUGens, NEW u \in UGens, NEW g \in UGenState,
         ugens' = [ugens EXCEPT ![u] = g],
         \/ /\ Counted(g) <=> Counted(ugens[u])
            /\ active_julia_ugens' = active_julia_ugens
         \/ /\ Counted(g) /\ ~Counted(ugens[u])
            /\ active_julia_ugens' = CountUp(active_julia_ugens)
         \/ /\ ~Counted(g) /\ Counted(ugens[u])
            /\ active_julia_ugens' = CountDown(active_julia_ugens)
  PROVE  ActiveCountsUGens' /\ active_julia_ugens' \in Nat
<1>1. IsFiniteSet(CountedUGens) /\ IsFiniteSet(CountedUGens')
  BY UGensAssumption, FS_Subset DEF CountedUGens
<1>2. active_julia_ugens = Cardinality(CountedUGens)
  BY DEF ActiveCountsUGens, CountedUGens
<1>3. active_julia_ugens' = Cardinality(CountedUGens')
  <2>1. CASE /\ Counted(g) <=> Counted(ugens[u])
             /\ active_julia_ugens' = active_julia_ugens
    <3>1. CountedUGens' = CountedUGens
      BY <2>1 DEF TypeOK, CountedUGens
    <3> QED
      BY <1>2, <2>1, <3>1
  <2>2. CASE /\ Counted(g) /\ ~Counted(ugens[u])
             /\ active_julia_ugens' = CountUp(active_julia_ugens)
    <3>1. u \notin CountedUGens
      BY <2>2 DEF CountedUGens
    <3>2. CountedUGens' = CountedUGens \cup {u}
      BY <2>2 DEF TypeOK, CountedUGens
    <3> QED
      BY <1>1, <1>2, <2>2, <3>1, <3>2, FS_AddElement DEF CountUp
  <2>3. CASE /\ ~Counted(g) /\ Counted(ugens[u])
             /\ active_julia_ugens' = CountDown(active_julia_ugens)
    <3>1. u \in CountedUGens
      BY <2>3 DEF CountedUGens
    <3>2. CountedUGens' = CountedUGens \ {u}
      BY <2>3 DEF TypeOK, CountedUGens
    <3> QED
      BY <1>1, <1>2, <2>3, <3>1, <3>2, FS_RemoveElement DEF CountDown
  <2> QED
    BY <2>1, <2>2, <2>3
<1> QED
  BY <1>1, <1>3, FS_CardinalityType DEF ActiveCountsUGens, CountedUGens

\* What a step of one UGen has to respect, as the steps below do: it leaves
\* the other UGens' references alone, and a dead UGen stays dead.
LEMMA UGenStep ==
  ASSUME UGenInv, NEW u \in UGens, NEW g \in UGenState,
         ugens' = [ugens EXCEPT ![u] = g],
         Sound(u, g, id_dict'),
         id_dict' \subseteq Refs,
         \A v \in UGens \ {u}, fun \in Funs : <<v, fun>> \in id_dict' <=> <<v, fun>> \in id_dict,
         posted' \subseteq posted \/ (posted' \subseteq Refs /\ g.calc = "released"),
         \A r \in posted' : r[1] # u => r \in posted,
         ugens[u].calc \in {"released", "gone"} => g.calc \in {"released", "gone"},
         ActiveCountsUGens', active_julia_ugens' \in Nat,
         UNCHANGED nrtVars
  PROVE  UGenInv'
<1>1. ugens[u] \in UGenState /\ ugens'[u] = g
  BY DEF UGenInv, TypeOK
<1>2. \A v \in UGens \ {u} : ugens'[v] = ugens[v] /\ ugens[v] \in UGenState
  BY DEF UGenInv, TypeOK
<1>3. posted' \subseteq Refs
  BY DEF UGenInv, TypeOK
<1>4. TypeOK'
  BY <1>3 DEF UGenInv, TypeOK, nrtVars
<1>5. AllSound'
  <2> SUFFICES ASSUME NEW v \in UGens
               PROVE  Sound(v, ugens'[v], id_dict')
    BY DEF AllSound
  <2>1. CASE v = u
    BY <1>1, <2>1
  <2>2. CASE v # u
    <3>1. Sound(v, ugens[v], id_dict)
      BY DEF UGenInv, AllSound
    <3>2. \A fun \in Funs : <<v, fun>> \in id_dict' <=> <<v, fun>> \in id_dict
      BY <2>2
    <3> QED
      BY <1>2, <2>2, <3>1, <3>2, SoundElsewhere
  <2> QED
    BY <2>1, <2>2
<1>6. PostedAreDead'
  <2> SUFFICES ASSUME NEW r \in posted'
               PROVE  ugens'[r[1]].calc \in {"released", "gone"}
    BY DEF PostedAreDead
  <2>1. r[1] \in UGens
    BY <1>3 DEF Refs
  <2>2. r \in posted => ugens[r[1]].calc \in {"released", "gone"}
    BY DEF UGenInv, PostedAreDead
  <2> QED
    BY <1>1, <1>2, <2>1, <2>2
<1> QED
  BY <1>4, <1>5, <1>6 DEF UGenInv

-----------------------------------------------------------------------------
(* The constructor, next_NRT_busy and next_julia_code *)

LEMMA BeginStep ==
  ASSUME UGenInv, NEW u \in UGens, NEW entry \in Entries, NEW io \in IOShapes,
         BeginConstructor(u, entry, io)
  PROVE  UGenInv'
<1> DEFINE g == Born(entry, io)
<1>1. ugens[u] \in UGenState /\ Sound(u, ugens[u], id_dict)
  BY DEF UGenInv, TypeOK, AllSound
<1>2. /\ ugens[u].calc = "unborn"
      /\ ugens' = [ugens EXCEPT ![u] = g]
      /\ active_julia_ugens' = CountUp(active_julia_ugens)
      /\ UNCHANGED <<nrtVars, id_dict, posted>>
  BY DEF BeginConstructor
<1>3. g \in UGenState /\ g.calc = "ctor" /\ Sound(u, g, id_dict)
  BY <1>1, <1>2, BornSound
<1> HIDE DEF g
<1>4. Counted(g) /\ ~Counted(ugens[u])
  BY <1>2, <1>3 DEF Counted
<1>5. ActiveCountsUGens' /\ active_julia_ugens' \in Nat
  BY <1>2, <1>3, <1>4, CountFollows DEF UGenInv
<1>6. id_dict' \subseteq Refs /\ posted' \subseteq posted
  BY <1>2 DEF UGenInv, TypeOK
<1> QED
  BY <1>2, <1>3, <1>5, <1>6, UGenStep

\* Steps that set calc and nothing else of the UGen.
LEMMA CalcStep ==
  ASSUME UGenInv, NEW u \in UGens, NEW calc \in Calcs,
         ugens' = [ugens EXCEPT ![u] = [ugens[u] EXCEPT !.calc = calc]],
         \/ /\ ugens[u].calc = "ctor" /\ calc = "next_NRT_busy"
            /\ active_julia_ugens' = active_julia_ugens
         \/ /\ ugens[u].calc \in {"next_NRT_busy", "next_julia_code", "output_silence"}
            /\ calc = "released"
            /\ active_julia_ugens' = active_julia_ugens
         \/ /\ Counted(ugens[u]) /\ calc = "gone"
            /\ active_julia_ugens' = CountDown(active_julia_ugens),
         \/ posted' = posted
         \/ /\ calc = "released" /\ ugens[u].valid
            /\ posted' = posted \cup {<<u, ugens[u].ref>>},
         UNCHANGED <<nrtVars, id_dict>>
  PROVE  UGenInv'
<1> DEFINE g == [ugens[u] EXCEPT !.calc = calc]
<1>1. ugens[u] \in UGenState /\ Sound(u, ugens[u], id_dict)
  BY DEF UGenInv, TypeOK, AllSound
<1>2. g \in UGenState /\ g.calc = calc
  BY <1>1, WithCalc
<1>3. Sound(u, g, id_dict)
  BY <1>1, CalcSound
<1>4. ugens' = [ugens EXCEPT ![u] = g]
  OBVIOUS
<1> HIDE DEF g
<1>5. ActiveCountsUGens' /\ active_julia_ugens' \in Nat
  BY <1>2, <1>4, CountFollows DEF UGenInv, Counted
<1>6. id_dict' \subseteq Refs
  BY DEF UGenInv, TypeOK
<1>7. /\ posted' \subseteq posted \/ (posted' \subseteq Refs /\ g.calc = "released")
      /\ \A r \in posted' : r[1] # u => r \in posted
  <2>1. CASE posted' = posted
    BY <2>1
  <2>2. CASE /\ calc = "released" /\ ugens[u].valid
             /\ posted' = posted \cup {<<u, ugens[u].ref>>}
    <3>1. ugens[u].ref \in Funs
      BY <1>1, <2>2 DEF Sound, UGenState
    <3>2. <<u, ugens[u].ref>> \in Refs
      BY <3>1 DEF Refs
    <3> QED
      BY <1>2, <2>2, <3>2 DEF UGenInv, TypeOK
  <2> QED
    BY <2>1, <2>2
<1>8. ugens[u].calc \in {"released", "gone"} => g.calc \in {"released", "gone"}
  BY <1>2 DEF Counted
<1>9. /\ Sound(u, g, id_dict') /\ UNCHANGED nrtVars
      /\ \A v \in UGens \ {u}, fun \in Funs : <<v, fun>> \in id_dict' <=> <<v, fun>> \in id_dict
  BY <1>3
<1> QED
  BY <1>2, <1>4, <1>5, <1>6, <1>7, <1>8, <1>9, UGenStep

\* Steps that leave the UGen counted and alive, or release it, and change its
\* reference in the dict.
LEMMA BodyStep ==
  ASSUME UGenInv, NEW u \in UGens, NEW g \in UGenState,
         ugens' = [ugens EXCEPT ![u] = g],
         Sound(u, g, id_dict'),
         id_dict' \subseteq Refs,
         \A v \in UGens \ {u}, fun \in Funs : <<v, fun>> \in id_dict' <=> <<v, fun>> \in id_dict,
         ugens[u].calc \in {"ctor", "next_NRT_busy", "next_julia_code", "output_silence"},
         g.calc \in {"next_julia_code", "output_silence", "released"},
         UNCHANGED <<nrtVars, posted, active_julia_ugens>>
  PROVE  UGenInv'
<1>1. Counted(ugens[u]) /\ Counted(g)
  BY DEF Counted
<1>2. ActiveCountsUGens' /\ active_julia_ugens' \in Nat
  BY <1>1, CountFollows DEF UGenInv
<1> QED
  BY <1>2, UGenStep

LEMMA InitialiseStep ==
  ASSUME UGenInv, NEW u \in UGens, NEW accepted \in BOOLEAN, NEW ok \in BOOLEAN,
         accepted => ObjectOf(u).compiled,
         ugens[u].calc \in {"ctor", "next_NRT_busy"},
         Initialise(u, accepted, ok)
  PROVE  UGenInv'
<1> DEFINE fun == ObjectOf(u).perform_fun
           g == Initialised(ugens[u], fun, accepted /\ ok)
           d == IF accepted /\ ok THEN id_dict \cup {<<u, fun>>} ELSE id_dict
<1>1. ugens[u] \in UGenState /\ Sound(u, ugens[u], id_dict)
  BY DEF UGenInv, TypeOK, AllSound
<1>2. ObjectOf(u) \in JuliaObject
  BY <1>1 DEF UGenInv, TypeOK, ObjectOf, UGenState
<1>3. accepted => fun \in Funs
  BY <1>2, CompiledHasFun
<1>4. /\ g \in UGenState
      /\ g.calc \in {"next_julia_code", "output_silence"}
      /\ Sound(u, g, d)
  <2> HIDE DEF fun
  <2> QED
    BY <1>1, <1>3, InitialisedSound
<1>5. ugens' = [ugens EXCEPT ![u] = g] /\ id_dict' = d
  BY DEF Initialise
<1>6. UNCHANGED <<nrtVars, posted, active_julia_ugens>>
  BY DEF Initialise
<1>7. d \subseteq Refs
  BY <1>3 DEF UGenInv, TypeOK, Refs
<1>8. \A v \in UGens \ {u}, f \in Funs : <<v, f>> \in d <=> <<v, f>> \in id_dict
  OBVIOUS
<1> HIDE DEF g, d
<1> QED
  BY <1>4, <1>5, <1>6, <1>7, <1>8, BodyStep

LEMMA FollowFreeStep ==
  ASSUME UGenInv, NEW u \in UGens, NEW outcome, FollowFree(u, outcome)
  PROVE  UGenInv'
<1> DEFINE g == Freed(u, ugens[u], id_dict)
           d == DictWithout(u, ugens[u], id_dict, outcome)
<1>1. ugens[u] \in UGenState /\ Sound(u, ugens[u], id_dict)
  BY DEF UGenInv, TypeOK, AllSound
<1>2. g \in UGenState /\ g.calc = "output_silence"
  BY <1>1, FreedIsSilent
<1>3. Sound(u, g, d)
  BY <1>1, FreedSound
<1>4. ugens' = [ugens EXCEPT ![u] = g] /\ id_dict' = d
  BY DEF FollowFree
<1>5. ugens[u].calc = "next_julia_code" /\ UNCHANGED <<nrtVars, posted, active_julia_ugens>>
  BY DEF FollowFree, Outdated
<1>6. d \subseteq Refs
  BY DictWithoutIs DEF UGenInv, TypeOK
<1>7. \A v \in UGens \ {u}, f \in Funs : <<v, f>> \in d <=> <<v, f>> \in id_dict
  BY DictElsewhere
<1> HIDE DEF g, d
<1> QED
  BY <1>2, <1>3, <1>4, <1>5, <1>6, <1>7, BodyStep

LEMMA FollowRecompilationStep ==
  ASSUME UGenInv, NEW u \in UGens, NEW outcome, FollowRecompilation(u, outcome)
  PROVE  UGenInv'
<1> DEFINE o == ObjectOf(u)
           g == Reallocated(u, ugens[u], id_dict, o, outcome)
           d == DictReallocated(u, ugens[u], id_dict, o, outcome)
<1>1. ugens[u] \in UGenState /\ Sound(u, ugens[u], id_dict)
  BY DEF UGenInv, TypeOK, AllSound
<1>2. o \in JuliaObject
  BY <1>1 DEF UGenInv, TypeOK, ObjectOf, UGenState
<1>3. /\ o.compiled
      /\ ugens[u].calc = "next_julia_code"
      /\ UNCHANGED <<nrtVars, posted, active_julia_ugens>>
  BY DEF FollowRecompilation, Outdated
<1>4. ugens' = [ugens EXCEPT ![u] = g] /\ id_dict' = d
  BY DEF FollowRecompilation
<1> HIDE DEF o
<1>5. g \in UGenState /\ g.calc = "next_julia_code"
  BY <1>1, <1>2, <1>3, ReallocatedKeeps
<1>6. Sound(u, g, d)
  BY <1>1, <1>2, <1>3, ReallocatedSound
<1>7. d \subseteq Refs
  <2>1. <<u, o.perform_fun>> \in Refs
    BY <1>2, <1>3, CompiledHasFun DEF Refs
  <2> QED
    BY <2>1, DictWithoutIs DEF UGenInv, TypeOK, DictReallocated
<1>8. \A v \in UGens \ {u}, f \in Funs : <<v, f>> \in d <=> <<v, f>> \in id_dict
  BY DictElsewhere
<1> HIDE DEF g, d
<1> QED
  BY <1>3, <1>4, <1>5, <1>6, <1>7, <1>8, BodyStep

-----------------------------------------------------------------------------
(* The destructor and the collector *)

LEMMA DestroyStep ==
  ASSUME UGenInv, NEW u \in UGens, NEW outcome, Destroy(u, outcome)
  PROVE  UGenInv'
<1> DEFINE g == [Destructed(u, ugens[u], id_dict) EXCEPT !.calc = "released"]
           d == DictWithout(u, ugens[u], id_dict, outcome)
<1>1. ugens[u] \in UGenState /\ Sound(u, ugens[u], id_dict)
  BY DEF UGenInv, TypeOK, AllSound
<1>2. g \in UGenState /\ g.calc = "released" /\ Sound(u, g, d)
  BY <1>1, DestroyedSound
<1>3. ugens' = [ugens EXCEPT ![u] = g] /\ id_dict' = d
  BY DEF Destroy, UGenInv, TypeOK
<1>4. /\ ugens[u].calc \in {"next_NRT_busy", "next_julia_code", "output_silence"}
      /\ UNCHANGED <<nrtVars, posted, active_julia_ugens>>
  BY DEF Destroy, Destructible
<1>5. d \subseteq Refs
  BY DictWithoutIs DEF UGenInv, TypeOK
<1>6. \A v \in UGens \ {u}, f \in Funs : <<v, f>> \in d <=> <<v, f>> \in id_dict
  BY DictElsewhere
<1> HIDE DEF g, d
<1> QED
  BY <1>2, <1>3, <1>4, <1>5, <1>6, BodyStep

\* The collector empties the dict of dead UGens only.
LEMMA UnrootStep ==
  ASSUME UGenInv, NEW r \in Refs, UnrootPosted(r)
  PROVE  UGenInv'
<1>1. /\ r \in posted
      /\ id_dict' = id_dict \ {r}
      /\ UNCHANGED <<nrtVars, ugens, posted, active_julia_ugens>>
  BY DEF UnrootPosted
<1>2. r[1] \in UGens /\ ugens[r[1]].calc \in {"released", "gone"}
  BY <1>1 DEF UGenInv, PostedAreDead, Refs
<1>3. AllSound'
  <2> SUFFICES ASSUME NEW v \in UGens
               PROVE  Sound(v, ugens[v], id_dict')
    BY <1>1 DEF AllSound
  <2>1. ugens[v] \in UGenState /\ Sound(v, ugens[v], id_dict)
    BY DEF UGenInv, TypeOK, AllSound
  <2>2. CASE v = r[1]
    BY <1>1, <1>2, <2>1, <2>2, SoundUnrooted
  <2>3. CASE v # r[1]
    <3>1. \A fun \in Funs : <<v, fun>> \in id_dict' <=> <<v, fun>> \in id_dict
      BY <1>1, <2>3
    <3> QED
      BY <2>1, <3>1, SoundElsewhere
  <2> QED
    BY <2>2, <2>3
<1> QED
  BY <1>1, <1>3 DEF UGenInv, TypeOK, ActiveCountsUGens, PostedAreDead, nrtVars

-----------------------------------------------------------------------------
(* The invariant *)

LEMMA InitInv == Init => UGenInv
<1> SUFFICES ASSUME Init
             PROVE  UGenInv
  OBVIOUS
<1>1. /\ Unborn \in UGenState
      /\ Unborn.calc = "unborn"
      /\ Unborn.valid = FALSE
      /\ Unborn.ref = NullFun
  <2>1. 0 \in Entries
    BY NumEntriesAssumption DEF Entries
  <2>2. Born(0, NoIO) \in UGenState /\ "unborn" \in Calcs
    BY <2>1 DEF Born, UGenState, Calcs
  <2> QED
    BY <2>2 DEF Unborn, Born, UGenState
<1>2. TypeOK
  BY <1>1, MaxCompilesAssumption DEF Init, TypeOK, JuliaObject
<1>3. AllSound
  BY <1>1 DEF Init, AllSound, Sound
<1>4. {u \in UGens : Counted(ugens[u])} = {}
  BY <1>1 DEF Init, Counted
<1>5. ActiveCountsUGens
  BY <1>4, FS_EmptySet DEF Init, ActiveCountsUGens
<1> QED
  BY <1>2, <1>3, <1>5 DEF Init, UGenInv, PostedAreDead

LEMMA NextInv ==
  ASSUME UGenInv, [Next]_vars
  PROVE  UGenInv'
<1>1. ASSUME NEW u \in UGens, NEW entry \in Entries, NEW io \in IOShapes,
             BeginConstructor(u, entry, io)
      PROVE  UGenInv'
  BY <1>1, BeginStep
<1>2. ASSUME NEW u \in UGens, DeferConstructor(u)
      PROVE  UGenInv'
  BY <1>2, CalcStep DEF DeferConstructor, Calcs
<1>3. ASSUME NEW u \in UGens, NEW ok \in InitOutcomes, Constructor(u, ok)
      PROVE  UGenInv'
  BY <1>3, InitialiseStep DEF Constructor, ConstructorAccepts, InitOutcomes
<1>4. ASSUME NEW u \in UGens, NEW ok \in InitOutcomes, NextNRTBusy(u, ok)
      PROVE  UGenInv'
  <2>1. ok \in BOOLEAN
    BY DEF InitOutcomes
  <2>2. BusyAccepts(ugens[u], ObjectOf(u)) \in BOOLEAN
    <3>1. ugens[u] \in UGenState
      BY DEF UGenInv, TypeOK
    <3>2. ObjectOf(u) \in JuliaObject
      BY <3>1 DEF UGenInv, TypeOK, ObjectOf, UGenState
    <3>3. CASE ObjectOf(u) = NoObject
      BY <3>3 DEF BusyAccepts, NoObject
    <3>4. CASE ObjectOf(u) # NoObject
      <4>1. PICK name \in Names, fun \in Funs, io \in IOShapes :
               ObjectOf(u) = CompiledObject(name, fun, io)
        BY <3>2, <3>4 DEF JuliaObject
      <4> QED
        BY <4>1 DEF BusyAccepts, CompiledObject
    <3> QED
      BY <3>3, <3>4
  <2> QED
    BY <1>4, <2>1, <2>2, InitialiseStep DEF NextNRTBusy, BusyAccepts
<1>5. ASSUME NEW u \in UGens, DestroyInvalid(u)
      PROVE  UGenInv'
  BY <1>5, CalcStep DEF DestroyInvalid, Destructible, Calcs, Counted
<1>6. ASSUME NEW u \in UGens, NEW kept \in BOOLEAN, PostRef(u, kept)
      PROVE  UGenInv'
  BY <1>6, CalcStep DEF PostRef, Destructible, Calcs
<1>7. ASSUME NEW u \in UGens, Uncount(u)
      PROVE  UGenInv'
  BY <1>7, CalcStep DEF Uncount, Calcs, Counted
<1>8. ASSUME NEW r \in Refs, ClearPosted(r)
      PROVE  UGenInv'
  BY <1>8 DEF ClearPosted, UGenInv, TypeOK, ActiveCountsUGens, AllSound, PostedAreDead, nrtVars
<1>9. ASSUME NEW entry \in Entries, Unload(entry)
      PROVE  UGenInv'
  <2>1. TypeOK'
    BY <1>9 DEF Unload, UGenInv, TypeOK, JuliaObject
  <2> QED
    BY <1>9, <2>1 DEF Unload, UGenInv, ActiveCountsUGens, AllSound, PostedAreDead
<1>10. ASSUME NEW entry \in Entries, NEW name \in Names, NEW io \in IOShapes,
              Load(entry, name, io)
       PROVE  UGenInv'
  <2>1. compiles + 1 \in Funs /\ compiles' \in 0 .. MaxCompiles
    BY <1>10, MaxCompilesAssumption DEF Load, UGenInv, TypeOK, Funs
  <2>2. CompiledObject(name, compiles + 1, io) \in JuliaObject
    BY <2>1 DEF JuliaObject
  <2>3. TypeOK'
    BY <1>10, <2>1, <2>2 DEF Load, UGenInv, TypeOK
  <2> QED
    BY <1>10, <2>3 DEF Load, UGenInv, ActiveCountsUGens, AllSound, PostedAreDead
<1>11. CASE UNCHANGED vars
  BY <1>11 DEF vars, UGenInv, TypeOK, ActiveCountsUGens, AllSound, PostedAreDead
<1> QED
  BY <1>1, <1>2, <1>3, <1>4, <1>5, <1>6, <1>7, <1>8, <1>9, <1>10, <1>11,
     FollowFreeStep, FollowRecompilationStep, DestroyStep, UnrootStep DEF Next

\* The inductive invariant.
THEOREM Invariance == Spec => []UGenInv
BY InitInv, NextInv, PTL DEF Spec

\* Every member of every UGen, the dict, the posted references and the counter
\* stay in their types, whatever fails.
THEOREM TypeCorrect == Spec => []TypeOK
<1>1. UGenInv => TypeOK
  BY DEF UGenInv
<1> QED
  BY <1>1, Invariance, PTL

\* active_julia_ugens is the number of UGens between their constructor and the
\* end of their destructor, on every way through Julia.cpp.
THEOREM CounterIsRight == Spec => []ActiveCountsUGens
<1>1. UGenInv => ActiveCountsUGens
  BY DEF UGenInv
<1> QED
  BY <1>1, Invariance, PTL

\* A UGen that is valid has members that belong together and a reference in
\* the dict, however many reallocations it took and wherever they failed.
THEOREM ValidRooted == Spec => []ValidIsRooted
<1>1. UGenInv => ValidIsRooted
  BY DEF UGenInv, AllSound, Sound, ValidIsRooted
<1> QED
  BY <1>1, Invariance, PTL

\* The dict holds at most one reference of a UGen.
THEOREM OneReference == Spec => []OneRefPerUGen
<1>1. ASSUME UGenInv
      PROVE  OneRefPerUGen
  <2> SUFFICES ASSUME NEW r \in id_dict, NEW s \in id_dict, r[1] = s[1]
               PROVE  r = s
    BY DEF OneRefPerUGen
  <2>1. PICK u \in UGens, fun \in Funs, fun2 \in Funs : r = <<u, fun>> /\ s = <<u, fun2>>
    BY <1>1 DEF UGenInv, TypeOK, Refs
  <2>2. fun = ugens[u].ref /\ fun2 = ugens[u].ref
    BY <1>1, <2>1 DEF UGenInv, AllSound, Sound
  <2> QED
    BY <2>1, <2>2
<1> QED
  BY <1>1, Invariance, PTL
=============================================================================
