--------------------------- MODULE UGenCallsProofs ---------------------------
(***************************************************************************)
(* Lemmas about the bodies of UGenCalls: what each leaves in the UGen it   *)
(* works on and in the dict.  JuliaUGenProofs and JuliaServerProofs cite   *)
(* them.                                                                   *)
(***************************************************************************)
EXTENDS UGenCalls, TLAPS

-----------------------------------------------------------------------------
(* What the bodies of the callbacks leave in a UGen *)

\* An @object that is compiled has a __perform__ function.
LEMMA CompiledHasFun ==
  ASSUME NEW o \in JuliaObject, o.compiled
  PROVE  o.perform_fun \in Funs
BY DEF JuliaObject, NoObject, CompiledObject

\* Assignments to one member.
LEMMA WithCalc ==
  ASSUME NEW g \in UGenState, NEW calc \in Calcs
  PROVE  /\ [g EXCEPT !.calc = calc] \in UGenState
         /\ [g EXCEPT !.calc = calc].calc = calc
         /\ [g EXCEPT !.calc = calc].valid = g.valid
         /\ [g EXCEPT !.calc = calc].ref = g.ref
BY DEF UGenState

\* ... and to valid, which is only ever reset.
LEMMA WithoutValid ==
  ASSUME NEW g \in UGenState
  PROVE  /\ [g EXCEPT !.valid = FALSE] \in UGenState
         /\ [g EXCEPT !.valid = FALSE].calc = g.calc
         /\ [g EXCEPT !.valid = FALSE].valid = FALSE
         /\ [g EXCEPT !.valid = FALSE].ref = g.ref
BY DEF UGenState

\* perform_destructor changes nothing that the other steps look at.
LEMMA DestructedKeeps ==
  ASSUME NEW u, NEW g \in UGenState, NEW dict
  PROVE  /\ Destructed(u, g, dict) \in UGenState
         /\ Destructed(u, g, dict).calc = g.calc
         /\ Destructed(u, g, dict).valid = g.valid
         /\ Destructed(u, g, dict).ref = g.ref
BY DEF Destructed, UGenState

\* valid = false goes with the destructor.
LEMMA InvalidatedIsInvalid ==
  ASSUME NEW u, NEW g \in UGenState, NEW dict
  PROVE  /\ Invalidated(u, g, dict) \in UGenState
         /\ Invalidated(u, g, dict).calc = g.calc
         /\ Invalidated(u, g, dict).valid = FALSE
         /\ Invalidated(u, g, dict).ref = g.ref
<1> DEFINE d == Destructed(u, g, dict)
<1>1. d \in UGenState /\ d.calc = g.calc /\ d.ref = g.ref
  BY DestructedKeeps
<1> HIDE DEF d
<1>2. /\ [d EXCEPT !.valid = FALSE] \in UGenState
      /\ [d EXCEPT !.valid = FALSE].calc = g.calc
      /\ [d EXCEPT !.valid = FALSE].valid = FALSE
      /\ [d EXCEPT !.valid = FALSE].ref = g.ref
  BY <1>1, WithoutValid
<1> QED
  BY <1>2 DEF Invalidated, d

\* A UGen whose @object was freed is silent and not valid.
LEMMA FreedIsSilent ==
  ASSUME NEW u, NEW g \in UGenState, NEW dict
  PROVE  /\ Freed(u, g, dict) \in UGenState
         /\ Freed(u, g, dict).calc = "output_silence"
         /\ Freed(u, g, dict).valid = FALSE
         /\ Freed(u, g, dict).ref = g.ref
<1> DEFINE i == Invalidated(u, g, dict)
<1>1. i \in UGenState /\ i.valid = FALSE /\ i.ref = g.ref
  BY InvalidatedIsInvalid
<1> HIDE DEF i
<1>2. /\ [i EXCEPT !.calc = "output_silence"] \in UGenState
      /\ [i EXCEPT !.calc = "output_silence"].calc = "output_silence"
      /\ [i EXCEPT !.calc = "output_silence"].valid = FALSE
      /\ [i EXCEPT !.calc = "output_silence"].ref = g.ref
  BY <1>1, WithCalc DEF Calcs
<1> QED
  BY <1>2 DEF Freed, i

\* However a reallocation ends, the UGen keeps its calc function, and a valid
\* UGen has a reference.
LEMMA ReallocatedKeeps ==
  ASSUME NEW u, NEW g \in UGenState, NEW dict, NEW o \in JuliaObject, NEW outcome,
         o.compiled
  PROVE  /\ Reallocated(u, g, dict, o, outcome) \in UGenState
         /\ Reallocated(u, g, dict, o, outcome).calc = g.calc
         /\ Reallocated(u, g, dict, o, outcome).valid
               => Reallocated(u, g, dict, o, outcome).ref # NullFun
<1> DEFINE old == Invalidated(u, g, dict)
           new == o.perform_fun
<1>1. /\ old \in UGenState
      /\ old.calc = g.calc
      /\ old.valid = FALSE
  BY InvalidatedIsInvalid
<1>2. new \in Funs
  BY CompiledHasFun
<1>3. new # NullFun
  BY <1>2, MaxCompilesAssumption DEF Funs, NullFun
<1> HIDE DEF old, new
<1> DEFINE failed == [old EXCEPT !.fun = new, !.ugen_object = NullFun]
           noref == [old EXCEPT !.fun = new, !.ugen_object = new, !.arg1 = new, !.ref = NullFun]
           unrooted == [old EXCEPT !.fun = new, !.ugen_object = new, !.arg1 = new, !.ref = new]
           whole == [old EXCEPT !.fun = new, !.ugen_object = new, !.arg1 = new, !.ref = new,
                                !.valid = TRUE]
           Keeps(r) == r \in UGenState /\ r.calc = g.calc /\ (r.valid => r.ref # NullFun)
<1>4. Reallocated(u, g, dict, o, outcome) \in {old, failed, noref, unrooted, whole}
  BY DEF Reallocated, old, new
<1>5. Keeps(old) /\ Keeps(failed)
  BY <1>1, <1>2 DEF UGenState
<1>6. Keeps(noref) /\ Keeps(unrooted)
  BY <1>1, <1>2 DEF UGenState
<1>7. Keeps(whole)
  BY <1>1, <1>2, <1>3 DEF UGenState
<1> HIDE DEF failed, noref, unrooted, whole
<1> QED
  BY <1>4, <1>5, <1>6, <1>7

\* A UGen that begins to play has a reference.
LEMMA PlayingType ==
  ASSUME NEW g \in UGenState, NEW fun \in Funs
  PROVE  /\ Playing(g, fun) \in UGenState
         /\ Playing(g, fun).calc = "next_julia_code"
         /\ Playing(g, fun).ref # NullFun
<1>1. fun # NullFun
  BY MaxCompilesAssumption DEF Funs, NullFun
<1>2. "next_julia_code" \in Calcs
  BY DEF Calcs
<1> QED
  BY <1>1, <1>2 DEF Playing, UGenState

-----------------------------------------------------------------------------
(* A UGen and its references in the dict *)

\* The UGen g is u.  Before it is initialised it has no reference; it is valid
\* only from then on, and a silent one is not; valid means wholly set up; and
\* the dict holds no reference of u but the one that g.ref points to.
Sound(u, g, dict) ==
    /\ g.calc \in {"unborn", "ctor", "next_NRT_busy"} => g.ref = NullFun
    /\ g.valid => g.ref # NullFun /\ g.calc \in {"next_julia_code", "released", "gone"}
    /\ g.calc = "next_julia_code" /\ g.valid =>
          /\ <<u, g.ref>> \in dict
          /\ g.fun = g.ref
          /\ g.arg1 = g.ref
          /\ g.ugen_object = g.ref
    /\ \A fun \in Funs : <<u, fun>> \in dict => fun = g.ref

\* References of other UGens come and go without harm.
LEMMA SoundElsewhere ==
  ASSUME NEW u, NEW g \in UGenState, NEW dict, NEW dict2, Sound(u, g, dict),
         \A fun \in Funs : <<u, fun>> \in dict2 <=> <<u, fun>> \in dict
  PROVE  Sound(u, g, dict2)
<1>1. g.ref # NullFun => g.ref \in Funs
  BY DEF UGenState
<1> QED
  BY <1>1 DEF Sound

\* The dict may lose a reference of a UGen that does not play any more.
LEMMA SoundUnrooted ==
  ASSUME NEW u, NEW g \in UGenState, NEW dict, NEW dict2, Sound(u, g, dict),
         dict2 \subseteq dict, g.calc # "next_julia_code"
  PROVE  Sound(u, g, dict2)
BY DEF Sound

\* A constructor begins with nothing set.
LEMMA BornSound ==
  ASSUME NEW u, NEW g \in UGenState, NEW dict, Sound(u, g, dict),
         g.calc = "unborn", NEW entry \in Entries, NEW io \in IOShapes
  PROVE  /\ Born(entry, io) \in UGenState
         /\ Born(entry, io).calc = "ctor"
         /\ Sound(u, Born(entry, io), dict)
<1>1. Born(entry, io) \in UGenState
  BY DEF Born, UGenState, Calcs
<1>2. /\ Born(entry, io).calc = "ctor"
      /\ Born(entry, io).valid = FALSE
      /\ Born(entry, io).ref = NullFun
  BY DEF Born
<1> QED
  BY <1>1, <1>2 DEF Sound

\* A constructor defers, and a destructor leaves the UGen dead.
LEMMA CalcSound ==
  ASSUME NEW u, NEW g \in UGenState, NEW dict, Sound(u, g, dict),
         NEW calc \in Calcs,
         \/ g.calc = "ctor" /\ calc = "next_NRT_busy"
         \/ calc \in {"released", "gone"}
  PROVE  Sound(u, [g EXCEPT !.calc = calc], dict)
<1>1. /\ [g EXCEPT !.calc = calc].calc = calc
      /\ [g EXCEPT !.calc = calc].valid = g.valid
      /\ [g EXCEPT !.calc = calc].ref = g.ref
  BY WithCalc
<1> QED
  BY <1>1 DEF Sound

\* The initialisation, which roots the reference if it goes well.
LEMMA InitialisedSound ==
  ASSUME NEW u, NEW g \in UGenState, NEW dict, Sound(u, g, dict),
         g.calc \in {"ctor", "next_NRT_busy"}, NEW fun, NEW ok \in BOOLEAN,
         ok => fun \in Funs
  PROVE  /\ Initialised(g, fun, ok) \in UGenState
         /\ Initialised(g, fun, ok).calc \in {"next_julia_code", "output_silence"}
         /\ Sound(u, Initialised(g, fun, ok), IF ok THEN dict \cup {<<u, fun>>} ELSE dict)
<1>1. CASE ok
  <2> DEFINE p == Playing(g, fun)
  <2>1. p \in UGenState
    BY <1>1, PlayingType
  <2>2. /\ p.calc = "next_julia_code"
        /\ p.valid = TRUE
        /\ p.fun = fun
        /\ p.arg1 = fun
        /\ p.ugen_object = fun
        /\ p.ref = fun
    BY DEF Playing, UGenState
  <2>3. fun # NullFun
    BY <1>1 DEF Funs, NullFun
  <2>4. \A f \in Funs : <<u, f>> \notin dict
    BY DEF Sound, Funs, NullFun
  <2> HIDE DEF p
  <2>5. Sound(u, p, dict \cup {<<u, fun>>})
    BY <2>2, <2>3, <2>4 DEF Sound
  <2> QED
    BY <1>1, <2>1, <2>2, <2>5 DEF Initialised, p
<1>2. CASE ~ok
  <2> DEFINE s == [g EXCEPT !.calc = "output_silence"]
  <2>1. /\ s \in UGenState
        /\ s.calc = "output_silence"
        /\ s.valid = g.valid
        /\ s.ref = g.ref
    BY WithCalc DEF Calcs
  <2>2. ~g.valid
    BY DEF Sound
  <2> HIDE DEF s
  <2>3. Sound(u, s, dict)
    BY <2>1, <2>2 DEF Sound
  <2> QED
    BY <1>2, <2>1, <2>3 DEF Initialised, s
<1> QED
  BY <1>1, <1>2

\* A removal takes at most the reference of this UGen out of the dict.
LEMMA DictWithoutIs ==
  ASSUME NEW u, NEW g, NEW dict, NEW outcome
  PROVE  /\ DictWithout(u, g, dict, outcome) \subseteq dict
         /\ \A r \in dict \ DictWithout(u, g, dict, outcome) : r = <<u, g.ref>>
BY DEF DictWithout

\* Freed: the reference that a failed removal leaves is the UGen's own.
LEMMA FreedSound ==
  ASSUME NEW u, NEW g \in UGenState, NEW dict, Sound(u, g, dict), NEW outcome
  PROVE  Sound(u, Freed(u, g, dict), DictWithout(u, g, dict, outcome))
<1>1. /\ Freed(u, g, dict).calc = "output_silence"
      /\ Freed(u, g, dict).valid = FALSE
      /\ Freed(u, g, dict).ref = g.ref
  BY FreedIsSilent
<1> QED
  BY <1>1, DictWithoutIs DEF Sound

\* Destroyed, with the removal done or failed.
LEMMA DestroyedSound ==
  ASSUME NEW u, NEW g \in UGenState, NEW dict, Sound(u, g, dict), NEW outcome
  PROVE  /\ [Destructed(u, g, dict) EXCEPT !.calc = "released"] \in UGenState
         /\ [Destructed(u, g, dict) EXCEPT !.calc = "released"].calc = "released"
         /\ Sound(u, [Destructed(u, g, dict) EXCEPT !.calc = "released"],
                  DictWithout(u, g, dict, outcome))
<1> DEFINE d == Destructed(u, g, dict)
<1>1. d \in UGenState /\ d.valid = g.valid /\ d.ref = g.ref
  BY DestructedKeeps
<1> HIDE DEF d
<1>2. /\ [d EXCEPT !.calc = "released"] \in UGenState
      /\ [d EXCEPT !.calc = "released"].calc = "released"
      /\ [d EXCEPT !.calc = "released"].valid = g.valid
      /\ [d EXCEPT !.calc = "released"].ref = g.ref
  BY <1>1, WithCalc DEF Calcs
<1>3. Sound(u, [d EXCEPT !.calc = "released"], DictWithout(u, g, dict, outcome))
  BY <1>2, DictWithoutIs DEF Sound
<1> QED
  BY <1>2, <1>3 DEF d

\* Reallocated: wherever it ends, the UGen is valid only with everything new,
\* and the old reference is gone from the dict before the new one gets in.
LEMMA ReallocatedSound ==
  ASSUME NEW u, NEW g \in UGenState, NEW dict, Sound(u, g, dict),
         g.calc = "next_julia_code", NEW o \in JuliaObject, o.compiled, NEW outcome
  PROVE  Sound(u, Reallocated(u, g, dict, o, outcome),
               DictReallocated(u, g, dict, o, outcome))
<1> DEFINE old == Invalidated(u, g, dict)
           new == o.perform_fun
           r == Reallocated(u, g, dict, o, outcome)
           d == DictReallocated(u, g, dict, o, outcome)
<1>1. /\ old \in UGenState
      /\ old.calc = g.calc
      /\ old.valid = FALSE
      /\ old.ref = g.ref
  BY InvalidatedIsInvalid
<1>2. new \in Funs /\ new # NullFun
  BY CompiledHasFun, MaxCompilesAssumption DEF Funs, NullFun
<1> HIDE DEF old, new
<1>3. CASE ~ReachesCode(g, o, outcome)
  <2>1. r = old
    BY <1>3 DEF Reallocated, old
  <2>2. d \subseteq dict
    BY <1>3, DictWithoutIs DEF DictReallocated
  <2> HIDE DEF r, d
  <2>3. Sound(u, r, d)
    BY <1>1, <2>1, <2>2 DEF Sound
  <2> QED
    BY <2>3 DEF r, d
<1>4. CASE ReachesCode(g, o, outcome)
  <2>1. ReachesRemoval(outcome) /\ RefRemoved(g, outcome)
    BY <1>4 DEF ReachesCode, ReachesFit
  <2>2. DictWithout(u, g, dict, outcome) = dict \ {<<u, g.ref>>}
    BY <2>1 DEF DictWithout
  <2>3. \A fun \in Funs : <<u, fun>> \notin dict \ {<<u, g.ref>>}
    BY DEF Sound
  <2>4. CASE outcome \in {"constructor", "create_ref", "root_ref"}
    <3>1. r.valid = FALSE
      BY <1>1, <1>2, <1>4, <2>4 DEF Reallocated, UGenState, old, new
    <3>2. r.calc = "next_julia_code"
      BY <1>1, <1>2, <1>4, <2>4 DEF Reallocated, UGenState, old, new
    <3>3. d = dict \ {<<u, g.ref>>}
      BY <1>4, <2>1, <2>2, <2>4 DEF DictReallocated
    <3> HIDE DEF r, d
    <3>4. Sound(u, r, d)
      BY <2>3, <3>1, <3>2, <3>3 DEF Sound
    <3> QED
      BY <3>4 DEF r, d
  <2>5. CASE outcome \notin {"constructor", "create_ref", "root_ref"}
    <3>1. r = [old EXCEPT !.fun = new, !.ugen_object = new, !.arg1 = new, !.ref = new,
                          !.valid = TRUE]
      BY <1>4, <2>5 DEF Reallocated, old, new
    <3>2. /\ r.calc = "next_julia_code"
          /\ r.fun = new
          /\ r.arg1 = new
          /\ r.ugen_object = new
          /\ r.ref = new
      BY <1>1, <3>1 DEF UGenState
    <3>3. d = (dict \ {<<u, g.ref>>}) \cup {<<u, new>>}
      BY <1>4, <2>1, <2>2, <2>5 DEF DictReallocated, new
    <3> HIDE DEF r, d
    <3>4. Sound(u, r, d)
      BY <1>2, <2>3, <3>2, <3>3 DEF Sound
    <3> QED
      BY <3>4 DEF r, d
  <2> QED
    BY <2>4, <2>5
<1> QED
  BY <1>3, <1>4

\* None of these touches the reference of another UGen.
LEMMA DictElsewhere ==
  ASSUME NEW u, NEW g, NEW dict, NEW o, NEW outcome, NEW v, v # u, NEW fun
  PROVE  /\ <<v, fun>> \in DictWithout(u, g, dict, outcome) <=> <<v, fun>> \in dict
         /\ <<v, fun>> \in DictReallocated(u, g, dict, o, outcome) <=> <<v, fun>> \in dict
<1>1. <<v, fun>> \in DictWithout(u, g, dict, outcome) <=> <<v, fun>> \in dict
  BY DEF DictWithout
<1> QED
  BY <1>1 DEF DictReallocated
=============================================================================
