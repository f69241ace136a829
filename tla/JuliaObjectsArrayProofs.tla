----------------------- MODULE JuliaObjectsArrayProofs -----------------------
(***************************************************************************)
(* Theorems about JuliaObjectsArray, for tables of any size.               *)
(*                                                                         *)
(* All searches of the table go through Scanned, which the counter bounds; *)
(* so the invariant starts with the counter.  It is never above the number *)
(* of compiled entries, whatever fails; it is that number while the table  *)
(* is clean, and then a search sees every compiled entry, so that a name   *)
(* has one entry and the replies are true.                                 *)
(***************************************************************************)
EXTENDS JuliaObjectsArray, FiniteSetTheorems, WellFoundedInduction, TLAPS

-----------------------------------------------------------------------------
(* Searches of the table *)

\* The loops go up the array, so the entry they take is the least one.
LEMMA MinOfEntries ==
  ASSUME NEW S \in SUBSET Entries, S # {}
  PROVE  Min(S) \in S
<1>1. S \subseteq Nat
  BY NumEntriesAssumption DEF Entries
<1> DEFINE R == {p \in Nat \X Nat : p[1] < p[2]}
<1>2. OpToRel(<, Nat) = R
  BY DEF OpToRel
<1>3. IsWellFoundedOn(R, Nat)
  BY <1>2, NatLessThanWellFounded
<1>4. ASSUME NEW x \in Nat, NEW y \in Nat, y < x
      PROVE  <<y, x>> \in R
  BY <1>4
<1> HIDE DEF R
<1>5. \E x \in S : \A y \in S : ~ (<<y, x>> \in R)
  BY <1>1, <1>3, WFMin
<1>6. PICK x \in S : \A y \in S : ~ (<<y, x>> \in R)
  BY <1>5
<1>7. ASSUME NEW y \in S
      PROVE  x =< y
  <2>1. x \in Nat /\ y \in Nat /\ ~ (y < x)
    BY <1>1, <1>4, <1>6
  <2> QED
    BY <2>1
<1> QED
  BY <1>7 DEF Min

LEMMA CompiledFinite ==
  ASSUME NEW objs
  PROVE  /\ CompiledEntries(objs) \subseteq Entries
         /\ IsFiniteSet(CompiledEntries(objs))
         /\ Cardinality(CompiledEntries(objs)) \in 0 .. NumEntries
<1>1. IsFiniteSet(Entries) /\ Cardinality(Entries) = NumEntries
  BY FS_Interval, NumEntriesAssumption DEF Entries
<1>2. CompiledEntries(objs) \subseteq Entries
  BY DEF CompiledEntries
<1>3. /\ IsFiniteSet(CompiledEntries(objs))
      /\ Cardinality(CompiledEntries(objs)) <= NumEntries
  BY <1>1, <1>2, FS_Subset
<1> QED
  BY <1>2, <1>3, FS_CardinalityType, NumEntriesAssumption

\* A counter that is right makes a search complete.
LEMMA ScannedAll ==
  ASSUME NEW objs
  PROVE  Scanned(objs, Cardinality(CompiledEntries(objs))) = CompiledEntries(objs)
<1> DEFINE C == CompiledEntries(objs)
<1>1. ASSUME NEW i \in C
      PROVE  Cardinality({j \in C : j < i}) < Cardinality(C)
  <2> DEFINE B == {j \in C : j < i}
  <2>1. i \in Nat
    BY <1>1, CompiledFinite, NumEntriesAssumption DEF Entries
  <2>2. B \in SUBSET C /\ i \notin B
    BY <2>1
  <2>3. IsFiniteSet(C) /\ IsFiniteSet(B)
    BY <2>2, CompiledFinite, FS_Subset
  <2>4. Cardinality(B) <= Cardinality(C) /\ Cardinality(B) # Cardinality(C)
    BY <2>2, <2>3, FS_Subset, <1>1
  <2> QED
    BY <2>3, <2>4, FS_CardinalityType
<1> QED
  BY <1>1 DEF Scanned

\* A search sees something only while the counter is not zero.
LEMMA ScannedSome ==
  ASSUME NEW objs, NEW active \in Nat, Scanned(objs, active) # {}
  PROVE  active > 0
<1>1. PICK i \in CompiledEntries(objs) :
        Cardinality({j \in CompiledEntries(objs) : j < i}) < active
  BY DEF Scanned
<1>2. Cardinality({j \in CompiledEntries(objs) : j < i}) \in Nat
  BY CompiledFinite, FS_Subset, FS_CardinalityType
<1> QED
  BY <1>1, <1>2

-----------------------------------------------------------------------------
(* Entries and what they hold *)

LEMMA NoObjectIs == NoObject \in JuliaObject /\ ~NoObject.compiled
BY DEF JuliaObject, NoObject

LEMMA ObjectFields ==
  ASSUME NEW name \in Names, NEW fun \in Funs, NEW io \in IOShapes
  PROVE  /\ CompiledObject(name, fun, io) \in JuliaObject
         /\ CompiledObject(name, fun, io).compiled
         /\ CompiledObject(name, fun, io).name = name
<1>1. CompiledObject(name, fun, io) \in JuliaObject
  BY DEF JuliaObject
<1>2. CompiledObject(name, fun, io).compiled /\ CompiledObject(name, fun, io).name = name
  BY DEF CompiledObject
<1> QED
  BY <1>1, <1>2

LEMMA CompiledIs ==
  ASSUME NEW o \in JuliaObject, o.compiled
  PROVE  /\ o.name \in Names /\ o.io \in IOShapes
         /\ \E fun \in Funs : o = CompiledObject(o.name, fun, o.io)
<1>1. PICK name \in Names, fun \in Funs, io \in IOShapes : o = CompiledObject(name, fun, io)
  BY DEF JuliaObject, NoObject
<1>2. o.name = name /\ o.io = io
  BY <1>1 DEF CompiledObject
<1> QED
  BY <1>1, <1>2

\* new is objs with o in the entry target.
Updated(new, objs, target, o) ==
    /\ new \in [Entries -> JuliaObject]
    /\ new[target] = o
    /\ \A i \in Entries \ {target} : new[i] = objs[i]

LEMMA ExceptUpdates ==
  ASSUME NEW objs \in [Entries -> JuliaObject], NEW target \in Entries, NEW o \in JuliaObject
  PROVE  Updated([objs EXCEPT ![target] = o], objs, target, o)
BY DEF Updated

\* An entry is emptied, whether it held an @object or not.
LEMMA Emptied ==
  ASSUME NEW objs, NEW target \in Entries, NEW new, Updated(new, objs, target, NoObject)
  PROVE  /\ new \in [Entries -> JuliaObject]
         /\ ~new[target].compiled
         /\ CompiledEntries(new) = CompiledEntries(objs) \ {target}
         /\ \A i \in CompiledEntries(new) : new[i] = objs[i]
         /\ Cardinality(CompiledEntries(new))
               = IF objs[target].compiled THEN Cardinality(CompiledEntries(objs)) - 1
                 ELSE Cardinality(CompiledEntries(objs))
<1>1. ~NoObject.compiled
  BY NoObjectIs
<1>2. CompiledEntries(new) = CompiledEntries(objs) \ {target}
  BY <1>1 DEF CompiledEntries, Updated
<1>3. Cardinality(CompiledEntries(new))
         = IF objs[target].compiled THEN Cardinality(CompiledEntries(objs)) - 1
           ELSE Cardinality(CompiledEntries(objs))
  <2>1. target \in CompiledEntries(objs) <=> objs[target].compiled
    BY DEF CompiledEntries
  <2> QED
    BY <2>1, <1>2, CompiledFinite, FS_RemoveElement
<1>4. \A i \in CompiledEntries(new) : new[i] = objs[i]
  BY <1>2, CompiledFinite DEF Updated
<1> QED
  BY <1>1, <1>2, <1>3, <1>4 DEF Updated

\* An empty entry is filled.
LEMMA Filled ==
  ASSUME NEW objs, NEW target \in Entries, ~objs[target].compiled,
         NEW o, o.compiled, NEW new, Updated(new, objs, target, o)
  PROVE  /\ new \in [Entries -> JuliaObject]
         /\ new[target] = o
         /\ \A i \in CompiledEntries(objs) : i # target /\ new[i] = objs[i]
         /\ CompiledEntries(new) = CompiledEntries(objs) \cup {target}
         /\ Cardinality(CompiledEntries(new)) = Cardinality(CompiledEntries(objs)) + 1
<1>1. CompiledEntries(new) = CompiledEntries(objs) \cup {target}
  BY DEF CompiledEntries, Updated
<1>2. target \notin CompiledEntries(objs)
  BY DEF CompiledEntries
<1>3. Cardinality(CompiledEntries(new)) = Cardinality(CompiledEntries(objs)) + 1
  BY <1>1, <1>2, CompiledFinite, FS_AddElement
<1>4. \A i \in CompiledEntries(objs) : i # target /\ new[i] = objs[i]
  BY <1>2, CompiledFinite DEF Updated
<1> QED
  BY <1>1, <1>3, <1>4 DEF Updated

-----------------------------------------------------------------------------
(* The inductive invariant *)

Inv ==
    /\ TypeOK
    /\ ActiveNeverExceedsCompiled
    /\ EntriesCounted
    /\ NamesUnique
    /\ LoadReplyTrue
    /\ QueriesTrue

LEMMA InitEstablishes == Init => Inv
<1> SUFFICES ASSUME Init PROVE Inv
  OBVIOUS
<1>1. CompiledEntries(objects) = {}
  BY DEF Init, CompiledEntries, NoObject
<1>2. Cardinality(CompiledEntries(objects)) = 0
  BY <1>1, FS_EmptySet
<1>3. TypeOK
  <2>1. NoObject \in JuliaObject
    BY DEF JuliaObject
  <2>2. reply \in Replies
    BY DEF Init, Replies
  <2>3. objects \in [Entries -> JuliaObject]
    BY <2>1 DEF Init
  <2>4. active_entries \in 0 .. NumEntries /\ compiles \in 0 .. MaxCompiles
    BY NumEntriesAssumption, MaxCompilesAssumption DEF Init
  <2>5. stray \in BOOLEAN /\ given \subseteq Entries /\ clean \in BOOLEAN
    BY DEF Init
  <2> QED
    BY <2>2, <2>3, <2>4, <2>5 DEF TypeOK
<1>4. ActiveNeverExceedsCompiled /\ EntriesCounted
  BY <1>2 DEF Init, ActiveNeverExceedsCompiled, EntriesCounted
<1>5. NamesUnique
  BY <1>1 DEF NamesUnique
<1>6. reply.cmd = "none"
  BY DEF Init, NoReply
<1>7. LoadReplyTrue /\ QueriesTrue
  BY <1>6 DEF LoadReplyTrue, QueriesTrue, ListComplete, ByNameFinds
<1> QED
  BY <1>3, <1>4, <1>5, <1>7 DEF Inv

\* A reply of another command says nothing about loads or queries.
LEMMA OtherReply ==
  ASSUME reply'.cmd \notin {"load", "list", "by_name"}
  PROVE  LoadReplyTrue' /\ QueriesTrue'
BY DEF LoadReplyTrue, QueriesTrue, ListComplete, ByNameFinds

\* A failed load says nothing either.
LEMMA LoadFailedSays ==
  /\ LoadFailed \in Replies
  /\ LoadFailed.cmd = "load" /\ LoadFailed.id = NoId
BY DEF LoadFailed, LoadReply, Replies

LEMMA LoadReplySays ==
  ASSUME NEW id \in Entries, NEW name \in Names, NEW io \in IOShapes
  PROVE  /\ LoadReply(id, name, io) \in Replies
         /\ LoadReply(id, name, io).cmd = "load"
         /\ LoadReply(id, name, io).id = id
         /\ LoadReply(id, name, io).name = name
         /\ LoadReply(id, name, io).io = io
<1>1. LoadReply(id, name, io) \in Replies
  BY DEF Replies
<1> QED
  BY <1>1 DEF LoadReply

\* create_julia_object from the point where its entry is chosen, for a table in
\* which the entry is empty and, if the table is clean, the name is new.
LEMMA CompileStep ==
  ASSUME TypeOK, ~stray,
         NEW target \in Entries, NEW name \in Names, NEW io \in IOShapes,
         NEW outcome \in LoadOutcomes,
         NEW objs \in [Entries -> JuliaObject], ~objs[target].compiled,
         NEW active \in Nat, active < NumEntries,
         active <= Cardinality(CompiledEntries(objs)),
         clean => /\ active = Cardinality(CompiledEntries(objs))
                  /\ \A i, j \in CompiledEntries(objs) : objs[i].name = objs[j].name => i = j
                  /\ \A i \in CompiledEntries(objs) : objs[i].name # name,
         Compile(target, name, io, outcome, objs, active)
  PROVE  Inv'
<1> DEFINE o == CompiledObject(name, compiles + 1, io)
           C == CompiledEntries(objs)
<1>1. /\ compiles \in 0 .. MaxCompiles
      /\ outcome # "compile_fails" => compiles + 1 \in Funs /\ compiles < MaxCompiles
  BY MaxCompilesAssumption DEF TypeOK, Compile, Funs
<1>2. outcome # "compile_fails" => o \in JuliaObject /\ o.compiled /\ o.name = name
  BY <1>1, ObjectFields
<1>3. Cardinality(C) \in 0 .. NumEntries
  BY CompiledFinite
<1>4. outcome \in {"done", "compile_fails", "set_id_fails"}
  BY LoadOutcomesAssumption DEF Outcomes
<1>5. clean \in BOOLEAN /\ given \subseteq Entries /\ stray \in BOOLEAN
  BY DEF TypeOK
<1>6. CASE outcome = "compile_fails"
  <2>1. objects' = [objs EXCEPT ![target] = NoObject]
    BY <1>6 DEF Compile
  <2>2. /\ compiles' = compiles /\ active_entries' = active /\ reply' = LoadFailed
        /\ given' = given /\ clean' = clean /\ stray' = stray
    BY <1>5, <1>6 DEF Compile, Counted, Reported
  <2>3. /\ objects' \in [Entries -> JuliaObject]
        /\ CompiledEntries(objects') = C
        /\ \A i \in C : objects'[i] = objs[i]
    <3>1. CompiledEntries(objs) \ {target} = CompiledEntries(objs)
      BY DEF CompiledEntries
    <3> HIDE DEF C
    <3>2. Updated(objects', objs, target, NoObject)
      BY <2>1, ExceptUpdates, NoObjectIs
    <3>3. /\ objects' \in [Entries -> JuliaObject]
          /\ CompiledEntries(objects') = CompiledEntries(objs) \ {target}
          /\ \A i \in CompiledEntries(objects') : objects'[i] = objs[i]
      BY <3>2, Emptied
    <3> QED
      BY <3>1, <3>3 DEF C
  <2>4. TypeOK'
    BY <1>1, <1>3, <1>5, <2>2, <2>3, LoadFailedSays, NumEntriesAssumption DEF TypeOK
  <2>5. ActiveNeverExceedsCompiled' /\ EntriesCounted'
    BY <2>2, <2>3 DEF ActiveNeverExceedsCompiled, EntriesCounted
  <2>6. NamesUnique'
    BY <2>2, <2>3 DEF NamesUnique
  <2>7. LoadReplyTrue' /\ QueriesTrue'
    BY <2>2, LoadFailedSays DEF LoadReplyTrue, QueriesTrue, ListComplete, ByNameFinds
  <2> QED
    BY <2>4, <2>5, <2>6, <2>7 DEF Inv
<1>7. CASE outcome # "compile_fails"
  <2>1. objects' = [objs EXCEPT ![target] = o]
    BY <1>7 DEF Compile
  <2>2. compiles' = compiles + 1 /\ stray' = stray
    BY <1>7 DEF Compile
  <2>3. \/ /\ outcome = "done"
           /\ active_entries' = active + 1 /\ clean' = clean
           /\ reply' = LoadReply(target, name, io) /\ given' = given \cup {target}
        \/ /\ outcome = "set_id_fails"
           /\ active_entries' = active /\ clean' = FALSE
           /\ reply' = LoadFailed /\ given' = given
    BY <1>4, <1>5, <1>7 DEF Compile, Counted, Reported
  <2>4. /\ objects' \in [Entries -> JuliaObject]
        /\ objects'[target] = o
        /\ \A i \in C : i # target /\ objects'[i] = objs[i]
        /\ CompiledEntries(objects') = C \cup {target}
        /\ Cardinality(CompiledEntries(objects')) = Cardinality(C) + 1
    <3> HIDE DEF o
    <3>1. Updated(objects', objs, target, o)
      BY <1>2, <1>7, <2>1, ExceptUpdates
    <3> QED
      BY <1>2, <1>7, <3>1, Filled
  <2>5. reply' \in Replies /\ reply'.cmd = "load"
    <3>1. reply' \in {LoadFailed, LoadReply(target, name, io)}
      BY <2>3
    <3>2. LoadReply(target, name, io) \in Replies /\ LoadReply(target, name, io).cmd = "load"
      BY LoadReplySays
    <3> QED
      BY <3>1, <3>2, LoadFailedSays
  <2>6. TypeOK'
    <3>1. active_entries' \in 0 .. NumEntries /\ compiles' \in 0 .. MaxCompiles
      BY <1>1, <1>7, <2>2, <2>3, NumEntriesAssumption, MaxCompilesAssumption
    <3>2. given' \subseteq Entries /\ clean' \in BOOLEAN /\ stray' \in BOOLEAN
      BY <1>5, <2>2, <2>3
    <3> QED
      BY <2>4, <2>5, <3>1, <3>2 DEF TypeOK
  <2>7. ActiveNeverExceedsCompiled' /\ EntriesCounted'
    BY <1>3, <2>2, <2>3, <2>4 DEF ActiveNeverExceedsCompiled, EntriesCounted
  <2>8. NamesUnique'
    BY <1>2, <1>7, <2>3, <2>4 DEF NamesUnique
  <2>9. LoadReplyTrue'
    <3>1. CASE outcome = "done"
      BY <2>2, <2>3, <2>4, <3>1, LoadReplySays DEF LoadReplyTrue
    <3>2. CASE outcome = "set_id_fails"
      BY <2>3, <3>2, LoadFailedSays DEF LoadReplyTrue
    <3> QED
      BY <2>3, <3>1, <3>2
  <2>10. QueriesTrue'
    BY <2>5 DEF QueriesTrue, ListComplete, ByNameFinds
  <2> QED
    BY <2>6, <2>7, <2>8, <2>9, <2>10 DEF Inv
<1> QED
  BY <1>6, <1>7

\* What the entries hold when the counter is right.
LEMMA CleanSearch ==
  ASSUME Inv, clean, NEW name
  PROVE  /\ active_entries = Cardinality(CompiledEntries(objects))
         /\ Matching(objects, active_entries, name)
               = {i \in CompiledEntries(objects) : objects[i].name = name}
BY ScannedAll DEF Inv, EntriesCounted, Matching

LEMMA LoadRefusedStep == Inv /\ LoadRefused => Inv'
<1> SUFFICES ASSUME Inv, LoadRefused PROVE Inv'
  OBVIOUS
<1>1. reply' = LoadFailed /\ UNCHANGED <<objects, active_entries, compiles, stray, given, clean>>
  BY DEF LoadRefused
<1>2. TypeOK'
  BY <1>1, LoadFailedSays DEF Inv, TypeOK
<1>3. ActiveNeverExceedsCompiled' /\ EntriesCounted' /\ NamesUnique'
  BY <1>1 DEF Inv, ActiveNeverExceedsCompiled, EntriesCounted, NamesUnique
<1>4. LoadReplyTrue' /\ QueriesTrue'
  BY <1>1, LoadFailedSays DEF LoadReplyTrue, QueriesTrue, ListComplete, ByNameFinds
<1> QED
  BY <1>2, <1>3, <1>4 DEF Inv

\* A recompilation: the entry with the name is emptied and counted off first.
LEMMA ReplaceObjectStep ==
  ASSUME Inv, NEW name \in Names, NEW io \in IOShapes, NEW outcome \in LoadOutcomes,
         ReplaceObject(name, io, outcome)
  PROVE  Inv'
<1> DEFINE found == Matching(objects, active_entries, name)
           target == Min(found)
           objs == [objects EXCEPT ![target] = NoObject]
           active == Decreased(active_entries)
<1>1. ~stray /\ active_entries < NumEntries /\ found # {}
      /\ Compile(target, name, io, outcome, objs, active)
  BY DEF ReplaceObject
<1>2. /\ objects \in [Entries -> JuliaObject] /\ active_entries \in 0 .. NumEntries
      /\ active_entries <= Cardinality(CompiledEntries(objects))
  BY DEF Inv, TypeOK, ActiveNeverExceedsCompiled
<1>3. found \subseteq CompiledEntries(objects) /\ \A i \in found : objects[i].name = name
  BY DEF Matching, Scanned
<1>4. target \in found /\ target \in CompiledEntries(objects) /\ target \in Entries
      /\ objects[target].compiled /\ objects[target].name = name
  BY <1>1, <1>3, CompiledFinite, MinOfEntries DEF CompiledEntries
<1>5. active_entries > 0
  BY <1>1, <1>2, ScannedSome, NumEntriesAssumption DEF Matching
<1>6. active = active_entries - 1 /\ active \in Nat /\ active < NumEntries
  BY <1>1, <1>2, <1>5, NumEntriesAssumption DEF Decreased
<1> HIDE DEF found, target, active
<1>7. Updated(objs, objects, target, NoObject)
  BY <1>2, <1>4, ExceptUpdates, NoObjectIs
<1> HIDE DEF objs
<1>8. /\ objs \in [Entries -> JuliaObject] /\ ~objs[target].compiled
      /\ CompiledEntries(objs) = CompiledEntries(objects) \ {target}
      /\ \A i \in CompiledEntries(objs) : objs[i] = objects[i]
      /\ Cardinality(CompiledEntries(objs)) = Cardinality(CompiledEntries(objects)) - 1
  BY <1>4, <1>7, Emptied
<1>9. Cardinality(CompiledEntries(objects)) \in 0 .. NumEntries
  BY CompiledFinite
<1>10. active <= Cardinality(CompiledEntries(objs))
  BY <1>2, <1>6, <1>8, <1>9
<1>11. ASSUME clean
       PROVE  /\ active = Cardinality(CompiledEntries(objs))
              /\ \A i, j \in CompiledEntries(objs) : objs[i].name = objs[j].name => i = j
              /\ \A i \in CompiledEntries(objs) : objs[i].name # name
  <2>1. active_entries = Cardinality(CompiledEntries(objects))
    BY <1>11, CleanSearch
  <2>2. \A i, j \in CompiledEntries(objects) : objects[i].name = objects[j].name => i = j
    BY <1>11 DEF Inv, NamesUnique
  <2>3. active = Cardinality(CompiledEntries(objs))
    BY <1>6, <1>8, <2>1
  <2>4. \A i \in CompiledEntries(objs) : objs[i].name # name
    BY <1>4, <1>8, <2>2
  <2>5. \A i, j \in CompiledEntries(objs) : objs[i].name = objs[j].name => i = j
    BY <1>8, <2>2
  <2> QED
    BY <2>3, <2>4, <2>5
<1>12. TypeOK
  BY DEF Inv
<1> QED
  BY <1>1, <1>4, <1>6, <1>8, <1>10, <1>11, <1>12, CompileStep

\* A new name: the first empty entry is filled.
LEMMA AddObjectStep ==
  ASSUME Inv, NEW name \in Names, NEW io \in IOShapes, NEW outcome \in LoadOutcomes,
         AddObject(name, io, outcome)
  PROVE  Inv'
<1> DEFINE target == Min(EmptyEntries(objects))
<1>1. /\ ~stray /\ active_entries < NumEntries /\ Matching(objects, active_entries, name) = {}
      /\ EmptyEntries(objects) # {}
      /\ Compile(target, name, io, outcome, objects, active_entries)
  BY DEF AddObject
<1>2. /\ TypeOK /\ objects \in [Entries -> JuliaObject] /\ active_entries \in Nat
      /\ active_entries <= Cardinality(CompiledEntries(objects))
  BY NumEntriesAssumption DEF Inv, TypeOK, ActiveNeverExceedsCompiled
<1>3. target \in Entries /\ ~objects[target].compiled
  <2>1. EmptyEntries(objects) \in SUBSET Entries
    BY DEF EmptyEntries
  <2>2. target \in EmptyEntries(objects)
    BY <1>1, <2>1, MinOfEntries
  <2> HIDE DEF target
  <2> QED
    BY <2>2 DEF EmptyEntries
<1> HIDE DEF target
<1>4. ASSUME clean
      PROVE  /\ active_entries = Cardinality(CompiledEntries(objects))
             /\ \A i, j \in CompiledEntries(objects) : objects[i].name = objects[j].name => i = j
             /\ \A i \in CompiledEntries(objects) : objects[i].name # name
  <2>1. /\ active_entries = Cardinality(CompiledEntries(objects))
        /\ {i \in CompiledEntries(objects) : objects[i].name = name} = {}
    BY <1>1, <1>4, CleanSearch
  <2> QED
    BY <1>4, <2>1 DEF Inv, NamesUnique
<1> QED
  BY <1>1, <1>2, <1>3, <1>4, CompileStep

\* While the counter is right there is an empty entry whenever it says so.
LEMMA AddObjectNowhereStep ==
  ASSUME Inv, NEW name, AddObjectNowhere(name)
  PROVE  Inv'
<1>1. /\ active_entries < NumEntries /\ EmptyEntries(objects) = {} /\ stray' = TRUE
      /\ UNCHANGED <<objects, active_entries, compiles, given, reply, clean>>
  BY DEF AddObjectNowhere
<1>2. CompiledEntries(objects) = Entries
  BY <1>1 DEF CompiledEntries, EmptyEntries
<1>3. Cardinality(Entries) = NumEntries
  BY FS_Interval, NumEntriesAssumption DEF Entries
<1>4. ~clean
  BY <1>1, <1>2, <1>3, NumEntriesAssumption DEF Inv, EntriesCounted, TypeOK
<1>5. TypeOK'
  BY <1>1 DEF Inv, TypeOK
<1>6. ActiveNeverExceedsCompiled' /\ EntriesCounted' /\ NamesUnique'
  BY <1>1, <1>4 DEF Inv, ActiveNeverExceedsCompiled, EntriesCounted, NamesUnique
<1>7. LoadReplyTrue' /\ QueriesTrue'
  BY <1>1, <1>4 DEF Inv, LoadReplyTrue, QueriesTrue
<1> QED
  BY <1>5, <1>6, <1>7 DEF Inv

LEMMA FreeReplySays ==
  ASSUME NEW id \in Entries
  PROVE  FreeReply(id) \in Replies /\ FreeReply(id).cmd = "free"
<1>1. FreeReply(id) \in Replies
  BY DEF Replies
<1> QED
  BY <1>1 DEF FreeReply

\* A free of an entry that holds nothing counts off what was never there: the
\* counter stays at or below the truth, and the table is not clean any more.
LEMMA DeleteObjectStep ==
  ASSUME Inv, NEW id \in Entries, DeleteObject(id)
  PROVE  Inv'
<1>1. /\ clean' = (clean /\ objects[id].compiled)
      /\ objects' = [objects EXCEPT ![id] = NoObject]
      /\ active_entries' = Decreased(active_entries)
      /\ reply' = FreeReply(id)
      /\ UNCHANGED <<compiles, stray, given>>
  BY DEF DeleteObject
<1>2. /\ objects \in [Entries -> JuliaObject] /\ active_entries \in 0 .. NumEntries
      /\ active_entries <= Cardinality(CompiledEntries(objects))
      /\ clean \in BOOLEAN
  BY DEF Inv, TypeOK, ActiveNeverExceedsCompiled
<1>3. Updated(objects', objects, id, NoObject)
  BY <1>1, <1>2, ExceptUpdates, NoObjectIs
<1>4. /\ objects' \in [Entries -> JuliaObject]
      /\ CompiledEntries(objects') = CompiledEntries(objects) \ {id}
      /\ \A i \in CompiledEntries(objects') : objects'[i] = objects[i]
      /\ Cardinality(CompiledEntries(objects'))
            = IF objects[id].compiled THEN Cardinality(CompiledEntries(objects)) - 1
              ELSE Cardinality(CompiledEntries(objects))
  BY <1>3, Emptied
<1>5. /\ Cardinality(CompiledEntries(objects)) \in 0 .. NumEntries
      /\ Cardinality(CompiledEntries(objects')) \in 0 .. NumEntries
  BY CompiledFinite
<1>6. active_entries' = IF active_entries > 0 THEN active_entries - 1 ELSE 0
  BY <1>1 DEF Decreased
<1>7. active_entries' \in 0 .. NumEntries /\ active_entries' <= Cardinality(CompiledEntries(objects'))
  BY <1>2, <1>4, <1>5, <1>6, NumEntriesAssumption
<1>8. TypeOK'
  <2>1. clean' \in BOOLEAN
    BY <1>1, <1>2, Zenon
  <2>2. reply' \in Replies
    BY <1>1, FreeReplySays
  <2> QED
    BY <1>1, <1>4, <1>7, <2>1, <2>2 DEF Inv, TypeOK
<1>9. EntriesCounted'
  <2>1. ASSUME clean' PROVE active_entries' = Cardinality(CompiledEntries(objects')) /\ ~stray'
    <3>1. clean /\ objects[id].compiled
      BY <1>1, <2>1, Zenon
    <3>2. active_entries = Cardinality(CompiledEntries(objects)) /\ ~stray
      BY <3>1 DEF Inv, EntriesCounted
    <3> QED
      BY <1>1, <1>4, <1>5, <1>6, <3>1, <3>2
  <2> QED
    BY <2>1 DEF EntriesCounted
<1>10. ActiveNeverExceedsCompiled'
  BY <1>7 DEF ActiveNeverExceedsCompiled
<1>11. NamesUnique'
  <2>1. clean' => clean
    BY <1>1, Zenon
  <2>2. \A i \in CompiledEntries(objects') : i \in CompiledEntries(objects)
    BY <1>4
  <2>3. clean => \A i, j \in CompiledEntries(objects) :
                   objects[i].name = objects[j].name => i = j
    BY DEF Inv, NamesUnique
  <2> QED
    BY <1>4, <2>1, <2>2, <2>3 DEF NamesUnique
<1>12. LoadReplyTrue' /\ QueriesTrue'
  BY <1>1, FreeReplySays, OtherReply
<1> QED
  BY <1>8, <1>9, <1>10, <1>11, <1>12 DEF Inv

LEMMA GetObjectsListStep == Inv /\ GetObjectsList => Inv'
<1> SUFFICES ASSUME Inv, GetObjectsList PROVE Inv'
  OBVIOUS
<1>1. /\ reply' = ListReply(Scanned(objects, active_entries))
      /\ UNCHANGED <<objects, active_entries, compiles, stray, given, clean>>
  BY DEF GetObjectsList
<1>2. Scanned(objects, active_entries) \in SUBSET Entries
  BY CompiledFinite DEF Scanned
<1>3. /\ reply' \in Replies /\ reply'.cmd = "list"
      /\ reply'.ids = Scanned(objects, active_entries)
  <2>1. reply' \in Replies
    BY <1>1, <1>2 DEF Replies
  <2> QED
    BY <1>1, <2>1 DEF ListReply
<1>4. TypeOK'
  BY <1>1, <1>3 DEF Inv, TypeOK
<1>5. ActiveNeverExceedsCompiled' /\ EntriesCounted' /\ NamesUnique'
  BY <1>1 DEF Inv, ActiveNeverExceedsCompiled, EntriesCounted, NamesUnique
<1>6. clean => ListComplete'
  BY <1>1, <1>3, ScannedAll DEF Inv, EntriesCounted, ListComplete
<1>7. LoadReplyTrue' /\ QueriesTrue'
  BY <1>1, <1>3, <1>6 DEF LoadReplyTrue, QueriesTrue, ByNameFinds
<1> QED
  BY <1>4, <1>5, <1>7 DEF Inv

LEMMA ByNameReplySays ==
  ASSUME NEW name \in Names, NEW io \in IOShapes \cup {NoIO}, NEW id \in Entries \cup {NoId}
  PROVE  /\ ByNameReply(name, io, id) \in Replies
         /\ ByNameReply(name, io, id).cmd = "by_name"
         /\ ByNameReply(name, io, id).name = name
         /\ ByNameReply(name, io, id).io = io
         /\ ByNameReply(name, io, id).id = id
<1>1. ByNameReply(name, io, id) \in Replies
  BY DEF Replies
<1> QED
  BY <1>1 DEF ByNameReply

LEMMA NoReplySays == NoReply \in Replies /\ NoReply.cmd = "none"
BY DEF NoReply, Replies

\* A query by name finds an entry that holds that name, or finds, in a clean
\* table, that there is none.
LEMMA GetObjectByNameStep ==
  ASSUME Inv, NEW name \in Names, GetObjectByName(name)
  PROVE  Inv'
<1> DEFINE found == Matching(objects, active_entries, name)
<1>1. UNCHANGED <<objects, active_entries, compiles, stray, clean>>
  BY DEF GetObjectByName
<1>2. objects \in [Entries -> JuliaObject] /\ given \subseteq Entries /\ TypeOK
  BY DEF Inv, TypeOK
<1>3. found \subseteq CompiledEntries(objects) /\ \A i \in found : objects[i].name = name
  BY DEF Matching, Scanned
<1>4. CASE found # {}
  <2>1. /\ reply' = ByNameReply(name, objects[Min(found)].io, Min(found))
        /\ given' = given \cup {Min(found)}
    BY <1>4 DEF GetObjectByName
  <2>2. /\ Min(found) \in found /\ Min(found) \in CompiledEntries(objects)
        /\ Min(found) \in Entries /\ objects[Min(found)].compiled
    BY <1>3, <1>4, CompiledFinite, MinOfEntries DEF CompiledEntries
  <2> DEFINE id == Min(found)
  <2>3. id # NoId
    BY <2>2, NumEntriesAssumption DEF Entries, NoId
  <2> HIDE DEF id, found
  <2>4. /\ objects[id].io \in IOShapes
        /\ \E fun \in Funs : objects[id] = CompiledObject(name, fun, objects[id].io)
    BY <1>2, <1>3, <2>2, CompiledIs DEF id
  <2>5. /\ reply' \in Replies /\ reply'.cmd = "by_name" /\ reply'.name = name
        /\ reply'.io = objects[id].io /\ reply'.id = id
    BY <2>1, <2>2, <2>4, ByNameReplySays DEF id
  <2>6. TypeOK'
    BY <1>1, <1>2, <2>1, <2>2, <2>5 DEF TypeOK
  <2>7. ByNameFinds'
    BY <1>1, <1>3, <2>2, <2>3, <2>4, <2>5 DEF ByNameFinds, id
  <2>8. LoadReplyTrue' /\ QueriesTrue'
    BY <2>5, <2>7 DEF LoadReplyTrue, QueriesTrue, ListComplete
  <2> QED
    BY <1>1, <2>6, <2>8
    DEF Inv, ActiveNeverExceedsCompiled, EntriesCounted, NamesUnique
<1>5. CASE found = {}
  <2>1. given' = given /\ reply' \in {NoReply, ByNameReply(name, NoIO, NoId)}
    BY <1>5 DEF GetObjectByName
  <2>2. reply' \in Replies /\ reply'.cmd \in {"none", "by_name"}
    BY <2>1, NoReplySays, ByNameReplySays
  <2>3. TypeOK'
    BY <1>1, <1>2, <2>1, <2>2 DEF TypeOK
  <2>4. ASSUME clean', reply'.cmd = "by_name" PROVE ByNameFinds'
    <3>1. reply'.name = name /\ reply'.id = NoId
      BY <2>1, <2>4, NoReplySays, ByNameReplySays
    <3>2. \A i \in CompiledEntries(objects) : objects[i].name # name
      BY <1>1, <1>5, <2>4, CleanSearch
    <3> QED
      BY <1>1, <3>1, <3>2 DEF ByNameFinds
  <2>5. LoadReplyTrue' /\ QueriesTrue'
    BY <2>2, <2>4 DEF LoadReplyTrue, QueriesTrue, ListComplete, ByNameFinds
  <2> QED
    BY <1>1, <2>3, <2>5
    DEF Inv, ActiveNeverExceedsCompiled, EntriesCounted, NamesUnique
<1> QED
  BY <1>4, <1>5

-----------------------------------------------------------------------------
LEMMA NextPreserves == Inv /\ [Next]_vars => Inv'
<1> SUFFICES ASSUME Inv, [Next]_vars PROVE Inv'
  OBVIOUS
<1>1. CASE LoadRefused
  BY <1>1, LoadRefusedStep
<1>2. ASSUME NEW name \in Names, NEW io \in IOShapes, NEW outcome \in LoadOutcomes,
             ReplaceObject(name, io, outcome) \/ AddObject(name, io, outcome)
      PROVE  Inv'
  BY <1>2, ReplaceObjectStep, AddObjectStep
<1>3. ASSUME NEW name \in Names, AddObjectNowhere(name) \/ GetObjectByName(name)
      PROVE  Inv'
  BY <1>3, AddObjectNowhereStep, GetObjectByNameStep
<1>4. ASSUME NEW id \in Entries, DeleteObject(id) PROVE Inv'
  BY <1>4, DeleteObjectStep
<1>5. CASE GetObjectsList
  BY <1>5, GetObjectsListStep
<1>6. CASE UNCHANGED vars
  BY <1>6 DEF vars, Inv, TypeOK, ActiveNeverExceedsCompiled, EntriesCounted, NamesUnique,
              LoadReplyTrue, QueriesTrue, ListComplete, ByNameFinds
<1> QED
  BY <1>1, <1>2, <1>3, <1>4, <1>5, <1>6 DEF Next

\* All the invariants of the table, in one.
THEOREM Invariance == Spec => []Inv
<1>1. Init => Inv
  BY InitEstablishes
<1>2. Inv /\ [Next]_vars => Inv'
  BY NextPreserves
<1> QED
  BY <1>1, <1>2, PTL DEF Spec

\* The fields of the table have their types.
THEOREM TypeCorrect == Spec => []TypeOK
<1>1. Inv => TypeOK
  BY DEF Inv
<1> QED
  BY <1>1, Invariance, PTL

\* A search never runs off the end of what it counts (advance_active_entries
\* and decrease_active_entries), whatever fails.
THEOREM CounterNeverTooHigh == Spec => []ActiveNeverExceedsCompiled
<1>1. Inv => ActiveNeverExceedsCompiled
  BY DEF Inv
<1> QED
  BY <1>1, Invariance, PTL

\* The counter is right, and a load finds the room that it promises, until a
\* stale free or a failed __set_unique_id__.
THEOREM CounterRight == Spec => []EntriesCounted
<1>1. Inv => EntriesCounted
  BY DEF Inv
<1> QED
  BY <1>1, Invariance, PTL

\* check_existing_module keeps a name in one entry.
THEOREM OneEntryPerName == Spec => []NamesUnique
<1>1. Inv => NamesUnique
  BY DEF Inv
<1> QED
  BY <1>1, Invariance, PTL

\* The reply to a load reports the entry that was filled.
THEOREM LoadRepliesTrue == Spec => []LoadReplyTrue
<1>1. Inv => LoadReplyTrue
  BY DEF Inv
<1> QED
  BY <1>1, Invariance, PTL

\* Both queries report what the table holds, while it is clean.
THEOREM QueryRepliesTrue == Spec => []QueriesTrue
<1>1. Inv => QueriesTrue
  BY DEF Inv
<1> QED
  BY <1>1, Invariance, PTL

KeepsName ==
    \A i \in Entries :
        objects[i].compiled /\ objects'[i].compiled => objects'[i].name = objects[i].name

\* create_julia_object fills target and leaves the other entries as they are.
LEMMA CompileKeepsName ==
  ASSUME TypeOK, NEW target \in Entries, NEW name \in Names, NEW io \in IOShapes,
         NEW outcome \in LoadOutcomes, NEW objs \in [Entries -> JuliaObject], NEW active,
         \A i \in Entries \ {target} : objs[i] = objects[i],
         objects[target].compiled => objects[target].name = name,
         Compile(target, name, io, outcome, objs, active)
  PROVE  KeepsName
<1> DEFINE o == CompiledObject(name, compiles + 1, io)
<1>1. CASE outcome = "compile_fails"
  <2>1. objects' = [objs EXCEPT ![target] = NoObject]
    BY <1>1 DEF Compile
  <2>2. Updated(objects', objs, target, NoObject)
    BY <2>1, ExceptUpdates, NoObjectIs
  <2> QED
    BY <2>2, NoObjectIs DEF Updated, KeepsName
<1>2. CASE outcome # "compile_fails"
  <2>1. compiles + 1 \in Funs
    BY <1>2, MaxCompilesAssumption DEF TypeOK, Compile, Funs
  <2>2. o \in JuliaObject /\ o.name = name
    BY <2>1, ObjectFields
  <2>3. objects' = [objs EXCEPT ![target] = o]
    BY <1>2 DEF Compile
  <2> HIDE DEF o
  <2>4. Updated(objects', objs, target, o)
    BY <2>2, <2>3, ExceptUpdates
  <2> QED
    BY <2>2, <2>4 DEF Updated, KeepsName
<1> QED
  BY <1>1, <1>2

\* EntryKeepsName, the action property: a UGen that keeps its pointer to an
\* entry never goes on with the code of another name within one command.
THEOREM EntriesKeepTheirNames == Spec => EntryKeepsName
<1>1. Inv /\ [Next]_vars => KeepsName
  <2> SUFFICES ASSUME Inv, [Next]_vars PROVE KeepsName
    OBVIOUS
  <2>1. TypeOK /\ objects \in [Entries -> JuliaObject]
    BY DEF Inv, TypeOK
  <2>2. ASSUME NEW name \in Names, NEW io \in IOShapes, NEW outcome \in LoadOutcomes,
               ReplaceObject(name, io, outcome)
        PROVE  KeepsName
    <3> DEFINE found == Matching(objects, active_entries, name)
               target == Min(found)
               objs == [objects EXCEPT ![target] = NoObject]
    <3>1. found # {} /\ Compile(target, name, io, outcome, objs, Decreased(active_entries))
      BY <2>2 DEF ReplaceObject
    <3>2. found \subseteq Entries /\ \A i \in found : objects[i].name = name
      BY CompiledFinite DEF Matching, Scanned
    <3>3. target \in Entries /\ objects[target].name = name
      BY <3>1, <3>2, MinOfEntries
    <3> HIDE DEF target
    <3>4. Updated(objs, objects, target, NoObject)
      BY <2>1, <3>3, ExceptUpdates, NoObjectIs
    <3> HIDE DEF objs
    <3> QED
      BY <2>1, <3>1, <3>3, <3>4, CompileKeepsName DEF Updated
  <2>3. ASSUME NEW name \in Names, NEW io \in IOShapes, NEW outcome \in LoadOutcomes,
               AddObject(name, io, outcome)
        PROVE  KeepsName
    <3> DEFINE target == Min(EmptyEntries(objects))
    <3>1. /\ EmptyEntries(objects) # {}
          /\ Compile(target, name, io, outcome, objects, active_entries)
      BY <2>3 DEF AddObject
    <3>2. EmptyEntries(objects) \in SUBSET Entries
          /\ \A i \in EmptyEntries(objects) : ~objects[i].compiled
      BY DEF EmptyEntries
    <3>3. target \in Entries /\ ~objects[target].compiled
      BY <3>1, <3>2, MinOfEntries
    <3> HIDE DEF target
    <3> QED
      BY <2>1, <3>1, <3>3, CompileKeepsName
  <2>4. ASSUME NEW id \in Entries, DeleteObject(id) PROVE KeepsName
    <3>1. Updated(objects', objects, id, NoObject)
      BY <2>1, <2>4, ExceptUpdates, NoObjectIs DEF DeleteObject
    <3> QED
      BY <3>1, NoObjectIs DEF Updated, KeepsName
  <2>5. UNCHANGED objects => KeepsName
    BY DEF KeepsName
  <2>6. LoadRefused \/ GetObjectsList \/ UNCHANGED vars => UNCHANGED objects
    BY DEF LoadRefused, GetObjectsList, vars
  <2>7. ASSUME NEW name, AddObjectNowhere(name) \/ GetObjectByName(name)
        PROVE  UNCHANGED objects
    BY <2>7 DEF AddObjectNowhere, GetObjectByName
  <2> QED
    BY <2>2, <2>3, <2>4, <2>5, <2>6, <2>7 DEF Next
<1> QED
  BY <1>1, Invariance, PTL DEF EntryKeepsName, KeepsName, Spec
=============================================================================
