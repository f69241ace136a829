-------------------------- MODULE JuliaObjectsArray --------------------------
(***************************************************************************)
(* The server's array of compiled @objects and the four commands that the  *)
(* NRT thread runs on it: /julia_load, /julia_free,                        *)
(* /julia_get_julia_objects_list and /julia_get_julia_object_by_name.      *)
(*                                                                         *)
(* Each action is one whole command: the barriers that make it atomic are  *)
(* the subject of JuliaServer.  active_entries is the counter that bounds  *)
(* every search of the array (JuliaEntriesCounter); reply is what the last *)
(* command wrote in its /done message.                                     *)
(***************************************************************************)
EXTENDS JuliaObjects

CONSTANT LoadOutcomes   \* how compile_julia_object and what follows it can end

\* A stage of the precompilation fails, or __set_unique_id__ does after it.
Outcomes == {"done", "compile_fails", "set_id_fails"}

ASSUME LoadOutcomesAssumption == LoadOutcomes \subseteq Outcomes

VARIABLES
    objects,          \* julia_objects_array
    active_entries,   \* JuliaEntriesCounter
    compiles,         \* successful compilations so far: the last perform_fun
    stray,            \* create_julia_object ran on an uninitialised pointer
    given,            \* the ids the clients have been told of
    reply,            \* what the last command wrote in its /done message
    clean             \* has every /julia_free found an @object to free, and
                      \* every good compilation a __set_unique_id__ that went well?

vars == <<objects, active_entries, compiles, stray, given, reply, clean>>

NoId == -1

NoReply == [cmd |-> "none"]
LoadReply(id, name, io) == [cmd |-> "load", id |-> id, name |-> name, io |-> io]
\* create_done_command(..., "/jl_load", -1, "@No_Name", -1, -1)
LoadFailed == LoadReply(NoId, NoName, NoIO)
ListReply(ids) == [cmd |-> "list", ids |-> ids]
ByNameReply(name, io, id) == [cmd |-> "by_name", name |-> name, io |-> io, id |-> id]
FreeReply(id) == [cmd |-> "free", id |-> id]

Replies ==
    {NoReply, LoadFailed}
        \cup {LoadReply(id, name, io) : id \in Entries, name \in Names, io \in IOShapes}
        \cup {ListReply(ids) : ids \in SUBSET Entries}
        \cup {ByNameReply(name, io, id) : name \in Names, io \in IOShapes \cup {NoIO},
                                        id \in Entries \cup {NoId}}
        \cup {FreeReply(id) : id \in Entries}

TypeOK ==
    /\ objects \in [Entries -> JuliaObject]
    /\ active_entries \in 0 .. NumEntries
    /\ compiles \in 0 .. MaxCompiles
    /\ stray \in BOOLEAN
    /\ given \subseteq Entries
    /\ reply \in Replies
    /\ clean \in BOOLEAN

Init ==
    /\ objects = [i \in Entries |-> NoObject]
    /\ active_entries = 0
    /\ compiles = 0
    /\ stray = FALSE
    /\ given = {}
    /\ reply = NoReply
    /\ clean = TRUE

-----------------------------------------------------------------------------
(* /julia_load *)

\* The array is full by its counter, or the file does not evaluate to a
\* module: nothing is touched.
LoadRefused ==
    /\ ~stray
    /\ reply' = LoadFailed
    /\ UNCHANGED <<objects, active_entries, compiles, stray, given, clean>>

\* Mutants of Counted and Reported: the step comes before the compilation is
\* known to be good.
CountedEarly(outcome) == TRUE
ReportedEarly(outcome) == TRUE

\* advance_active_entries, and the reply that carries an id, are reached only
\* by a load that went through to its end.
Counted(outcome) == outcome = "done"
Reported(outcome) == outcome = "done"

\* precompile_julia_object and the rest of create_julia_object on the entry
\* that was chosen.  A compilation that fails leaves the entry empty; one
\* whose __set_unique_id__ fails is kept but never counted.
Compile(target, name, io, outcome, objs, active) ==
    /\ outcome # "compile_fails" => compiles < MaxCompiles
    /\ objects' = IF outcome = "compile_fails"
                  THEN [objs EXCEPT ![target] = NoObject]
                  ELSE [objs EXCEPT ![target] = CompiledObject(name, compiles + 1, io)]
    /\ compiles' = IF outcome = "compile_fails" THEN compiles ELSE compiles + 1
    /\ active_entries' = IF Counted(outcome) THEN active + 1 ELSE active
    /\ reply' = IF Reported(outcome) THEN LoadReply(target, name, io) ELSE LoadFailed
    /\ given' = IF Reported(outcome) THEN given \cup {target} ELSE given
    /\ clean' = (clean /\ outcome # "set_id_fails")
    /\ UNCHANGED stray

\* check_existing_module found an @object of this name: it is deleted first,
\* and the new one takes its entry.
ReplaceObject(name, io, outcome) ==
    /\ ~stray
    /\ active_entries < NumEntries
    /\ Matching(objects, active_entries, name) # {}
    /\ LET target == Min(Matching(objects, active_entries, name))
       IN  Compile(target, name, io, outcome,
                   [objects EXCEPT ![target] = NoObject], Decreased(active_entries))

\* No @object of this name was found: the first empty entry is taken.
AddObject(name, io, outcome) ==
    /\ ~stray
    /\ active_entries < NumEntries
    /\ Matching(objects, active_entries, name) = {}
    /\ EmptyEntries(objects) # {}
    /\ Compile(Min(EmptyEntries(objects)), name, io, outcome, objects, active_entries)

\* The counter says there is room and no entry is empty: the loop assigns
\* neither julia_object nor new_id, and what follows uses an indeterminate
\* pointer.  Nothing can be said of the program after that.
AddObjectNowhere(name) ==
    /\ ~stray
    /\ active_entries < NumEntries
    /\ Matching(objects, active_entries, name) = {}
    /\ EmptyEntries(objects) = {}
    /\ stray' = TRUE
    /\ UNCHANGED <<objects, active_entries, compiles, given, reply, clean>>

-----------------------------------------------------------------------------
(* /julia_free *)

\* A client frees an id it has been told of.  Nothing tells it that another
\* JuliaDef of the same @object has freed it already, and
\* unload_julia_object returns true for an entry that holds nothing, so
\* the counter goes down whether or not an @object was freed.
DeleteObject(id) ==
    /\ ~stray
    /\ id \in given
    /\ clean' = (clean /\ objects[id].compiled)
    /\ objects' = [objects EXCEPT ![id] = NoObject]
    /\ active_entries' = Decreased(active_entries)
    /\ reply' = FreeReply(id)
    /\ UNCHANGED <<compiles, stray, given>>

-----------------------------------------------------------------------------
(* /julia_get_julia_objects_list and /julia_get_julia_object_by_name *)

\* With no active entry only the header is written: an empty list.
GetObjectsList ==
    /\ ~stray
    /\ reply' = ListReply(Scanned(objects, active_entries))
    /\ UNCHANGED <<objects, active_entries, compiles, stray, given, clean>>

\* No reply at all is written when the counter is zero, nor when the loop
\* ends without a match before it has counted active_entries entries.
GetObjectByName(name) ==
    LET found == Matching(objects, active_entries, name)
        counted == active_entries <= Cardinality(CompiledEntries(objects))
    IN  /\ ~stray
        /\ \/ /\ found # {}
              /\ reply' = ByNameReply(name, objects[Min(found)].io, Min(found))
              /\ given' = given \cup {Min(found)}
           \/ /\ found = {}
              /\ reply' = IF active_entries > 0 /\ counted
                          THEN ByNameReply(name, NoIO, NoId) ELSE NoReply
              /\ UNCHANGED given
        /\ UNCHANGED <<objects, active_entries, compiles, stray, clean>>

-----------------------------------------------------------------------------
Next ==
    \/ LoadRefused
    \/ \E name \in Names, io \in IOShapes, outcome \in LoadOutcomes :
          ReplaceObject(name, io, outcome) \/ AddObject(name, io, outcome)
    \/ \E name \in Names : AddObjectNowhere(name) \/ GetObjectByName(name)
    \/ \E id \in Entries : DeleteObject(id)
    \/ GetObjectsList

Spec == Init /\ [][Next]_vars

-----------------------------------------------------------------------------
(* Properties *)

\* The counter that bounds every search is the number of compiled entries
\* until a stale free or a failed __set_unique_id__: the ++ of
\* create_julia_object and the -- of delete_julia_object balance, through
\* replacements and failed compilations too, so no load ever finds room by the
\* counter and none in the array.
EntriesCounted ==
    clean => active_entries = Cardinality(CompiledEntries(objects)) /\ ~stray

\* Whatever goes wrong, the counter is never above the number of compiled
\* entries: a search always comes to its count before the end of the array, so
\* the loop of get_julia_object_by_name, once entered, writes one of its two
\* replies.
ActiveNeverExceedsCompiled == active_entries <= Cardinality(CompiledEntries(objects))

\* check_existing_module sends a recompiled @object to the entry it already
\* has, so no two entries hold @objects of one name; with a counter that is too
\* low the search may stop before that entry.
NamesUnique ==
    clean => \A i, j \in CompiledEntries(objects) : objects[i].name = objects[j].name => i = j

\* "List of all compiled JuliaDefs on a server" (Julia.sc:368): the list sent to
\* the client names every compiled @object.
ListComplete == reply.cmd = "list" => reply.ids = CompiledEntries(objects)

\* A query by name finds an @object exactly when one of that name is
\* compiled, and returns the entry that holds it.
ByNameFinds ==
    reply.cmd = "by_name" =>
        /\ reply.id = NoId <=> \A i \in CompiledEntries(objects) : objects[i].name # reply.name
        /\ reply.id # NoId =>
              \E fun \in Funs :
                  objects[reply.id] = CompiledObject(reply.name, fun, reply.io)

\* Both queries tell the truth while the counter does.
QueriesTrue == clean => ListComplete /\ ByNameFinds

\* A /julia_load that reports an id reports the entry that holds the @object
\* just compiled, with its name and its inputs and outputs, even when the
\* counter is wrong.
LoadReplyTrue ==
    reply.cmd = "load" /\ reply.id # NoId =>
        objects[reply.id] = CompiledObject(reply.name, compiles, reply.io)

\* No single command puts another @object where one is compiled: UGens keep a
\* pointer to the entry and would go on with the other one's code.
EntryKeepsName ==
    [][\A i \in Entries :
          objects[i].compiled /\ objects'[i].compiled => objects'[i].name = objects[i].name]_vars
=============================================================================
