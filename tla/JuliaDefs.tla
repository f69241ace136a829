------------------------------ MODULE JuliaDefs ------------------------------
(***************************************************************************)
(* The sclang clients (Julia.sc) with the table of the server.             *)
(*                                                                         *)
(* A JuliaDef remembers what the server said last of an @object: its name, *)
(* entry and I/O counts.  Each client also has a dictionary from names to  *)
(* JuliaDefs, in which Julia.ar looks for the entry to play.  Methods send *)
(* a command and, but for free, hang a routine on its reply; requests and  *)
(* replies are in flight in the order they were sent, and the server takes *)
(* the requests of its clients as they come.  The file that is loaded can  *)
(* be edited at any time: what it declares shows when the server reads it. *)
(***************************************************************************)
EXTENDS JuliaObjectsArray, Sequences

CONSTANTS
    Clients,   \* sclang processes
    Defs,      \* JuliaDefs
    Owner,     \* the client that a JuliaDef lives in
    NoDef,     \* an empty place in a dictionary
    MaxCalls,  \* bound of the model: routines that hang on a reply
    MaxRefused \* bound of the model: how many of those the server turns away

ASSUME OwnerAssumption == Owner \in [Defs -> Clients] /\ NoDef \notin Defs
ASSUME MaxCallsAssumption == MaxCalls \in Nat
ASSUME MaxRefusedAssumption == MaxRefused \in Nat

VARIABLES
    defs,       \* the fields of each JuliaDef
    dict,       \* julia_defs_dictionary of each client, for this server
    requests,   \* commands in flight, by client
    replies,    \* /done messages in flight, by client
    refused,    \* the unique ids of the commands that were turned away
    calls,      \* routines that hang: the unique ids their OSCFuncs wait for
    unique_id,  \* UniqueID
    holders,    \* the JuliaDefs through which an @object of a name is in use
    tidy        \* has each @object had one JuliaDef, and each JuliaDef one call?

client == <<defs, dict, calls, unique_id>>
wire == <<requests, replies, refused>>
history == <<holders, tidy>>
allVars == <<vars, client, wire, history>>

\* As initialised, and as freeJuliaDef leaves it.  symbol: is the name a
\* Symbol, as after a retrieval, or a String?  path: is file_path set?
BlankDef == [name |-> NoName, symbol |-> FALSE, server_id |-> NoId, io |-> NoIO, path |-> FALSE]

CallsOf(d) == {c \in calls : c.def = d}

\* A JuliaDef that has just been created: in no dictionary, with no routine.
Fresh(d) ==
    /\ defs[d] = BlankDef
    /\ CallsOf(d) = {}
    /\ \A n \in Names \cup {NoName} : dict[Owner[d]][n] # d

ClientsInit ==
    /\ Init
    /\ defs = [d \in Defs |-> BlankDef]
    /\ dict = [c \in Clients |-> [n \in Names \cup {NoName} |-> NoDef]]
    /\ requests = [c \in Clients |-> <<>>]
    /\ replies = [c \in Clients |-> <<>>]
    /\ refused = {}
    /\ calls = {}
    /\ unique_id = 0
    /\ holders = [n \in Names |-> {}]
    /\ tidy = TRUE

-----------------------------------------------------------------------------
(* Methods of JuliaDef *)

Send(c, request) == requests' = [requests EXCEPT ![c] = Append(@, request)]

\* What has happened to the condition of "tidy"; the holders matter no more
\* once it is broken.
Noted(ok, held) ==
    /\ tidy' = (tidy /\ ok)
    /\ holders' = IF tidy' THEN held ELSE [n \in Names |-> {}]

\* A command is sent, and a routine hangs on its reply.
Call(c, d, cmd, name) ==
    LET call == [no |-> unique_id + 1, def |-> d, cmd |-> cmd, name |-> name]
    IN  /\ unique_id < MaxCalls
        /\ unique_id' = call.no
        /\ calls' = calls \cup {call}
        /\ Send(c, call)
        /\ Noted(d = NoDef \/ CallsOf(d) = {}, holders)
        /\ UNCHANGED <<vars, defs, dict, replies, refused>>

\* JuliaDef.new, and recompile.
NewJuliaDef(d) ==
    /\ Fresh(d) \/ defs[d].path
    /\ Call(Owner[d], d, "load", NoName)

\* JuliaDef.retrieve.
Retrieve(d, name) ==
    /\ Fresh(d)
    /\ Call(Owner[d], d, "by_name", name)

\* update gives up on a name that is not a Symbol, and only a retrieval
\* leaves one.
Update(d) ==
    /\ defs[d].name # NoName
    /\ defs[d].symbol
    /\ Call(Owner[d], d, "by_name", defs[d].name)

\* JuliaDef.getCompiledJuliaDefs.
GetCompiledJuliaDefs(c) == Call(c, NoDef, "list", NoName)

\* Mutant of FreeJuliaDef: the state is not reset.
FreeJuliaDefUnreset(d) ==
    /\ defs[d].server_id # NoId
    /\ Send(Owner[d], [no |-> 0, def |-> d, cmd |-> "free", id |-> defs[d].server_id])
    /\ dict' = [dict EXCEPT ![Owner[d]][defs[d].name] = NoDef]
    /\ Noted(CallsOf(d) = {}, holders)
    /\ UNCHANGED <<vars, defs, replies, refused, calls, unique_id>>

\* free: no reply is waited for, and whichever JuliaDef the dictionary has
\* under this name is removed from it.
FreeJuliaDef(d) ==
    /\ defs[d].server_id # NoId
    /\ Send(Owner[d], [no |-> 0, def |-> d, cmd |-> "free", id |-> defs[d].server_id])
    /\ dict' = [dict EXCEPT ![Owner[d]][defs[d].name] = NoDef]
    /\ defs' = [defs EXCEPT ![d] = BlankDef]
    /\ Noted(CallsOf(d) = {}, holders)
    /\ UNCHANGED <<vars, replies, refused, calls, unique_id>>

-----------------------------------------------------------------------------
(* The server *)

\* An @object of this name is in use through d, and should be through no other.
HeldBy(d, name, ok) ==
    Noted(ok /\ holders[name] \subseteq {d}, [holders EXCEPT ![name] = @ \cup {d}])

ServeLoad(d) ==
    \/ \E name \in Names, io \in IOShapes, outcome \in LoadOutcomes :
          /\ ReplaceObject(name, io, outcome) \/ AddObject(name, io, outcome)
          /\ HeldBy(d, name, outcome # "set_id_fails")
    \/ (LoadRefused \/ \E name \in Names : AddObjectNowhere(name)) /\ UNCHANGED history

ServeByName(d, name) ==
    /\ GetObjectByName(name)
    /\ IF reply'.cmd = "by_name" /\ reply'.id # NoId
       THEN HeldBy(d, name, TRUE) ELSE UNCHANGED history

ServeFree(d, id) ==
    /\ DeleteObject(id)
    /\ Noted(TRUE, [n \in Names |-> holders[n] \ {d}])

\* Mutants of Answers: a load that fails is not answered; what was not written
\* is sent.
AnswersAll(request) == request.no # 0 /\ ~stray'
AnswersGood(request) ==
    request.no # 0 /\ ~stray' /\ reply' # NoReply /\ reply' # LoadFailed

\* A command without a unique id, or one that wrote nothing in its buffer,
\* sends a /done that no OSCFunc takes.
Answers(request) == request.no # 0 /\ ~stray' /\ reply' # NoReply

Handle(request) ==
    \/ request.cmd = "load" /\ ServeLoad(request.def)
    \/ request.cmd = "by_name" /\ ServeByName(request.def, request.name)
    \/ request.cmd = "list" /\ GetObjectsList /\ UNCHANGED history
    \/ request.cmd = "free" /\ ServeFree(request.def, request.id)

\* The NRT thread runs the next command of a client, and its reply is sent.
Serve(c) ==
    /\ requests[c] # <<>>
    /\ Handle(Head(requests[c]))
    /\ requests' = [requests EXCEPT ![c] = Tail(@)]
    /\ replies' = IF Answers(Head(requests[c]))
                  THEN [replies EXCEPT ![c] =
                          Append(@, [no |-> Head(requests[c]).no, msg |-> reply'])]
                  ELSE replies
    /\ UNCHANGED <<client, refused>>

\* The audio thread turns the next command of a client away: Julia has not been
\* initialised, or there is no memory for the reply.  It prints so, and no /done
\* is sent: a routine that hangs on one hangs for good.  The JuliaDef has given
\* up an @object whose free is turned away, and it stays compiled.
Refuse(c) ==
    LET request == Head(requests[c])
    IN  /\ ~stray
        /\ requests[c] # <<>>
        /\ requests' = [requests EXCEPT ![c] = Tail(@)]
        /\ refused' = refused \cup ({request.no} \ {0})
        /\ Cardinality(refused') <= MaxRefused
        /\ Noted(TRUE, IF request.cmd = "free"
                       THEN [n \in Names |-> holders[n] \ {request.def}] ELSE holders)
        /\ UNCHANGED <<vars, client, replies>>

-----------------------------------------------------------------------------
(* The routines go on *)

\* Mutants of Loaded: a failure changes nothing; the JuliaDef is entered under
\* the name it had.
LoadedIfGood(d, msg) ==
    LET new == [name |-> msg.name, symbol |-> FALSE, server_id |-> msg.id, io |-> msg.io,
                path |-> TRUE]
    IN  IF msg.id = NoId THEN UNCHANGED <<defs, dict>>
        ELSE /\ defs' = [defs EXCEPT ![d] = new]
             /\ dict' = [dict EXCEPT ![Owner[d]][new.name] = d]
LoadedUnderOldName(d, msg) ==
    LET new == [name |-> msg.name, symbol |-> FALSE, server_id |-> msg.id, io |-> msg.io,
                path |-> defs[d].path \/ msg.id # NoId]
    IN  /\ defs' = [defs EXCEPT ![d] = new]
        /\ dict' = [dict EXCEPT ![Owner[d]][defs[d].name] = d]

\* After /jl_load: the JuliaDef is entered under its new name, that of a
\* failure too; only a success sets file_path.
Loaded(d, msg) ==
    LET new == [name |-> msg.name, symbol |-> FALSE, server_id |-> msg.id, io |-> msg.io,
                path |-> defs[d].path \/ msg.id # NoId]
    IN  /\ defs' = [defs EXCEPT ![d] = new]
        /\ dict' = [dict EXCEPT ![Owner[d]][new.name] = d]

\* After /jl_get_julia_object_by_name: the JuliaDef is entered under the name
\* it had, and takes the one that was asked for, after that, if it was found.
Retrieved(d, name, msg) ==
    LET found == [name |-> name, symbol |-> TRUE, server_id |-> msg.id, io |-> msg.io, path |-> TRUE]
        not_found == [defs[d] EXCEPT !.server_id = NoId, !.io = NoIO, !.path = FALSE]
    IN  /\ dict' = [dict EXCEPT ![Owner[d]][defs[d].name] = d]
        /\ defs' = [defs EXCEPT ![d] = IF msg.id # NoId THEN found ELSE not_found]

Resume(call, msg) ==
    \/ call.cmd = "load" /\ Loaded(call.def, msg)
    \/ call.cmd = "by_name" /\ Retrieved(call.def, call.name, msg)
    \/ call.cmd = "list" /\ UNCHANGED <<defs, dict>>

\* The OSCFunc with the unique id of the reply unhangs its routine.
Answer(c) ==
    /\ replies[c] # <<>>
    /\ \E call \in calls :
          /\ call.no = Head(replies[c]).no
          /\ Resume(call, Head(replies[c]).msg)
          /\ calls' = calls \ {call}
    /\ replies' = [replies EXCEPT ![c] = Tail(@)]
    /\ UNCHANGED <<vars, requests, refused, unique_id, history>>

-----------------------------------------------------------------------------
ClientsNext ==
    \/ \E d \in Defs :
          \/ NewJuliaDef(d)
          \/ \E name \in Names : Retrieve(d, name)
          \/ Update(d)
          \/ FreeJuliaDef(d)
    \/ \E c \in Clients : GetCompiledJuliaDefs(c) \/ Serve(c) \/ Refuse(c) \/ Answer(c)

ClientsSpec == ClientsInit /\ [][ClientsNext]_allVars

-----------------------------------------------------------------------------
(* Properties *)

JuliaDef ==
    [name : Names \cup {NoName}, symbol : BOOLEAN, server_id : Entries \cup {NoId},
     io : IOShapes \cup {NoIO}, path : BOOLEAN]

Cmd == [no : 1 .. MaxCalls, def : Defs \cup {NoDef}, cmd : {"load", "by_name", "list"},
        name : Names \cup {NoName}]

FreeCmd == [no : {0}, def : Defs, cmd : {"free"}, id : Entries]

\* The fields of the clients, and every message in flight: none without
\* contents.
ClientsTypeOK ==
    /\ defs \in [Defs -> JuliaDef]
    /\ dict \in [Clients -> [Names \cup {NoName} -> Defs \cup {NoDef}]]
    /\ calls \subseteq Cmd
    /\ \A c \in Clients :
          /\ requests[c] \in Seq(Cmd \cup FreeCmd)
          /\ replies[c] \in Seq([no : 1 .. MaxCalls, msg : Replies \ {NoReply}])
    /\ refused \subseteq 1 .. MaxCalls
    /\ unique_id \in 0 .. MaxCalls
    /\ holders \in [Names -> SUBSET Defs]
    /\ tidy \in BOOLEAN

InFlight(no) ==
    \E c \in Clients :
        \/ \E k \in DOMAIN requests[c] : requests[c][k].no = no
        \/ \E k \in DOMAIN replies[c] : replies[c][k].no = no

\* "The unique id should be sent back even if failing to execute a Julia
\* file, in order to still free this OSCFunc" (Julia.sc:82).  A load, or a list,
\* that reaches the NRT thread is answered: its routine waits for an answer that
\* is asked for or given, until the server has used a pointer that was never
\* set.  Of a command that the audio thread turns away the sentence is not true:
\* nothing is sent back, and only these routines hang with nothing under way.
LoadsAnswered ==
    stray \/ \A call \in calls :
                call.cmd # "by_name" => InFlight(call.no) \/ call.no \in refused

\* The JuliaDef by which Julia.ar plays this one: the one that the dictionary has
\* under its name, if any and if it has an entry; else it throws an error.
JuliaAr(d) ==
    LET found == dict[Owner[d]][defs[d].name]
    IN  IF defs[d].name = NoName \/ found = NoDef THEN NoDef
        ELSE IF defs[found].server_id = NoId THEN NoDef ELSE found

\* As long as each @object has one JuliaDef, which waits for the reply of one
\* call before it makes another, no free is stale and the table stays clean, and
\* a JuliaDef with no call under way stands for the @object that is in its entry.
TidyDefsTrue ==
    tidy =>
        /\ clean
        /\ \A d \in Defs :
              defs[d].server_id # NoId /\ CallsOf(d) = {} =>
                  \E fun \in Funs : objects[defs[d].server_id]
                                      = CompiledObject(defs[d].name, fun, defs[d].io)

\* And Julia.ar plays a JuliaDef that was loaded by what it says itself, through
\* loads, frees and queries of others under the same names.  It is not so of one
\* that was retrieved, which the dictionary has under its former name.
TidyArPlaysItsOwn ==
    tidy => \A d \in Defs :
        defs[d].server_id # NoId /\ CallsOf(d) = {} /\ ~defs[d].symbol => JuliaAr(d) = d

\* But in the place of no JuliaDef, retrieved or not, does Julia.ar play another:
\* what the dictionary still has under a name that was given up has no entry.
TidyArPlaysNoOther ==
    tidy => \A d \in Defs :
        defs[d].server_id # NoId /\ CallsOf(d) = {} => JuliaAr(d) \in {d, NoDef}
=============================================================================
