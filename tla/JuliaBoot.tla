------------------------------ MODULE JuliaBoot ------------------------------
(***************************************************************************)
(* Boot and quit: when the global objects of JuliaCollider come and go,    *)
(* and who may still, or already, use them.                                *)
(*                                                                         *)
(* /julia_boot runs on the NRT thread, behind the commands that came       *)
(* before it; it may fail, and leave a global state that says so.  A boot  *)
(* that succeeds ends by starting the collector's thread.  The main thread *)
(* quits.  What a thread has left to do is a sequence of operations on     *)
(* global objects; each is a step, and using an object that is not there   *)
(* is a fault.  What the commands do to the @objects is in JuliaServer.    *)
(***************************************************************************)
EXTENDS Sequences, Naturals

CONSTANTS
    BootOutcomes,   \* how a /julia_boot that is not refused can end
    MaxCommands     \* bound of the model: commands that are sent

\* boot_julia comes to its end; Julia does not start; one of the stages fails
\* that follow (startup file, modules, utilities, dicts).
Outcomes == {"booted", "no_julia", "stage_fails"}

ASSUME BootOutcomesAssumption == BootOutcomes \subseteq Outcomes
ASSUME MaxCommandsAssumption == MaxCommands \in Nat

VARIABLES
    julia,         \* the runtime; jl_is_initialized() unless "off"
    initialized,   \* of the JuliaGlobalState that was published last
    objs,          \* is a global object there?
    held,          \* which barriers are locked
    queue,         \* commands on their way to the NRT thread
    sent,          \* how many commands were sent
    running,       \* the command that the NRT thread runs
    code,          \* what each thread has left to do
    thread_run,    \* perform_gc_thread_run
    quit,          \* has julia_quit been called?
    faults         \* objects that were used, or deleted, when they were not there

vars == <<julia, initialized, objs, held, queue, sent, running, code, thread_run, quit, faults>>

Barriers == {"gc_barrier", "compiler_barrier", "compiler_gc_barrier"}

\* global_state is the pointer, pool the memory that Julia allocates from and
\* the functions to do so, gc_thread the joinable std::thread.
Objects == Barriers \cup {"global_state", "pool", "array", "gc_array", "gc_thread"}

Threads == {"nrt", "collector", "main"}
Commands == {"boot", "load", "query", "total_free"}

-----------------------------------------------------------------------------
(* What a thread does: sequences of operations *)

New(o) == <<[op |-> "new", on |-> o]>>
Delete(o) == <<[op |-> "delete", on |-> o]>>
Use(o) == <<[op |-> "use", on |-> o]>>
Lock(b) == <<[op |-> "lock", on |-> b]>>
Unlock(b) == <<[op |-> "unlock", on |-> b]>>

StartJulia == <<[op |-> "start", on |-> "pool"]>>
\* Finalizers run: the pool is used.
ExitJulia == <<[op |-> "exit", on |-> "pool"]>>
\* The assignment of julia_global_state, after its constructor.
Publish(good) == <<[op |-> IF good THEN "publish" ELSE "publish_failed", on |-> "global_state"]>>
SetRun(on) == <<[op |-> IF on THEN "run" ELSE "stop", on |-> "gc_thread"]>>
Join == <<[op |-> "join", on |-> "gc_thread"]>>

Collect == Use("gc_array") \o Use("global_state") \o Use("pool")
PerformGC == Lock("gc_barrier") \o Collect \o Unlock("gc_barrier")

\* Mutant of StartCollector: the flag is set behind the thread's back.
StartCollectorFirst == New("gc_thread") \o SetRun(TRUE)
StartCollector == SetRun(TRUE) \o New("gc_thread")

NewGlobals ==
    Publish(TRUE) \o New("gc_barrier") \o New("compiler_barrier") \o New("compiler_gc_barrier")
        \o New("array")

\* The constructor of JuliaGlobalState frees the pool when boot_julia fails, be
\* it before Julia runs or in one of the stages after.
Boot(outcome) ==
    New("pool") \o
    CASE outcome = "no_julia" -> Delete("pool") \o Publish(FALSE)
      [] outcome = "stage_fails" -> StartJulia \o Delete("pool") \o Publish(FALSE)
      [] outcome = "booted" ->
            StartJulia \o NewGlobals \o New("gc_array") \o PerformGC \o StartCollector

Locked(body) ==
    Lock("compiler_barrier") \o Lock("compiler_gc_barrier") \o Use("array") \o body
        \o Unlock("compiler_barrier") \o Unlock("compiler_gc_barrier")

\* Mutant of Checked: the command trusts jl_is_initialized.
CheckedNot(body) == Use("global_state") \o body
\* is_initialized() is asked again on the NRT thread.
Checked(body) == Use("global_state") \o IF initialized THEN body ELSE <<>>

\* julia_load; julia_free and the two queries; julia_total_free_memory, which
\* asks no one.
Command(cmd) ==
    CASE cmd = "load" -> Checked(Locked(PerformGC))
      [] cmd = "query" -> Checked(Locked(<<>>))
      [] cmd = "total_free" -> Use("global_state") \o Use("pool")

\* Mutants of StopCollector: the thread is not told; it is not waited for but
\* destroyed.
StopCollectorUntold == Join
StopCollectorDeleted == SetRun(FALSE) \o Delete("gc_thread")
StopCollector == SetRun(FALSE) \o Join

Quit ==
    IF julia = "off" THEN <<>>
    ELSE IF ~initialized THEN Use("global_state") \o ExitJulia
    ELSE StopCollector \o Delete("array") \o Lock("gc_barrier") \o Lock("compiler_barrier")
            \o ExitJulia \o Delete("pool") \o Delete("global_state")
            \o Unlock("gc_barrier") \o Delete("gc_barrier")
            \o Unlock("compiler_barrier") \o Delete("compiler_barrier")
            \o Delete("compiler_gc_barrier") \o Delete("gc_array")

-----------------------------------------------------------------------------
Init ==
    /\ julia = "off"
    /\ initialized = FALSE
    /\ objs = [o \in Objects |-> "none"]
    /\ held = {}
    /\ queue = <<>>
    /\ sent = 0
    /\ running = "none"
    /\ code = [t \in Threads |-> <<>>]
    /\ thread_run = FALSE
    /\ quit = FALSE
    /\ faults = {}

\* Audio thread: the /cmd is refused unless jl_is_initialized, but for a boot.
Send(cmd) ==
    /\ sent < MaxCommands
    /\ ~quit
    /\ cmd = "boot" \/ julia # "off"
    /\ queue' = Append(queue, cmd)
    /\ sent' = sent + 1
    /\ UNCHANGED <<julia, initialized, objs, held, running, code, thread_run, quit, faults>>

\* NRT thread: the commands run one after the other.
StartCommand(outcome) ==
    /\ running = "none"
    /\ queue # <<>>
    /\ running' = Head(queue)
    /\ queue' = Tail(queue)
    /\ code' = [code EXCEPT !["nrt"] =
                  IF Head(queue) # "boot" THEN Command(Head(queue))
                  ELSE IF julia = "off" THEN Boot(outcome) ELSE <<>>]
    /\ UNCHANGED <<julia, initialized, objs, held, sent, thread_run, quit, faults>>

EndCommand ==
    /\ running # "none"
    /\ code["nrt"] = <<>>
    /\ running' = "none"
    /\ UNCHANGED <<julia, initialized, objs, held, queue, sent, code, thread_run, quit, faults>>

Missing(used) == {o \in used : objs[o] # "alive"}

\* A turn of perform_gc_on_spawned_thread, every ten seconds: it collects if it
\* gets the barrier and finds no UGen.
CollectorTurn ==
    /\ objs["gc_thread"] = "alive"
    /\ code["collector"] = <<>>
    /\ IF ~thread_run
       THEN objs' = [objs EXCEPT !["gc_thread"] = "ended"] /\ UNCHANGED <<held, code, faults>>
       ELSE /\ "compiler_gc_barrier" \notin held
            /\ held' = held \cup {"compiler_gc_barrier"}
            /\ \E body \in {<<>>, Collect} :
                  code' = [code EXCEPT !["collector"] =
                            Lock("gc_barrier") \o body \o Unlock("gc_barrier")
                                \o Unlock("compiler_gc_barrier")]
            /\ faults' = faults \cup Missing({"compiler_gc_barrier"})
            /\ UNCHANGED objs
    /\ UNCHANGED <<julia, initialized, queue, sent, running, thread_run, quit>>

\* A UGen is constructed, asks whether Julia was booted, and goes for the
\* barriers and the array if it was.  Assumed: nobody plays before the first
\* boot has ended, while one runs, or when the server quits.
UGen ==
    /\ running # "boot" /\ objs["global_state"] = "alive" /\ ~quit
    /\ faults' = faults \cup Missing({"global_state"} \cup
                   IF initialized THEN {"gc_barrier", "compiler_barrier", "array"} ELSE {})
    /\ UNCHANGED <<julia, initialized, objs, held, queue, sent, running, code, thread_run, quit>>

\* Main thread: unload() when the server quits.  Assumed: the NRT thread has
\* done its commands.
JuliaQuit ==
    /\ ~quit
    /\ queue = <<>> /\ running = "none"
    /\ quit' = TRUE
    /\ code' = [code EXCEPT !["main"] = Quit]
    /\ UNCHANGED <<julia, initialized, objs, held, queue, sent, running, thread_run, faults>>

-----------------------------------------------------------------------------
(* A step of a thread *)

Op(t) == Head(code[t])

Continue(t) == code' = [code EXCEPT ![t] = Tail(@)]

\* new, delete and the end of a constructor: an object comes or goes.  Deleting
\* what is not there, or a barrier that is locked, is a fault; so is a second
\* thread where the first was not joined.
ComeAndGo(t) ==
    LET o == Op(t).on
        comes == Op(t).op \in {"new", "publish", "publish_failed"}
    IN  /\ Op(t).op \in {"new", "delete", "publish", "publish_failed"}
        /\ objs' = [objs EXCEPT ![o] = IF comes THEN "alive" ELSE "deleted"]
        /\ initialized' = IF o = "global_state" THEN Op(t).op = "publish" ELSE initialized
        /\ faults' = faults \cup
              IF comes THEN ({"gc_thread"} \cap {o}) \ Missing({o})
              ELSE Missing({o}) \cup ({o} \cap held)
        /\ UNCHANGED <<julia, held, thread_run>>

UseIt(t) ==
    /\ Op(t).op = "use"
    /\ faults' = faults \cup Missing({Op(t).on})
    /\ UNCHANGED <<julia, initialized, objs, held, thread_run>>

LockIt(t) ==
    /\ Op(t).op = "lock"
    /\ Op(t).on \notin held
    /\ held' = held \cup {Op(t).on}
    /\ faults' = faults \cup Missing({Op(t).on})
    /\ UNCHANGED <<julia, initialized, objs, thread_run>>

UnlockIt(t) ==
    /\ Op(t).op = "unlock"
    /\ held' = held \ {Op(t).on}
    /\ faults' = faults \cup Missing({Op(t).on})
    /\ UNCHANGED <<julia, initialized, objs, thread_run>>

StartOrExitJulia(t) ==
    /\ Op(t).op \in {"start", "exit"}
    /\ julia' = IF Op(t).op = "start" THEN "on" ELSE "exited"
    /\ faults' = faults \cup Missing({"pool"})
    /\ UNCHANGED <<initialized, objs, held, thread_run>>

SetRunFlag(t) ==
    /\ Op(t).op \in {"run", "stop"}
    /\ thread_run' = (Op(t).op = "run")
    /\ UNCHANGED <<julia, initialized, objs, held, faults>>

\* join waits for the thread, and throws if there is none.
JoinThread(t) ==
    /\ Op(t).op = "join"
    /\ objs["gc_thread"] # "alive"
    /\ faults' = faults \cup ({"gc_thread"} \ {o \in Objects : objs[o] = "ended"})
    /\ UNCHANGED <<julia, initialized, objs, held, thread_run>>

Step(t) ==
    /\ code[t] # <<>>
    /\ Continue(t)
    /\ \/ ComeAndGo(t) \/ UseIt(t) \/ LockIt(t) \/ UnlockIt(t)
       \/ StartOrExitJulia(t) \/ SetRunFlag(t) \/ JoinThread(t)
    /\ UNCHANGED <<queue, sent, running, quit>>

Next ==
    \/ \E cmd \in Commands : Send(cmd)
    \/ \E outcome \in BootOutcomes : StartCommand(outcome)
    \/ EndCommand
    \/ CollectorTurn
    \/ UGen
    \/ JuliaQuit
    \/ \E t \in Threads : Step(t)

Spec == Init /\ [][Next]_vars

\* Threads that can go on do.  A thread that wants a barrier gets it if it is
\* free again and again: the collector leaves it for ten seconds at a time.
Fairness ==
    /\ \A t \in Threads : SF_vars(Step(t))
    /\ WF_vars(CollectorTurn)
    /\ WF_vars(\E outcome \in BootOutcomes : StartCommand(outcome))
    /\ WF_vars(EndCommand)

FairSpec == Spec /\ Fairness

-----------------------------------------------------------------------------
(* Properties *)

Operations == [op : {"new", "delete", "use", "lock", "unlock", "start", "exit", "publish",
                     "publish_failed", "run", "stop", "join"}, on : Objects]

TypeOK ==
    /\ julia \in {"off", "on", "exited"}
    /\ initialized \in BOOLEAN
    /\ objs \in [Objects -> {"none", "alive", "deleted", "ended"}]
    /\ objs["gc_thread"] # "deleted"
    /\ \A o \in Objects \ {"gc_thread"} : objs[o] # "ended"
    /\ held \subseteq Barriers
    /\ queue \in Seq(Commands)
    /\ sent \in 0 .. MaxCommands
    /\ running \in Commands \cup {"none"}
    /\ code \in [Threads -> Seq(Operations)]
    /\ thread_run \in BOOLEAN
    /\ quit \in BOOLEAN
    /\ faults \subseteq Objects

\* No thread uses a global object before it is there or after it is deleted,
\* whatever was sent while a boot was going on, failed or was tried again;
\* the pool of a failed boot is the exception that PoolOutlivesJulia is about.
NothingMisused == faults \subseteq IF initialized THEN {} ELSE {"pool"}

\* "First quit julia. It will run finalizers and it will still need the memory
\* pool to be alive" (JuliaGlobalState.cpp:362).
PoolOutlivesJulia == [][julia' = "exited" /\ julia # "exited" => objs["pool"] = "alive"]_vars

\* "Setup thread for GC collection every 10 seconds" (JuliaAsyncCmds.hpp:167):
\* once a boot has succeeded the collector's thread is there until quit tells it
\* to end, not started twice and not lost to a flag that was set too late.
CollectorStays ==
    initialized /\ running # "boot" /\ ~quit => objs["gc_thread"] = "alive" /\ thread_run

\* julia_quit comes to its end: it joins a thread that may be anywhere, and
\* takes the barriers with it.
QuitEnds == quit ~> code["main"] = <<>>
=============================================================================
