# Verification of JuliaCollider

JuliaCollider embeds the Julia runtime in SuperCollider's audio server. A client
(`Julia.sc`, in sclang) sends a file with an `@object`; the server compiles it
into an entry of an array; synths create `Julia` UGens that play the entry's
`__perform__`, and follow it when the entry is recompiled or freed. Three
threads share the runtime, which is made for one. This directory holds TLA+
specifications of that system, the TLC configurations that check them and
proofs that TLAPS checks. Source paths below are relative to `src/src/`.

## 1. Inventory

| Component | Source | State | Operations |
|---|---|---|---|
| Barriers | `JuliaAtomicBarrier.*` | one atomic bool each: compiler, gc, compiler_gc; no owner | `Spinlock`, `Trylock`, `Unlock`, `NRTSpinlock`, `RTTrylock` |
| Table of `@object`s | `JuliaObjectsArray.*`, `JuliaObject.h` | 1000 entries; a counter of active entries that bounds every search | create (load or replace), delete, list, get by name, get by id |
| Object compiler | `JuliaObjectCompiler.*` | none of its own; fills and nulls an entry | evaluate the file, precompile seven methods, unload |
| `Julia` UGen | `Julia.cpp` | calc function, `valid`, pointer to the entry, `args`, `ugen_object`, `ugen_ref_object` | constructor, `next_NRT_busy`, `next_julia_code`, `output_silence`, destructor |
| Commands and collector | `JuliaAsyncCmds.hpp`, `GlobalVariables.*` | `gc_array`, `gc_array_needs_emptying`, `active_julia_ugens`, `previous_pool_size` | `/julia_load`, `/julia_free`, list, by name, `perform_gc`, the ten-second thread, boot, quit |
| Id dictionaries | `JuliaGlobalIdDict.*` | Julia `IdDict`s that root objects for the collector | add, remove |
| Replies | `JuliaReplyCmds.*` | a buffer of 1000 characters | append |
| Boot and quit | `JuliaGlobalState.*` | the global pointers | `boot_julia`, `quit_julia` |
| Memory pool | `SC_AllocPoolSafe.*` | chunks, bins, bin bitmap, one barrier | alloc, free, realloc, total free |
| sclang client | `Julia.sc` | `JuliaDef`s, a dictionary per server | new, free, recompile, retrieve, list |

How they interact. scsynth calls the UGen's callbacks on the **audio thread**,
which may not wait: it tries the barriers and takes another way if one is taken
(construction is deferred to the next block, a block is silent, a destructor
posts its reference to `gc_array`). Commands run on the **NRT thread**, which
spins on compiler, then compiler_gc, works on the table, and after a load takes
gc and runs `perform_gc`. A **collector thread** wakes every ten seconds, tries
compiler_gc, spins on gc, and runs `perform_gc` if `active_julia_ugens` is zero.
The audio thread takes gc and then compiler in the constructor and destructor,
compiler and then gc in `next_julia_code`. The table is read through pointers
the UGens keep; a UGen learns of a recompilation only by comparing `args[0]`
with the entry's `perform_fun`. Boot runs on the NRT thread and publishes the
global objects one by one; quit runs on scsynth's **main thread**. Julia
allocates from the pool, on any thread, under the pool's own barrier. The
client's routines each wait for a `/done` message with their unique id.

What is hard, and what must hold:

* *Interleaving.* The runtime has one user at a time, but a UGen that plays does
  not take the gc barrier and the collector's thread does not take the compiler
  barrier; the counter of active UGens is all that separates them.
* *Ownerless barriers.* `Unlock` stores false whoever calls it, and
  `next_julia_code` alone releases barriers on seventeen ways through it.
* *Deferred work.* References left in `gc_array`, constructions left to the next
  block and UGens left with old code must be dealt with eventually.
* *Partial failure.* A reallocation changes `args[0]`, `args[1]`, `ugen_object`,
  the reference and the dict one by one and can return after each.
* *A counter that bounds searches.* If it is wrong the last entry is not seen.
* *Protocol.* Clients hold ids of entries that may be emptied and reused, and
  act on replies that are as old as the way they came.
* *Neighbours in the pool.* Every split, merge and move rewrites boundary tags
  of chunks someone else owns; `realloc` may move a block onto itself.
* *Order of boot and quit.* A command, a second boot, the collector's thread or
  quit must find what it uses, after a boot that failed half-way too.

`PROJECT.json` lists every hazard with its line and the properties on it.

## 2. Modules

| Module | What it is |
|---|---|
| `JuliaObjects` | data: entries, compiled `@object`s, how the counter bounds a search |
| `JuliaObjectsArray` | the table and its four commands, each a single step, with the reply they write |
| `JuliaDefs` | the sclang clients, composed with the table over requests and replies in flight; implements `JuliaObjectsArray` |
| `UGenCalls` | data: what the bodies of the UGen's callbacks do to one UGen and to the dict |
| `JuliaUGen` | abstract specification of the UGens: each body of a callback is one step |
| `JuliaServer` | the three threads, the barriers, `gc_array`: composes table and UGens, implements `JuliaUGen` |
| `Allocator` | abstract specification of an allocator |
| `AllocBins` | the pool's arithmetic: sizes of chunks, bins |
| `AllocPool` | the pool: chunks, boundary tags, bins, bitmap, payload; implements `Allocator` |
| `JuliaBoot` | boot, quit and the lifetime of every global object |
| `JuliaServerProofs`, `JuliaLifecycleProofs` | theorems about `JuliaServer`; the second holds its refinement of `JuliaUGen` |
| `UGenCallsProofs`, `JuliaUGenProofs` | lemmas about callback bodies; theorems about `JuliaUGen` |
| `JuliaObjectsArrayProofs`, `JuliaDefsProofs` | theorems about the table and the clients |
| `JuliaBootProofs` | theorems about boot and quit |
| `AllocPoolProofs` | theorems about the pool and its arithmetic |
| `MCJuliaDefs`, `MCJuliaUGen`, `MCJuliaServer`, `MCAllocPool` | values and symmetry for TLC |

Operators that a comment calls a mutant are what the definition below them could
have been by mistake; no specification uses them.

### Correspondence

**Table and UGens.** A compilation is identified by a number, which stands for
the pointer `perform_fun`; `NullFun` is a null pointer. `objects` is
`julia_objects_array`, `id_dict` the set of `__UGenRef__`s in the global object
id dict, and a reference is the pair of its UGen and the compilation it was made
with. A UGen record has the members of `struct Julia` that control depends on;
its `calc` is the calc function, or the phase before and after it has one.

**Server.** In `JuliaServer` one action is one access to something threads
share. `pc` places a thread between two accesses; the string of the last Unlock
to come names the next one (`unlock_gc_compiler`: gc, then compiler), because
the code uses both orders. `Holding` says for each place which barriers its
thread has, and `RuntimePcs` at which places it is inside the runtime. The
destructor's loops over `gc_array`, its decrement of the counter and its flag are
separate actions, as are `perform_gc`'s read of the flag, each slot, and its
reset of the flag, since the two run at the same time. The `trylock`s are `Take`
and `TryFails`; a spin lock is `Take` alone, which waits.

**Clients.** A `JuliaDef` is a record of its fields; `symbol` tells a name that
was assigned as a Symbol from a String, which `update` asks about. A method that
waits is two actions: it sends its command with a fresh unique id and hangs a
routine (`calls`), and `Answer` goes on with it when the `/done` message comes.
Requests and replies stay in the order they were sent, for each client; the
server takes the clients' requests as they come. A file can be edited at any
time, so name and I/O counts of an `@object` are chosen when the server reads
it. A command that writes nothing in its buffer is answered by a message that no
`OSCFunc` takes. `Refuse` is a command that the audio thread turns away, because
Julia has not been initialised or no reply can be allocated
(`JuliaAsyncCmds.hpp:257-273`, 309-329, 371-388): it prints so and sends nothing,
and a routine that hangs on the answer hangs for good. If the command was a free,
the client has given up an `@object` that stays compiled.

**Pool.** Memory is an array of cells of 64 bytes. A cell is the header of a
chunk (its own size and that of the chunk before, each with the in-use bit) or
the i-th piece of what an owner wrote. Writing a header over a piece destroys
it. `Alloc`, `Free` and `Realloc` hold the pool's barrier from beginning to end
and are one action each. The doubly linked bins are sequences, first to last;
`marked` is the bitmap. Owners write to the whole block as soon as they have it.
`Alloc` keeps the remainder of a chunk in an int: `Remainder` narrows it as the
cast does, for an int of `IntRange`, which is 2^31 in the code.

**Boot.** What a thread has left to do is a sequence of operations on global
objects (`code`): new, delete, use, lock, unlock, start, exit, join. Each is a
step, and `faults` collects the objects that were used or deleted while they
were not there. Failures of the stages of `boot_julia` differ by whether Julia
was running: `no_julia` and `stage_fails`.

**Auxiliary variables** record history and guard no action that models code:
`late_destructor`, `settled` and `owed` (`JuliaServer`), `clean`
(`JuliaObjectsArray`: no stale free, no failed `__set_unique_id__` so far),
`tidy` and `holders` (`JuliaDefs`: each `@object` one `JuliaDef`, each
`JuliaDef` one call at a time so far), `refused` (`JuliaDefs`: the commands that
were turned away), `kept` and `reply` (`AllocPool`),
`faults` (`JuliaBoot`). `given`, the ids the clients have been told of, restricts
the environment of the table only; `JuliaDefs` shows that its clients keep to it.

**Abstractions.** Julia code is external: a call succeeds or, if `Failures`
names its point, fails. Audio, printing, paths and method tables are left out.
The seven precompiled methods are one step. The UGen's checks for a null
instance or function of its entry (`Julia.cpp:447-477`, 760-792) are not points of
failure: `compiled` is set when every stage has filled its own
(`JuliaObjectCompiler.cpp:214-233`). `delete_index` may fail in `perform_gc` as it
may in a UGen (`remove_ref`): the slot is cleared all the same and the reference
stays in the dict (`JuliaAsyncCmds.hpp:59-63`). `JuliaServer` lets a command choose
any entry that `create_julia_object` could choose; the search itself is in
`JuliaObjectsArray`. `DoAsynchronousCommand` is a command that may arrive
whenever the NRT thread is idle. The accesses to `gc_array`, which is not
atomic, interleave as if they were sequentially consistent; the flag that
follows a post is an atomic store. `Init` of `JuliaServer` is a booted server:
boot's own `perform_gc`, with nothing to collect, is in `JuliaBoot`.

## 3. Runs

| Run (`.cfg`) | Instance | Question |
|---|---|---|
| `clients` (`Clients`) | 2 clients, 3 `JuliaDef`s, 2 entries, 2 names, 3 compilations, 4 calls, one command turned away, every way a load can end; two million states | Do counter, searches and replies agree through loads, replacements, failures and stale frees? Do the `JuliaDef`s stand for what is in the table? |
| `clients_stale_free` (`ClientsStale`) | same, without failing `__set_unique_id__` | *violation*: `ListComplete` |
| `ugen_failures` (`UGenFailures`) | 2 UGens, 1 entry, 3 compilations, 2 shapes, every failure point; 42,000 states | Is a valid UGen whole and rooted after each way a step can end? |
| `ugen_io_mismatch` (`UGenMismatch`) | same, no failures | *violation*: `DestructorBeforeRemoval` |
| `ugen_unrooted` (`UGenRooted`) | same, `__constructor__` may fail | *violation*: `PlayedObjectIsRooted` |
| `server_safety` (`ServerSafety`) | 2 UGens, 1 entry, 2 compilations, 2 shapes, `gc_array` of 2; 599,000 states | Barriers, exclusion, accounting of references, refinement of `JuliaUGen` |
| `server_lost_post` (`ServerLostPost`) | same | *violation*: `ConsumedOnNextGC` |
| `server_liveness` (`ServerLiveness`) | 1 UGen, 1 entry, 2 compilations, `gc_array` of 1 | Commands end, deferred UGens start, old code is left |
| `pool_safety` (`PoolSafety`) | 4352 bytes, chunks of 960, 1088 and 2112 and one as large as an int allows; 7,700 states | Tiling, merging, bins, best fit, isolation of blocks, refinement of `Allocator` |
| `pool_realloc` (`PoolRealloc`) | same | *violation*: `PayloadKept` |
| `boot` (`Boot`) | 4 commands, every outcome of a boot; 6,900 states | Is every global object there when it is used? Does the collector's thread stay, does quit end? |
| `boot_pool` (`BootPool`) | same | *violation*: `PoolOutlivesJulia` |

**Bounds.** `MaxCompiles` caps the one counter of the table that grows: no load
succeeds beyond it, loads that fail at any stage before that and frees go on.
`MaxCalls` caps unique ids,
and so the requests and replies in flight; frees are not counted, since each
needs a reply before it. `MaxRefused` caps the commands with an id that are turned
away: they leave nothing but a routine that hangs, and one does that. Frees are
turned away without a bound. Two entries and two names let the table be full,
fragmented and searched past a hole; the third compilation refills a freed
entry. Two `JuliaDef`s of one client share a dictionary, the third belongs to a
client that knows nothing of them; four calls are two loads, a retrieval or a
list, and a load into what was freed in between. What holds of table and clients
for larger instances is proved (section 4).

Two UGens suffice for what one UGen's callback can do to another's
reference, for the counter to stand at a value other than 0 and 1, and for a
second post to follow the first; the audio thread runs one callback at a time,
so a third UGen meets nothing new in safety. Three compilations let a UGen be
reallocated twice, the second time from a half-finished state; two are enough
for one recompilation against all interleavings. A `gc_array` of two has an
empty slot, a full one and a slot freed behind the writer; with two UGens it is never
too small, which `RefsAccounted` needs. `RefsAccounted` also needs calls into Julia that do not
fail, so `Failures` is empty in the server's runs; the failures of UGens are explored in
`UGenFailures`, and the theorems of section 4 hold with any failures, that of
`delete_index` in `perform_gc` included. `ServerLiveness` has one slot and one
UGen without symmetry, as liveness requires. The two shapes make either of two
compilations ask for more inputs than a UGen has.

The pool's sizes are chosen on both sides of 1024 bytes, where small bins of one
size end and sorted bins begin: 960 is a small size, 1088 and 2112 are large
ones, and the free chunks between them share bins. The area has room for four
blocks, so that a block can have free chunks on both sides, on one, or none, and
each of the five ways of `Realloc` occurs. `IntRange` is 8192 in the runs, the
scale of the area: the request of 8100 has a chunk of 8192 bytes, the largest
that `RequestsAssumption` allows, whose remainders are the most negative an int
holds. Four commands at boot are a failed
boot, a second boot and two commands behind it.

`CHECK_DEADLOCK FALSE` is in the runs of `JuliaDefs`, where the calls are used up
in the end (and where the model stops in the undefined behaviour of
`AddObjectNowhere`: `JuliaObjectsArray.cpp:90-105` uses an indeterminate pointer
when the counter claims room and no entry is empty), and of `JuliaBoot`, which
ends when the server has quit.

**Fairness.** Each thread goes on with what it has begun (weak fairness of the
`Continue` actions): threads are scheduled. A spinning thread gets a barrier
that is free again and again (strong fairness of the `Take`s): the audio thread
holds a barrier for part of a block and then waits for the next. The
collector sleeps for ten seconds after each round and a block lasts
milliseconds, so scsynth calls every UGen thousands of times while the collector
is asleep; strong fairness of the callbacks is therefore asked only for steps
taken while it sleeps, and for the gc barrier whenever it is free. No fairness
is asked of scsynth's decision to create or destroy a UGen, nor of the
clients. `DeferredStarts` and `OldCodeReleased` assume that commands cease
(`CommandsCease`): against an endless stream of loads a trylock can fail for ever.
In `JuliaBoot` threads that can go on do; a thread that spins on a barrier gets
it if it is free again and again, since the collector leaves its barriers alone
for ten seconds at a time; and the NRT thread takes the commands that wait for
it. Nobody is obliged to send a command, to play or to quit. `JuliaDefs` and
`AllocPool` have no liveness property: the messages' delivery and the callers of
the pool are the environment's.

### What the violations show

1. `ListComplete` (`JuliaObjectsArray.cpp:219`): `unload_julia_object` returns
   true for an empty entry, so the second free of an id still lowers the counter
   and the list misses an `@object`.
2. `DestructorBeforeRemoval` (`Julia.cpp:724-756`): the I/O mismatch returns come
   after the destructor and the removal and leave `args[0]`, so the next block destructs the
   same object again.
3. `PlayedObjectIsRooted` (`Julia.cpp:770`): `args[0]` is set before the new
   object exists; after a failed constructor the next block plays the old,
   unrooted object with the new code.
4. `ConsumedOnNextGC` (`JuliaAsyncCmds.hpp:66`): the flag is reset after the
   scan, which loses a post made in between.
5. `PayloadKept` (`SC_AllocPoolSafe.cpp:593-604`): when a block is moved onto the
   free chunk before it, the remainder is split off and freed before `memmove`;
   if the remainder begins inside the old block, its header and links are
   written over the payload that is about to be moved.
6. `PoolOutlivesJulia` (`JuliaGlobalState.cpp:340-356`): the constructor of a
   global state whose boot failed deletes the pool although Julia runs; quit then
   calls `jl_atexit_hook` (`JuliaAsyncCmds.hpp:455-458`), which needs it.

Each refutes a comment of the source, quoted in `PROJECT.json`.

### Divergences that need no run

Three more were met while modelling. The model contains what the code does, and
each is seen in a single step of it, so no run is spent on them.

* `Julia.sc:82` says that a load's unique id "should be sent back even if failing
  to execute a Julia file". A command that the audio thread turns away (`Refuse`)
  is not answered: `JuliaLoad` returns at `JuliaAsyncCmds.hpp:262-266` or prints at
  271-272, and the client's routine hangs with its `OSCFunc` for ever. This
  concerns the list (376-380, 386-388) as well. `LoadsAnswered` names these
  commands as the only exception.
* `retrieve` enters its `JuliaDef` in the dictionary before it renames it
  (`Julia.sc:340-358`), so under `@No_Name`. `Julia.ar` looks it up by its new name,
  finds none and throws, until an `update` has entered it again, although the help
  calls the result "a JuliaDef" like any other (`JuliaDef.schelp:59-70`) and the
  comment at `Julia.sc:344` has it assigned to the dictionary.
  `TidyArPlaysItsOwn` therefore speaks of loaded `JuliaDef`s;
  `TidyArPlaysNoOther`, of retrieved ones too, says that nothing worse happens.
* `get_julia_object_by_name` writes no reply at all when the counter is 0
  (`JuliaObjectsArray.cpp:253-255`), and the routine of `retrieve` or `update`
  hangs. Nothing promises an answer; `LoadsAnswered` leaves this query out.

## 4. Proofs

All theorems hold for every value of the constants that satisfies the
assumptions named in the modules (`JuliaObjects`, `UGenCalls`, `JuliaServer`,
`JuliaObjectsArray`, `JuliaDefs`, `JuliaBoot`, `AllocPool`): at least one entry and
one slot, finitely many UGens, failure points and outcomes that exist, each
`JuliaDef` in a client, an area that is a legal chunk below the range of int (its
size is an int product, `JuliaGlobalState.cpp:318`), and requests whose chunk is at
most that range. TLC evaluates them in the runs. The last is an assumption about
the callers of the pool: the code does not refuse a larger request, and serves it
wrongly. One theorem, `ReferencesAccounted`, assumes more, and says what.

**The server** (`JuliaServerProofs`): `TypeCorrect`, `BarriersCorrect`
(`BarriersOwned`) and `RuntimeExclusion` (`RuntimeExclusive`).

`RuntimeExclusive` is not inductive. That a UGen never plays beside the collector
follows from the counter being zero when the collector looked, *if* the counter
is exact, *and* if no UGen starts to play afterwards. The invariant `IInv`
therefore adds to types and barriers:

* `CounterRight`: `active_julia_ugens` is the number of UGens that are neither
  unborn nor gone, so zero means there is none at all;
* `NonePlaysWhileCollecting`: while the collector's thread collects no UGen is in
  `next_julia_code`. A UGen may be born then, but enters `next_julia_code` only
  from a body that holds the gc barrier, and the collector has it;
* `CalcAtPc`: the phase of the UGen whose callback runs, which makes each change
  of the counter match one UGen's change of phase;
* `RefsExist`, `LoadingNamed`, `ScanInRange`: what types need at single steps.

Preservation is proved with one lemma per action or group of actions that move
alike. `BarriersOwnedStep` reduces the barriers to how one thread's holdings
change; `RTChangesUGen` and `RTSetsCalc` reduce an action of the audio thread to
its UGen; three lemmas on cardinalities (`CountKept`, `CountRaised`,
`CountLowered`) carry the counter.

**The server implements `JuliaUGen`** (`JuliaLifecycleProofs`,
`LifecycleRefinement`). The abstract table changes with whole commands; the
server's changes with single accesses. `Linked` adds to `IInv` what makes a body
of the audio thread the same step on both: the table it sees is the settled one
unless a load is between deletion and compilation, and then that thread has the
barrier (`TableSettled`); what `calc_check` found out of date still is behind the
gc barrier (`StillOutdated`); and only one UGen is within its constructor or
destructor, posted references belong to UGens that are dead, and a slot is
cleared after its reference was unrooted (`Apart`).

**No reference is lost** (`JuliaLifecycleProofs`, `ReferencesAccounted`), *if* no
call into Julia fails and `gc_array` has a slot for each UGen. Both are needed: a
failed call leaves a UGen silent with its reference in the dict, and a
destructor that finds no slot drops it. What has to be shown is that the
destructor's loop does find one, although the slots change behind it. A slot
that was taken when the loop passed it was taken by another UGen's reference,
and that UGen is dead and never posts again, even if the collection has cleared
the slot since: so the loop passes at most one slot for each *other* UGen
(`PassedByOthers`), two slots never hold references of one UGen (`SlotsApart`),
and by cardinality a slot is left (`RoomFound`). The accounting itself follows
one reference through every body of a callback (`OneAccounts`).

**The UGens** (`JuliaUGenProofs`): `TypeCorrect`, `CounterIsRight`, `ValidRooted`
(`ValidIsRooted`), `OneReference` (`OneRefPerUGen`). The last two are not
inductive: what a reallocation may leave out depends on what earlier ones, which
may have failed anywhere, left in members and dict. `Sound` (`UGenCallsProofs`)
says which combinations occur, its lemmas that each body keeps them, and
`PostedAreDead` that the collector disturbs none.

**The table** (`JuliaObjectsArrayProofs`): types, `ActiveNeverExceedsCompiled`,
`EntriesCounted`, `NamesUnique`, `LoadReplyTrue`, `QueriesTrue`,
`EntryKeepsName`. `NamesUnique` rests on `EntriesCounted`: a search bounded by
the counter sees every compiled entry only if the counter is right, and only
then does a load find the entry it has to replace.

**The clients** (`JuliaDefsProofs`): `ClientsImplementTable` shows that every step
of clients, wires and server is a command of the table or leaves it alone, so
what is proved of the table holds with any clients; its crux is that every id a
client frees was given to it. `ClientsTypeCorrect` and `LoadsAreAnswered` follow
from `CInv`, which matches each message in flight with the routine that waits
for it by its unique id; a command that was turned away is remembered in
`refused`, and no other call is without its message.

`TidyDefsTrue`, `TidyArPlaysItsOwn` and `TidyArPlaysNoOther` are about clients that keep to one
`JuliaDef` per `@object` and one call per `JuliaDef`; none is inductive. What a
`JuliaDef` says is true when it has no call under way, but it was filled from a
reply, and the table may have changed behind that reply. `TidyInv` therefore
states the truth of everything that is on its way: an id that a request frees is
that of an entry the `JuliaDef` holds and nobody else does (`FreesTrue`,
`SoleHolder`), the requests of one client reach the server in their order, a load
behind the free of the same `JuliaDef` (`Ordered`), and a reply that has not been
read still describes the table, because only its own `JuliaDef` could change that
entry and it waits (`RepliesTrue`). The dictionary adds `DictOwned`, which holds
of untidy clients too, and `DictHeld`.

**Boot and quit** (`JuliaBootProofs`): `BootTypeCorrect`, `BootMisusesNothing`
(`NothingMisused`), `BootCollectorStays` (`CollectorStays`). Whether an operation
is a fault depends on all operations before it, in every thread, so `BootInv`
speaks of what each thread has left to do (`Pending`): every object an operation
needs is alive or will be brought before it, and is not deleted before
(`Provided`); every lock has its unlock (`Balanced`); start comes before publish,
run before the thread, join before whatever is loud, that is, brings or deletes
objects or starts or stops Julia (`Precedes`). Such an order survives the removal
of its first operation, so each step is examined only for its effect on the
other threads, and `Roles` and `Turns` make sure that a loud operation finds them
idle. `Complete` and `Cared` say that a boot that is going to succeed has
everything or will bring it, the collector's thread last, and that the thread
lives only while all the rest does. The pool of a failed boot is spared
(`Spared`), as `PoolOutlivesJulia` shows that it must be.

**The pool** (`AllocPoolProofs`) for an area of any legal size below the range of int
and any requests whose chunk is at most that range, 2^31 bytes: `PoolTypeCorrect`, `PoolChunksTile`, `PoolFullyConsolidated`,
`PoolBinsHoldFreeChunks`, `PoolOneBlockPerCall`, `PoolAllocBestFit` and
`PoolImplementsAllocator`. None of the invariants is inductive alone: a merge is
right only if the tags are, a search only if the bins are, and the bins only if
every link and unlink saw the right size. `PoolInv` joins the four that need one
another: the area is laid out in chunks (`Laid`), no free one beside a free one
(`Merged`), the bins hold the free ones in order (`Binned`), and no cell inside a
block looks like a header (`Clean`). The last is what the checked properties lack:
`Chunks` knows a chunk by its header, and a merge leaves headers behind, so the
layout after a call is the intended one only when the owner has written over
them.

Within a call these do not hold as they stand. `Sound(q, T, B)` says them of a
pool `q` with an intended layout `T`, but for the blocks `B` that the call has in
hand. It is followed from `SetSize`, `LinkFree` and `UnlinkFree` to `FreeChunk`,
`TakeChunk` and `SplitOff`, and from these to the five ways of `Realloc`: smaller
in place, larger into the next chunk, into both neighbours, into the one before, or
moved elsewhere.
`Answered` and `Returned` sum a call up: which block it gave, which it took back,
and that no other was touched. From `StepIs`, which says this of every step, the
two action properties and the refinement follow. In the refinement a null reply
is the hard part, for `Allocator` demands that *no* place in the area has room,
and the pool looks at free chunks only. Each gap between blocks is a single free
chunk (`Merged`), so one with room would be in a bin where the search finds it
(`GapOfFree`); `Realloc` counts the place of the block itself as room, which is why
it must try its neighbours before it gives up (`ReallocNoRoom`).

The arithmetic they rest on: `BinIndexIsTable` (counting leading zeros gives the
table of comparisons), `BinIndexMonotone`, `BinIndexInRange`, `RequestFits`,
`SmallBinsExact` (a small bin holds chunks of one size, so `Alloc` need not look).
These are about natural numbers: `RequestFits` leaves out the sum in
`RequestToSize`, which overflows a `size_t` for requests near 2^64.

*Only model-checked:* liveness (fairness and ENABLED are beyond the prover), and
the six properties that the code violates: a counterexample is all there is to
them. Every other invariant and action property of the runs is a theorem.

## 5. Assumed, and not modelled

*Assumed of the environment.* Nobody plays before the first boot has ended, while
one runs, or when the server quits (the code publishes `julia_global_state`
before the barriers exist and does not guard against it: listed as a hazard).
The NRT thread is done with its commands when the server quits. `gc_array` can be
allocated.

*Not modelled:*

* the C buffers `args`, `ins` and `outs` of a UGen with their partial failures,
  negative ids and ids beyond the array, exceptions raised by `__perform__`;
* the length of the reply buffer, and the second message of a load that failed,
  which no client reads;
* a UGen's entry being freed and given to another `@object` between two blocks:
  `EntryKeepsName` speaks of single commands only;
* growth and release of areas (the pool is made with `areaMoreSize` 0), `FreeAll`,
  `Reinit`, `LargestFreeChunk`, and `TotalFree`, whose result only decides
  whether `perform_gc` collects: it may or may not in the model;
* `JuliaPath` and the values that `JuliaGlobalUtilities` looks up; the Julia dicts
  of definitions and of objects, which live from boot to quit;
* widths of C integers other than that of the pool's remainder: counters stay far
  below them, and the product in `JuliaGlobalState.cpp:318` is listed as a hazard;
  so are the requests that wrap the remainder, which `RequestsAssumption` excludes;
* sclang's printing, and a dictionary shared by several servers;
* the contents of Julia code, the build, help and example files, the debug and
  perform modes' printing, and supernova, for which the code itself says that
  `gc_array` is not safe.

*What could come next:* the UGen's buffers with their failures, as members of
`UGenCalls`' records, and the theorems about `UGenCalls` extended by them; growth
of the pool by areas.
