--------------------------- MODULE JuliaBootProofs ---------------------------
(***************************************************************************)
(* Theorems about boot and quit, for any set of outcomes a boot can have   *)
(* and any number of commands.                                             *)
(*                                                                         *)
(* What a thread does is a sequence of operations, and what is wrong with  *)
(* one of them depends on those that came before it, in this thread and in *)
(* the others.  The invariant therefore speaks of what every thread has    *)
(* left to do: each object that is needed is there, or will be by then,    *)
(* and is not deleted before; what is locked is unlocked later; the flag   *)
(* is set before the thread is started, and the thread is joined before    *)
(* anything is taken from it.  Such an order is kept by dropping the       *)
(* operation that is first, so a step has to be looked at for what it does *)
(* to the other threads only, and an operation that brings or deletes an   *)
(* object finds them idle.                                                 *)
(***************************************************************************)
EXTENDS JuliaBoot, TLAPS

-----------------------------------------------------------------------------
(* The order of what a thread has left to do *)

Brings(e, o) == e.op \in {"new", "publish", "publish_failed"} /\ e.on = o
Deletes(e, o) == e.op = "delete" /\ e.on = o

\* Operations that look at a global object, and operations that no other thread
\* may meet.
Needs(e) == e.op \in {"use", "lock", "unlock", "start", "exit", "delete"}
Loud(e) == e.op \in {"new", "delete", "publish", "publish_failed", "start", "exit"}
Passing == {"use", "lock", "unlock"}

\* The operations that the code is made of.
LegalOps ==
    {e \in Operations :
        /\ Needs(e) => e.on # "gc_thread"
        /\ e.op \in {"lock", "unlock"} => e.on \in Barriers
        /\ e.op \in {"start", "exit"} => e.on = "pool"
        /\ e.op \in {"publish", "publish_failed"} => e.on = "global_state"
        /\ e.op = "new" => e.on # "global_state"}

\* What s needs is alive, or will be by then, and is not deleted before; but for
\* what is spared.
Provided(s, alive, spared) ==
    \A k \in DOMAIN s :
        Needs(s[k]) /\ s[k].on \notin spared =>
            /\ \A j \in 1 .. k - 1 : ~Deletes(s[j], s[k].on)
            /\ s[k].on \in alive \/ \E j \in 1 .. k - 1 : Brings(s[j], s[k].on)

\* What is locked is unlocked later.
Balanced(s) ==
    \A k \in DOMAIN s : s[k].op = "lock" =>
        \E j \in DOMAIN s : j > k /\ s[j].op = "unlock" /\ s[j].on = s[k].on

\* Before an operation of E there is one that is called op.
Precedes(op, s, E) ==
    \A k \in DOMAIN s : s[k] \in E => \E j \in 1 .. k - 1 : s[j].op = op

LoudOps == {e \in LegalOps : Loud(e)}
Publishing == {e \in LegalOps : e.op = "publish"}
ThreadStarting == {e \in LegalOps : Brings(e, "gc_thread")}

\* The collector's thread is the last that a boot brings.
ThreadLast(s) == \A k \in DOMAIN s : s[k] \in ThreadStarting => k = Len(s)

-----------------------------------------------------------------------------
(* The invariant *)

Alive == {o \in Objects : objs[o] = "alive"}
Pending(t) == {code[t][k] : k \in DOMAIN code[t]}
CollectorLives == objs["gc_thread"] = "alive"

\* A boot has succeeded, or is going to.
Succeeds == initialized \/ \E e \in Pending("nrt") : e.op = "publish"

\* Julia runs on the memory of a pool that the boot that failed has freed, or
\* will.
Hopeless == julia # "off" /\ ~Succeeds
Spared == IF Hopeless THEN {"pool"} ELSE {}

Typed == TypeOK /\ code \in [Threads -> Seq(LegalOps)]

\* Who is at work.
Turns ==
    /\ ~quit => code["main"] = <<>> /\ julia # "exited"
    /\ quit => queue = <<>> /\ running = "none"
    /\ running = "none" => code["nrt"] = <<>>
    /\ ~CollectorLives => code["collector"] = <<>>

\* Which thread brings and deletes objects, and when it does not.
Roles ==
    /\ \A e \in Pending("collector") : e.op \in Passing
    /\ \A e \in Pending("nrt") :
            e.op \notin {"exit", "stop", "join"} /\ (e.op = "delete" => e.on = "pool")
    /\ running # "boot" \/ CollectorLives => \A e \in Pending("nrt") : e.op \in Passing
    /\ \A e \in Pending("main") : e.op \notin {"new", "publish", "publish_failed", "start", "run"}
    /\ CollectorLives => Precedes("join", code["main"], LoudOps)

\* Before Julia runs there is nothing but boots.
OnlyBoots ==
    /\ julia = "off" =>
        /\ ~initialized
        /\ running \in {"none", "boot"}
        /\ \A k \in DOMAIN queue : queue[k] = "boot"
    /\ julia # "off" \/ Precedes("start", code["nrt"], Publishing)

\* Once it runs there is a global state.
StatePublished ==
    (julia # "off" \/ \E e \in Pending("nrt") : e.op = "start") /\ ~quit =>
        objs["global_state"] = "alive" \/ \E e \in Pending("nrt") : Brings(e, "global_state")

\* A boot that succeeds brings everything, and nothing goes until quit.
Complete ==
    /\ Succeeds /\ ~quit =>
        /\ \A e \in Pending("nrt") : e.op \notin {"delete", "publish_failed"}
        /\ \A o \in Objects : objs[o] = "alive" \/ \E e \in Pending("nrt") : Brings(e, o)
    /\ (\E e \in Pending("nrt") : Brings(e, "gc_thread")) => Succeeds

\* The collector's thread is there as long as what it uses.
Cared ==
    /\ CollectorLives => initialized /\ julia = "on" /\ \A o \in Objects : objs[o] = "alive"
    /\ CollectorLives /\ ~quit => thread_run
    /\ thread_run \/ Precedes("run", code["nrt"], ThreadStarting)
    /\ ThreadLast(code["nrt"])
    /\ (\E e \in Pending("main") : e.op = "join") => objs["gc_thread"] \in {"alive", "ended"}

\* Every thread finds what it needs, and unlocks what it locks.
Equipped ==
    /\ \A t \in Threads : Provided(code[t], Alive, Spared) /\ Balanced(code[t])
    /\ \A b \in held : \E t \in Threads : \E e \in Pending(t) : e.op = "unlock" /\ e.on = b

BootInv ==
    /\ Typed /\ Turns /\ Roles /\ OnlyBoots /\ StatePublished /\ Complete /\ Cared /\ Equipped
    /\ faults \subseteq Spared

-----------------------------------------------------------------------------
(* What is left after the first operation *)

\* The first operation and the rest, number by number.
LEMMA TailOf ==
  ASSUME NEW S, NEW s \in Seq(S), s # <<>>
  PROVE  /\ Head(s) = s[1] /\ s[1] \in S
         /\ Tail(s) \in Seq(S)
         /\ Len(s) \in Nat \ {0} /\ DOMAIN s = 1 .. Len(s)
         /\ Len(Tail(s)) = Len(s) - 1 /\ DOMAIN Tail(s) = 1 .. Len(s) - 1
         /\ \A k \in 1 .. Len(s) - 1 : k + 1 \in DOMAIN s /\ Tail(s)[k] = s[k + 1]
OBVIOUS

\* A number of Tail(s) is one of s, but for the first.
LEMMA TailElements ==
  ASSUME NEW s \in Seq(LegalOps), s # <<>>
  PROVE  {s[k] : k \in DOMAIN s} = {s[1]} \cup {Tail(s)[k] : k \in DOMAIN Tail(s)}
<1>1. ASSUME NEW k \in DOMAIN s
      PROVE  s[k] \in {s[1]} \cup {Tail(s)[j] : j \in DOMAIN Tail(s)}
  <2>1. CASE k = 1
    BY <2>1
  <2>2. CASE k # 1
    <3>1. k - 1 \in 1 .. Len(s) - 1 /\ (k - 1) + 1 = k
      BY <2>2, TailOf
    <3>2. Tail(s)[k - 1] = s[k] /\ k - 1 \in DOMAIN Tail(s)
      BY <3>1, TailOf
    <3> QED
      BY <3>2
  <2> QED
    BY <2>1, <2>2
<1>2. ASSUME NEW j \in DOMAIN Tail(s)
      PROVE  Tail(s)[j] \in {s[k] : k \in DOMAIN s}
  BY TailOf
<1>3. s[1] \in {s[k] : k \in DOMAIN s}
  BY TailOf
<1> QED
  BY <1>1, <1>2, <1>3

\* The objects that are alive after the operation e.
After(alive, e) ==
    IF \E o \in Objects : Brings(e, o) THEN alive \cup {e.on}
    ELSE IF e.op = "delete" THEN alive \ {e.on} ELSE alive

\* What was provided still is once the first operation has been done.
LEMMA ProvidedTail ==
  ASSUME NEW s \in Seq(LegalOps), s # <<>>, NEW alive, NEW spared, NEW later,
         spared \subseteq later,
         Provided(s, alive, spared)
  PROVE  Provided(Tail(s), After(alive, s[1]), later)
<1> DEFINE r == Tail(s)
<1> SUFFICES ASSUME NEW k \in DOMAIN r, Needs(r[k]), r[k].on \notin later
             PROVE  /\ \A j \in 1 .. k - 1 : ~Deletes(r[j], r[k].on)
                    /\ \/ r[k].on \in After(alive, s[1])
                       \/ \E j \in 1 .. k - 1 : Brings(r[j], r[k].on)
  BY DEF Provided
<1>1. k \in 1 .. Len(s) - 1 /\ r[k] = s[k + 1] /\ k + 1 \in DOMAIN s /\ Len(s) \in Nat
  BY TailOf
<1>2. \A j \in 1 .. k - 1 : r[j] = s[j + 1] /\ j + 1 \in 1 .. k
  BY <1>1, TailOf
<1>3. PICK o : o = r[k].on
  OBVIOUS
<1> HIDE DEF r
<1>4. /\ \A j \in 1 .. k : ~Deletes(s[j], o)
      /\ o \in alive \/ \E j \in 1 .. k : Brings(s[j], o)
  <2>1. (k + 1) - 1 = k
    BY <1>1
  <2> QED
    BY <1>1, <1>3, <2>1 DEF Provided
<1>5. \A j \in 1 .. k - 1 : ~Deletes(r[j], o)
  BY <1>2, <1>4
<1>6. 1 \in 1 .. k /\ ~Deletes(s[1], o)
  BY <1>1, <1>4
<1>7. CASE o \in alive
  BY <1>3, <1>5, <1>6, <1>7 DEF After, Deletes
<1>8. CASE \E j \in 1 .. k : Brings(s[j], o)
  <2>1. PICK j \in 1 .. k : Brings(s[j], o)
    BY <1>8
  <2>2. CASE j = 1
    <3>1. o \in Objects /\ s[1].on = o
      BY <2>1, <2>2, TailOf DEF Brings, LegalOps, Operations
    <3> QED
      BY <1>3, <1>5, <2>1, <2>2, <3>1 DEF After
  <2>3. CASE j # 1
    <3>1. j - 1 \in 1 .. k - 1 /\ (j - 1) + 1 = j
      BY <1>1, <2>3
    <3>2. Brings(r[j - 1], o)
      BY <1>2, <2>1, <3>1
    <3> QED
      BY <1>3, <1>5, <3>1, <3>2
  <2> QED
    BY <2>2, <2>3
<1> QED
  BY <1>4, <1>7, <1>8

\* So it is unlocked what the rest locks.
LEMMA BalancedTail ==
  ASSUME NEW s \in Seq(LegalOps), s # <<>>, Balanced(s)
  PROVE  Balanced(Tail(s))
<1> DEFINE r == Tail(s)
<1> SUFFICES ASSUME NEW k \in DOMAIN r, r[k].op = "lock"
             PROVE  \E j \in DOMAIN r : j > k /\ r[j].op = "unlock" /\ r[j].on = r[k].on
  BY DEF Balanced
<1>1. k \in 1 .. Len(s) - 1 /\ r[k] = s[k + 1] /\ k + 1 \in DOMAIN s /\ Len(s) \in Nat
  BY TailOf
<1>2. PICK j \in DOMAIN s : j > k + 1 /\ s[j].op = "unlock" /\ s[j].on = s[k + 1].on
  BY <1>1 DEF Balanced
<1>3. j - 1 \in 1 .. Len(s) - 1 /\ (j - 1) + 1 = j /\ j - 1 > k
  BY <1>1, <1>2, TailOf
<1>4. r[j - 1] = s[j] /\ j - 1 \in DOMAIN r
  BY <1>3, TailOf
<1> QED
  BY <1>1, <1>2, <1>3, <1>4

\* An order stays as long as its first half is not done.
LEMMA PrecedesTail ==
  ASSUME NEW s \in Seq(LegalOps), s # <<>>, NEW op, NEW E,
         Precedes(op, s, E), s[1].op # op
  PROVE  Precedes(op, Tail(s), E)
<1> DEFINE r == Tail(s)
<1> SUFFICES ASSUME NEW k \in DOMAIN r, r[k] \in E
             PROVE  \E j \in 1 .. k - 1 : r[j].op = op
  BY DEF Precedes
<1>1. k \in 1 .. Len(s) - 1 /\ r[k] = s[k + 1] /\ k + 1 \in DOMAIN s /\ Len(s) \in Nat
  BY TailOf
<1>2. PICK j \in 1 .. k : s[j].op = op
  <2>1. (k + 1) - 1 = k
    BY <1>1
  <2> QED
    BY <1>1, <2>1 DEF Precedes
<1>3. j # 1
  BY <1>2
<1>4. j - 1 \in 1 .. k - 1 /\ j - 1 \in 1 .. Len(s) - 1 /\ (j - 1) + 1 = j
  BY <1>1, <1>3
<1>5. r[j - 1] = s[j]
  BY <1>4, TailOf
<1> QED
  BY <1>2, <1>4, <1>5

\* The last operation stays the last.
LEMMA ThreadLastTail ==
  ASSUME NEW s \in Seq(LegalOps), s # <<>>, ThreadLast(s)
  PROVE  ThreadLast(Tail(s))
<1> SUFFICES ASSUME NEW k \in DOMAIN Tail(s), Tail(s)[k] \in ThreadStarting
             PROVE  k = Len(Tail(s))
  BY DEF ThreadLast
<1>1. k \in 1 .. Len(s) - 1 /\ Tail(s)[k] = s[k + 1] /\ k + 1 \in DOMAIN s /\ Len(s) \in Nat
  BY TailOf
<1>2. k + 1 = Len(s)
  BY <1>1 DEF ThreadLast
<1> QED
  BY <1>1, <1>2, TailOf

\* What is needed stays provided when more is spared and nothing but the
\* collector's thread, which no one needs, is gone.
LEMMA ProvidedStays ==
  ASSUME NEW s \in Seq(LegalOps), NEW alive, NEW more, NEW spared, NEW later,
         Provided(s, alive, spared), alive \ {"gc_thread"} \subseteq more, spared \subseteq later
  PROVE  Provided(s, more, later)
<1>1. \A k \in DOMAIN s : Needs(s[k]) => s[k].on # "gc_thread"
  BY DEF LegalOps
<1> QED
  BY <1>1 DEF Provided

\* A thread that only passes, or has nothing left to do, is in no one's way.
LEMMA PassingIsQuiet ==
  ASSUME NEW s, \A k \in DOMAIN s : s[k].op \in Passing, NEW op
  PROVE  /\ Precedes(op, s, Publishing) /\ Precedes(op, s, ThreadStarting)
         /\ Precedes(op, s, LoudOps)
         /\ ThreadLast(s)
BY DEF Passing, Precedes, Publishing, ThreadStarting, LoudOps, Brings, Loud, ThreadLast

\* A thread with nothing left to do needs nothing.
LEMMA NothingLeft ==
  ASSUME NEW alive, NEW spared
  PROVE  Provided(<<>>, alive, spared) /\ Balanced(<<>>)
BY DEF Provided, Balanced

-----------------------------------------------------------------------------
(* The code *)

\* A boot that succeeds, operation by operation.
LEMMA BootedIs ==
  LET s == Boot("booted")
  IN  /\ DOMAIN s = 1 .. 15 /\ Len(s) = 15
      /\ s[1].op = "new" /\ s[1].on = "pool"
      /\ s[2].op = "start" /\ s[2].on = "pool"
      /\ s[3].op = "publish" /\ s[3].on = "global_state"
      /\ s[4].op = "new" /\ s[4].on = "gc_barrier"
      /\ s[5].op = "new" /\ s[5].on = "compiler_barrier"
      /\ s[6].op = "new" /\ s[6].on = "compiler_gc_barrier"
      /\ s[7].op = "new" /\ s[7].on = "array"
      /\ s[8].op = "new" /\ s[8].on = "gc_array"
      /\ s[9].op = "lock" /\ s[9].on = "gc_barrier"
      /\ s[10].op = "use" /\ s[10].on = "gc_array"
      /\ s[11].op = "use" /\ s[11].on = "global_state"
      /\ s[12].op = "use" /\ s[12].on = "pool"
      /\ s[13].op = "unlock" /\ s[13].on = "gc_barrier"
      /\ s[14].op = "run" /\ s[14].on = "gc_thread"
      /\ s[15].op = "new" /\ s[15].on = "gc_thread"
BY DEF Boot, New, Use, Lock, Unlock, SetRun, Publish, StartJulia, NewGlobals, Collect, PerformGC,
       StartCollector

\* It is made of legal operations.
LEMMA BootedIsLegal == Boot("booted") \in Seq(LegalOps)
<1> USE DEF New, Use, Lock, Unlock, SetRun, Publish, StartJulia
<1>1. /\ New("pool") \in Seq(LegalOps) /\ StartJulia \in Seq(LegalOps)
      /\ New("gc_array") \in Seq(LegalOps)
      /\ StartCollector \in Seq(LegalOps)
  BY DEF StartCollector, LegalOps, Needs, Operations, Objects, Barriers
<1>2. NewGlobals \in Seq(LegalOps)
  BY DEF NewGlobals, LegalOps, Needs, Operations, Objects, Barriers
<1>3. PerformGC \in Seq(LegalOps)
  BY DEF PerformGC, Collect, LegalOps, Needs, Operations, Objects, Barriers
<1>4. StartJulia \o NewGlobals \o New("gc_array") \o PerformGC \o StartCollector \in Seq(LegalOps)
  <2> HIDE DEF New, StartJulia
  <2> QED
    BY <1>1, <1>2, <1>3
<1> HIDE DEF New, StartJulia
<1> QED
  BY <1>1, <1>4 DEF Boot

\* It brings every object before it uses it, and the collector's thread behind its
\* flag.
LEMMA BootSucceeds ==
  ASSUME NEW s, s = Boot("booted"), NEW alive, NEW spared
  PROVE  /\ s \in Seq(LegalOps)
         /\ Provided(s, alive, spared) /\ Balanced(s)
         /\ Precedes("run", s, ThreadStarting) /\ ThreadLast(s)
         /\ Precedes("start", s, Publishing)
         /\ \A k \in DOMAIN s : s[k].op \notin {"exit", "stop", "join", "delete", "publish_failed"}
         /\ \A o \in Objects : \E k \in DOMAIN s : Brings(s[k], o)
<1>1. DOMAIN s = 1 .. 15 /\ Len(s) = 15 /\ s \in Seq(LegalOps)
  BY BootedIs, BootedIsLegal
<1>2. \A k \in DOMAIN s : s[k].op \notin {"exit", "stop", "join", "delete", "publish_failed"}
  BY DEF Boot, New, Use, Lock, Unlock, SetRun, Publish, StartJulia, NewGlobals, Collect,
         PerformGC, StartCollector
<1>3. /\ Precedes("run", s, ThreadStarting) /\ ThreadLast(s)
      /\ Precedes("start", s, Publishing)
  <2>1. \A k \in DOMAIN s : Brings(s[k], "gc_thread") => k = 15
    BY DEF Brings, Boot, New, Use, Lock, Unlock, SetRun, Publish, StartJulia, NewGlobals,
         Collect, PerformGC, StartCollector
  <2>2. \A k \in DOMAIN s : s[k].op = "publish" => k = 3
    BY DEF Boot, New, Use, Lock, Unlock, SetRun, Publish, StartJulia, NewGlobals,
         Collect, PerformGC, StartCollector
  <2>3. 2 \in 1 .. 2 /\ s[2].op = "start" /\ 14 \in 1 .. 14 /\ s[14].op = "run"
    BY BootedIs
  <2> QED
    BY <1>1, <2>1, <2>2, <2>3 DEF Precedes, ThreadLast, ThreadStarting, Publishing
<1>4. /\ Brings(s[1], "pool") /\ Brings(s[3], "global_state")
      /\ Brings(s[4], "gc_barrier") /\ Brings(s[5], "compiler_barrier")
      /\ Brings(s[6], "compiler_gc_barrier") /\ Brings(s[7], "array")
      /\ Brings(s[8], "gc_array") /\ Brings(s[15], "gc_thread")
  BY BootedIs DEF Brings
<1>5. \A o \in Objects : \E k \in DOMAIN s : Brings(s[k], o)
  <2>1. {1, 3, 4, 5, 6, 7, 8, 15} \subseteq DOMAIN s
    BY <1>1
  <2> QED
    BY <1>4, <2>1 DEF Objects, Barriers
<1>6. Provided(s, alive, spared)
  <2> SUFFICES ASSUME NEW k \in DOMAIN s, Needs(s[k])
               PROVE  \E j \in 1 .. k - 1 : Brings(s[j], s[k].on)
    BY <1>1, <1>2 DEF Provided, Deletes
  <2>1. k \in {2, 9, 10, 11, 12, 13}
    BY DEF Needs, Boot, New, Use, Lock, Unlock, SetRun, Publish, StartJulia, NewGlobals, Collect,
           PerformGC, StartCollector
  <2>2. \/ k \in {2, 12} /\ s[k].on = "pool" /\ 1 \in 1 .. k - 1
        \/ k = 11 /\ s[k].on = "global_state" /\ 3 \in 1 .. k - 1
        \/ k = 10 /\ s[k].on = "gc_array" /\ 8 \in 1 .. k - 1
        \/ k \in {9, 13} /\ s[k].on = "gc_barrier" /\ 4 \in 1 .. k - 1
    BY <2>1, BootedIs
  <2> QED
    BY <1>4, <2>2
<1>7. Balanced(s)
  <2>1. ASSUME NEW k \in DOMAIN s, s[k].op = "lock"
        PROVE  k = 9
    BY <2>1 DEF Boot, New, Use, Lock, Unlock, SetRun, Publish, StartJulia, NewGlobals, Collect,
                PerformGC, StartCollector
  <2>2. 13 \in DOMAIN s /\ 13 > 9 /\ s[13].op = "unlock" /\ s[13].on = s[9].on
    BY <1>1, BootedIs
  <2> QED
    BY <2>1, <2>2 DEF Balanced
<1> QED
  BY <1>1, <1>2, <1>3, <1>5, <1>6, <1>7

\* A boot that fails brings no thread, and deletes the pool only.
LEMMA BootFails ==
  ASSUME NEW outcome \in {"no_julia", "stage_fails"}, NEW s, s = Boot(outcome),
         NEW alive, NEW spared
  PROVE  /\ s \in Seq(LegalOps)
         /\ Provided(s, alive, spared) /\ Balanced(s)
         /\ Precedes("run", s, ThreadStarting) /\ ThreadLast(s)
         /\ Precedes("start", s, Publishing)
         /\ \A k \in DOMAIN s :
               /\ s[k].op \in {"new", "start", "delete", "publish_failed"}
               /\ s[k].op = "delete" => s[k].on = "pool"
               /\ ~Brings(s[k], "gc_thread")
         /\ \E k \in DOMAIN s : Brings(s[k], "global_state")
<1> USE DEF New, Delete, Publish, StartJulia
<1>1. CASE outcome = "no_julia"
  <2> DEFINE c == New("pool") \o (Delete("pool") \o Publish(FALSE))
  <2>1. s = c
    BY <1>1 DEF Boot
  <2>2. /\ DOMAIN c = {1, 2, 3}
        /\ c[1].op = "new" /\ c[1].on = "pool"
        /\ c[2].op = "delete" /\ c[2].on = "pool"
        /\ c[3].op = "publish_failed" /\ c[3].on = "global_state"
    OBVIOUS
  <2>3. c \in Seq(LegalOps)
    BY DEF LegalOps, Needs, Operations, Objects, Barriers
  <2> HIDE DEF c
  <2>4. Provided(s, alive, spared)
    BY <2>1, <2>2 DEF Provided, Needs, Deletes, Brings
  <2>5. /\ Balanced(s)
        /\ Precedes("run", s, ThreadStarting) /\ ThreadLast(s)
        /\ Precedes("start", s, Publishing)
    BY <2>1, <2>2 DEF Brings, Balanced, Precedes, ThreadLast, ThreadStarting, Publishing
  <2> QED
    BY <2>1, <2>2, <2>3, <2>4, <2>5 DEF Brings
<1>2. CASE outcome = "stage_fails"
  <2> DEFINE c == New("pool") \o (StartJulia \o Delete("pool") \o Publish(FALSE))
  <2>1. s = c
    BY <1>2 DEF Boot
  <2>2. /\ DOMAIN c = {1, 2, 3, 4}
        /\ c[1].op = "new" /\ c[1].on = "pool"
        /\ c[2].op = "start" /\ c[2].on = "pool"
        /\ c[3].op = "delete" /\ c[3].on = "pool"
        /\ c[4].op = "publish_failed" /\ c[4].on = "global_state"
    OBVIOUS
  <2>3. c \in Seq(LegalOps)
    BY DEF LegalOps, Needs, Operations, Objects, Barriers
  <2> HIDE DEF c
  <2>4. Provided(s, alive, spared)
    BY <2>1, <2>2 DEF Provided, Needs, Deletes, Brings
  <2>5. /\ Balanced(s)
        /\ Precedes("run", s, ThreadStarting) /\ ThreadLast(s)
        /\ Precedes("start", s, Publishing)
    BY <2>1, <2>2 DEF Brings, Balanced, Precedes, ThreadLast, ThreadStarting, Publishing
  <2> QED
    BY <2>1, <2>2, <2>3, <2>4, <2>5 DEF Brings
<1> QED
  BY <1>1, <1>2

\* A thread that only passes has what it needs if that is alive.
LEMMA PassingProvided ==
  ASSUME NEW n \in Nat, NEW s, DOMAIN s = 1 .. n, NEW alive, NEW spared,
         \A k \in DOMAIN s : s[k].op \in Passing,
         \A k \in DOMAIN s : s[k].on \in alive \cup spared
  PROVE  Provided(s, alive, spared)
<1>1. \A k \in DOMAIN s : \A j \in 1 .. k - 1 : j \in DOMAIN s /\ s[j].op # "delete"
  BY DEF Passing
<1> QED
  BY <1>1 DEF Provided, Deletes

\* A load locks and unlocks its two barriers, and the one of the collection within.
LEMMA LoadPasses ==
  ASSUME NEW s, s = Use("global_state") \o Locked(PerformGC), NEW alive, NEW spared,
         Objects \ {"gc_thread"} \subseteq alive
  PROVE  /\ s \in Seq(LegalOps)
         /\ Provided(s, alive, spared) /\ Balanced(s)
         /\ \A k \in DOMAIN s : s[k].op \in Passing
<1> USE DEF Locked, PerformGC, Collect, Use, Lock, Unlock
<1>1. s \in Seq(LegalOps)
  <2>1. Use("global_state") \in Seq(LegalOps) /\ PerformGC \in Seq(LegalOps)
    BY DEF LegalOps, Needs, Operations, Objects, Barriers
  <2>2. /\ Lock("compiler_barrier") \in Seq(LegalOps)
        /\ Lock("compiler_gc_barrier") \in Seq(LegalOps)
        /\ Unlock("compiler_barrier") \in Seq(LegalOps)
        /\ Unlock("compiler_gc_barrier") \in Seq(LegalOps)
        /\ Use("array") \in Seq(LegalOps)
    BY DEF LegalOps, Needs, Operations, Objects, Barriers
  <2> HIDE DEF PerformGC, Use, Lock, Unlock
  <2> QED
    BY <2>1, <2>2
<1>2. \A k \in DOMAIN s : s[k].op \in Passing
  BY DEF Passing
<1>3. \A k \in DOMAIN s :
         s[k].on \in {"global_state", "compiler_barrier", "compiler_gc_barrier", "array",
                      "gc_barrier", "gc_array", "pool"}
  OBVIOUS
<1>4. /\ DOMAIN s = 1 .. 11
      /\ s[9].op = "unlock" /\ s[9].on = "gc_barrier"
      /\ s[10].op = "unlock" /\ s[10].on = "compiler_barrier"
      /\ s[11].op = "unlock" /\ s[11].on = "compiler_gc_barrier"
  OBVIOUS
<1>5. \A k \in DOMAIN s : s[k].op = "lock" =>
         k < 9 /\ s[k].on \in {"gc_barrier", "compiler_barrier", "compiler_gc_barrier"}
  OBVIOUS
<1>6. Balanced(s)
  <2> SUFFICES ASSUME NEW k \in DOMAIN s, s[k].op = "lock"
               PROVE  \E j \in DOMAIN s : j > k /\ s[j].op = "unlock" /\ s[j].on = s[k].on
    BY DEF Balanced
  <2>1. PICK b : s[k].on = b /\ b \in {"gc_barrier", "compiler_barrier", "compiler_gc_barrier"}
    BY <1>5
  <2>2. k \in 1 .. 8
    BY <1>4, <1>5
  <2>3. PICK j \in {9, 10, 11} : s[j].op = "unlock" /\ s[j].on = b
    BY <1>4, <2>1
  <2>4. j \in DOMAIN s /\ j > k
    BY <1>4, <2>2
  <2> QED
    BY <2>1, <2>3, <2>4
<1>7. Provided(s, alive, spared)
  <2>1. \A k \in DOMAIN s : s[k].on \in alive
    BY <1>3 DEF Objects, Barriers
  <2> QED
    BY <1>2, <1>4, <2>1, PassingProvided
<1> QED
  BY <1>1, <1>2, <1>6, <1>7

\* So does a query, with no collection.
LEMMA QueryPasses ==
  ASSUME NEW s, s = Use("global_state") \o Locked(<<>>), NEW alive, NEW spared,
         Objects \ {"gc_thread"} \subseteq alive
  PROVE  /\ s \in Seq(LegalOps)
         /\ Provided(s, alive, spared) /\ Balanced(s)
         /\ \A k \in DOMAIN s : s[k].op \in Passing
<1> USE DEF Locked, Use, Lock, Unlock
<1>1. s \in Seq(LegalOps)
  BY DEF LegalOps, Needs, Operations, Objects, Barriers
<1>2. \A k \in DOMAIN s : s[k].op \in Passing
  BY DEF Passing
<1>3. \A k \in DOMAIN s :
         s[k].on \in {"global_state", "compiler_barrier", "compiler_gc_barrier", "array"}
  OBVIOUS
<1>4. /\ DOMAIN s = 1 .. 6
      /\ s[5].op = "unlock" /\ s[5].on = "compiler_barrier"
      /\ s[6].op = "unlock" /\ s[6].on = "compiler_gc_barrier"
  OBVIOUS
<1>5. \A k \in DOMAIN s : s[k].op = "lock" =>
         k < 5 /\ s[k].on \in {"compiler_barrier", "compiler_gc_barrier"}
  OBVIOUS
<1>6. Balanced(s)
  <2> SUFFICES ASSUME NEW k \in DOMAIN s, s[k].op = "lock"
               PROVE  \E j \in DOMAIN s : j > k /\ s[j].op = "unlock" /\ s[j].on = s[k].on
    BY DEF Balanced
  <2>1. PICK b : s[k].on = b /\ b \in {"compiler_barrier", "compiler_gc_barrier"}
    BY <1>5
  <2>2. k \in 1 .. 4
    BY <1>4, <1>5
  <2>3. PICK j \in {5, 6} : s[j].op = "unlock" /\ s[j].on = b
    BY <1>4, <2>1
  <2>4. j \in DOMAIN s /\ j > k
    BY <1>4, <2>2
  <2> QED
    BY <2>1, <2>3, <2>4
<1>7. Provided(s, alive, spared)
  <2>1. \A k \in DOMAIN s : s[k].on \in alive
    BY <1>3 DEF Objects, Barriers
  <2> QED
    BY <1>2, <1>4, <2>1, PassingProvided
<1> QED
  BY <1>1, <1>2, <1>6, <1>7

\* What the commands other than the boot do, with everything there, or with a
\* global state that says it is not.
LEMMA CommandPasses ==
  ASSUME NEW cmd \in Commands \ {"boot"}, NEW s, s = Command(cmd), NEW alive, NEW spared,
         "global_state" \in alive,
         initialized => Objects \ {"gc_thread"} \subseteq alive,
         ~initialized => "pool" \in spared
  PROVE  /\ s \in Seq(LegalOps)
         /\ Provided(s, alive, spared) /\ Balanced(s)
         /\ \A k \in DOMAIN s : s[k].op \in Passing
<1>1. CASE cmd \in {"load", "query"} /\ initialized
  <2>1. s \in {Use("global_state") \o Locked(PerformGC), Use("global_state") \o Locked(<<>>)}
    <3>1. CASE cmd = "load"
      BY <1>1, <3>1 DEF Command, Checked
    <3>2. CASE cmd = "query"
      BY <1>1, <3>2 DEF Command, Checked
    <3> QED
      BY <1>1, <3>1, <3>2
  <2> QED
    BY <1>1, <2>1, LoadPasses, QueryPasses
<1>2. CASE cmd \in {"load", "query"} /\ ~initialized
  <2>1. s = Use("global_state") \o <<>>
    <3>1. CASE cmd = "load"
      BY <1>2, <3>1 DEF Command, Checked
    <3>2. CASE cmd = "query"
      BY <1>2, <3>2 DEF Command, Checked
    <3> QED
      BY <1>2, <3>1, <3>2
  <2>2. s \in Seq(LegalOps)
    BY <2>1 DEF Use, LegalOps, Needs, Operations, Objects
  <2>3. DOMAIN s = 1 .. 1 /\ s[1].op = "use" /\ s[1].on = "global_state"
    BY <2>1 DEF Use
  <2>4. Provided(s, alive, spared)
    BY <2>3 DEF Provided, Deletes
  <2> QED
    BY <2>2, <2>3, <2>4 DEF Passing, Balanced
<1>3. CASE cmd = "total_free"
  <2>1. s = Use("global_state") \o Use("pool")
    BY <1>3 DEF Command
  <2>2. s \in Seq(LegalOps)
    BY <2>1 DEF Use, LegalOps, Needs, Operations, Objects
  <2>3. /\ DOMAIN s = 1 .. 2
        /\ \A k \in DOMAIN s : s[k].op = "use" /\ s[k].on \in {"global_state", "pool"}
    BY <2>1 DEF Use
  <2>4. "pool" \in alive \cup spared
    BY DEF Objects
  <2>5. Provided(s, alive, spared)
    BY <2>3, <2>4, PassingProvided DEF Passing
  <2> QED
    BY <2>2, <2>3, <2>5 DEF Passing, Balanced
<1> QED
  BY <1>1, <1>2, <1>3 DEF Commands

\* A turn of the collector's thread, behind the barrier it has taken.
LEMMA TurnPasses ==
  ASSUME NEW body \in {<<>>, Collect}, NEW s,
         s = Lock("gc_barrier") \o body \o Unlock("gc_barrier") \o Unlock("compiler_gc_barrier"),
         NEW alive, NEW spared, Objects \subseteq alive
  PROVE  /\ s \in Seq(LegalOps)
         /\ Provided(s, alive, spared) /\ Balanced(s)
         /\ \A k \in DOMAIN s : s[k].op \in Passing
         /\ \E k \in DOMAIN s : s[k].op = "unlock" /\ s[k].on = "compiler_gc_barrier"
<1> USE DEF Use, Lock, Unlock
<1>1. CASE body = <<>>
  <2> DEFINE c == Lock("gc_barrier") \o <<>> \o Unlock("gc_barrier")
                     \o Unlock("compiler_gc_barrier")
  <2>1. s = c
    BY <1>1
  <2>2. c \in Seq(LegalOps)
    BY DEF LegalOps, Needs, Operations, Objects, Barriers
  <2>3. /\ DOMAIN c = 1 .. 3
        /\ c[1].op = "lock" /\ c[1].on = "gc_barrier"
        /\ c[2].op = "unlock" /\ c[2].on = "gc_barrier"
        /\ c[3].op = "unlock" /\ c[3].on = "compiler_gc_barrier"
        /\ 1 .. 3 = {1, 2, 3}
    OBVIOUS
  <2> HIDE DEF c
  <2>4. \A k \in DOMAIN c : s[k].op \in Passing /\ s[k].on \in alive
    BY <2>1, <2>3 DEF Passing, Objects, Barriers
  <2>5. Balanced(s)
    <3>1. \A k \in DOMAIN c : c[k].op = "lock" => k = 1
      BY <2>3
    <3>2. 2 \in DOMAIN c /\ 2 > 1
      BY <2>3
    <3> QED
      BY <2>1, <2>3, <3>1, <3>2 DEF Balanced
  <2>6. Provided(s, alive, spared)
    BY <2>1, <2>3, <2>4, PassingProvided
  <2> QED
    BY <2>1, <2>2, <2>3, <2>4, <2>5, <2>6
<1>2. CASE body = Collect
  <2> DEFINE c == Lock("gc_barrier") \o Collect \o Unlock("gc_barrier")
                     \o Unlock("compiler_gc_barrier")
  <2>1. s = c
    BY <1>2
  <2>2. c \in Seq(LegalOps)
    BY DEF Collect, LegalOps, Needs, Operations, Objects, Barriers
  <2>3. /\ DOMAIN c = 1 .. 6
        /\ c[1].op = "lock" /\ c[1].on = "gc_barrier"
        /\ c[2].op = "use" /\ c[2].on = "gc_array"
        /\ c[3].op = "use" /\ c[3].on = "global_state"
        /\ c[4].op = "use" /\ c[4].on = "pool"
        /\ c[5].op = "unlock" /\ c[5].on = "gc_barrier"
        /\ c[6].op = "unlock" /\ c[6].on = "compiler_gc_barrier"
        /\ 1 .. 6 = {1, 2, 3, 4, 5, 6}
    BY DEF Collect
  <2> HIDE DEF c
  <2>4. \A k \in DOMAIN c : s[k].op \in Passing /\ s[k].on \in alive
    BY <2>1, <2>3 DEF Passing, Objects, Barriers
  <2>5. Balanced(s)
    <3>1. \A k \in DOMAIN c : c[k].op = "lock" => k = 1
      BY <2>3
    <3>2. 5 \in DOMAIN c /\ 5 > 1
      BY <2>3
    <3> QED
      BY <2>1, <2>3, <3>1, <3>2 DEF Balanced
  <2>6. Provided(s, alive, spared)
    BY <2>1, <2>3, <2>4, PassingProvided
  <2> QED
    BY <2>1, <2>2, <2>3, <2>4, <2>5, <2>6
<1> QED
  BY <1>1, <1>2

\* What quit does after a boot that has succeeded, operation by operation.
LEMMA QuitIs ==
  ASSUME julia # "off", initialized
  PROVE  LET s == Quit
         IN  /\ DOMAIN s = 1 .. 14
             /\ s[1].op = "stop" /\ s[1].on = "gc_thread"
             /\ s[2].op = "join" /\ s[2].on = "gc_thread"
             /\ s[3].op = "delete" /\ s[3].on = "array"
             /\ s[4].op = "lock" /\ s[4].on = "gc_barrier"
             /\ s[5].op = "lock" /\ s[5].on = "compiler_barrier"
             /\ s[6].op = "exit" /\ s[6].on = "pool"
             /\ s[7].op = "delete" /\ s[7].on = "pool"
             /\ s[8].op = "delete" /\ s[8].on = "global_state"
             /\ s[9].op = "unlock" /\ s[9].on = "gc_barrier"
             /\ s[10].op = "delete" /\ s[10].on = "gc_barrier"
             /\ s[11].op = "unlock" /\ s[11].on = "compiler_barrier"
             /\ s[12].op = "delete" /\ s[12].on = "compiler_barrier"
             /\ s[13].op = "delete" /\ s[13].on = "compiler_gc_barrier"
             /\ s[14].op = "delete" /\ s[14].on = "gc_array"
BY DEF Quit, StopCollector, SetRun, Join, Delete, Use, Lock, Unlock, ExitJulia

\* It joins the thread first, and deletes last what it still uses.
LEMMA QuitIsRight ==
  ASSUME NEW s, s = Quit, NEW alive, NEW spared,
         julia # "off" => "global_state" \in alive,
         julia # "off" /\ initialized => Objects \subseteq alive,
         julia # "off" /\ ~initialized => "pool" \in spared
  PROVE  /\ s \in Seq(LegalOps)
         /\ Provided(s, alive, spared) /\ Balanced(s)
         /\ \A k \in DOMAIN s : s[k].op \notin {"new", "publish", "publish_failed", "start", "run"}
         /\ julia # "off" /\ initialized => Precedes("join", s, LoudOps)
         /\ (\E k \in DOMAIN s : s[k].op = "join") => julia # "off" /\ initialized
<1>1. CASE julia = "off"
  <2>1. s = <<>>
    BY <1>1 DEF Quit
  <2> QED
    BY <1>1, <2>1 DEF Provided, Balanced
<1>2. CASE julia # "off" /\ ~initialized
  <2>1. s = Use("global_state") \o ExitJulia
    BY <1>2 DEF Quit
  <2>2. s \in Seq(LegalOps)
    BY <2>1 DEF Use, ExitJulia, LegalOps, Needs, Operations, Objects, Barriers
  <2>3. /\ DOMAIN s = 1 .. 2 /\ 1 .. 2 = {1, 2}
        /\ s[1].op = "use" /\ s[1].on = "global_state"
        /\ s[2].op = "exit" /\ s[2].on = "pool"
    BY <2>1 DEF Use, ExitJulia
  <2>4. Provided(s, alive, spared) /\ Balanced(s)
    BY <1>2, <2>3 DEF Provided, Deletes, Balanced
  <2> QED
    BY <1>2, <2>2, <2>3, <2>4
<1>3. CASE julia # "off" /\ initialized
  <2> USE DEF StopCollector, SetRun, Join, Delete, Use, Lock, Unlock, ExitJulia
  <2>1. s \in Seq(LegalOps)
    <3>1. /\ StopCollector \in Seq(LegalOps) /\ ExitJulia \in Seq(LegalOps)
          /\ \A o \in Objects \ {"gc_thread"} : Delete(o) \in Seq(LegalOps)
          /\ \A b \in Barriers : Lock(b) \in Seq(LegalOps) /\ Unlock(b) \in Seq(LegalOps)
      BY DEF LegalOps, Needs, Operations, Objects, Barriers
    <3>2. /\ {"array", "pool", "global_state", "gc_barrier", "compiler_barrier",
              "compiler_gc_barrier", "gc_array"} \subseteq Objects \ {"gc_thread"}
          /\ {"gc_barrier", "compiler_barrier"} \subseteq Barriers
      BY DEF Objects, Barriers
    <3> HIDE DEF StopCollector, Delete, Lock, Unlock, ExitJulia
    <3> QED
      BY <1>3, <3>1, <3>2 DEF Quit
  <2> HIDE DEF StopCollector, SetRun, Join, Delete, Use, Lock, Unlock, ExitJulia
  <2>2. DOMAIN s = 1 .. 14 /\ 1 .. 14 = {1, 2, 3, 4, 5, 6, 7, 8, 9, 10, 11, 12, 13, 14}
    BY <1>3, QuitIs
  <2>3. Balanced(s)
    <3>1. \A k \in DOMAIN s : s[k].op = "lock" => k = 4 \/ k = 5
      BY <1>3, <2>2, QuitIs
    <3>2. /\ 9 \in DOMAIN s /\ 9 > 4 /\ s[9].op = "unlock" /\ s[9].on = s[4].on
          /\ 11 \in DOMAIN s /\ 11 > 5 /\ s[11].op = "unlock" /\ s[11].on = s[5].on
      BY <1>3, <2>2, QuitIs
    <3> QED
      BY <3>1, <3>2 DEF Balanced
  <2>4. Provided(s, alive, spared)
    <3>1. \A k \in DOMAIN s : s[k].on \in alive
      BY <1>3, <2>2, QuitIs DEF Objects, Barriers
    <3>2. ASSUME NEW k \in DOMAIN s, Needs(s[k]), NEW j \in 1 .. k - 1, Deletes(s[j], s[k].on)
          PROVE  FALSE
      <4>1. /\ k \in {4, 5, 6, 7, 8, 9, 10, 11, 12, 13, 14} \/ k = 3
            /\ j \in {3, 7, 8, 10, 12, 13, 14}
        BY <1>3, <2>2, <3>2, QuitIs DEF Needs, Deletes
      <4>2. s[j].on = s[k].on /\ j < k
        BY <2>2, <3>2 DEF Deletes
      <4> QED
        BY <1>3, <4>1, <4>2, QuitIs
    <3> QED
      BY <3>1, <3>2 DEF Provided
  <2>5. \A k \in DOMAIN s : s[k].op \notin {"new", "publish", "publish_failed", "start", "run"}
    BY <1>3, <2>2, QuitIs
  <2>6. Precedes("join", s, LoudOps)
    <3>1. \A k \in DOMAIN s : Loud(s[k]) => 2 \in 1 .. k - 1
      BY <1>3, <2>2, QuitIs DEF Loud
    <3>2. s[2].op = "join"
      BY <1>3, QuitIs
    <3> QED
      BY <3>1, <3>2 DEF Precedes, LoudOps
  <2> QED
    BY <1>3, <2>1, <2>3, <2>4, <2>5, <2>6
<1> QED
  BY <1>1, <1>2, <1>3

-----------------------------------------------------------------------------
(* What follows from the invariant *)

\* The invariant is stronger than the properties that the runs check.
LEMMA InvExcludes ==
  ASSUME BootInv
  PROVE  TypeOK /\ NothingMisused /\ CollectorStays
<1>1. TypeOK
  BY DEF BootInv, Typed
<1>2. initialized => ~Hopeless
  BY DEF Hopeless, Succeeds
<1>3. NothingMisused
  BY <1>2 DEF BootInv, Spared, NothingMisused
<1>4. ASSUME initialized, running # "boot", ~quit
      PROVE  objs["gc_thread"] = "alive" /\ thread_run
  <2>1. "gc_thread" \in Objects
    BY DEF Objects
  <2>2. objs["gc_thread"] = "alive" \/ \E e \in Pending("nrt") : Brings(e, "gc_thread")
    BY <1>4, <2>1 DEF BootInv, Complete, Succeeds
  <2>3. CollectorLives
    BY <1>4, <2>2 DEF BootInv, Roles, Brings, Passing, CollectorLives
  <2> QED
    BY <1>4, <2>3 DEF BootInv, Cared, CollectorLives
<1> QED
  BY <1>1, <1>3, <1>4 DEF CollectorStays

\* While nobody boots and nobody quits, a booted server has everything.
LEMMA AllThere ==
  ASSUME BootInv, initialized, ~quit, \A e \in Pending("nrt") : e.op \in Passing
  PROVE  \A o \in Objects : objs[o] = "alive"
BY DEF BootInv, Complete, Succeeds, Brings, Passing

\* Nothing is there and there is nothing to do.
LEMMA InitHolds ==
  ASSUME Init
  PROVE  BootInv
<1>1. code = [t \in Threads |-> <<>>]
  BY DEF Init
<1>2. \A t \in Threads : code[t] = <<>> /\ Pending(t) = {}
  BY <1>1 DEF Pending
<1>3. {"nrt", "collector", "main"} = Threads
  BY DEF Threads
<1>4. code["nrt"] = <<>> /\ code["main"] = <<>> /\ code["collector"] = <<>>
      /\ Pending("nrt") = {} /\ Pending("main") = {} /\ Pending("collector") = {}
  BY <1>2, <1>3
<1>5. <<>> \in Seq(Operations) /\ <<>> \in Seq(LegalOps) /\ <<>> \in Seq(Commands)
  OBVIOUS
<1>6. Typed
  <2>1. code \in [Threads -> Seq(Operations)] /\ code \in [Threads -> Seq(LegalOps)]
    BY <1>1, <1>5
  <2>2. 0 \in 0 .. MaxCommands
    BY MaxCommandsAssumption
  <2>3. /\ objs \in [Objects -> {"none", "alive", "deleted", "ended"}]
        /\ \A o \in Objects : objs[o] = "none"
    BY DEF Init
  <2>4. "gc_thread" \in Objects
    BY DEF Objects
  <2> QED
    BY <1>5, <2>1, <2>2, <2>3, <2>4 DEF Init, Typed, TypeOK
<1>7. ~CollectorLives
  BY DEF Init, CollectorLives, Objects
<1>8. \A op, E : Precedes(op, <<>>, E)
  BY DEF Precedes
<1>9. ThreadLast(<<>>)
  BY DEF ThreadLast
<1>10. Turns /\ Roles /\ StatePublished
  BY <1>4, <1>7 DEF Init, Turns, Roles, StatePublished
<1>11. OnlyBoots
  <2>1. DOMAIN queue = {}
    BY DEF Init
  <2> QED
    BY <1>4, <1>8, <2>1 DEF Init, OnlyBoots
<1>12. Complete /\ Cared
  BY <1>4, <1>7, <1>8, <1>9 DEF Init, Complete, Succeeds, Cared
<1>13. Equipped
  BY <1>2, NothingLeft DEF Init, Equipped
<1> QED
  BY <1>6, <1>10, <1>11, <1>12, <1>13 DEF Init, BootInv

-----------------------------------------------------------------------------
(* Steps that send, begin and end *)

\* What a step leaves as it is that changes neither the objects nor the code.
LEMMA SameCode ==
  ASSUME UNCHANGED <<julia, initialized, objs, code>>
  PROVE  /\ \A t : Pending(t)' = Pending(t)
         /\ Alive' = Alive /\ CollectorLives' = CollectorLives
         /\ Succeeds' = Succeeds /\ Hopeless' = Hopeless /\ Spared' = Spared
<1>1. \A t : Pending(t)' = Pending(t)
  BY DEF Pending
<1>2. Succeeds' = Succeeds
  BY <1>1 DEF Succeeds
<1>3. Hopeless' = Hopeless
  BY <1>2 DEF Hopeless
<1> QED
  BY <1>1, <1>2, <1>3 DEF Alive, CollectorLives, Spared

\* A command that is sent is a boot if Julia does not run.
LEMMA SendHolds ==
  ASSUME BootInv, NEW cmd \in Commands, Send(cmd)
  PROVE  BootInv'
<1>1. /\ UNCHANGED <<julia, initialized, objs, held, running, code, thread_run, quit, faults>>
      /\ queue' = Append(queue, cmd) /\ sent' = sent + 1
      /\ sent < MaxCommands /\ ~quit /\ (cmd = "boot" \/ julia # "off")
  BY DEF Send
<1>2. queue \in Seq(Commands) /\ sent \in 0 .. MaxCommands /\ MaxCommands \in Nat
  BY MaxCommandsAssumption DEF BootInv, Typed, TypeOK
<1>3. Typed'
  <2>1. queue' \in Seq(Commands) /\ sent' \in 0 .. MaxCommands
    BY <1>1, <1>2
  <2> QED
    BY <1>1, <2>1 DEF BootInv, Typed, TypeOK
<1>4. /\ \A t : Pending(t)' = Pending(t)
      /\ Alive' = Alive /\ CollectorLives' = CollectorLives
      /\ Succeeds' = Succeeds /\ Spared' = Spared
  BY <1>1, SameCode
<1>5. OnlyBoots'
  <2>1. julia = "off" => \A k \in DOMAIN queue' : queue'[k] = "boot"
    BY <1>1, <1>2 DEF BootInv, OnlyBoots
  <2> QED
    BY <1>1, <2>1 DEF BootInv, OnlyBoots
<1>6. Turns' /\ Roles' /\ StatePublished'
  BY <1>1, <1>4 DEF BootInv, Turns, Roles, StatePublished
<1>7. Complete' /\ Cared' /\ Equipped' /\ (faults \subseteq Spared)'
  BY <1>1, <1>4 DEF BootInv, Complete, Cared, Equipped
<1> QED
  BY <1>3, <1>5, <1>6, <1>7 DEF BootInv

\* A command ends when it has nothing left to do.
LEMMA EndCommandHolds ==
  ASSUME BootInv, EndCommand
  PROVE  BootInv'
<1>1. /\ UNCHANGED <<julia, initialized, objs, held, queue, sent, code, thread_run, quit, faults>>
      /\ running' = "none" /\ code["nrt"] = <<>>
  BY DEF EndCommand
<1>2. Typed'
  BY <1>1 DEF BootInv, Typed, TypeOK
<1>3. /\ \A t : Pending(t)' = Pending(t)
      /\ Alive' = Alive /\ CollectorLives' = CollectorLives
      /\ Succeeds' = Succeeds /\ Spared' = Spared
  BY <1>1, SameCode
<1>4. Pending("nrt") = {}
  BY <1>1 DEF Pending
<1>5. Turns' /\ Roles' /\ StatePublished' /\ OnlyBoots'
  BY <1>1, <1>3, <1>4 DEF BootInv, Turns, Roles, StatePublished, OnlyBoots
<1>6. Complete' /\ Cared' /\ Equipped' /\ (faults \subseteq Spared)'
  BY <1>1, <1>3 DEF BootInv, Complete, Cared, Equipped
<1> QED
  BY <1>2, <1>5, <1>6 DEF BootInv

\* A UGen finds a global state, and the rest if that says so.
LEMMA UGenHolds ==
  ASSUME BootInv, UGen
  PROVE  BootInv'
<1>1. /\ UNCHANGED <<julia, initialized, objs, held, queue, sent, running, code, thread_run, quit>>
      /\ running # "boot" /\ objs["global_state"] = "alive" /\ ~quit
      /\ faults' = faults \cup Missing({"global_state"} \cup
                       IF initialized THEN {"gc_barrier", "compiler_barrier", "array"} ELSE {})
  BY DEF UGen
<1>2. initialized => \A o \in Objects : objs[o] = "alive"
  BY <1>1, AllThere DEF BootInv, Roles
<1>3. faults' = faults
  <2>1. {"global_state", "gc_barrier", "compiler_barrier", "array"} \subseteq Objects
    BY DEF Objects, Barriers
  <2> QED
    BY <1>1, <1>2, <2>1 DEF Missing
<1>4. /\ \A t : Pending(t)' = Pending(t)
      /\ Alive' = Alive /\ CollectorLives' = CollectorLives
      /\ Succeeds' = Succeeds /\ Spared' = Spared
  BY <1>1, SameCode
<1>5. Typed' /\ Turns' /\ Roles' /\ StatePublished' /\ OnlyBoots'
  BY <1>1, <1>3, <1>4 DEF BootInv, Typed, TypeOK, Turns, Roles, StatePublished, OnlyBoots
<1>6. Complete' /\ Cared' /\ Equipped' /\ (faults \subseteq Spared)'
  BY <1>1, <1>3, <1>4 DEF BootInv, Complete, Cared, Equipped
<1> QED
  BY <1>5, <1>6 DEF BootInv

\* Quit begins with everything there, or after a boot that has failed.
LEMMA JuliaQuitHolds ==
  ASSUME BootInv, JuliaQuit
  PROVE  BootInv'
<1>1. /\ UNCHANGED <<julia, initialized, objs, held, queue, sent, running, thread_run, faults>>
      /\ ~quit /\ quit' = TRUE /\ queue = <<>> /\ running = "none"
      /\ code' = [code EXCEPT !["main"] = Quit]
  BY DEF JuliaQuit
<1>2. /\ code \in [Threads -> Seq(LegalOps)] /\ code \in [Threads -> Seq(Operations)]
      /\ Threads = {"nrt", "collector", "main"}
  BY DEF BootInv, Typed, TypeOK, Threads
<1>3. /\ code'["main"] = Quit
      /\ code'["nrt"] = code["nrt"] /\ code'["collector"] = code["collector"]
      /\ code["nrt"] = <<>> /\ code["main"] = <<>>
  BY <1>1, <1>2 DEF BootInv, Turns
<1>4. /\ Pending("nrt") = {} /\ Pending("main") = {}
      /\ Pending("nrt")' = {} /\ Pending("collector")' = Pending("collector")
  BY <1>3 DEF Pending
<1>5. /\ Succeeds = initialized /\ Succeeds' = Succeeds /\ Spared' = Spared
      /\ Alive' = Alive /\ CollectorLives' = CollectorLives
  <2>1. Succeeds = initialized /\ Succeeds' = initialized
    BY <1>1, <1>4 DEF Succeeds, BootInv, Typed, TypeOK
  <2>2. Hopeless' = Hopeless
    BY <1>1, <2>1 DEF Hopeless
  <2> QED
    BY <1>1, <2>1, <2>2 DEF Spared, Alive, CollectorLives
<1>6. /\ julia # "off" => "global_state" \in Alive
      /\ julia # "off" /\ initialized => Objects \subseteq Alive
      /\ julia # "off" /\ ~initialized => "pool" \in Spared
  <2>1. "global_state" \in Objects
    BY DEF Objects
  <2>2. julia # "off" => "global_state" \in Alive
    BY <1>1, <1>4, <2>1 DEF BootInv, StatePublished, Alive
  <2>3. initialized => Objects \subseteq Alive
    BY <1>1, <1>4, AllThere DEF Alive
  <2>4. julia # "off" /\ ~initialized => "pool" \in Spared
    BY <1>5 DEF Spared, Hopeless
  <2> QED
    BY <2>2, <2>3, <2>4
<1>7. PICK s : s = Quit
  OBVIOUS
<1>8. /\ s \in Seq(LegalOps)
      /\ Provided(s, Alive, Spared) /\ Balanced(s)
      /\ \A k \in DOMAIN s : s[k].op \notin {"new", "publish", "publish_failed", "start", "run"}
      /\ julia # "off" /\ initialized => Precedes("join", s, LoudOps)
      /\ (\E k \in DOMAIN s : s[k].op = "join") => julia # "off" /\ initialized
  BY <1>6, <1>7, QuitIsRight
<1>9. code'["main"] = s
  BY <1>3, <1>7
<1>10. Typed'
  <2>1. s \in Seq(Operations)
    BY <1>8 DEF LegalOps
  <2>2. code' \in [Threads -> Seq(LegalOps)] /\ code' \in [Threads -> Seq(Operations)]
    BY <1>1, <1>2, <1>7, <1>8, <2>1
  <2> QED
    BY <1>1, <2>2 DEF BootInv, Typed, TypeOK
<1>11. Turns'
  BY <1>1, <1>3, <1>5 DEF BootInv, Turns
<1>12. Roles'
  <2>1. \A e \in Pending("main")' : e.op \notin {"new", "publish", "publish_failed", "start", "run"}
    BY <1>8, <1>9 DEF Pending
  <2>2. CollectorLives => julia # "off" /\ initialized
    BY DEF BootInv, Cared
  <2> QED
    BY <1>4, <1>5, <1>8, <1>9, <2>1, <2>2 DEF BootInv, Roles
<1>13. OnlyBoots' /\ StatePublished'
  BY <1>1, <1>3, <1>4 DEF BootInv, OnlyBoots, StatePublished
<1>14. Complete'
  BY <1>1, <1>4 DEF Complete
<1>15. Cared'
  <2>1. CollectorLives /\ ~quit' => thread_run
    BY <1>1
  <2>2. (\E e \in Pending("main")' : e.op = "join") => objs["gc_thread"] \in {"alive", "ended"}
    <3>1. (\E e \in Pending("main")' : e.op = "join") => Objects \subseteq Alive
      BY <1>6, <1>8, <1>9 DEF Pending
    <3> QED
      BY <3>1 DEF Alive, Objects
  <2> QED
    BY <1>1, <1>3, <1>5, <2>1, <2>2 DEF BootInv, Cared
<1>16. Equipped'
  <2>1. \A t \in Threads : Provided(code'[t], Alive, Spared) /\ Balanced(code'[t])
    BY <1>2, <1>3, <1>8, <1>9 DEF BootInv, Equipped
  <2>2. ASSUME NEW b \in held
        PROVE  \E e \in Pending("collector") : e.op = "unlock" /\ e.on = b
    BY <1>2, <1>4 DEF BootInv, Equipped
  <2>3. "collector" \in Threads
    BY <1>2
  <2> QED
    BY <1>1, <1>4, <1>5, <2>1, <2>2, <2>3 DEF Equipped
<1> QED
  BY <1>1, <1>5, <1>10, <1>11, <1>12, <1>13, <1>14, <1>15, <1>16 DEF BootInv

\* The collector is told to end by quit alone, and finds everything otherwise.
LEMMA CollectorTurnHolds ==
  ASSUME BootInv, CollectorTurn
  PROVE  BootInv'
<1>1. /\ CollectorLives /\ code["collector"] = <<>>
      /\ UNCHANGED <<julia, initialized, queue, sent, running, thread_run, quit>>
  BY DEF CollectorTurn, CollectorLives
<1>2. /\ code \in [Threads -> Seq(LegalOps)] /\ code \in [Threads -> Seq(Operations)]
      /\ Threads = {"nrt", "collector", "main"}
      /\ objs \in [Objects -> {"none", "alive", "deleted", "ended"}] /\ "gc_thread" \in Objects
  BY DEF BootInv, Typed, TypeOK, Threads, Objects
<1>3. CASE ~thread_run
  <2>1. /\ objs' = [objs EXCEPT !["gc_thread"] = "ended"]
        /\ UNCHANGED <<held, code, faults>>
    BY <1>3 DEF CollectorTurn
  <2>2. /\ objs'["gc_thread"] = "ended"
        /\ \A o \in Objects \ {"gc_thread"} : objs'[o] = objs[o]
    BY <1>2, <2>1
  <2>3. quit /\ code["nrt"] = <<>>
    BY <1>1, <1>3 DEF BootInv, Cared, Turns
  <2>4. /\ \A t : Pending(t)' = Pending(t)
        /\ Succeeds' = Succeeds /\ Spared' = Spared
    BY <1>1, <2>1 DEF Pending, Succeeds, Spared, Hopeless
  <2>5. Alive \ {"gc_thread"} \subseteq Alive' /\ ~CollectorLives'
    BY <2>2 DEF Alive, CollectorLives
  <2>6. Typed'
    BY <1>1, <1>2, <2>1, <2>2 DEF BootInv, Typed, TypeOK
  <2>7. Turns' /\ Roles' /\ OnlyBoots' /\ StatePublished'
    BY <1>1, <2>1, <2>3, <2>4, <2>5 DEF BootInv, Turns, Roles, OnlyBoots, StatePublished
  <2>8. Complete' /\ Cared'
    BY <1>1, <2>1, <2>2, <2>3, <2>4, <2>5 DEF BootInv, Complete, Cared
  <2>9. \A t \in Threads : Provided(code[t], Alive', Spared)
    BY <1>2, <2>5, ProvidedStays DEF BootInv, Equipped
  <2>10. Equipped'
    BY <2>1, <2>4, <2>9 DEF BootInv, Equipped
  <2> QED
    BY <2>1, <2>4, <2>6, <2>7, <2>8, <2>10 DEF BootInv
<1>4. CASE thread_run
  <2>1. PICK body \in {<<>>, Collect} :
          code' = [code EXCEPT !["collector"] =
                     Lock("gc_barrier") \o body \o Unlock("gc_barrier")
                        \o Unlock("compiler_gc_barrier")]
    BY <1>4 DEF CollectorTurn
  <2>2. /\ held' = held \cup {"compiler_gc_barrier"}
        /\ faults' = faults \cup Missing({"compiler_gc_barrier"})
        /\ objs' = objs
    BY <1>4 DEF CollectorTurn
  <2>3. Alive = Objects
    BY <1>1 DEF BootInv, Cared, Alive
  <2>4. faults' = faults
    <3>1. objs["compiler_gc_barrier"] = "alive"
      BY <1>1 DEF BootInv, Cared, Objects, Barriers
    <3> QED
      BY <2>2, <3>1 DEF Missing
  <2>5. PICK s : s = Lock("gc_barrier") \o body \o Unlock("gc_barrier")
                        \o Unlock("compiler_gc_barrier")
    OBVIOUS
  <2>6. /\ s \in Seq(LegalOps)
        /\ Provided(s, Alive, Spared) /\ Balanced(s)
        /\ \A k \in DOMAIN s : s[k].op \in Passing
        /\ \E k \in DOMAIN s : s[k].op = "unlock" /\ s[k].on = "compiler_gc_barrier"
    BY <2>3, <2>5, TurnPasses
  <2>7. code' = [code EXCEPT !["collector"] = s]
    BY <2>1, <2>5
  <2>8. code'["collector"] = s /\ code'["nrt"] = code["nrt"] /\ code'["main"] = code["main"]
    BY <1>2, <2>7
  <2>9. /\ Pending("nrt")' = Pending("nrt") /\ Pending("main")' = Pending("main")
        /\ Pending("collector") = {}
        /\ Succeeds' = Succeeds /\ Spared' = Spared
        /\ Alive' = Alive /\ CollectorLives' = CollectorLives
    BY <1>1, <2>2, <2>8 DEF Pending, Succeeds, Spared, Hopeless, Alive, CollectorLives
  <2>10. Typed'
    <3>1. s \in Seq(Operations)
      BY <2>6 DEF LegalOps
    <3>2. code' \in [Threads -> Seq(LegalOps)] /\ code' \in [Threads -> Seq(Operations)]
      BY <1>2, <2>6, <2>7, <3>1
    <3>3. held' \subseteq Barriers
      BY <2>2 DEF BootInv, Typed, TypeOK, Barriers
    <3> QED
      BY <1>1, <2>2, <2>4, <3>2, <3>3 DEF BootInv, Typed, TypeOK
  <2>11. Turns' /\ OnlyBoots' /\ StatePublished'
    BY <1>1, <2>2, <2>8, <2>9 DEF BootInv, Turns, OnlyBoots, StatePublished
  <2>12. Roles'
    <3>1. \A e \in Pending("collector")' : e.op \in Passing
      BY <2>6, <2>8 DEF Pending
    <3> QED
      BY <1>1, <2>8, <2>9, <3>1 DEF BootInv, Roles
  <2>13. Complete' /\ Cared'
    BY <1>1, <2>2, <2>8, <2>9 DEF BootInv, Complete, Cared
  <2>14. Equipped'
    <3>1. \A t \in Threads : Provided(code'[t], Alive, Spared) /\ Balanced(code'[t])
      BY <1>2, <2>6, <2>8 DEF BootInv, Equipped
    <3>2. \E e \in Pending("collector")' : e.op = "unlock" /\ e.on = "compiler_gc_barrier"
      BY <2>6, <2>8 DEF Pending
    <3>3. \A b \in held : \E t \in Threads : \E e \in Pending(t)' : e.op = "unlock" /\ e.on = b
      BY <1>2, <2>9 DEF BootInv, Equipped
    <3>4. "collector" \in Threads
      BY <1>2
    <3> QED
      BY <2>2, <2>9, <3>1, <3>2, <3>3, <3>4 DEF Equipped
  <2> QED
    BY <2>4, <2>9, <2>10, <2>11, <2>12, <2>13, <2>14 DEF BootInv
<1> QED
  BY <1>3, <1>4

\* The NRT thread begins with a command: what the code of the command has to be
\* like.
LEMMA BeginHolds ==
  ASSUME BootInv, running = "none", ~quit, NEW cmd \in Commands, NEW s \in Seq(LegalOps),
         queue # <<>>, queue' = Tail(queue),
         running' = cmd,
         code' = [code EXCEPT !["nrt"] = s],
         UNCHANGED <<julia, initialized, objs, held, sent, thread_run, quit, faults>>,
         \A spared : Spared \subseteq spared => Provided(s, Alive, spared),
         Balanced(s),
         \A k \in DOMAIN s :
            /\ s[k].op \notin {"exit", "stop", "join"} /\ (s[k].op = "delete" => s[k].on = "pool")
            /\ cmd # "boot" \/ julia # "off" => s[k].op \in Passing,
         cmd # "boot" => julia # "off",
         Precedes("start", s, Publishing),
         Precedes("run", s, ThreadStarting), ThreadLast(s),
         julia = "off" /\ s # <<>> => \E k \in DOMAIN s : Brings(s[k], "global_state"),
         julia = "off" =>
            \/ \A k \in DOMAIN s : s[k].op # "publish" /\ ~Brings(s[k], "gc_thread")
            \/ /\ \A k \in DOMAIN s : s[k].op \notin {"delete", "publish_failed"}
               /\ \A o \in Objects : \E k \in DOMAIN s : Brings(s[k], o)
  PROVE  BootInv'
<1>1. /\ code \in [Threads -> Seq(LegalOps)] /\ code \in [Threads -> Seq(Operations)]
      /\ Threads = {"nrt", "collector", "main"}
      /\ queue \in Seq(Commands) /\ initialized \in BOOLEAN
  BY DEF BootInv, Typed, TypeOK, Threads
<1>2. /\ code'["nrt"] = s
      /\ code'["collector"] = code["collector"] /\ code'["main"] = code["main"]
      /\ code["nrt"] = <<>>
  BY <1>1 DEF BootInv, Turns
<1>3. /\ Pending("nrt") = {} /\ Pending("nrt")' = {s[k] : k \in DOMAIN s}
      /\ Pending("collector")' = Pending("collector") /\ Pending("main")' = Pending("main")
      /\ Alive' = Alive /\ CollectorLives' = CollectorLives
  BY <1>2 DEF Pending, Alive, CollectorLives
<1>4. Succeeds = initialized
  BY <1>1, <1>3 DEF Succeeds
<1>5. julia # "off" => Succeeds' = Succeeds
  <2> SUFFICES ASSUME julia # "off"
               PROVE  Succeeds' = initialized
    BY <1>4
  <2>1. ~\E e \in Pending("nrt")' : e.op = "publish"
    BY <1>3 DEF Passing
  <2> QED
    BY <1>1, <2>1 DEF Succeeds
<1>6. Spared' = Spared
  BY <1>5 DEF Spared, Hopeless
<1>7. Typed'
  <2>1. s \in Seq(Operations)
    BY DEF LegalOps
  <2>2. code' \in [Threads -> Seq(LegalOps)] /\ code' \in [Threads -> Seq(Operations)]
    BY <1>1, <2>1
  <2>3. queue' \in Seq(Commands)
    BY <1>1
  <2> QED
    BY <2>2, <2>3 DEF BootInv, Typed, TypeOK
<1>8. Turns'
  BY <1>2, <1>3 DEF BootInv, Turns, Commands
<1>9. Roles'
  <2>1. CollectorLives => julia # "off"
    BY DEF BootInv, Cared
  <2>2. \A e \in Pending("nrt")' :
           /\ e.op \notin {"exit", "stop", "join"} /\ (e.op = "delete" => e.on = "pool")
           /\ cmd # "boot" \/ julia # "off" => e.op \in Passing
    BY <1>3
  <2> QED
    BY <1>2, <1>3, <2>1, <2>2 DEF BootInv, Roles
<1>10. OnlyBoots'
  <2>1. julia = "off" => \A k \in DOMAIN queue' : queue'[k] = "boot"
    BY <1>1, TailOf DEF BootInv, OnlyBoots
  <2> QED
    BY <1>2, <2>1 DEF BootInv, OnlyBoots
<1>11. StatePublished'
  <2>1. CASE julia # "off"
    BY <1>3, <2>1 DEF BootInv, StatePublished
  <2>2. CASE julia = "off"
    <3>1. CASE s = <<>>
      BY <1>3, <2>2, <3>1 DEF StatePublished
    <3>2. CASE s # <<>>
      BY <1>3, <2>2, <3>2 DEF StatePublished
    <3> QED
      BY <3>1, <3>2
  <2> QED
    BY <2>1, <2>2
<1>12. Complete'
  <2>1. CASE julia # "off"
    <3>1. \A e \in Pending("nrt")' : e.op \in Passing
      BY <1>3, <2>1
    <3>2. Succeeds' => \A o \in Objects : objs[o] = "alive"
      BY <1>3, <1>4, <1>5, <2>1, AllThere
    <3> QED
      BY <3>1, <3>2 DEF Complete, Passing, Brings
  <2>2. CASE julia = "off"
    <3>1. ~initialized
      BY <2>2 DEF BootInv, OnlyBoots
    <3>2. CASE \A k \in DOMAIN s : s[k].op # "publish" /\ ~Brings(s[k], "gc_thread")
      BY <1>3, <3>1, <3>2 DEF Complete, Succeeds
    <3>3. CASE /\ \A k \in DOMAIN s : s[k].op \notin {"delete", "publish_failed"}
               /\ \A o \in Objects : \E k \in DOMAIN s : Brings(s[k], o)
      <4>1. /\ \A e \in Pending("nrt")' : e.op \notin {"delete", "publish_failed"}
            /\ \A o \in Objects : \E e \in Pending("nrt")' : Brings(e, o)
        BY <1>3, <3>3
      <4>2. Succeeds'
        <5>1. PICK e \in Pending("nrt")' : Brings(e, "global_state")
          BY <4>1 DEF Objects
        <5>2. e \in LegalOps
          <6>1. DOMAIN s = 1 .. Len(s)
            OBVIOUS
          <6> QED
            BY <1>3, <5>1, <6>1
        <5>3. e.op = "publish"
          BY <4>1, <5>1, <5>2 DEF Brings, LegalOps
        <5> QED
          BY <5>1, <5>3 DEF Succeeds
      <4> QED
        BY <4>1, <4>2 DEF Complete
    <3> QED
      BY <2>2, <3>2, <3>3
  <2> QED
    BY <2>1, <2>2
<1>13. Cared'
  BY <1>2, <1>3 DEF BootInv, Cared
<1>14. Equipped'
  <2>1. \A t \in Threads : Provided(code'[t], Alive, Spared) /\ Balanced(code'[t])
    BY <1>1, <1>2 DEF BootInv, Equipped
  <2>2. \A b \in held : \E t \in Threads : \E e \in Pending(t)' : e.op = "unlock" /\ e.on = b
    BY <1>1, <1>3 DEF BootInv, Equipped
  <2> QED
    BY <1>3, <1>6, <2>1, <2>2 DEF Equipped
<1> QED
  BY <1>6, <1>7, <1>8, <1>9, <1>10, <1>11, <1>12, <1>13, <1>14 DEF BootInv

\* So does a boot, and each of the other commands.
LEMMA StartCommandHolds ==
  ASSUME BootInv, NEW outcome \in BootOutcomes, StartCommand(outcome)
  PROVE  BootInv'
<1> DEFINE cmd == Head(queue)
           s == IF cmd # "boot" THEN Command(cmd) ELSE IF julia = "off" THEN Boot(outcome) ELSE <<>>
<1>1. /\ running = "none" /\ queue # <<>> /\ ~quit
      /\ queue' = Tail(queue) /\ running' = cmd
      /\ code' = [code EXCEPT !["nrt"] = s]
      /\ UNCHANGED <<julia, initialized, objs, held, sent, thread_run, quit, faults>>
  BY DEF StartCommand, BootInv, Turns
<1>2. cmd \in Commands /\ (cmd # "boot" => julia # "off")
  <2>1. queue \in Seq(Commands)
    BY DEF BootInv, Typed, TypeOK
  <2>2. cmd = queue[1] /\ 1 \in DOMAIN queue /\ queue[1] \in Commands
    BY <1>1, <2>1, TailOf
  <2> QED
    BY <2>2 DEF BootInv, OnlyBoots
<1> HIDE DEF cmd
<1>3. Pending("nrt") = {} /\ Succeeds = initialized
  <2>1. Pending("nrt") = {} /\ initialized \in BOOLEAN
    BY <1>1 DEF Pending, BootInv, Turns, Typed, TypeOK
  <2> QED
    BY <2>1 DEF Succeeds
<1>4. CASE cmd # "boot"
  <2>1. s = Command(cmd)
    BY <1>4
  <2>2. "global_state" \in Alive
    BY <1>1, <1>2, <1>3, <1>4 DEF BootInv, StatePublished, Alive, Objects
  <2>3. initialized => Objects \ {"gc_thread"} \subseteq Alive
    BY <1>1, <1>3, AllThere DEF Alive
  <2>4. ~initialized => "pool" \in Spared
    BY <1>2, <1>3, <1>4 DEF Spared, Hopeless
  <2>5. /\ s \in Seq(LegalOps) /\ Balanced(s)
        /\ \A spared : Spared \subseteq spared => Provided(s, Alive, spared)
        /\ \A k \in DOMAIN s : s[k].op \in Passing
    BY <1>2, <1>4, <2>1, <2>2, <2>3, <2>4, CommandPasses
  <2>6. /\ Precedes("start", s, Publishing)
        /\ Precedes("run", s, ThreadStarting) /\ ThreadLast(s)
    BY <2>5, PassingIsQuiet
  <2>7. \A k \in DOMAIN s : s[k].op \notin {"exit", "stop", "join", "delete"}
    BY <2>5 DEF Passing
  <2> HIDE DEF s
  <2> QED
    BY <1>1, <1>2, <1>4, <2>5, <2>6, <2>7, BeginHolds
<1>5. CASE cmd = "boot" /\ julia # "off"
  <2>1. s = <<>>
    BY <1>5
  <2>2. /\ <<>> \in Seq(LegalOps) /\ DOMAIN <<>> = {}
    OBVIOUS
  <2>3. /\ \A spared : Provided(s, Alive, spared)
        /\ Balanced(s) /\ DOMAIN s = {} /\ s \in Seq(LegalOps)
    BY <2>1, <2>2, NothingLeft
  <2> HIDE DEF s
  <2>4. /\ Precedes("start", s, Publishing)
        /\ Precedes("run", s, ThreadStarting) /\ ThreadLast(s)
    BY <2>3 DEF Precedes, ThreadLast
  <2> QED
    BY <1>1, <1>2, <1>5, <2>3, <2>4, BeginHolds
<1>6. CASE cmd = "boot" /\ julia = "off" /\ outcome = "booted"
  <2>1. s = Boot("booted")
    BY <1>6
  <2>2. /\ s \in Seq(LegalOps)
        /\ \A spared : Provided(s, Alive, spared)
        /\ Balanced(s)
        /\ Precedes("run", s, ThreadStarting) /\ ThreadLast(s)
        /\ Precedes("start", s, Publishing)
        /\ \A k \in DOMAIN s : s[k].op \notin {"exit", "stop", "join", "delete", "publish_failed"}
        /\ \A o \in Objects : \E k \in DOMAIN s : Brings(s[k], o)
    BY <2>1, BootSucceeds
  <2>3. \E k \in DOMAIN s : Brings(s[k], "global_state")
    BY <2>2 DEF Objects
  <2> HIDE DEF s
  <2> QED
    BY <1>1, <1>2, <1>6, <2>2, <2>3, BeginHolds
<1>7. CASE cmd = "boot" /\ julia = "off" /\ outcome # "booted"
  <2>1. outcome \in {"no_julia", "stage_fails"} /\ s = Boot(outcome)
    BY <1>7, BootOutcomesAssumption DEF Outcomes
  <2>2. /\ s \in Seq(LegalOps)
        /\ \A spared : Provided(s, Alive, spared)
        /\ Balanced(s)
        /\ Precedes("run", s, ThreadStarting) /\ ThreadLast(s)
        /\ Precedes("start", s, Publishing)
        /\ \A k \in DOMAIN s :
               /\ s[k].op \in {"new", "start", "delete", "publish_failed"}
               /\ s[k].op = "delete" => s[k].on = "pool"
               /\ ~Brings(s[k], "gc_thread")
        /\ \E k \in DOMAIN s : Brings(s[k], "global_state")
    BY <2>1, BootFails
  <2>3. \A k \in DOMAIN s : s[k].op \notin {"exit", "stop", "join", "publish"}
    BY <2>2
  <2> HIDE DEF s
  <2> QED
    BY <1>1, <1>2, <1>7, <2>2, <2>3, BeginHolds
<1> QED
  BY <1>4, <1>5, <1>6, <1>7

-----------------------------------------------------------------------------
(* Steps of a thread *)

\* What a step takes from the code, and leaves.
LEMMA StepTakes ==
  ASSUME BootInv, NEW t \in Threads, Step(t), NEW e, e = Op(t)
  PROVE  /\ code[t] \in Seq(LegalOps) /\ code[t] # <<>> /\ e = code[t][1] /\ e \in LegalOps
         /\ code'[t] = Tail(code[t]) /\ \A u \in Threads \ {t} : code'[u] = code[u]
         /\ Pending(t) = {e} \cup Pending(t)'
         /\ \A u \in Threads \ {t} : Pending(u)' = Pending(u)
         /\ \A u \in Threads : Pending(u)' \subseteq Pending(u)
         /\ code' \in [Threads -> Seq(LegalOps)]
         /\ UNCHANGED <<queue, sent, running, quit>>
<1>1. /\ code \in [Threads -> Seq(LegalOps)] /\ code[t] # <<>>
      /\ code' = [code EXCEPT ![t] = Tail(@)]
      /\ UNCHANGED <<queue, sent, running, quit>>
  BY DEF BootInv, Typed, Step, Continue
<1>2. code[t] \in Seq(LegalOps)
  BY <1>1
<1>3. e = code[t][1] /\ e \in LegalOps /\ Tail(code[t]) \in Seq(LegalOps)
  BY <1>1, <1>2, TailOf DEF Op
<1>4. /\ code'[t] = Tail(code[t]) /\ \A u \in Threads \ {t} : code'[u] = code[u]
      /\ code' \in [Threads -> Seq(LegalOps)]
  BY <1>1, <1>3
<1>5. Pending(t) = {e} \cup Pending(t)'
  <2>1. PICK s \in Seq(LegalOps) : s = code[t]
    BY <1>2
  <2>2. {s[k] : k \in DOMAIN s} = {s[1]} \cup {Tail(s)[k] : k \in DOMAIN Tail(s)}
    BY <1>1, <2>1, TailElements
  <2>3. Pending(t) = {s[k] : k \in DOMAIN s}
    BY <2>1 DEF Pending
  <2>4. Pending(t)' = {Tail(s)[k] : k \in DOMAIN Tail(s)}
    BY <1>4, <2>1 DEF Pending
  <2> QED
    BY <1>3, <2>1, <2>2, <2>3, <2>4
<1>6. \A u \in Threads \ {t} : Pending(u)' = Pending(u)
  BY <1>4 DEF Pending
<1> QED
  BY <1>1, <1>2, <1>3, <1>4, <1>5, <1>6

\* What the operation changes.
LEMMA StepChanges ==
  ASSUME BootInv, NEW t \in Threads, Step(t), NEW e, e = Op(t)
  PROVE  /\ julia' = IF e.op = "start" THEN "on" ELSE IF e.op = "exit" THEN "exited" ELSE julia
         /\ initialized' = IF e.op \in {"new", "delete", "publish", "publish_failed"}
                              /\ e.on = "global_state"
                           THEN e.op = "publish" ELSE initialized
         /\ objs' = IF e.op \in {"new", "publish", "publish_failed"}
                    THEN [objs EXCEPT ![e.on] = "alive"]
                    ELSE IF e.op = "delete" THEN [objs EXCEPT ![e.on] = "deleted"] ELSE objs
         /\ held' = IF e.op = "lock" THEN held \cup {e.on}
                    ELSE IF e.op = "unlock" THEN held \ {e.on} ELSE held
         /\ thread_run' = IF e.op = "run" THEN TRUE
                          ELSE IF e.op = "stop" THEN FALSE ELSE thread_run
         /\ e.op = "join" => objs["gc_thread"] # "alive"
         /\ faults' \subseteq faults
              \cup (IF Needs(e) THEN Missing({e.on}) ELSE {})
              \cup (IF e.op = "new" THEN {o \in {"gc_thread"} \cap {e.on} : objs[o] = "alive"}
                    ELSE {})
              \cup (IF e.op = "delete" THEN {e.on} \cap held ELSE {})
              \cup (IF e.op = "join" THEN {o \in {"gc_thread"} : objs[o] # "ended"} ELSE {})
<1>1. e \in LegalOps /\ e.on \in Objects /\ "gc_thread" \in Objects
  BY StepTakes DEF LegalOps, Operations, Objects
<1>2. CASE ComeAndGo(t)
  BY <1>1, <1>2 DEF ComeAndGo, Missing, LegalOps, Needs
<1>3. CASE UseIt(t)
  BY <1>1, <1>3 DEF UseIt, Needs
<1>4. CASE LockIt(t)
  BY <1>1, <1>4 DEF LockIt, Needs
<1>5. CASE UnlockIt(t)
  BY <1>1, <1>5 DEF UnlockIt, Needs
<1>6. CASE StartOrExitJulia(t)
  BY <1>1, <1>6 DEF StartOrExitJulia, Needs, LegalOps
<1>7. CASE SetRunFlag(t)
  BY <1>1, <1>7 DEF SetRunFlag, Needs
<1>8. CASE JoinThread(t)
  BY <1>1, <1>8 DEF JoinThread, Needs
<1> QED
  BY <1>2, <1>3, <1>4, <1>5, <1>6, <1>7, <1>8 DEF Step

\* Who takes the step, and who does not while it is taken.
LEMMA StepBelongs ==
  ASSUME BootInv, NEW t \in Threads, Step(t), NEW e, e = Op(t)
  PROVE  /\ t = "collector" => e.op \in Passing /\ CollectorLives
         /\ t = "nrt" =>
               /\ ~quit /\ code["main"] = <<>>
               /\ e.op \notin {"exit", "stop", "join"} /\ (e.op = "delete" => e.on = "pool")
         /\ t = "main" =>
               /\ quit /\ code["nrt"] = <<>>
               /\ e.op \notin {"new", "publish", "publish_failed", "start", "run"}
         /\ Loud(e) => ~CollectorLives /\ \A u \in Threads \ {t} : code[u] = <<>>
<1>1. /\ code[t] # <<>> /\ e \in Pending(t) /\ e \in LegalOps /\ e = code[t][1]
      /\ code[t] \in Seq(LegalOps) /\ Threads = {"nrt", "collector", "main"}
  BY StepTakes DEF Threads
<1>2. t = "collector" => e.op \in Passing /\ CollectorLives
  BY <1>1 DEF BootInv, Roles, Turns
<1>3. t = "nrt" =>
        /\ ~quit /\ code["main"] = <<>>
        /\ e.op \notin {"exit", "stop", "join"} /\ (e.op = "delete" => e.on = "pool")
        /\ CollectorLives => e.op \in Passing
  BY <1>1 DEF BootInv, Roles, Turns
<1>4. t = "main" =>
        /\ quit /\ code["nrt"] = <<>>
        /\ e.op \notin {"new", "publish", "publish_failed", "start", "run"}
  BY <1>1 DEF BootInv, Roles, Turns
<1>5. ASSUME Loud(e)
      PROVE  ~CollectorLives /\ \A u \in Threads \ {t} : code[u] = <<>>
  <2>1. e.op \notin Passing
    BY <1>5 DEF Loud, Passing
  <2>2. ASSUME t = "main"
        PROVE  ~CollectorLives
    <3>1. 1 \in DOMAIN code[t] /\ e \in LoudOps
      BY <1>1, <1>5, TailOf DEF LoudOps
    <3>2. ~Precedes("join", code["main"], LoudOps)
      BY <1>1, <2>2, <3>1 DEF Precedes
    <3> QED
      BY <3>2 DEF BootInv, Roles
  <2>3. ~CollectorLives /\ t # "collector"
    BY <1>1, <1>2, <1>3, <2>1, <2>2
  <2>4. code["collector"] = <<>>
    BY <2>3 DEF BootInv, Turns
  <2> QED
    BY <1>1, <1>3, <1>4, <2>3, <2>4
<1> QED
  BY <1>2, <1>3, <1>4, <1>5

\* A boot that has failed stays so, and one that succeeds does, until quit.
LEMMA StepDecides ==
  ASSUME BootInv, NEW t \in Threads, Step(t), NEW e, e = Op(t)
  PROVE  /\ Succeeds' => Succeeds
         /\ Succeeds /\ ~quit => Succeeds'
         /\ julia # "off" => julia' # "off"
         /\ Spared \subseteq Spared'
<1>1. /\ e \in LegalOps /\ Pending(t) = {e} \cup Pending(t)'
      /\ \A u \in Threads : Pending(u)' \subseteq Pending(u)
      /\ \A u \in Threads \ {t} : Pending(u)' = Pending(u)
      /\ Threads = {"nrt", "collector", "main"}
  BY StepTakes DEF Threads
<1>2. /\ julia' = IF e.op = "start" THEN "on" ELSE IF e.op = "exit" THEN "exited" ELSE julia
      /\ initialized' = IF e.op \in {"new", "delete", "publish", "publish_failed"}
                           /\ e.on = "global_state"
                        THEN e.op = "publish" ELSE initialized
  BY StepChanges
<1>3. e.op = "publish" => t = "nrt"
  BY <1>1, StepBelongs DEF Passing
<1>4. ASSUME Succeeds'
      PROVE  Succeeds
  <2>1. CASE initialized'
    <3>1. initialized \/ e.op = "publish"
      BY <1>2, <2>1
    <3> QED
      BY <1>1, <1>3, <3>1 DEF Succeeds
  <2>2. CASE \E d \in Pending("nrt")' : d.op = "publish"
    BY <1>1, <2>2 DEF Succeeds
  <2> QED
    BY <1>4, <2>1, <2>2 DEF Succeeds
<1>5. ASSUME Succeeds, ~quit
      PROVE  Succeeds'
  <2>1. \A d \in Pending("nrt") : d.op \notin {"delete", "publish_failed"}
    BY <1>5 DEF BootInv, Complete
  <2>2. t # "main"
    BY <1>5, StepBelongs
  <2>3. e.op = "publish" => initialized'
    BY <1>1, <1>2 DEF LegalOps
  <2>4. initialized => initialized'
    <3>1. e.op \notin {"delete", "publish_failed"}
      BY <1>1, <2>1, <2>2, StepBelongs DEF Passing
    <3>2. e.op = "new" => e.on # "global_state"
      BY <1>1 DEF LegalOps
    <3> QED
      BY <1>2, <3>1, <3>2
  <2>5. CASE \E d \in Pending("nrt") : d.op = "publish"
    BY <1>1, <2>3, <2>5 DEF Succeeds
  <2> QED
    BY <1>5, <2>4, <2>5 DEF Succeeds
<1>6. julia # "off" => julia' # "off"
  BY <1>2
<1> QED
  BY <1>4, <1>5, <1>6 DEF Spared, Hopeless

\* What is there after the step.
LEMMA StepLeaves ==
  ASSUME BootInv, NEW t \in Threads, Step(t), NEW e, e = Op(t)
  PROVE  /\ Alive' = After(Alive, e)
         /\ ~CollectorLives' => ~CollectorLives
         /\ \A o \in Objects : Brings(e, o) => objs'[o] = "alive"
         /\ \A o \in Objects : ~Brings(e, o) /\ ~Deletes(e, o) => objs'[o] = objs[o]
         /\ ~Loud(e) => UNCHANGED <<julia, initialized, objs>>
<1>1. /\ e \in LegalOps /\ e.on \in Objects /\ "gc_thread" \in Objects
      /\ objs \in [Objects -> {"none", "alive", "deleted", "ended"}]
  BY StepTakes DEF LegalOps, Operations, Objects, BootInv, Typed, TypeOK
<1>2. objs' = IF e.op \in {"new", "publish", "publish_failed"}
              THEN [objs EXCEPT ![e.on] = "alive"]
              ELSE IF e.op = "delete" THEN [objs EXCEPT ![e.on] = "deleted"] ELSE objs
  BY StepChanges
<1>3. /\ \A o \in Objects : Brings(e, o) => objs'[o] = "alive"
      /\ \A o \in Objects : Deletes(e, o) => objs'[o] = "deleted"
      /\ \A o \in Objects : ~Brings(e, o) /\ ~Deletes(e, o) => objs'[o] = objs[o]
  BY <1>1, <1>2 DEF Brings, Deletes
<1>4. e.op = "delete" => e.on # "gc_thread"
  BY <1>1 DEF LegalOps, Needs
<1>5. ~CollectorLives' => ~CollectorLives
  BY <1>1, <1>3, <1>4 DEF CollectorLives, Deletes
<1>6. Alive' = After(Alive, e)
  BY <1>1, <1>3 DEF Alive, After, Brings, Deletes
<1>7. ~Loud(e) => UNCHANGED <<julia, initialized, objs>>
  BY StepChanges DEF Loud
<1> QED
  BY <1>3, <1>5, <1>6, <1>7

\* The collector's thread is the last that comes, and finds all the rest.
LEMMA ThreadComes ==
  ASSUME BootInv, NEW t \in Threads, Step(t), CollectorLives', ~CollectorLives
  PROVE  /\ t = "nrt" /\ ~quit /\ Pending("nrt")' = {} /\ code["main"] = <<>>
         /\ initialized' /\ julia' = "on" /\ thread_run'
         /\ \A o \in Objects : objs'[o] = "alive"
<1> DEFINE e == Op(t)
<1>1. /\ code[t] \in Seq(LegalOps) /\ code[t] # <<>> /\ e = code[t][1] /\ e \in LegalOps
      /\ Pending(t) = {e} \cup Pending(t)' /\ code'[t] = Tail(code[t])
      /\ Threads = {"nrt", "collector", "main"} /\ "gc_thread" \in Objects
  BY StepTakes DEF Threads, Objects
<1>2. /\ \A o \in Objects : Brings(e, o) => objs'[o] = "alive"
      /\ \A o \in Objects : ~Brings(e, o) /\ ~Deletes(e, o) => objs'[o] = objs[o]
  BY StepLeaves
<1>3. /\ t = "collector" => CollectorLives
      /\ t = "main" => e.op \notin {"new", "publish", "publish_failed", "start", "run"}
      /\ t = "nrt" => ~quit /\ code["main"] = <<>>
  BY StepBelongs
<1>4. julia' = IF e.op = "start" THEN "on" ELSE IF e.op = "exit" THEN "exited" ELSE julia
  BY StepChanges
<1>5. initialized' = IF e.op \in {"new", "delete", "publish", "publish_failed"}
                        /\ e.on = "global_state"
                     THEN e.op = "publish" ELSE initialized
  BY StepChanges
<1>6. thread_run' = IF e.op = "run" THEN TRUE ELSE IF e.op = "stop" THEN FALSE ELSE thread_run
  BY StepChanges
<1> HIDE DEF e
<1>7. Brings(e, "gc_thread") /\ e.op = "new"
  <2>1. ~Deletes(e, "gc_thread")
    BY <1>1 DEF Deletes, LegalOps, Needs
  <2>2. Brings(e, "gc_thread")
    BY <1>1, <1>2, <2>1 DEF CollectorLives
  <2> QED
    BY <1>1, <2>2 DEF Brings, LegalOps
<1>8. t = "nrt" /\ ~quit /\ code["main"] = <<>>
  BY <1>1, <1>3, <1>7
<1>9. 1 \in DOMAIN code[t] /\ e \in ThreadStarting
  BY <1>1, <1>7, TailOf DEF ThreadStarting
<1>10. Len(code[t]) = 1
  BY <1>1, <1>8, <1>9 DEF BootInv, Cared, ThreadLast
<1>11. Pending("nrt")' = {}
  <2>1. PICK s \in Seq(LegalOps) : s = code[t]
    BY <1>1
  <2>2. Len(Tail(s)) = 1 - 1 /\ Tail(s) \in Seq(LegalOps)
    BY <1>1, <1>10, <2>1, TailOf
  <2>3. DOMAIN Tail(s) = {}
    BY <2>2
  <2> QED
    BY <1>1, <1>8, <2>1, <2>3 DEF Pending
<1>12. Pending("nrt") = {e}
  BY <1>1, <1>8, <1>11
<1>13. initialized /\ \A o \in Objects : objs[o] = "alive" \/ Brings(e, o)
  <2>1. Succeeds
    BY <1>7, <1>12 DEF BootInv, Complete
  <2>2. initialized
    BY <1>7, <1>12, <2>1 DEF Succeeds
  <2> QED
    BY <1>8, <1>12, <2>1, <2>2 DEF BootInv, Complete
<1>14. \A o \in Objects : objs'[o] = "alive"
  BY <1>2, <1>7, <1>13 DEF Deletes
<1>15. thread_run
  BY <1>1, <1>8, <1>9 DEF BootInv, Cared, Precedes
<1>16. julia = "on"
  BY <1>8, <1>13 DEF BootInv, OnlyBoots, Turns, Typed, TypeOK
<1>17. e.on # "global_state"
  BY <1>7 DEF Brings
<1> QED
  BY <1>4, <1>5, <1>6, <1>7, <1>8, <1>11, <1>13, <1>14, <1>15, <1>16, <1>17

\* Nobody misses what the operation is about, but for what is spared.
LEMMA StepMisusesNothing ==
  ASSUME BootInv, NEW t \in Threads, Step(t)
  PROVE  faults' \subseteq Spared'
<1> DEFINE e == Op(t)
<1>1. /\ code[t] \in Seq(LegalOps) /\ code[t] # <<>> /\ e = code[t][1] /\ e \in LegalOps
      /\ Threads = {"nrt", "collector", "main"} /\ e \in Pending(t)
  BY StepTakes DEF Threads
<1>2. /\ e.op = "join" => objs["gc_thread"] # "alive"
      /\ faults' \subseteq faults
            \cup (IF Needs(e) THEN Missing({e.on}) ELSE {})
            \cup (IF e.op = "new" THEN {o \in {"gc_thread"} \cap {e.on} : objs[o] = "alive"}
                  ELSE {})
            \cup (IF e.op = "delete" THEN {e.on} \cap held ELSE {})
            \cup (IF e.op = "join" THEN {o \in {"gc_thread"} : objs[o] # "ended"} ELSE {})
  BY StepChanges
<1>3. /\ Loud(e) => ~CollectorLives /\ \A u \in Threads \ {t} : code[u] = <<>>
      /\ e.op = "join" => t = "main"
  BY <1>1, StepBelongs DEF Passing
<1> HIDE DEF e
<1>4. faults \subseteq Spared /\ Spared \subseteq Spared'
  BY StepDecides DEF BootInv
<1>5. Needs(e) => Missing({e.on}) \subseteq Spared
  <2>1. 1 \in DOMAIN code[t] /\ 1 .. 1 - 1 = {}
    BY <1>1, TailOf
  <2>2. Provided(code[t], Alive, Spared)
    BY DEF BootInv, Equipped
  <2>3. Needs(e) => e.on \in Spared \/ e.on \in Alive
    BY <1>1, <2>1, <2>2 DEF Provided
  <2> QED
    BY <2>3 DEF Missing, Alive
<1>6. e.op = "new" => {o \in {"gc_thread"} \cap {e.on} : objs[o] = "alive"} = {}
  BY <1>3 DEF Loud, CollectorLives
<1>7. ASSUME e.op = "delete"
      PROVE  {e.on} \cap held = {}
  <2> SUFFICES ASSUME e.on \in held
               PROVE  FALSE
    OBVIOUS
  <2>1. e.on \in Barriers
    BY DEF BootInv, Typed, TypeOK
  <2>2. PICK u \in Threads : \E d \in Pending(u) : d.op = "unlock" /\ d.on = e.on
    BY DEF BootInv, Equipped
  <2>3. u = t
    BY <1>3, <1>7, <2>2 DEF Loud, Pending
  <2>4. PICK k \in DOMAIN code[t] : code[t][k].op = "unlock" /\ code[t][k].on = e.on
    BY <2>2, <2>3 DEF Pending
  <2>5. k # 1 /\ k \in 1 .. Len(code[t]) /\ Len(code[t]) \in Nat
    BY <1>1, <1>7, <2>4, TailOf
  <2>6. 1 \in 1 .. k - 1
    BY <2>5
  <2>7. Needs(code[t][k]) /\ e.on \notin Spared
    BY <2>1, <2>4 DEF Needs, Spared, Barriers
  <2>8. ~Deletes(code[t][1], e.on)
    BY <2>4, <2>6, <2>7 DEF BootInv, Equipped, Provided
  <2> QED
    BY <1>1, <1>7, <2>8 DEF Deletes
<1>8. e.op = "join" => {o \in {"gc_thread"} : objs[o] # "ended"} = {}
  BY <1>1, <1>2, <1>3 DEF BootInv, Cared
<1> QED
  BY <1>2, <1>4, <1>5, <1>6, <1>7, <1>8

\* The step changes variables within their types.
LEMMA StepTyped ==
  ASSUME BootInv, NEW t \in Threads, Step(t)
  PROVE  Typed'
<1> DEFINE e == Op(t)
<1>1. /\ e \in LegalOps /\ code' \in [Threads -> Seq(LegalOps)]
      /\ UNCHANGED <<queue, sent, running, quit>>
  BY StepTakes
<1>2. TypeOK /\ e.on \in Objects
  BY <1>1 DEF BootInv, Typed, LegalOps, Operations
<1> HIDE DEF e
<1>3. code' \in [Threads -> Seq(Operations)]
  <2>1. LegalOps \subseteq Operations
    BY DEF LegalOps
  <2>2. \A s \in Seq(LegalOps) : s \in Seq(Operations)
    BY <2>1
  <2> QED
    BY <1>1, <2>2
<1>4. julia' \in {"off", "on", "exited"} /\ initialized' \in BOOLEAN /\ thread_run' \in BOOLEAN
  <2>1. julia' = IF e.op = "start" THEN "on" ELSE IF e.op = "exit" THEN "exited" ELSE julia
    BY StepChanges DEF e
  <2>2. initialized' = IF e.op \in {"new", "delete", "publish", "publish_failed"}
                          /\ e.on = "global_state"
                       THEN e.op = "publish" ELSE initialized
    BY StepChanges DEF e
  <2>3. thread_run' = IF e.op = "run" THEN TRUE ELSE IF e.op = "stop" THEN FALSE ELSE thread_run
    BY StepChanges DEF e
  <2> QED
    BY <1>2, <2>1, <2>2, <2>3 DEF TypeOK
<1>5. held' \subseteq Barriers
  <2>1. held' = IF e.op = "lock" THEN held \cup {e.on}
                ELSE IF e.op = "unlock" THEN held \ {e.on} ELSE held
    BY StepChanges DEF e
  <2>2. e.op = "lock" => e.on \in Barriers
    BY <1>1 DEF LegalOps
  <2> QED
    BY <1>2, <2>1, <2>2 DEF TypeOK
<1>6. /\ objs' \in [Objects -> {"none", "alive", "deleted", "ended"}]
      /\ objs'["gc_thread"] # "deleted"
      /\ \A o \in Objects \ {"gc_thread"} : objs'[o] # "ended"
  <2>1. objs' = IF e.op \in {"new", "publish", "publish_failed"}
                THEN [objs EXCEPT ![e.on] = "alive"]
                ELSE IF e.op = "delete" THEN [objs EXCEPT ![e.on] = "deleted"] ELSE objs
    BY StepChanges DEF e
  <2>2. e.op = "delete" => e.on # "gc_thread"
    BY <1>1 DEF LegalOps, Needs
  <2> QED
    BY <1>2, <2>1, <2>2 DEF TypeOK
<1>7. faults' \subseteq Objects
  BY StepMisusesNothing DEF Spared, Objects
<1> QED
  BY <1>1, <1>2, <1>3, <1>4, <1>5, <1>6, <1>7 DEF Typed, TypeOK

\* The step is that of a thread whose turn it is.
LEMMA StepTurns ==
  ASSUME BootInv, NEW t \in Threads, Step(t)
  PROVE  Turns' /\ Roles'
<1> DEFINE e == Op(t)
<1>1. /\ code[t] \in Seq(LegalOps) /\ code[t] # <<>> /\ e = code[t][1]
      /\ code'[t] = Tail(code[t]) /\ \A u \in Threads \ {t} : code'[u] = code[u]
      /\ \A u \in Threads : Pending(u)' \subseteq Pending(u)
      /\ UNCHANGED <<queue, sent, running, quit>>
      /\ Threads = {"nrt", "collector", "main"}
  BY StepTakes DEF Threads
<1>2. /\ t = "collector" => e.op \in Passing
      /\ t = "nrt" => ~quit /\ code["main"] = <<>> /\ e.op \notin {"exit", "stop", "join"}
      /\ t = "main" => quit /\ code["nrt"] = <<>>
  BY StepBelongs
<1>3. /\ julia' = IF e.op = "start" THEN "on" ELSE IF e.op = "exit" THEN "exited" ELSE julia
      /\ e.op = "join" => ~CollectorLives
  BY StepChanges DEF CollectorLives
<1>4. ~CollectorLives' => ~CollectorLives
  BY StepLeaves
<1> HIDE DEF e
<1>5. Turns'
  <2>1. ~quit => t # "main" /\ julia' # "exited"
    BY <1>1, <1>2, <1>3 DEF BootInv, Turns, Passing
  <2>2. running = "none" => t # "nrt"
    BY <1>1 DEF BootInv, Turns
  <2>3. ~CollectorLives => t # "collector"
    BY <1>1 DEF BootInv, Turns
  <2> QED
    BY <1>1, <1>4, <2>1, <2>2, <2>3 DEF BootInv, Turns
<1>6. CASE CollectorLives' /\ ~CollectorLives
  <2>1. code["main"] = <<>> /\ Pending("nrt")' = {} /\ t = "nrt"
    BY <1>6, ThreadComes
  <2>2. code'["main"] = <<>>
    BY <1>1, <2>1
  <2>3. Precedes("join", code'["main"], LoudOps)
    BY <2>2 DEF Precedes
  <2> QED
    BY <1>1, <1>5, <2>1, <2>3 DEF BootInv, Roles
<1>7. CASE ~(CollectorLives' /\ ~CollectorLives)
  <2>1. CollectorLives' => Precedes("join", code'["main"], LoudOps)
    <3> SUFFICES ASSUME CollectorLives, Precedes("join", code["main"], LoudOps)
                 PROVE  Precedes("join", code'["main"], LoudOps)
      BY <1>7 DEF BootInv, Roles
    <3>1. CASE t = "main"
      <4>1. code["main"][1].op # "join"
        BY <1>1, <1>3, <3>1
      <4> QED
        BY <1>1, <3>1, <4>1, PrecedesTail
    <3>2. CASE t # "main"
      BY <1>1, <3>2
    <3> QED
      BY <3>1, <3>2
  <2> QED
    BY <1>1, <1>5, <1>7, <2>1 DEF BootInv, Roles
<1> QED
  BY <1>6, <1>7

\* The step takes a boot a step further, and nothing away before quit.
LEMMA StepBoots ==
  ASSUME BootInv, NEW t \in Threads, Step(t)
  PROVE  OnlyBoots' /\ StatePublished' /\ Complete'
<1> DEFINE e == Op(t)
<1>1. /\ code[t] \in Seq(LegalOps) /\ code[t] # <<>> /\ e = code[t][1] /\ e \in LegalOps
      /\ code'[t] = Tail(code[t]) /\ \A u \in Threads \ {t} : code'[u] = code[u]
      /\ \A u \in Threads : Pending(u)' \subseteq Pending(u)
      /\ Pending(t) = {e} \cup Pending(t)'
      /\ \A u \in Threads \ {t} : Pending(u)' = Pending(u)
      /\ UNCHANGED <<queue, sent, running, quit>>
      /\ Threads = {"nrt", "collector", "main"}
  BY StepTakes DEF Threads
<1>2. /\ t = "collector" => e.op \in Passing
      /\ t = "nrt" => ~quit /\ e.op # "exit" /\ (e.op = "delete" => e.on = "pool")
      /\ t = "main" => quit /\ e.op \notin {"new", "publish", "publish_failed", "start", "run"}
                       /\ code["nrt"] = <<>>
  BY StepBelongs
<1>3. /\ julia' = IF e.op = "start" THEN "on" ELSE IF e.op = "exit" THEN "exited" ELSE julia
      /\ initialized' = IF e.op \in {"new", "delete", "publish", "publish_failed"}
                           /\ e.on = "global_state"
                        THEN e.op = "publish" ELSE initialized
  BY StepChanges
<1>4. /\ \A o \in Objects : Brings(e, o) => objs'[o] = "alive"
      /\ \A o \in Objects : ~Brings(e, o) /\ ~Deletes(e, o) => objs'[o] = objs[o]
  BY StepLeaves
<1>5. /\ Succeeds' => Succeeds
      /\ Succeeds /\ ~quit => Succeeds'
      /\ julia # "off" => julia' # "off"
  BY StepDecides
<1> HIDE DEF e
<1>6. OnlyBoots'
  <2>1. ASSUME julia' = "off"
        PROVE  ~initialized'
    <3>1. julia = "off" /\ ~initialized
      BY <1>5, <2>1 DEF BootInv, OnlyBoots
    <3>2. e.op # "publish"
      <4> SUFFICES ASSUME e.op = "publish"
                   PROVE  FALSE
        OBVIOUS
      <4>1. t = "nrt" /\ e \in Publishing /\ 1 \in DOMAIN code[t]
        BY <1>1, <1>2, TailOf DEF Passing, Publishing
      <4>2. ~Precedes("start", code["nrt"], Publishing)
        BY <1>1, <3>1, <4>1 DEF Precedes
      <4> QED
        BY <3>1, <4>2 DEF BootInv, OnlyBoots
    <3> QED
      BY <1>3, <3>1, <3>2
  <2>2. ASSUME julia' = "off"
        PROVE  Precedes("start", code'["nrt"], Publishing)
    <3>1. Precedes("start", code["nrt"], Publishing) /\ e.op # "start"
      BY <1>3, <1>5, <2>2 DEF BootInv, OnlyBoots
    <3>2. CASE t = "nrt"
      BY <1>1, <3>1, <3>2, PrecedesTail
    <3>3. CASE t # "nrt"
      BY <1>1, <3>1, <3>3
    <3> QED
      BY <3>2, <3>3
  <2> QED
    BY <1>1, <1>5, <2>1, <2>2 DEF BootInv, OnlyBoots
<1>7. StatePublished'
  <2> SUFFICES ASSUME julia' # "off" \/ \E d \in Pending("nrt")' : d.op = "start", ~quit
               PROVE  \/ objs'["global_state"] = "alive"
                      \/ \E d \in Pending("nrt")' : Brings(d, "global_state")
    BY <1>1 DEF StatePublished
  <2>1. t \in {"nrt", "collector"} /\ "global_state" \in Objects
    BY <1>1, <1>2 DEF Objects
  <2>2. julia # "off" \/ \E d \in Pending("nrt") : d.op = "start"
    <3>1. julia # "off" \/ e.op = "start" \/ \E d \in Pending("nrt")' : d.op = "start"
      <4>1. e.op # "exit"
        BY <1>2, <2>1 DEF Passing
      <4> QED
        BY <1>3, <4>1
    <3>2. e.op = "start" => t = "nrt"
      BY <1>2, <2>1 DEF Passing
    <3> QED
      BY <1>1, <3>1, <3>2
  <2>3. objs["global_state"] = "alive" \/ \E d \in Pending("nrt") : Brings(d, "global_state")
    BY <2>2 DEF BootInv, StatePublished
  <2>4. ~Deletes(e, "global_state")
    BY <1>2, <2>1 DEF Deletes, Passing
  <2> QED
    BY <1>1, <1>4, <2>1, <2>3, <2>4
<1>8. Complete'
  <2>1. ASSUME Succeeds', ~quit
        PROVE  /\ \A d \in Pending("nrt")' : d.op \notin {"delete", "publish_failed"}
               /\ \A o \in Objects : objs'[o] = "alive" \/ \E d \in Pending("nrt")' : Brings(d, o)
    <3>1. /\ \A d \in Pending("nrt") : d.op \notin {"delete", "publish_failed"}
          /\ \A o \in Objects : objs[o] = "alive" \/ \E d \in Pending("nrt") : Brings(d, o)
      BY <1>5, <2>1 DEF BootInv, Complete
    <3>2. t \in {"nrt", "collector"}
      BY <1>1, <1>2, <2>1
    <3>3. e.op # "delete"
      BY <1>1, <1>2, <3>1, <3>2 DEF Passing
    <3> QED
      BY <1>1, <1>4, <3>1, <3>2, <3>3 DEF Deletes
  <2>2. ASSUME NEW d \in Pending("nrt")', Brings(d, "gc_thread")
        PROVE  Succeeds'
    <3>1. d \in Pending("nrt")
      BY <1>1
    <3>2. Succeeds
      BY <2>2, <3>1 DEF BootInv, Complete
    <3>3. ~quit
      BY <3>1 DEF BootInv, Turns, Pending
    <3> QED
      BY <1>5, <3>2, <3>3
  <2> QED
    BY <1>1, <2>1, <2>2 DEF Complete
<1> QED
  BY <1>6, <1>7, <1>8

\* The step keeps what the collector's thread uses.
LEMMA StepCares ==
  ASSUME BootInv, NEW t \in Threads, Step(t)
  PROVE  Cared'
<1> DEFINE e == Op(t)
<1>1. /\ code[t] \in Seq(LegalOps) /\ code[t] # <<>> /\ e = code[t][1] /\ e \in LegalOps
      /\ code'[t] = Tail(code[t]) /\ \A u \in Threads \ {t} : code'[u] = code[u]
      /\ \A u \in Threads : Pending(u)' \subseteq Pending(u)
      /\ UNCHANGED <<queue, sent, running, quit>>
      /\ Threads = {"nrt", "collector", "main"} /\ "gc_thread" \in Objects
  BY StepTakes DEF Threads, Objects
<1>2. /\ t = "collector" => e.op \in Passing
      /\ t = "nrt" => ~quit /\ e.op \notin {"exit", "stop", "join"} /\ code["main"] = <<>>
      /\ t = "main" => quit /\ e.op \notin {"new", "publish", "publish_failed", "start", "run"}
                       /\ code["nrt"] = <<>>
      /\ Loud(e) => ~CollectorLives
  BY StepBelongs
<1>3. thread_run' = IF e.op = "run" THEN TRUE ELSE IF e.op = "stop" THEN FALSE ELSE thread_run
  BY StepChanges
<1>4. /\ \A o \in Objects : ~Brings(e, o) /\ ~Deletes(e, o) => objs'[o] = objs[o]
      /\ ~Loud(e) => UNCHANGED <<julia, initialized, objs>>
  BY StepLeaves
<1> HIDE DEF e
<1>5. /\ CollectorLives' => initialized' /\ julia' = "on" /\ \A o \in Objects : objs'[o] = "alive"
      /\ CollectorLives' /\ ~quit => thread_run'
  <2>1. CASE CollectorLives' /\ ~CollectorLives
    BY <2>1, ThreadComes
  <2>2. CASE CollectorLives
    <3>1. UNCHANGED <<julia, initialized, objs>>
      BY <1>2, <1>4, <2>2
    <3>2. ~quit => thread_run'
      BY <1>1, <1>2, <1>3, <2>2 DEF BootInv, Cared, Passing
    <3> QED
      BY <2>2, <3>1, <3>2 DEF BootInv, Cared
  <2> QED
    BY <2>1, <2>2
<1>6. (thread_run' \/ Precedes("run", code'["nrt"], ThreadStarting)) /\ ThreadLast(code'["nrt"])
  <2>1. (thread_run \/ Precedes("run", code["nrt"], ThreadStarting)) /\ ThreadLast(code["nrt"])
    BY DEF BootInv, Cared
  <2>2. CASE t = "nrt"
    <3>1. thread_run \/ e.op = "run" => thread_run'
      BY <1>2, <1>3, <2>2
    <3>2. ASSUME Precedes("run", code["nrt"], ThreadStarting), e.op # "run"
          PROVE  Precedes("run", code'["nrt"], ThreadStarting)
      BY <1>1, <2>2, <3>2, PrecedesTail
    <3>3. ThreadLast(code'["nrt"])
      BY <1>1, <2>1, <2>2, ThreadLastTail
    <3> QED
      BY <2>1, <3>1, <3>2, <3>3
  <2>3. CASE t = "collector"
    BY <1>1, <1>2, <1>3, <2>1, <2>3 DEF Passing
  <2>4. CASE t = "main"
    <3>1. code'["nrt"] = <<>>
      BY <1>1, <1>2, <2>4
    <3> QED
      BY <3>1 DEF Precedes, ThreadLast
  <2> QED
    BY <1>1, <2>2, <2>3, <2>4
<1>7. (\E d \in Pending("main")' : d.op = "join") => objs'["gc_thread"] \in {"alive", "ended"}
  <2> SUFFICES ASSUME \E d \in Pending("main")' : d.op = "join"
               PROVE  objs'["gc_thread"] \in {"alive", "ended"}
    OBVIOUS
  <2>1. objs["gc_thread"] \in {"alive", "ended"} /\ code["main"] # <<>>
    <3>1. PICK d \in Pending("main") : d.op = "join"
      BY <1>1
    <3>2. Pending("main") # {}
      BY <3>1
    <3> QED
      BY <3>1, <3>2 DEF BootInv, Cared, Pending
  <2>2. t \in {"collector", "main"}
    BY <1>1, <1>2, <2>1
  <2>3. ~Brings(e, "gc_thread") /\ ~Deletes(e, "gc_thread")
    BY <1>1, <1>2, <2>2 DEF Brings, Deletes, Passing, LegalOps, Needs
  <2> QED
    BY <1>1, <1>4, <2>1, <2>3
<1> QED
  BY <1>1, <1>5, <1>6, <1>7 DEF Cared

\* The step leaves every thread provided for, and every barrier to be unlocked.
LEMMA StepEquips ==
  ASSUME BootInv, NEW t \in Threads, Step(t)
  PROVE  Equipped'
<1> DEFINE e == Op(t)
<1>1. /\ code[t] \in Seq(LegalOps) /\ code[t] # <<>> /\ e = code[t][1]
      /\ code'[t] = Tail(code[t]) /\ \A u \in Threads \ {t} : code'[u] = code[u]
      /\ Pending(t) = {e} \cup Pending(t)'
      /\ \A u \in Threads \ {t} : Pending(u)' = Pending(u)
      /\ \A u \in Threads : code[u] \in Seq(LegalOps)
  BY StepTakes DEF BootInv, Typed
<1>2. Loud(e) => \A u \in Threads \ {t} : code[u] = <<>>
  BY StepBelongs
<1>3. held' = IF e.op = "lock" THEN held \cup {e.on}
              ELSE IF e.op = "unlock" THEN held \ {e.on} ELSE held
  BY StepChanges
<1>4. /\ Alive' = After(Alive, e) /\ Spared \subseteq Spared'
      /\ ~Loud(e) => UNCHANGED objs
  BY StepLeaves, StepDecides
<1> HIDE DEF e
<1>5. ASSUME NEW u \in Threads
      PROVE  Provided(code'[u], Alive', Spared') /\ Balanced(code'[u])
  <2>1. Provided(code[u], Alive, Spared) /\ Balanced(code[u])
    BY DEF BootInv, Equipped
  <2>2. CASE u = t
    <3>1. Provided(Tail(code[t]), After(Alive, code[t][1]), Spared')
      BY <1>1, <1>4, <2>1, <2>2, ProvidedTail
    <3>2. Balanced(Tail(code[t]))
      BY <1>1, <2>1, <2>2, BalancedTail
    <3> QED
      BY <1>1, <1>4, <2>2, <3>1, <3>2
  <2>3. CASE u # t /\ Loud(e)
    BY <1>1, <1>2, <2>3, NothingLeft
  <2>4. CASE u # t /\ ~Loud(e)
    <3>1. Alive' = Alive /\ code'[u] = code[u]
      BY <1>1, <1>4, <2>4 DEF Alive
    <3>2. Provided(code[u], Alive, Spared')
      BY <1>1, <1>4, <2>1, ProvidedStays
    <3> QED
      BY <2>1, <3>1, <3>2
  <2> QED
    BY <2>2, <2>3, <2>4
<1>6. ASSUME NEW b \in held'
      PROVE  \E u \in Threads : \E d \in Pending(u)' : d.op = "unlock" /\ d.on = b
  <2>1. CASE e.op = "lock" /\ e.on = b
    <3>1. 1 \in DOMAIN code[t]
      BY <1>1, TailOf
    <3>2. PICK j \in DOMAIN code[t] :
            j > 1 /\ code[t][j].op = "unlock" /\ code[t][j].on = b
      BY <1>1, <2>1, <3>1 DEF BootInv, Equipped, Balanced
    <3>3. code[t][j] \in Pending(t) /\ code[t][j] # e
      BY <2>1, <3>2 DEF Pending
    <3> QED
      BY <1>1, <3>2, <3>3
  <2>2. CASE ~(e.op = "lock" /\ e.on = b)
    <3>1. b \in held /\ ~(e.op = "unlock" /\ e.on = b)
      BY <1>3, <1>6, <2>2
    <3>2. PICK u \in Threads : \E d \in Pending(u) : d.op = "unlock" /\ d.on = b
      BY <3>1 DEF BootInv, Equipped
    <3>3. PICK d \in Pending(u) : d.op = "unlock" /\ d.on = b
      BY <3>2
    <3>4. d \in Pending(u)'
      BY <1>1, <3>1, <3>3
    <3> QED
      BY <3>3, <3>4
  <2> QED
    BY <2>1, <2>2
<1> QED
  BY <1>5, <1>6 DEF Equipped

\* All of it together.
LEMMA StepHolds ==
  ASSUME BootInv, NEW t \in Threads, Step(t)
  PROVE  BootInv'
BY StepTyped, StepTurns, StepBoots, StepCares, StepEquips, StepMisusesNothing DEF BootInv

\* A stuttering step changes nothing.
LEMMA StutterHolds ==
  ASSUME BootInv, UNCHANGED vars
  PROVE  BootInv'
<1>1. UNCHANGED <<julia, initialized, objs, held, queue, sent, running, code, thread_run, quit,
                  faults>>
  BY DEF vars
<1>2. /\ \A t : Pending(t)' = Pending(t)
      /\ Alive' = Alive /\ CollectorLives' = CollectorLives
      /\ Succeeds' = Succeeds /\ Spared' = Spared
  BY <1>1, SameCode
<1>3. Typed' /\ Turns' /\ Roles' /\ OnlyBoots' /\ StatePublished'
  BY <1>1, <1>2 DEF BootInv, Typed, TypeOK, Turns, Roles, OnlyBoots, StatePublished
<1>4. Complete' /\ Cared' /\ Equipped'
  BY <1>1, <1>2 DEF BootInv, Complete, Cared, Equipped
<1> QED
  BY <1>1, <1>2, <1>3, <1>4 DEF BootInv

-----------------------------------------------------------------------------
(* Theorems *)

\* The inductive invariant of boot and quit: what is alive, and what each thread
\* has left to do, in an order in which nothing is missing.
THEOREM BootInvariance == Spec => []BootInv
<1>1. Init => BootInv
  BY InitHolds
<1>2. BootInv /\ [Next]_vars => BootInv'
  <2> SUFFICES ASSUME BootInv, [Next]_vars
               PROVE  BootInv'
    OBVIOUS
  <2>1. ASSUME NEW cmd \in Commands, Send(cmd)
        PROVE  BootInv'
    BY <2>1, SendHolds
  <2>2. ASSUME NEW outcome \in BootOutcomes, StartCommand(outcome)
        PROVE  BootInv'
    BY <2>2, StartCommandHolds
  <2>3. CASE EndCommand
    BY <2>3, EndCommandHolds
  <2>4. CASE CollectorTurn
    BY <2>4, CollectorTurnHolds
  <2>5. CASE UGen
    BY <2>5, UGenHolds
  <2>6. CASE JuliaQuit
    BY <2>6, JuliaQuitHolds
  <2>7. ASSUME NEW t \in Threads, Step(t)
        PROVE  BootInv'
    BY <2>7, StepHolds
  <2>8. CASE UNCHANGED vars
    BY <2>8, StutterHolds
  <2> QED
    BY <2>1, <2>2, <2>3, <2>4, <2>5, <2>6, <2>7, <2>8 DEF Next
<1> QED
  BY <1>1, <1>2, PTL DEF Spec

\* The variables have their types.
THEOREM BootTypeCorrect == Spec => []TypeOK
<1>1. BootInv => TypeOK
  BY InvExcludes
<1> QED
  BY <1>1, BootInvariance, PTL

\* No thread uses a global object that is not there, or deletes one that is not
\* or that is locked; but for the pool of a boot that has failed.
THEOREM BootMisusesNothing == Spec => []NothingMisused
<1>1. BootInv => NothingMisused
  BY InvExcludes
<1> QED
  BY <1>1, BootInvariance, PTL

\* A server that has booted keeps the collector's thread until it quits.
THEOREM BootCollectorStays == Spec => []CollectorStays
<1>1. BootInv => CollectorStays
  BY InvExcludes
<1> QED
  BY <1>1, BootInvariance, PTL
=============================================================================
