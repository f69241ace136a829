------------------------------ MODULE Allocator ------------------------------
(***************************************************************************)
(* What Julia's runtime may expect of its memory pool: blocks that do not  *)
(* overlap and are as large as asked for, and a null pointer only when     *)
(* there is no room.  Nothing is said of where a block is put.             *)
(***************************************************************************)
EXTENDS AllocBins

CONSTANTS
    AreaSize,   \* bytes to allocate from
    Requests    \* the sizes that callers ask for

VARIABLES
    blocks,     \* the size of each block, by its address
    reply       \* what the last call returned

vars == <<blocks, reply>>

Addrs == {kAlign * i : i \in 0 .. AreaSize \div kAlign}
NULL == -1
NoReply == [req |-> 0, ptr |-> NULL]
Reply(req, ptr) == [req |-> req, ptr |-> ptr]

\* A block of this size at p leaves all others alone.
Room(others, p, size) ==
    /\ p + size <= AreaSize
    /\ \A o \in DOMAIN others : o + others[o] <= p \/ p + size <= o

Without(p) == [o \in DOMAIN blocks \ {p} |-> blocks[o]]

\* What a request can be given: enough, and less than a chunk too much.
LargeEnough(req) ==
    {size \in Addrs : /\ size >= req + HeaderSize
                      /\ size < RequestToSize(req) + kMinAllocSize}

\* The block that a call returns beside the others, or none, for want of room
\* anywhere.
Place(others, req) ==
    \/ \E p \in Addrs \ DOMAIN others :
          /\ reply' = Reply(req, p)
          /\ \E size \in LargeEnough(req) :
                /\ Room(others, p, size)
                /\ blocks' = [o \in DOMAIN others \cup {p} |-> IF o = p THEN size ELSE others[o]]
    \/ /\ \A p \in Addrs : ~Room(others, p, RequestToSize(req))
       /\ reply' = Reply(req, NULL)
       /\ UNCHANGED blocks

Init == blocks = <<>> /\ reply = NoReply

Alloc(req) == Place(blocks, req)

Free(p) ==
    /\ blocks' = Without(p)
    /\ reply' = NoReply

\* Its own place counts as room for a block that is to grow.
Realloc(p, req) == Place(Without(p), req)

Next ==
    \/ \E req \in Requests : Alloc(req)
    \/ \E p \in DOMAIN blocks : Free(p) \/ \E req \in Requests : Realloc(p, req)

Spec == Init /\ [][Next]_vars
=============================================================================
