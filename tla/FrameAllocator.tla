-------------------------- MODULE FrameAllocator --------------------------
(***************************************************************************)
(* What frame_alloc and frame_free of pmm.c promise their clients, the     *)
(* slice allocator and paging: as many frames in a row as were asked for,  *)
(* and nobody else has them. How they are found, and when none are, is not *)
(* part of the promise.                                                    *)
(***************************************************************************)
EXTENDS Integers

CONSTANT Frames

VARIABLES
    held,  \* the blocks clients hold, each a set of frames
    asked  \* an input: the frames that the call in progress asks for

Init == held = {}

\* No frame of the block is in a client's hands.
Fresh(b) == \A c \in held : b \intersect c = {}

Holds(b, n) == \E i \in b : i .. i + n - 1 \subseteq b

Alloc(b) == Fresh(b) /\ Holds(b, asked) /\ held' = held \union {b}

Free(b) == b \in held /\ held' = held \ {b}

Next == \E b \in SUBSET Frames : Alloc(b) \/ Free(b)

Spec == Init /\ [][Next]_held
=============================================================================
