--------------------------- MODULE MCBuddySystem ---------------------------
(* Instances of BuddySystem for TLC *)
EXTENDS BuddySystem

\* 1 << l
MCBlockSize == [l \in 0 .. BUDDY_MAXLEVEL |-> 2 ^ l]

\* Explore up to the first step through a wild pointer.
Uncorrupted == ~corrupted
=============================================================================
