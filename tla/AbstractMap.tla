---------------------------- MODULE AbstractMap ----------------------------
(***************************************************************************)
(* What klib/map.h promises: a map from keys to values. A call is made,    *)
(* and served later in one step: map_insert stores the value, map_delete   *)
(* removes the key, and map_find returns the value, or that there is none. *)
(***************************************************************************)
CONSTANTS Keys, Values, Absent

VARIABLES
    contents,  \* the value of each key, or Absent
    call,      \* the call being served
    ret        \* what map_find returned, until the next call

vars == <<contents, call, ret>>

NoCall == [name |-> "none"]

Calls == [name : {"insert"}, key : Keys, value : Values]
            \union [name : {"delete", "find"}, key : Keys]

Init == contents = [k \in Keys |-> Absent] /\ call = NoCall /\ ret = Absent

Invoke ==
    /\ call = NoCall /\ call' \in Calls
    /\ ret' = Absent /\ UNCHANGED contents

Insert ==
    /\ call.name = "insert" /\ call' = NoCall
    /\ contents' = [contents EXCEPT ![call.key] = call.value]
    /\ UNCHANGED ret

Delete ==
    /\ call.name = "delete" /\ call' = NoCall
    /\ contents' = [contents EXCEPT ![call.key] = Absent]
    /\ UNCHANGED ret

Find ==
    /\ call.name = "find" /\ call' = NoCall
    /\ ret' = contents[call.key]
    /\ UNCHANGED contents

Next == Invoke \/ Insert \/ Delete \/ Find

Spec == Init /\ [][Next]_vars
=============================================================================
