--------------------------- MODULE IncludeClosure ---------------------------
(***************************************************************************)
(* What merging the includes of a program promises, without saying how the *)
(* tree is walked: files are merged one at a time, each because a file     *)
(* that is already part of the program asks for it, none twice; the merge  *)
(* ends when nothing is asked for that is not there, and fails only over a *)
(* file that is asked for and does not exist.                              *)
(***************************************************************************)
CONSTANTS
    Files,      \* the files there are
    Root,       \* the file that is compiled
    NotFound    \* what an include that names no file asks for

VARIABLES
    merged,     \* files merged into the program
    asks,       \* for each file of the program, what its includes ask for
    outcome     \* "open", "merged" or "failed"

vars == <<merged, asks, outcome>>

Wanted == UNION {asks[f] : f \in DOMAIN asks}

Init ==
    /\ merged = {}
    /\ asks \in [{Root} -> SUBSET (Files \cup {NotFound})]
    /\ outcome = "open"

\* What a file asks for is unknown until it is merged, and then fixed. The root
\* may be merged, too, when a file asks for it.
Merge(f) ==
    /\ outcome = "open"
    /\ f \in (Wanted \cap Files) \ merged
    /\ merged' = merged \cup {f}
    /\ asks' \in [DOMAIN asks \cup {f} -> SUBSET (Files \cup {NotFound})]
    /\ \A g \in DOMAIN asks : asks'[g] = asks[g]
    /\ UNCHANGED outcome

Complete ==
    /\ outcome = "open"
    /\ Wanted \subseteq merged
    /\ outcome' = "merged"
    /\ UNCHANGED <<merged, asks>>

Fail ==
    /\ outcome = "open"
    /\ NotFound \in Wanted
    /\ outcome' = "failed"
    /\ UNCHANGED <<merged, asks>>

Next == (\E f \in Wanted : Merge(f)) \/ Complete \/ Fail

\* That a merge ends is stated of each walk that implements this one.
Spec == Init /\ [][Next]_vars

=============================================================================
