--------------------------- MODULE MCCallWatcher ---------------------------
(***************************************************************************)
(* Model checking of CallWatcher.                                          *)
(***************************************************************************)
EXTENDS CallWatcher

\* The closed form of PrepopulateSeen is what adding the entries of the page
\* one by one, newest first, to the empty cache gives.
ASSUME PrepopulateIsFold ==
    \A n \in 0..PrePage :
        LET entries == [i \in 1..n |-> n + 1 - i]
        IN  FoldLeft(AddSeen, EmptySeen, entries) =
                [ids |-> Range(entries), order |-> entries]

=============================================================================
