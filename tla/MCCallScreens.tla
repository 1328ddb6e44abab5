--------------------------- MODULE MCCallScreens ---------------------------
(***************************************************************************)
(* Model checking of the screens and of what they stand on: CallScreens,   *)
(* the reading of lists from the server (Paging), and the short names of   *)
(* ids in the data of buttons (CallbackAlias).  They share no state and    *)
(* are checked side by side: part, chosen at the start, says which of them *)
(* moves, and every property is about one of them.  Handlers are           *)
(* interchangeable, and so are ids.                                        *)
(***************************************************************************)
EXTENDS CallScreens, Paging, CallbackAlias, TLC

VARIABLE part

ListKeys ==
    {[door |-> "d", field |-> 0], [door |-> "d", field |-> 1], [door |-> "e", field |-> 2]}

ListTypes == <<"first", "second">>

all == <<part, vars, gvars, avars>>

ScreensMove == part = "screens" /\ UNCHANGED <<part, gvars, avars>>
ListsMove == part = "lists" /\ UNCHANGED <<part, vars, avars>>
AliasMoves == part = "alias" /\ UNCHANGED <<part, vars, gvars>>

NoLists == [t \in TypesSet |-> <<>>]

ScreensInit ==
    /\ part \in {"screens", "lists", "alias"}
    /\ Init /\ PagingInit /\ AliasInit
    /\ part # "screens" => pages = [missed \in BOOLEAN |-> 1]
    /\ part # "lists" => lists = NoLists /\ server = [size |-> 1, odd |-> "nothing"]
ScreensNext ==
    \/ ScreensMove /\ Next
    \/ ListsMove /\ PagingNext
    \/ AliasMoves /\ AliasNext
ScreensSpec == ScreensInit /\ [][ScreensNext]_all

Symmetry == Permutations(Handlers) \cup Permutations(Ids)

=============================================================================
