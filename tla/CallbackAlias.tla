--------------------------- MODULE CallbackAlias ---------------------------
(***************************************************************************)
(* Short names for ids that do not fit into the callback data of a button  *)
(* (telegram/callback_utils.py): a table of aliases in the order of their  *)
(* last use, and its inverse, kept in step by hand.                        *)
(*                                                                         *)
(* Nothing here awaits, so each call is one step.  An alias is a random    *)
(* token; the model numbers the tokens in the order they are drawn, so     *)
(* that none comes twice.                                                  *)
(***************************************************************************)
EXTENDS Naturals, Sequences, FiniteSets

CONSTANTS Ids,         \* ids too long for a button
          MaxAliases,  \* _MAX_CALLBACK_ALIASES
          MaxDraws     \* bound: tokens drawn

ASSUME AliasOK == MaxAliases \in Nat \ {0} /\ MaxDraws \in Nat

VARIABLES
    table,    \* _callback_aliases: the aliases with their ids, least recently used first
    inverse,  \* _reverse_callback_aliases: per id its alias, 0 without one
    drawn,    \* tokens drawn so far
    given,    \* history: the id each drawn token was made for
    uses      \* history: the tokens in the order of their last use

avars == <<table, inverse, drawn, given, uses>>

AliasInit ==
    /\ table = <<>> /\ inverse = [v \in Ids |-> 0]
    /\ drawn = 0 /\ given = <<>> /\ uses = <<>>

Has(a) == \E i \in DOMAIN table : table[i].alias = a
Place(a) == CHOOSE i \in DOMAIN table : table[i].alias = a

\* The sequence s with its element at place i moved to the end.
ToEnd(s, i) ==
    [j \in DOMAIN s |-> IF j < i THEN s[j] ELSE IF j = Len(s) THEN s[i] ELSE s[j + 1]]

\* Mutant: a use does not count as recent.
MovedToEndNot(a) == table

\* move_to_end
MovedToEnd(a) == ToEnd(table, Place(a))

UsedAgain(a) == uses' = ToEnd(uses, CHOOSE i \in DOMAIN uses : uses[i] = a)

\* compact_callback_id of an id that has an alias.
Reuse(v) ==
    /\ inverse[v] # 0
    /\ table' = MovedToEnd(inverse[v]) /\ UsedAgain(inverse[v])
    /\ UNCHANGED <<inverse, drawn, given>>

\* The eviction after an alias was added, from both tables.  Only one can be
\* too many.
Evicted(t, inv) ==
    IF Len(t) > MaxAliases
    THEN [table |-> Tail(t),
          inverse |-> IF inv[Head(t).id] = Head(t).alias THEN [inv EXCEPT ![Head(t).id] = 0]
                                                         ELSE inv]
    ELSE [table |-> t, inverse |-> inv]

\* Mutant: aliases are numbers of the table's places.
MakePlace(v) ==
    /\ inverse[v] = 0 /\ drawn < MaxDraws
    /\ LET a == Len(table) + 1
           kept == Evicted(Append(SelectSeq(table, LAMBDA e : e.alias # a), [alias |-> a, id |-> v]),
                           [inverse EXCEPT ![v] = a])
       IN  /\ table' = kept.table /\ inverse' = kept.inverse
           /\ drawn' = drawn + 1 /\ given' = Append(given, v)
           /\ uses' = Append(uses, a)

\* compact_callback_id of an id that has none.
Make(v) ==
    /\ inverse[v] = 0 /\ drawn < MaxDraws
    /\ LET a == drawn + 1
           kept == Evicted(Append(table, [alias |-> a, id |-> v]), [inverse EXCEPT ![v] = a])
       IN  /\ table' = kept.table /\ inverse' = kept.inverse
           /\ drawn' = a /\ given' = Append(given, v)
           /\ uses' = Append(uses, a)

\* What a button with token a is taken for: 0 stands for the token itself,
\* which is no id.
Resolved(a) == IF Has(a) THEN table[Place(a)].id ELSE 0

\* resolve_callback_id, of any token there ever was: the button may be in an
\* old message.  A token that is not in the table changes nothing.
Resolve(a) ==
    /\ Has(a)
    /\ table' = MovedToEnd(a) /\ UsedAgain(a)
    /\ UNCHANGED <<inverse, drawn, given>>

\* The process starts again with empty tables.
AliasRestart ==
    /\ table' = <<>> /\ inverse' = [v \in Ids |-> 0]
    /\ uses' = <<>>
    /\ UNCHANGED <<drawn, given>>

AliasNext ==
    \/ \E v \in Ids : Reuse(v) \/ Make(v)
    \/ \E a \in 1..drawn : Resolve(a)
    \/ AliasRestart

AliasSpec == AliasInit /\ [][AliasNext]_avars

----------------------------------------------------------------------------
(* Correctness.                                                            *)

\* Every variable has its type, and the table is bounded.
AliasTypeOK ==
    /\ table \in Seq([alias : 1..drawn, id : Ids]) /\ Len(table) =< MaxAliases
    /\ inverse \in [Ids -> 0..drawn]
    /\ drawn \in 0..MaxDraws /\ given \in Seq(Ids) /\ Len(given) = drawn
    /\ uses \in Seq(1..drawn)

\* The two tables are inverse to each other: an id is given one alias at a
\* time, and the alias it is given works.
TablesAgree ==
    /\ \A i \in DOMAIN table : inverse[table[i].id] = table[i].alias
    /\ \A v \in Ids : inverse[v] # 0 =>
          \E i \in DOMAIN table : table[i] = [alias |-> inverse[v], id |-> v]
    /\ \A i, j \in DOMAIN table : table[i].alias = table[j].alias => i = j

\* A button never acts on another id than the one it was made for, however
\* old the message: its token resolves to that id, or to nothing.
NeverAnother == \A a \in 1..drawn : Resolved(a) \in {0, given[a]}

\* Since the start of the process, the tokens used most recently, as many as
\* the table holds, all work: an alias is lost only to MaxAliases later ones.
RecentWork ==
    \A i \in DOMAIN uses : Len(uses) - i < MaxAliases => Has(uses[i])

=============================================================================
