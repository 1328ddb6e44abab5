------------------------------- MODULE Paging -------------------------------
(***************************************************************************)
(* Reading a list that the server gives out in pages (domonap/client.py):  *)
(* get_all_keys and get_doors over the lists of keys, find_call_log over   *)
(* the log of calls.                                                       *)
(*                                                                         *)
(* The list may change between two pages.  The server may give out smaller *)
(* pages than it was asked for, leave out the total or the page size of an *)
(* answer, for which the code puts in 0 and what it asked for, or say that *)
(* every page is the first.                                                *)
(* A key is the door it opens and a field that may be empty (0), which     *)
(* stands for each of the fields that get_doors merges.                    *)
(***************************************************************************)
EXTENDS Naturals, Sequences, SequencesExt

CONSTANTS Keys,            \* keys: [door, field]; an entry of the log is a key too
          Types,           \* the types of keys, in the order they are read: a sequence
          PerPage,         \* entries asked for per page
          MaxListPages,    \* _MAX_KEYS_PAGES, _MAX_CALL_LOG_PAGES
          MaxListEntries,  \* bound: entries of a list
          MaxChanges       \* bound: changes of the lists

VARIABLES
    lists,     \* at the server: per type the keys, or the log
    server,    \* how it answers: its largest page, and what is odd about it
    reader,    \* the call that reads: see Reader
    changes,   \* changes of the lists so far
    start,     \* history: the lists when the reading began
    removed    \* history: something was removed since

gvars == <<lists, server, reader, changes, start, removed>>

TypesSet == {Types[i] : i \in DOMAIN Types}

ASSUME PagingOK ==
    /\ Types \in Seq(TypesSet) /\ Types # <<>>
    /\ PerPage \in Nat \ {0} /\ MaxListPages \in Nat \ {0}
    /\ MaxListEntries \in Nat \ {0} /\ MaxChanges \in Nat
    /\ \A k \in Keys : k = [door |-> k.door, field |-> k.field]

Servers == [size : 1..PerPage, odd : {"nothing", "no total", "no size", "page 1"}]
Finished == {"idle", "done", "found", "missing"}
NoReader == [pc |-> "idle", type |-> 1, page |-> 1, sent |-> 0, got |-> <<>>,
             merged |-> 0, doors |-> <<>>]

PagingInit ==
    /\ lists \in [TypesSet -> BoundedSeq(Keys, MaxListEntries - 1)]
    /\ server \in Servers
    /\ reader = NoReader /\ changes = 0
    /\ start = lists /\ removed = FALSE

----------------------------------------------------------------------------
(* The server.                                                             *)

\* Page p of a list.
Slice(list, p) == SubSeq(list, (p - 1) * server.size + 1,
                         IF p * server.size < Len(list) THEN p * server.size ELSE Len(list))

\* The answer to a request for page p, with the defaults the code puts in.
Page(list, p) ==
    [results |-> Slice(list, p),
     page |-> IF server.odd = "page 1" THEN 1 ELSE p,
     size |-> IF server.odd = "no size" THEN PerPage ELSE server.size,
     total |-> IF server.odd = "no total" THEN 0 ELSE Len(list)]

TotalPages(answer) == (answer.total + answer.size - 1) \div answer.size

----------------------------------------------------------------------------
(* get_all_keys, and the merging of the keys in get_doors.                 *)

KeysBegin ==
    /\ reader.pc \in Finished
    /\ reader' = [NoReader EXCEPT !.pc = "keys"]
    /\ start' = lists /\ removed' = FALSE
    /\ UNCHANGED <<lists, server, changes>>

\* Mutant: a page that is full ends the type.
LastKeysShort(answer) ==
    IF answer.total > 0 THEN answer.page >= TotalPages(answer)
                        ELSE Len(answer.results) =< answer.size

\* Whether an answer ends the type.
LastKeys(answer) ==
    IF answer.total > 0 THEN answer.page >= TotalPages(answer)
                        ELSE Len(answer.results) < answer.size

\* Whether another page of the type is asked for.
More(answer) == ~LastKeys(answer) /\ reader.sent + 1 < MaxListPages

\* One page; then the next page, the next type, or the merging.
KeysPage ==
    /\ reader.pc = "keys"
    /\ LET answer == Page(lists[Types[reader.type]], reader.page)
           got == reader.got \o answer.results
           next == IF reader.page > answer.page THEN reader.page + 1 ELSE answer.page + 1
       IN  reader' =
             IF More(answer)
             THEN [reader EXCEPT !.page = next, !.sent = @ + 1, !.got = got]
             ELSE IF reader.type < Len(Types)
             THEN [reader EXCEPT !.type = @ + 1, !.page = 1, !.sent = 0, !.got = got]
             ELSE [reader EXCEPT !.pc = "merge", !.got = got]
    /\ UNCHANGED <<lists, server, changes, start, removed>>

\* Mutant: the field of a door is that of its last key.
MergedLast(doors, key) ==
    IF \E i \in DOMAIN doors : doors[i].door = key.door
    THEN [i \in DOMAIN doors |->
            IF doors[i].door = key.door THEN [doors[i] EXCEPT !.field = key.field] ELSE doors[i]]
    ELSE Append(doors, key)

\* get_doors, one key: a door is added, or its empty field filled.
Merged(doors, key) ==
    IF \E i \in DOMAIN doors : doors[i].door = key.door
    THEN [i \in DOMAIN doors |->
            IF doors[i].door = key.door /\ doors[i].field = 0
            THEN [doors[i] EXCEPT !.field = key.field] ELSE doors[i]]
    ELSE Append(doors, key)

\* One key of those read is merged; then the doors are returned.
MergeKey ==
    /\ reader.pc = "merge"
    /\ reader' =
         IF reader.merged < Len(reader.got)
         THEN [reader EXCEPT !.merged = @ + 1, !.doors = Merged(@, reader.got[reader.merged + 1])]
         ELSE [reader EXCEPT !.pc = "done"]
    /\ UNCHANGED <<lists, server, changes, start, removed>>

----------------------------------------------------------------------------
(* find_call_log, in the log Types[1].                                     *)

FindBegin(key) ==
    /\ reader.pc \in Finished
    /\ reader' = [NoReader EXCEPT !.pc = "log", !.got = <<key>>]
    /\ start' = lists /\ removed' = FALSE
    /\ UNCHANGED <<lists, server, changes>>

\* Mutant: the last page is not looked at.
LastLogEarly(answer, p) == answer.total = 0 \/ p + 1 >= TotalPages(answer)

\* CallLogPage.total_pages
LastLog(answer, p) == answer.total = 0 \/ p >= TotalPages(answer)

FindPage ==
    /\ reader.pc = "log"
    /\ LET answer == Page(lists[Types[1]], reader.page)
       IN  reader' =
             IF Contains(answer.results, reader.got[1]) THEN [reader EXCEPT !.pc = "found"]
             ELSE IF LastLog(answer, reader.page) \/ reader.page = MaxListPages
             THEN [reader EXCEPT !.pc = "missing"]
             ELSE [reader EXCEPT !.page = @ + 1]
    /\ UNCHANGED <<lists, server, changes, start, removed>>

----------------------------------------------------------------------------

\* A key or an entry is added anywhere, or removed.
ListChanges(t) ==
    /\ changes < MaxChanges /\ reader.pc \in {"keys", "log"}
    /\ changes' = changes + 1
    /\ \/ /\ Len(lists[t]) < MaxListEntries
          /\ \E i \in 1..(Len(lists[t]) + 1), k \in Keys :
                lists' = [lists EXCEPT ![t] = InsertAt(@, i, k)]
          /\ UNCHANGED removed
       \/ /\ \E i \in DOMAIN lists[t] : lists' = [lists EXCEPT ![t] = RemoveAt(@, i)]
          /\ removed' = TRUE
    /\ UNCHANGED <<server, reader, start>>

PagingNext ==
    \/ KeysBegin \/ KeysPage \/ MergeKey
    \/ (\E k \in Keys : FindBegin(k)) \/ FindPage
    \/ \E t \in TypesSet : ListChanges(t)

PagingSpec == PagingInit /\ [][PagingNext]_gvars

----------------------------------------------------------------------------
(* Correctness.                                                            *)

Door == [door : {k.door : k \in Keys}, field : {k.field : k \in Keys}]
Reader == [pc : {"idle", "keys", "merge", "done", "log", "found", "missing"},
           type : DOMAIN Types, page : 1..MaxListPages, sent : 0..(MaxListPages - 1),
           got : Seq(Keys), merged : Nat, doors : Seq(Door)]

\* Every variable has its type; in particular no more pages are asked for
\* than the limit, whatever the server answers.
PagingTypeOK ==
    /\ lists \in [TypesSet -> Seq(Keys)] /\ start \in [TypesSet -> Seq(Keys)]
    /\ server \in Servers /\ reader \in Reader
    /\ changes \in 0..MaxChanges /\ removed \in BOOLEAN

\* The server says how large its pages are, and the limit suffices.
Readable(list) ==
    /\ server.odd = "no size" => server.size = PerPage
    /\ Len(list) =< server.size * MaxListPages

\* No key that was there from beginning to end is missed, though keys are
\* added meanwhile and the server leaves out the total or the page number.
KeysComplete ==
    (reader.pc = "done" /\ ~removed) =>
        \A t \in TypesSet : Readable(lists[t]) =>
            \A i \in DOMAIN start[t] : Contains(reader.got, start[t][i])

\* A call that was in the log from beginning to end is found, though calls
\* come in meanwhile, unless the server leaves out the total.
FoundIfThere ==
    (reader.pc = "missing" /\ ~removed /\ Readable(lists[Types[1]]) /\ server.odd # "no total") =>
        ~Contains(start[Types[1]], reader.got[1])

\* The doors are those of the keys read, each once, in the order of their
\* first key, and with the field of its first key that has one.
DoorsOfKeys ==
    reader.pc = "done" =>
        LET doors == reader.doors
            At(d) == {i \in DOMAIN reader.got : reader.got[i].door = d}
            FirstOf(S) == CHOOSE i \in S : \A j \in S : i =< j
            Full(d) == {i \in At(d) : reader.got[i].field # 0}
        IN  /\ {doors[i].door : i \in DOMAIN doors} = {reader.got[i].door : i \in DOMAIN reader.got}
            /\ \A i, j \in DOMAIN doors :
                  i < j => FirstOf(At(doors[i].door)) < FirstOf(At(doors[j].door))
            /\ \A i \in DOMAIN doors :
                  doors[i].field = (IF Full(doors[i].door) = {} THEN 0
                                    ELSE reader.got[FirstOf(Full(doors[i].door))].field)

=============================================================================
