---------------------------- MODULE CallScreens ----------------------------
(***************************************************************************)
(* The call log screens of one user (telegram/calls.py, navigation.py):    *)
(* pages of all or of the missed calls, a call, and the way back.  The     *)
(* filter is not in the buttons: it is remembered per user, read when a    *)
(* page is requested and written again when the page has arrived.          *)
(*                                                                         *)
(* aiogram runs every tap as a task of its own, so two taps on one message *)
(* interleave at each await.  A step is what a handler does between two    *)
(* awaits; what a call or a door is named is left out.                     *)
(***************************************************************************)
EXTENDS Integers

CONSTANTS
    Handlers,    \* bound: taps being handled at the same time
    MaxPages,    \* bound: pages of the call log
    MaxMessages  \* bound: the menu message and the photos sent after it

ASSUME BoundsOK == MaxPages \in Nat \ {0} /\ MaxMessages \in Nat \ {0}

Messages == 1..MaxMessages
Menu == 1    \* the message with the home screen

View == [page : 0..MaxPages-1, missed : BOOLEAN]
FirstPage(missed) == [page |-> 0, missed |-> missed]

\* What a message shows.  view: of a list its page and filter, of an error the
\* page to try again, of a call (history) the list it was opened from.
Kinds == {"none", "home", "list", "error", "detail", "photo", "gone"}
Screen == [kind : Kinds, view : View, pages : 0..MaxPages]

\* back, from: history, whether "c:back" was tapped and the list to go back to.
PCs == {"idle", "ack", "load", "reload", "draw", "find", "delete"}
Task == [pc : PCs, msg : Messages, view : View, pages : 0..MaxPages,
         back : BOOLEAN, from : View]

VARIABLES
    pages,  \* pages of the server's log, of all and of the missed calls
    nav,    \* NavigationState: call_page and call_filter_missed
    shown,  \* per message, what the user sees
    task,   \* per handler
    calm    \* history: since the page was asked for, the handlers ran one at
            \* a time, none of them failed, and nav was not evicted

vars == <<pages, nav, shown, task, calm>>

Blank(kind) == [kind |-> kind, view |-> FirstPage(FALSE), pages |-> 0]
Idle == [pc |-> "idle", msg |-> Menu, view |-> FirstPage(FALSE), pages |-> 0,
         back |-> FALSE, from |-> FirstPage(FALSE)]

At(h, pc) == task[h].pc = pc
End(h) == task' = [task EXCEPT ![h] = Idle]

Init ==
    /\ pages \in {p \in [BOOLEAN -> 1..MaxPages] : p[TRUE] =< p[FALSE]}
    /\ nav = FirstPage(FALSE)
    /\ shown = [m \in Messages |-> Blank(IF m = Menu THEN "home" ELSE "none")]
    /\ task = [h \in Handlers |-> Idle]
    /\ calm = TRUE

----------------------------------------------------------------------------
(* Taps.                                                                   *)

Others(h) == \A g \in Handlers \ {h} : At(g, "idle")

Tap(h, m, pc, view, back) ==
    /\ At(h, "idle")
    /\ task' = [task EXCEPT ![h] = [pc |-> pc, msg |-> m, view |-> view, pages |-> 0,
                                    back |-> back, from |-> shown[m].view]]
    /\ UNCHANGED <<pages, shown>>

\* The pages the buttons of a screen ask for: c:p:<page>.
Offered(s) ==
    IF s.kind = "home" THEN {0}
    ELSE IF s.kind = "error" THEN {s.view.page}
    ELSE {p \in {s.view.page - 1, s.view.page + 1} : p >= 0 /\ p < s.pages}

PageTap(h, m) ==
    /\ shown[m].kind \in {"home", "list", "error"}
    /\ \E p \in Offered(shown[m]) : Tap(h, m, "ack", [page |-> p, missed |-> FALSE], FALSE)
    /\ calm' = Others(h)
    /\ UNCHANGED nav

\* c:f: the new filter is remembered before anything is awaited.
FilterTap(h, m) ==
    /\ shown[m].kind = "list"
    /\ nav' = FirstPage(~shown[m].view.missed)
    /\ Tap(h, m, "ack", FirstPage(FALSE), FALSE)
    /\ calm' = Others(h)

\* c:det
CallTap(h, m) ==
    /\ shown[m].kind = "list"
    /\ Tap(h, m, "find", shown[m].view, FALSE)
    /\ calm' = (calm /\ Others(h))
    /\ UNCHANGED nav

\* Mutant: the way back is the way home.
BackTapFirstPage(h, m) ==
    /\ shown[m].kind \in {"detail", "photo"}
    /\ Tap(h, m, "ack", FirstPage(FALSE), TRUE)
    /\ calm' = (calm /\ Others(h))
    /\ UNCHANGED nav

\* c:back: the remembered page is read before the tap is acknowledged.
BackTap(h, m) ==
    /\ shown[m].kind \in {"detail", "photo"}
    /\ Tap(h, m, "ack", nav, TRUE)
    /\ calm' = (calm /\ Others(h))
    /\ UNCHANGED nav

----------------------------------------------------------------------------
(* _render_call_list.                                                      *)

\* The filter is read when the tap has been acknowledged.
Acknowledged(h) ==
    /\ At(h, "ack")
    /\ task' = [task EXCEPT ![h].pc = "load", ![h].view.missed = nav.missed]
    /\ UNCHANGED <<pages, nav, shown, calm>>

Remember(h) ==
    /\ nav' = task[h].view
    /\ task' = [task EXCEPT ![h].pc = "draw", ![h].pages = pages[task[h].view.missed]]

\* Mutant: no page is too high.
LoadedAnyPage(h) ==
    /\ At(h, "load")
    /\ Remember(h)
    /\ UNCHANGED <<pages, shown, calm>>

\* The page has arrived, with the number of pages; beyond the last page the
\* last one is requested.
Loaded(h) ==
    /\ At(h, "load")
    /\ LET last == pages[task[h].view.missed] - 1
       IN  IF task[h].view.page > last
           THEN /\ task' = [task EXCEPT ![h].pc = "reload", ![h].view.page = last]
                /\ UNCHANGED nav
           ELSE Remember(h)
    /\ UNCHANGED <<pages, shown, calm>>

Reloaded(h) ==
    /\ At(h, "reload")
    /\ Remember(h)
    /\ UNCHANGED <<pages, shown, calm>>

\* edit_text: a photo has no text to edit, a deleted message nothing at all;
\* then Telegram refuses, and the error ends the handler.
Edit(h, screen) ==
    LET m == task[h].msg
    IN  /\ IF shown[m].kind \in {"photo", "gone"}
           THEN UNCHANGED shown /\ calm' = FALSE
           ELSE shown' = [shown EXCEPT ![m] = screen] /\ UNCHANGED calm
        /\ End(h)

LoadFails(h) ==
    /\ task[h].pc \in {"load", "reload"}
    /\ Edit(h, [kind |-> "error", view |-> task[h].view, pages |-> 0])
    /\ UNCHANGED <<pages, nav>>

\* The names of the doors are known, or not: the list is shown.
Draw(h) ==
    /\ At(h, "draw")
    /\ Edit(h, [kind |-> "list", view |-> task[h].view, pages |-> task[h].pages])
    /\ UNCHANGED <<pages, nav>>

----------------------------------------------------------------------------
(* callback_call_detail.                                                   *)

\* find_call_log goes through the pages until it has found the call or there
\* are none left; the screens differ only in what it finds.
Finding(h) == At(h, "find")

\* The call as text, or why there is none; either has the button back.
ShowText(h) ==
    /\ Finding(h)
    /\ Edit(h, [kind |-> "detail", view |-> task[h].view, pages |-> 0])
    /\ UNCHANGED <<pages, nav>>

\* A call with a photo is a new message; then the old one is deleted.
SendPhoto(h) ==
    /\ Finding(h)
    /\ \E n \in Messages :
        /\ shown[n].kind = "none"
        /\ shown' = [shown EXCEPT ![n] = [kind |-> "photo", view |-> task[h].view, pages |-> 0]]
    /\ task' = [task EXCEPT ![h].pc = "delete"]
    /\ UNCHANGED <<pages, nav, calm>>

\* A failed deletion is only logged.
DeleteOld(h) ==
    /\ At(h, "delete")
    /\ shown' = [shown EXCEPT ![task[h].msg] = Blank("gone")] \/ UNCHANGED shown
    /\ End(h)
    /\ UNCHANGED <<pages, nav, calm>>

\* Telegram refuses or does not answer: the handler raises.
Raises(h) ==
    /\ task[h].pc \in {"ack", "draw", "find"}
    /\ End(h)
    /\ calm' = FALSE
    /\ UNCHANGED <<pages, nav, shown>>

----------------------------------------------------------------------------
(* The world.                                                              *)

\* Calls are added to the log; every missed call is one of all calls.
LogGrows(missed) ==
    /\ pages[missed] < MaxPages
    /\ missed => pages[TRUE] < pages[FALSE]
    /\ pages' = [pages EXCEPT ![missed] = @ + 1]
    /\ UNCHANGED <<nav, shown, task, calm>>

\* Other users push this one out of NavigationStore, or the process restarts
\* while no tap is handled.
Forgotten ==
    /\ nav' = FirstPage(FALSE)
    /\ calm' = FALSE
    /\ UNCHANGED <<pages, shown, task>>

Handler(h) ==
    \/ \E m \in Messages : PageTap(h, m) \/ FilterTap(h, m) \/ CallTap(h, m) \/ BackTap(h, m)
    \/ Acknowledged(h) \/ Loaded(h) \/ Reloaded(h) \/ LoadFails(h) \/ Draw(h)
    \/ ShowText(h) \/ SendPhoto(h) \/ DeleteOld(h) \/ Raises(h)

Next ==
    \/ \E h \in Handlers : Handler(h)
    \/ \E missed \in BOOLEAN : LogGrows(missed)
    \/ Forgotten

Spec == Init /\ [][Next]_vars

----------------------------------------------------------------------------
(* Correctness.                                                            *)

\* Every variable has its type.
TypeOK ==
    /\ pages \in [BOOLEAN -> 1..MaxPages]
    /\ nav \in View
    /\ shown \in [Messages -> Screen]
    /\ task \in [Handlers -> Task]
    /\ calm \in BOOLEAN

\* The remembered page is a page of the remembered filter, and a list shows a
\* page its filter has: overlapping taps never combine the page of one filter
\* with the other one (calls.py:66 writes both, as they were requested).
PageExists ==
    /\ nav.page < pages[nav.missed]
    /\ \A m \in Messages :
        shown[m].kind = "list" =>
            LET s == shown[m]
            IN  s.view.page < s.pages /\ s.pages =< pages[s.view.missed]

\* README, Calls: "Opening a call and returning to the list preserves the
\* current page and filter".  The list about to be drawn over a call for c:back
\* is the one the call was opened from, whatever the log did meanwhile, if the
\* taps came one at a time.
ReturnPreserves ==
    \A h \in Handlers :
        At(h, "draw") /\ task[h].back /\ calm /\ shown[task[h].msg].kind = "detail"
            => task[h].view = task[h].from

\* The same promise, of the end of it: when the handler of c:back is done, and
\* no call to Telegram was lost, its message shows a list, or an error with
\* the button to try again.
BackReturns ==
    [][\A h \in Handlers :
        (Draw(h) \/ LoadFails(h)) /\ task[h].back =>
            shown'[task[h].msg].kind \in {"list", "error"}]_vars

=============================================================================
