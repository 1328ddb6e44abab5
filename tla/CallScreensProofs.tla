------------------------- MODULE CallScreensProofs -------------------------
(***************************************************************************)
(* Proofs about CallScreens: its types, that the remembered page and every *)
(* page shown exist in the log of their filter, and that going back leads  *)
(* to the list a call was opened from.                                     *)
(* About CallbackAlias: a button means its own id or nothing, and the most *)
(* recent ones work.  About Paging: what was there while a list was read   *)
(* has been read, and the doors are those of the keys that were read.      *)
(***************************************************************************)
EXTENDS CallScreens, Paging, CallbackAlias, SequenceTheorems, TLAPS

\* What every handler has of the view it works on: a page that was clamped or
\* counted is a page of the log, which only grows.
Clamped(h) == At(h, "reload") => task[h].view.page < pages[task[h].view.missed]
Counted(h) ==
    At(h, "draw") =>
        /\ task[h].view.page < task[h].pages
        /\ task[h].pages =< pages[task[h].view.missed]

IInv ==
    /\ TypeOK
    /\ PageExists
    /\ \A h \in Handlers : Clamped(h) /\ Counted(h)

----------------------------------------------------------------------------
(* Types.                                                                  *)

LEMMA Views ==
    /\ \A missed \in BOOLEAN : FirstPage(missed) \in View
    /\ Idle \in Task /\ Menu \in Messages
    /\ \A kind \in Kinds : Blank(kind) \in Screen
BY BoundsOK DEF FirstPage, View, Idle, Task, PCs, Menu, Messages, Blank, Screen, Kinds

\* The page a button asks for is a page number.
LEMMA OfferedPages ==
    ASSUME NEW s \in Screen, NEW p \in Offered(s) PROVE p \in 0..MaxPages-1
BY BoundsOK DEF Offered, Screen, View

\* A tap starts a typed task.
LEMMA TapTask ==
    ASSUME TypeOK, NEW h \in Handlers, NEW m \in Messages, NEW pc \in PCs,
           NEW view \in View, NEW back \in BOOLEAN, Tap(h, m, pc, view, back)
    PROVE  task' \in [Handlers -> Task]
<1> DEFINE t == [pc |-> pc, msg |-> m, view |-> view, pages |-> 0,
                 back |-> back, from |-> shown[m].view]
<1>1. shown[m].view \in View BY DEF TypeOK, Screen
<1>2. t \in Task BY <1>1, BoundsOK DEF Task
<1>3. task' = [task EXCEPT ![h] = t] BY DEF Tap
<1> QED BY <1>2, <1>3 DEF TypeOK

\* The end of a handler, with or without an edit.
LEMMA EndTask == ASSUME TypeOK, NEW h \in Handlers, End(h) PROVE task' \in [Handlers -> Task]
BY Views DEF TypeOK, End

LEMMA EditTypes ==
    ASSUME TypeOK, NEW h \in Handlers, NEW screen \in Screen, Edit(h, screen)
    PROVE  /\ task' \in [Handlers -> Task] /\ shown' \in [Messages -> Screen]
           /\ calm' \in BOOLEAN
<1>1. task' \in [Handlers -> Task] BY EndTask DEF Edit
<1>2. shown' \in [Messages -> Screen] BY DEF Edit, TypeOK
<1>3. calm' \in BOOLEAN BY DEF Edit, TypeOK
<1> QED BY <1>1, <1>2, <1>3

\* Others as a truth value.
LEMMA OthersTruth == ASSUME NEW h \in Handlers PROVE Others(h) \in BOOLEAN
BY DEF Others

LEMMA TypeInit == Init => TypeOK
<1> SUFFICES ASSUME Init PROVE TypeOK OBVIOUS
<1>1. pages \in [BOOLEAN -> 1..MaxPages] BY DEF Init
<1>2. nav \in View /\ task \in [Handlers -> Task] BY Views DEF Init
<1>3. shown \in [Messages -> Screen] BY Views DEF Init, Kinds
<1> QED BY <1>1, <1>2, <1>3 DEF Init, TypeOK

LEMMA TypeTap ==
    ASSUME TypeOK, NEW h \in Handlers, NEW m \in Messages,
           PageTap(h, m) \/ FilterTap(h, m) \/ CallTap(h, m) \/ BackTap(h, m)
    PROVE  TypeOK'
<1>1. shown[m] \in Screen /\ shown[m].view \in View /\ shown[m].view.missed \in BOOLEAN
    BY DEF TypeOK, Screen, View
<1>2. CASE PageTap(h, m)
    <2>1. PICK p \in Offered(shown[m]) : Tap(h, m, "ack", [page |-> p, missed |-> FALSE], FALSE)
        BY <1>2 DEF PageTap
    <2>2. [page |-> p, missed |-> FALSE] \in View BY <1>1, OfferedPages DEF View
    <2>3. task' \in [Handlers -> Task] BY <2>1, <2>2, TapTask DEF PCs
    <2> QED BY <1>2, <2>1, <2>3, OthersTruth DEF PageTap, Tap, TypeOK
<1>3. CASE FilterTap(h, m)
    <2>1. FirstPage(FALSE) \in View /\ nav' \in View BY <1>1, <1>3, Views DEF FilterTap
    <2>2. task' \in [Handlers -> Task] BY <1>3, <2>1, TapTask DEF FilterTap, PCs
    <2> QED BY <1>3, <2>1, <2>2, OthersTruth DEF FilterTap, Tap, TypeOK
<1>4. CASE CallTap(h, m)
    <2>1. task' \in [Handlers -> Task] BY <1>1, <1>4, TapTask DEF CallTap, PCs
    <2> QED BY <1>4, <2>1, OthersTruth DEF CallTap, Tap, TypeOK
<1>5. CASE BackTap(h, m)
    <2>1. nav \in View BY DEF TypeOK
    <2>2. task' \in [Handlers -> Task] BY <1>5, <2>1, TapTask DEF BackTap, PCs
    <2> QED BY <1>5, <2>2, OthersTruth DEF BackTap, Tap, TypeOK
<1> QED BY <1>2, <1>3, <1>4, <1>5

LEMMA TypeStep ==
    ASSUME TypeOK, NEW h \in Handlers,
           \/ Acknowledged(h) \/ Loaded(h) \/ Reloaded(h) \/ LoadFails(h) \/ Draw(h)
           \/ ShowText(h) \/ SendPhoto(h) \/ DeleteOld(h) \/ Raises(h)
    PROVE  TypeOK'
<1>1. /\ task[h] \in Task /\ task[h].view \in View /\ task[h].pages \in 0..MaxPages
      /\ task[h].view.missed \in BOOLEAN /\ task[h].view.page \in 0..MaxPages-1
    BY DEF TypeOK, Task, View
<1>2. pages[task[h].view.missed] \in 1..MaxPages BY <1>1 DEF TypeOK
<1>3. ASSUME Remember(h) PROVE nav' \in View /\ task' \in [Handlers -> Task]
    <2>1. PICK n \in 0..MaxPages : n = pages[task[h].view.missed] BY <1>2, BoundsOK
    <2>2. [task[h] EXCEPT !.pc = "draw", !.pages = n] \in Task BY <1>1 DEF Task, PCs
    <2> QED BY <1>1, <1>3, <2>1, <2>2 DEF Remember, TypeOK
<1>4. CASE Acknowledged(h)
    <2>1. [task[h].view EXCEPT !.missed = nav.missed] \in View BY <1>1 DEF TypeOK, View
    <2>2. [task[h] EXCEPT !.pc = "load", !.view = [task[h].view EXCEPT !.missed = nav.missed]] \in Task
        BY <1>1, <2>1 DEF Task, PCs
    <2>3. task' = [task EXCEPT ![h] = [task[h] EXCEPT !.pc = "load",
                       !.view = [task[h].view EXCEPT !.missed = nav.missed]]]
        BY <1>4 DEF Acknowledged
    <2> QED BY <1>4, <2>2, <2>3 DEF Acknowledged, TypeOK
<1>5. CASE Loaded(h)
    <2> DEFINE last == pages[task[h].view.missed] - 1
               t == [task[h] EXCEPT !.pc = "reload", !.view = [task[h].view EXCEPT !.page = last]]
    <2>1. CASE Remember(h) BY <1>3, <1>5, <2>1 DEF Loaded, TypeOK
    <2>2. CASE task' = [task EXCEPT ![h].pc = "reload", ![h].view.page = last] /\ UNCHANGED nav
        <3>1. [task[h].view EXCEPT !.page = last] \in View BY <1>1, <1>2, BoundsOK DEF View
        <3>2. t \in Task BY <1>1, <3>1 DEF Task, PCs
        <3>3. task' = [task EXCEPT ![h] = t] BY <2>2
        <3> QED BY <1>5, <2>2, <3>2, <3>3 DEF Loaded, TypeOK
    <2> QED BY <1>5, <2>1, <2>2 DEF Loaded
<1>6. CASE Reloaded(h) BY <1>3, <1>6 DEF Reloaded, TypeOK
<1>7. CASE LoadFails(h)
    <2>1. [kind |-> "error", view |-> task[h].view, pages |-> 0] \in Screen
        BY <1>1, BoundsOK DEF Screen, Kinds
    <2> QED BY <1>7, <2>1, EditTypes DEF LoadFails, TypeOK
<1>8. CASE Draw(h)
    <2>1. [kind |-> "list", view |-> task[h].view, pages |-> task[h].pages] \in Screen
        BY <1>1 DEF Screen, Kinds
    <2> QED BY <1>8, <2>1, EditTypes DEF Draw, TypeOK
<1>9. CASE ShowText(h)
    <2>1. [kind |-> "detail", view |-> task[h].view, pages |-> 0] \in Screen
        BY <1>1, BoundsOK DEF Screen, Kinds
    <2> QED BY <1>9, <2>1, EditTypes DEF ShowText, TypeOK, Finding, At
<1>10. CASE SendPhoto(h)
    <2>1. [kind |-> "photo", view |-> task[h].view, pages |-> 0] \in Screen
        BY <1>1, BoundsOK DEF Screen, Kinds
    <2>2. shown' \in [Messages -> Screen] BY <1>10, <2>1 DEF SendPhoto, TypeOK, Finding, At
    <2>3. [task[h] EXCEPT !.pc = "delete"] \in Task BY <1>1 DEF Task, PCs
    <2> QED BY <1>10, <2>2, <2>3 DEF SendPhoto, TypeOK, Finding, At
<1>11. CASE DeleteOld(h)
    <2>1. shown' \in [Messages -> Screen] BY <1>11, Views DEF DeleteOld, Kinds, TypeOK
    <2> QED BY <1>11, <2>1, EndTask DEF DeleteOld, TypeOK
<1>12. CASE Raises(h) BY <1>12, EndTask DEF Raises, TypeOK
<1> QED BY <1>4, <1>5, <1>6, <1>7, <1>8, <1>9, <1>10, <1>11, <1>12

LEMMA TypeNext == ASSUME TypeOK, [Next]_vars PROVE TypeOK'
<1>1. ASSUME NEW h \in Handlers, Handler(h) PROVE TypeOK'
    BY <1>1, TypeTap, TypeStep DEF Handler
<1>2. ASSUME NEW missed \in BOOLEAN, LogGrows(missed) PROVE TypeOK'
    <2>1. pages[missed] \in 1..MaxPages /\ pages[FALSE] \in 1..MaxPages BY DEF TypeOK
    <2>2. pages' \in [BOOLEAN -> 1..MaxPages] BY <1>2, <2>1, BoundsOK DEF LogGrows, TypeOK
    <2> QED BY <1>2, <2>2 DEF LogGrows, TypeOK
<1>3. CASE Forgotten BY <1>3, Views DEF Forgotten, TypeOK
<1>4. CASE UNCHANGED vars BY <1>4 DEF vars, TypeOK
<1> QED BY <1>1, <1>2, <1>3, <1>4 DEF Next

\* Type correctness, for any number of handlers, pages and messages.
THEOREM TypeCorrect == Spec => []TypeOK
BY TypeInit, TypeNext, PTL DEF Spec

----------------------------------------------------------------------------
(* The pages that are remembered, worked on and shown.                     *)

\* What PageExists asks of one message, and how it survives a longer log.
Shows(s) == s.kind = "list" => s.view.page < s.pages /\ s.pages =< pages[s.view.missed]

\* Every log has a first page.
LEMMA FirstPageExists ==
    ASSUME NEW n \in [BOOLEAN -> 1..MaxPages], NEW missed \in BOOLEAN
    PROVE  FirstPage(missed).page < n[FirstPage(missed).missed]
<1>1. FirstPage(missed).page = 0 BY DEF FirstPage
<1>2. FirstPage(missed).missed = missed BY Zenon DEF FirstPage
<1>3. n[missed] \in 1..MaxPages OBVIOUS
<1>4. 0 < n[missed] BY <1>3, BoundsOK
<1> QED BY <1>1, <1>2, <1>4

LEMMA IInvInit == Init => IInv
<1> SUFFICES ASSUME Init PROVE IInv OBVIOUS
<1>1. TypeOK BY TypeInit
<1>2. nav.page < pages[nav.missed]
    BY <1>1, FirstPageExists DEF Init, TypeOK
<1>3. \A m \in Messages : shown[m].kind # "list" BY DEF Init, Blank
<1>4. \A h \in Handlers : Clamped(h) /\ Counted(h) BY DEF Init, Idle, Clamped, Counted, At
<1> QED BY <1>1, <1>2, <1>3, <1>4 DEF IInv, PageExists

\* A step of one handler that leaves the log alone and the other tasks.
LEMMA HandlerKeeps ==
    ASSUME IInv, TypeOK', NEW h \in Handlers, UNCHANGED pages,
           \A g \in Handlers \ {h} : task'[g] = task[g],
           Clamped(h)', Counted(h)',
           nav'.page < pages[nav'.missed],
           \A m \in Messages : Shows(shown[m])'
    PROVE  IInv'
<1>1. ASSUME NEW g \in Handlers PROVE Clamped(g)' /\ Counted(g)'
    BY DEF IInv, Clamped, Counted, At
<1>2. PageExists' BY DEF PageExists, Shows
<1> QED BY <1>1, <1>2 DEF IInv

\* A tap begins a task that has counted nothing, and shows nothing new.
LEMMA PageTaps ==
    ASSUME IInv, TypeOK', NEW h \in Handlers, NEW m \in Messages,
           PageTap(h, m) \/ FilterTap(h, m) \/ CallTap(h, m) \/ BackTap(h, m)
    PROVE  IInv'
<1>0. PICK pc \in {"ack", "find"} : \E view, back : Tap(h, m, pc, view, back)
    BY DEF PageTap, FilterTap, CallTap, BackTap
<1>1. PICK view, back : Tap(h, m, pc, view, back) BY <1>0
<1>2. /\ UNCHANGED <<pages, shown>> /\ task'[h].pc = pc
      /\ \A g \in Handlers \ {h} : task'[g] = task[g]
    BY <1>1 DEF Tap, IInv, TypeOK
<1>3. Clamped(h)' /\ Counted(h)' BY <1>2 DEF Clamped, Counted, At
<1>4. nav'.page < pages[nav'.missed]
    <2>1. CASE FilterTap(h, m)
        <3>1. nav'.page = 0 BY <2>1 DEF FilterTap, FirstPage
        <3>2. nav'.missed \in BOOLEAN BY DEF TypeOK, View
        <3>3. pages[nav'.missed] \in 1..MaxPages BY <3>2 DEF IInv, TypeOK
        <3> QED BY <3>1, <3>3, BoundsOK
    <2>2. CASE nav' = nav BY <2>2 DEF IInv, PageExists
    <2> QED BY <2>1, <2>2 DEF PageTap, CallTap, BackTap
<1>5. \A n \in Messages : Shows(shown[n])' BY <1>2 DEF IInv, PageExists, Shows
<1> QED BY <1>2, <1>3, <1>4, <1>5, HandlerKeeps

\* The end of a handler with an edit: only a list has to exist.
LEMMA PageEdits ==
    ASSUME IInv, TypeOK', NEW h \in Handlers, NEW screen, Edit(h, screen),
           UNCHANGED <<pages, nav>>, Shows(screen)
    PROVE  IInv'
<1>1. task'[h] = Idle /\ \A g \in Handlers \ {h} : task'[g] = task[g]
    BY DEF Edit, End, IInv, TypeOK
<1>2. Clamped(h)' /\ Counted(h)' BY <1>1 DEF Clamped, Counted, At, Idle
<1>3. \A m \in Messages : shown'[m] = shown[m] \/ shown'[m] = screen
    BY DEF Edit, IInv, TypeOK
<1>4. \A m \in Messages : Shows(shown[m])' BY <1>3 DEF IInv, PageExists, Shows
<1> QED BY <1>1, <1>2, <1>4, HandlerKeeps DEF IInv, PageExists

LEMMA PageSteps ==
    ASSUME IInv, TypeOK', NEW h \in Handlers,
           \/ Acknowledged(h) \/ Loaded(h) \/ Reloaded(h) \/ LoadFails(h) \/ Draw(h)
           \/ ShowText(h) \/ SendPhoto(h) \/ DeleteOld(h) \/ Raises(h)
    PROVE  IInv'
<1>1. /\ task[h] \in Task /\ task[h].view \in View
      /\ task[h].view.missed \in BOOLEAN /\ task[h].view.page \in 0..MaxPages-1
    BY DEF IInv, TypeOK, Task, View
<1>2. PICK n \in 1..MaxPages : n = pages[task[h].view.missed] BY <1>1 DEF IInv, TypeOK
<1>3. task \in [Handlers -> Task] /\ Clamped(h) /\ Counted(h) BY DEF IInv, TypeOK
<1>4. nav.page < pages[nav.missed] /\ \A m \in Messages : Shows(shown[m])
    BY DEF IInv, PageExists, Shows
<1>5. CASE Acknowledged(h)
    <2>1. task'[h].pc = "load" /\ \A g \in Handlers \ {h} : task'[g] = task[g]
        BY <1>3, <1>5 DEF Acknowledged
    <2>2. Clamped(h)' /\ Counted(h)' BY <2>1 DEF Clamped, Counted, At
    <2> QED BY <1>4, <1>5, <2>1, <2>2, HandlerKeeps DEF Acknowledged, Shows
<1>6. ASSUME Remember(h), UNCHANGED <<pages, shown>>, task[h].view.page < n PROVE IInv'
    <2>1. /\ task'[h].pc = "draw" /\ task'[h].pages = n /\ task'[h].view = task[h].view
          /\ \A g \in Handlers \ {h} : task'[g] = task[g]
        BY <1>2, <1>3, <1>6 DEF Remember, Task
    <2>2. Clamped(h)' /\ Counted(h)' BY <1>2, <1>6, <2>1 DEF Clamped, Counted, At
    <2>3. nav' = task[h].view BY <1>6 DEF Remember
    <2> QED BY <1>2, <1>4, <1>6, <2>1, <2>2, <2>3, HandlerKeeps DEF Shows
<1>7. CASE Loaded(h)
    <2>1. CASE task[h].view.page > n - 1
        <3>1. /\ task' = [task EXCEPT ![h].pc = "reload", ![h].view.page = n - 1]
              /\ UNCHANGED <<nav, pages, shown>>
            BY <1>2, <1>7, <2>1 DEF Loaded
        <3>2. /\ task'[h].pc = "reload" /\ task'[h].view.page = n - 1
              /\ task'[h].view.missed = task[h].view.missed
              /\ \A g \in Handlers \ {h} : task'[g] = task[g]
            BY <1>1, <1>3, <3>1 DEF Task, View
        <3>3. Clamped(h)' /\ Counted(h)' BY <1>2, <3>1, <3>2 DEF Clamped, Counted, At
        <3> QED BY <1>4, <3>1, <3>2, <3>3, HandlerKeeps DEF Shows
    <2>2. CASE task[h].view.page < n
        <3>1. Remember(h) /\ UNCHANGED <<pages, shown>> BY <1>1, <1>2, <1>7, <2>2 DEF Loaded
        <3> QED BY <1>6, <2>2, <3>1
    <2> QED BY <1>1, <1>2, <2>1, <2>2
<1>8. CASE Reloaded(h)
    <2>1. task[h].view.page < n BY <1>2, <1>3, <1>8 DEF Reloaded, Clamped
    <2> QED BY <1>6, <1>8, <2>1 DEF Reloaded
<1>9. CASE LoadFails(h) BY <1>9, PageEdits DEF LoadFails, Shows
<1>10. CASE Draw(h)
    <2> DEFINE s == [kind |-> "list", view |-> task[h].view, pages |-> task[h].pages]
    <2>1. Shows(s) BY <1>3, <1>10 DEF Draw, Counted, Shows
    <2>2. Edit(h, s) /\ UNCHANGED <<pages, nav>> BY <1>10 DEF Draw
    <2> HIDE DEF s
    <2> QED BY <2>1, <2>2, PageEdits
<1>11. CASE ShowText(h) BY <1>11, PageEdits DEF ShowText, Shows, Finding, At
<1>12. CASE SendPhoto(h) \/ DeleteOld(h) \/ Raises(h)
    <2>1. task'[h].pc \in {"delete", "idle"} /\ \A g \in Handlers \ {h} : task'[g] = task[g]
        <3>1. CASE SendPhoto(h) BY <1>3, <3>1 DEF SendPhoto, Finding, At
        <3>2. CASE End(h) BY <1>3, <3>2 DEF End, Idle
        <3> QED BY <1>12, <3>1, <3>2 DEF DeleteOld, Raises
    <2>2. Clamped(h)' /\ Counted(h)' BY <2>1 DEF Clamped, Counted, At
    <2>3. \A m \in Messages : shown'[m] = shown[m] \/ shown'[m].kind # "list"
        BY <1>12 DEF SendPhoto, DeleteOld, Raises, Blank, IInv, TypeOK
    <2>4. UNCHANGED <<pages, nav>> BY <1>12 DEF SendPhoto, DeleteOld, Raises
    <2> QED BY <1>4, <2>1, <2>2, <2>3, <2>4, HandlerKeeps DEF Shows
<1> QED BY <1>5, <1>7, <1>8, <1>9, <1>10, <1>11, <1>12

LEMMA IInvNext == ASSUME IInv, [Next]_vars PROVE IInv'
<1>1. TypeOK' BY TypeNext DEF IInv
<1>2. ASSUME NEW h \in Handlers, Handler(h) PROVE IInv'
    BY <1>1, <1>2, PageTaps, PageSteps DEF Handler
<1>3. ASSUME NEW missed \in BOOLEAN, LogGrows(missed) PROVE IInv'
    <2>1. \A b \in BOOLEAN : /\ pages[b] \in 1..MaxPages /\ pages'[b] \in 1..MaxPages
                             /\ pages[b] =< pages'[b]
        BY <1>1, <1>3 DEF LogGrows, IInv, TypeOK
    <2>2. \A v \in View : v.missed \in BOOLEAN /\ v.page \in 0..MaxPages-1 BY DEF View
    <2>3. nav \in View /\ UNCHANGED <<nav, shown, task>> BY <1>3 DEF LogGrows, IInv, TypeOK
    <2>4. \A m \in Messages : shown[m].view \in View /\ shown[m].pages \in 0..MaxPages
        BY DEF IInv, TypeOK, Screen
    <2>5. \A h \in Handlers : task[h].view \in View /\ task[h].pages \in 0..MaxPages
        BY DEF IInv, TypeOK, Task
    <2>6. PageExists'
        <3>1. nav'.page < pages'[nav'.missed]
            BY <2>1, <2>2, <2>3, BoundsOK DEF IInv, PageExists
        <3>2. ASSUME NEW m \in Messages, shown'[m].kind = "list"
              PROVE  shown'[m].view.page < shown'[m].pages
                     /\ shown'[m].pages =< pages'[shown'[m].view.missed]
            BY <2>1, <2>2, <2>3, <2>4, <3>2, BoundsOK DEF IInv, PageExists
        <3> QED BY <3>1, <3>2 DEF PageExists
    <2>7. ASSUME NEW h \in Handlers PROVE Clamped(h)' /\ Counted(h)'
        BY <2>1, <2>2, <2>3, <2>5, BoundsOK DEF IInv, Clamped, Counted, At
    <2> QED BY <1>1, <2>6, <2>7 DEF IInv
<1>4. CASE Forgotten
    <2>1. nav' = FirstPage(FALSE) /\ UNCHANGED <<pages, shown, task>> BY <1>4 DEF Forgotten
    <2>2. nav'.page < pages'[nav'.missed] BY <2>1, FirstPageExists DEF IInv, TypeOK
    <2> QED BY <1>1, <2>1, <2>2 DEF IInv, PageExists, Clamped, Counted, At
<1>5. CASE UNCHANGED vars
    BY <1>1, <1>5 DEF vars, IInv, PageExists, Clamped, Counted, At
<1> QED BY <1>2, <1>3, <1>4, <1>5 DEF Next

\* The remembered page, and every page a list shows, is a page its filter has,
\* for any number of overlapping taps, pages and messages.
THEOREM ShownPagesExist == Spec => []PageExists
<1>1. Init => IInv BY IInvInit
<1>2. IInv /\ [Next]_vars => IInv' BY IInvNext
<1>3. IInv => PageExists BY DEF IInv
<1> QED BY <1>1, <1>2, <1>3, PTL DEF Spec

----------------------------------------------------------------------------
(* The way back.  While the taps come one at a time, the remembered view   *)
(* is that of the list or call the menu shows, unless a page asked for by  *)
(* a button other than "back" is on its way; and that page replaces it.    *)

\* Lists and calls as text are only ever on the menu message: the other ones
\* are photos, which nothing can edit.
MenuOnly ==
    /\ shown[Menu].kind # "none"
    /\ \A m \in Messages \ {Menu} : shown[m].kind \in {"none", "photo", "gone"}
    /\ \A h \in Handlers : ~At(h, "idle") => shown[task[h].msg].kind # "none"

\* What a handler works on, when it works alone.
Way(h) ==
    /\ task[h].back /\ At(h, "ack") => task[h].view.page = nav.page
    /\ task[h].back /\ At(h, "load") => task[h].view = nav
    /\ task[h].back => task[h].pc \notin {"reload", "find"}
    /\ task[h].pc \in {"draw", "find"} => task[h].view = nav
    /\ task[h].back /\ ~At(h, "idle") /\ shown[task[h].msg].kind = "detail"
           => task[h].from = nav

\* Another page of the list is on its way.
Turning(h) == ~task[h].back /\ task[h].pc \in {"ack", "load", "reload", "draw"}

MenuAt(view) == shown[Menu].kind \in {"list", "detail"} => shown[Menu].view = view
MenuShows == (\A h \in Handlers : ~Turning(h)) => MenuAt(nav)

Alone == \A h \in Handlers : At(h, "idle") \/ Others(h)

Orderly == Alone /\ MenuShows /\ \A h \in Handlers : Way(h)

ReturnInv == MenuOnly /\ (calm => Orderly)

\* A handler that works alone: enough to look at what it does.
LEMMA OneOrderly ==
    ASSUME NEW h \in Handlers, Others(h),
           \A g \in Handlers \ {h} : task'[g] = task[g],
           Way(h)', ~Turning(h)' => MenuAt(nav)'
    PROVE  Orderly'
<1>1. \A g \in Handlers \ {h} : task'[g].pc = "idle" BY DEF Others, At
<1>2. Alone' BY <1>1 DEF Alone, Others, At
<1>3. \A g \in Handlers : Way(g)' BY <1>1 DEF Way, At
<1>4. MenuShows' BY DEF MenuShows
<1> QED BY <1>2, <1>3, <1>4 DEF Orderly

\* Before its step: the others are idle, and the menu shows what is remembered
\* unless this handler is about to change that.
LEMMA WorksAlone ==
    ASSUME Orderly, NEW h \in Handlers, ~At(h, "idle")
    PROVE  Others(h) /\ Way(h) /\ (~Turning(h) => MenuAt(nav))
<1>1. Others(h) BY DEF Orderly, Alone
<1>2. \A g \in Handlers \ {h} : ~Turning(g) BY <1>1 DEF Others, At, Turning
<1> QED BY <1>1, <1>2 DEF Orderly, MenuShows

\* A message that can be edited, and was there to be tapped, is the menu.
LEMMA EditsMenu ==
    ASSUME TypeOK, MenuOnly, NEW h \in Handlers, ~At(h, "idle"),
           shown[task[h].msg].kind \notin {"photo", "gone"}
    PROVE  task[h].msg = Menu
<1>1. task[h].msg \in Messages BY DEF TypeOK, Task
<1> QED BY <1>1 DEF MenuOnly

LEMMA MenuTap ==
    ASSUME TypeOK, ReturnInv, NEW h \in Handlers, NEW m \in Messages,
           PageTap(h, m) \/ FilterTap(h, m) \/ CallTap(h, m) \/ BackTap(h, m)
    PROVE  ReturnInv'
<1>1. shown[m].kind \in {"home", "list", "error", "detail", "photo"}
    BY DEF PageTap, FilterTap, CallTap, BackTap
<1> DEFINE Starts(pc, view, back) ==
        /\ Tap(h, m, pc, view, back)
        /\ back => /\ pc = "ack" /\ view = nav /\ nav' = nav /\ (calm' => calm)
                   /\ shown[m].kind \in {"detail", "photo"}
        /\ pc = "find" => /\ view = shown[m].view /\ nav' = nav /\ (calm' => calm)
                          /\ shown[m].kind = "list"
        /\ calm' => Others(h)
<1>2. PICK view : \E pc \in {"ack", "find"}, back \in BOOLEAN : Starts(pc, view, back)
    <2>1. ASSUME PageTap(h, m) PROVE \E view : Starts("ack", view, FALSE)
        BY <2>1 DEF PageTap
    <2>2. FilterTap(h, m) => Starts("ack", FirstPage(FALSE), FALSE)
        BY DEF FilterTap
    <2>3. CallTap(h, m) => Starts("find", shown[m].view, FALSE)
        BY DEF CallTap
    <2>4. BackTap(h, m) => Starts("ack", nav, TRUE)
        BY DEF BackTap
    <2> HIDE DEF Starts
    <2> QED BY <2>1, <2>2, <2>3, <2>4
<1>3. PICK pc \in {"ack", "find"}, back \in BOOLEAN : Starts(pc, view, back) BY <1>2
<1> DEFINE t == [pc |-> pc, msg |-> m, view |-> view, pages |-> 0, back |-> back,
                 from |-> shown[m].view]
<1>4. /\ At(h, "idle") /\ shown' = shown /\ task'[h] = t
      /\ \A g \in Handlers \ {h} : task'[g] = task[g]
    BY <1>3 DEF Tap, TypeOK
<1>5. /\ task'[h].pc = pc /\ task'[h].msg = m /\ task'[h].view = view
      /\ task'[h].back = back /\ task'[h].from = shown[m].view
    BY <1>4
<1> HIDE DEF t
<1>6. MenuOnly'
    BY <1>1, <1>4, <1>5 DEF ReturnInv, MenuOnly, At
<1>7. ASSUME calm' PROVE Orderly'
    <2>1. Others(h) BY <1>3, <1>7
    <2>2. ASSUME calm, nav' = nav PROVE MenuAt(nav) /\ MenuAt(nav)'
        <3>1. \A g \in Handlers : ~Turning(g) BY <1>4, <2>1 DEF Others, At, Turning
        <3> QED BY <1>4, <2>2, <3>1 DEF ReturnInv, Orderly, MenuShows, MenuAt
    <2>3. shown[m].kind \in {"list", "detail"} => m = Menu
        BY DEF ReturnInv, MenuOnly
    <2>4. CASE back
        <3>1. calm /\ nav' = nav /\ pc = "ack" /\ view = nav BY <1>3, <1>7, <2>4
        <3>2. Way(h)'
            BY <1>4, <1>5, <2>2, <2>3, <3>1 DEF Way, At, MenuAt
        <3> QED BY <1>4, <2>1, <2>2, <3>1, <3>2, OneOrderly
    <2>5. CASE ~back /\ pc = "find"
        <3>1. calm /\ nav' = nav /\ shown[m].kind = "list" /\ view = shown[m].view
            BY <1>3, <1>7, <2>5
        <3>2. Way(h)'
            BY <1>5, <2>2, <2>3, <2>5, <3>1 DEF Way, At, MenuAt
        <3> QED BY <1>4, <2>1, <2>2, <3>1, <3>2, OneOrderly
    <2>6. CASE ~back /\ pc = "ack"
        <3>1. Way(h)' /\ Turning(h)' BY <1>5, <2>6 DEF Way, At, Turning
        <3> QED BY <1>4, <2>1, <3>1, OneOrderly
    <2> QED BY <2>4, <2>5, <2>6
<1> QED BY <1>6, <1>7 DEF ReturnInv

\* A handler shows a list, an error or a call, and is done.
LEMMA MenuEdits ==
    ASSUME TypeOK, ReturnInv, NEW h \in Handlers, ~At(h, "idle"), NEW screen,
           screen.kind \in {"list", "error", "detail"}, Edit(h, screen), nav' = nav,
           calm => screen.kind = "error" \/ screen.view = nav
    PROVE  ReturnInv'
<1>1. task'[h] = Idle /\ \A g \in Handlers \ {h} : task'[g] = task[g]
    BY DEF Edit, End, TypeOK
<1>2. CASE shown[task[h].msg].kind \in {"photo", "gone"}
    <2>1. shown' = shown /\ calm' = FALSE BY <1>2 DEF Edit
    <2> QED BY <1>1, <2>1 DEF ReturnInv, MenuOnly, At, Idle
<1>3. CASE shown[task[h].msg].kind \notin {"photo", "gone"}
    <2>1. task[h].msg = Menu BY <1>3, EditsMenu DEF ReturnInv
    <2>2. shown' = [shown EXCEPT ![Menu] = screen] /\ calm' = calm
        BY <1>3, <2>1 DEF Edit
    <2>3. /\ shown'[Menu] = screen
          /\ \A m \in Messages \ {Menu} : shown'[m] = shown[m]
        BY <2>2, Views DEF TypeOK
    <2>4. MenuOnly'
        <3>1. ASSUME NEW g \in Handlers, ~At(g, "idle")' PROVE shown'[task'[g].msg].kind # "none"
            <4>1. task'[g] = task[g] /\ ~At(g, "idle") BY <1>1, <3>1 DEF At, Idle
            <4>2. task[g].msg \in Messages BY DEF TypeOK, Task
            <4> QED BY <2>3, <4>1, <4>2 DEF ReturnInv, MenuOnly
        <3> QED BY <2>3, <3>1 DEF ReturnInv, MenuOnly
    <2>5. ASSUME calm PROVE Orderly'
        <3>1. Others(h) BY <2>5, WorksAlone DEF ReturnInv
        <3>2. Way(h)' BY <1>1 DEF Way, At, Idle
        <3>3. MenuAt(nav)' BY <2>3, <2>5 DEF MenuAt
        <3> QED BY <1>1, <3>1, <3>2, <3>3, OneOrderly
    <2> QED BY <2>2, <2>4, <2>5 DEF ReturnInv
<1> QED BY <1>2, <1>3

\* A handler goes on without showing anything.
LEMMA MenuWaits ==
    ASSUME TypeOK, ReturnInv, NEW h \in Handlers, ~At(h, "idle"),
           UNCHANGED <<shown, calm>>,
           \A g \in Handlers \ {h} : task'[g] = task[g],
           task'[h].msg = task[h].msg,
           calm => Way(h)' /\ (~Turning(h)' => ~Turning(h) /\ nav' = nav)
    PROVE  ReturnInv'
<1>1. MenuOnly' BY DEF ReturnInv, MenuOnly, At
<1>2. ASSUME calm PROVE Orderly'
    <2>1. Others(h) /\ (~Turning(h) => MenuAt(nav)) BY <1>2, WorksAlone DEF ReturnInv
    <2>2. ~Turning(h)' => MenuAt(nav)' BY <1>2, <2>1 DEF MenuAt
    <2> QED BY <1>2, <2>1, <2>2, OneOrderly
<1> QED BY <1>1, <1>2 DEF ReturnInv

LEMMA MenuRenders ==
    ASSUME TypeOK, IInv, ReturnInv, NEW h \in Handlers,
           Acknowledged(h) \/ Loaded(h) \/ Reloaded(h)
    PROVE  ReturnInv'
<1>1. /\ task \in [Handlers -> Task] /\ task[h] \in Task
      /\ task[h].view = [page |-> task[h].view.page, missed |-> task[h].view.missed]
      /\ nav = [page |-> nav.page, missed |-> nav.missed]
      /\ nav.missed \in BOOLEAN /\ nav.page \in 0..MaxPages-1
    BY DEF TypeOK, Task, View
<1>2. ~At(h, "idle") /\ UNCHANGED <<shown, calm>>
    BY DEF Acknowledged, Loaded, Reloaded, At
<1>3. calm => Way(h) BY <1>2, WorksAlone DEF ReturnInv
<1>4. CASE Acknowledged(h)
    <2>1. /\ task'[h].pc = "load" /\ task'[h].msg = task[h].msg
          /\ task'[h].back = task[h].back /\ task'[h].from = task[h].from
          /\ task'[h].view = [page |-> task[h].view.page, missed |-> nav.missed]
          /\ \A g \in Handlers \ {h} : task'[g] = task[g]
          /\ nav' = nav /\ task[h].pc = "ack"
        BY <1>1, <1>4 DEF Acknowledged, Task, At
    <2>2. ASSUME calm PROVE Way(h)' /\ (~Turning(h)' => ~Turning(h) /\ nav' = nav)
        BY <1>1, <1>2, <1>3, <2>1, <2>2 DEF Way, At, Turning
    <2> QED BY <1>2, <2>1, <2>2, MenuWaits
<1>5. ASSUME Remember(h), task[h].pc \in {"load", "reload"} PROVE ReturnInv'
    <2>1. /\ task'[h].pc = "draw" /\ task'[h].msg = task[h].msg
          /\ task'[h].back = task[h].back /\ task'[h].from = task[h].from
          /\ task'[h].view = task[h].view
          /\ \A g \in Handlers \ {h} : task'[g] = task[g]
          /\ nav' = task[h].view
        BY <1>1, <1>5 DEF Remember, Task
    <2>2. ASSUME calm PROVE Way(h)' /\ (~Turning(h)' => ~Turning(h) /\ nav' = nav)
        <3>1. task[h].back => task[h].view = nav
            BY <1>3, <1>5, <2>2 DEF Way, At
        <3> QED BY <1>2, <1>3, <1>5, <2>1, <2>2, <3>1 DEF Way, At, Turning
    <2> QED BY <1>2, <2>1, <2>2, MenuWaits
<1>6. CASE Loaded(h) /\ ~Remember(h)
    <2> DEFINE last == pages[task[h].view.missed] - 1
    <2>1. /\ task[h].view.page > last /\ nav' = nav /\ task[h].pc = "load"
          /\ task' = [task EXCEPT ![h].pc = "reload", ![h].view.page = last]
        BY <1>6 DEF Loaded, At
    <2>2. /\ task'[h].pc = "reload" /\ task'[h].msg = task[h].msg
          /\ task'[h].back = task[h].back
          /\ \A g \in Handlers \ {h} : task'[g] = task[g]
        BY <1>1, <2>1 DEF Task
    <2>3. ASSUME calm PROVE Way(h)' /\ (~Turning(h)' => ~Turning(h) /\ nav' = nav)
        <3>1. ~task[h].back
            <4> SUFFICES ASSUME task[h].back PROVE FALSE OBVIOUS
            <4>1. task[h].view = nav BY <1>3, <2>1, <2>3 DEF Way, At
            <4>2. nav.page < pages[nav.missed] BY DEF IInv, PageExists
            <4>3. pages[nav.missed] \in 1..MaxPages BY <1>1 DEF TypeOK
            <4> QED BY <1>1, <2>1, <4>1, <4>2, <4>3
        <3> QED BY <2>2, <3>1 DEF Way, At, Turning
    <2> QED BY <1>2, <2>2, <2>3, MenuWaits
<1> QED BY <1>4, <1>5, <1>6 DEF Reloaded, Loaded, At

LEMMA MenuStep ==
    ASSUME TypeOK, IInv, ReturnInv, NEW h \in Handlers,
           \/ LoadFails(h) \/ Draw(h) \/ ShowText(h)
           \/ SendPhoto(h) \/ DeleteOld(h) \/ Raises(h)
    PROVE  ReturnInv'
<1>1. ~At(h, "idle") /\ nav' = nav
    BY DEF LoadFails, Draw, ShowText, Finding, SendPhoto, DeleteOld, Raises, At
<1>2. calm => Others(h) /\ Way(h) /\ (~Turning(h) => MenuAt(nav))
    BY <1>1, WorksAlone DEF ReturnInv
<1>3. task \in [Handlers -> Task] /\ task[h] \in Task /\ task[h].msg \in Messages
    BY DEF TypeOK, Task
<1>4. CASE LoadFails(h)
    <2> DEFINE s == [kind |-> "error", view |-> task[h].view, pages |-> 0]
    <2>1. s.kind = "error" /\ Edit(h, s) BY <1>4 DEF LoadFails
    <2> HIDE DEF s
    <2> QED BY <1>1, <2>1, MenuEdits
<1>5. CASE Draw(h)
    <2> DEFINE s == [kind |-> "list", view |-> task[h].view, pages |-> task[h].pages]
    <2>1. s.kind = "list" /\ s.view = task[h].view /\ Edit(h, s) BY <1>5 DEF Draw
    <2>2. calm => task[h].view = nav BY <1>2, <1>5 DEF Draw, Way, At
    <2> HIDE DEF s
    <2> QED BY <1>1, <2>1, <2>2, MenuEdits
<1>6. CASE ShowText(h)
    <2> DEFINE s == [kind |-> "detail", view |-> task[h].view, pages |-> 0]
    <2>1. s.kind = "detail" /\ s.view = task[h].view /\ Edit(h, s) BY <1>6 DEF ShowText
    <2>2. calm => task[h].view = nav BY <1>2, <1>6 DEF ShowText, Finding, Way, At
    <2> HIDE DEF s
    <2> QED BY <1>1, <2>1, <2>2, MenuEdits
<1>7. CASE SendPhoto(h)
    <2>1. PICK n \in Messages :
              /\ shown[n].kind = "none"
              /\ shown' = [shown EXCEPT ![n] = [kind |-> "photo", view |-> task[h].view, pages |-> 0]]
        BY <1>7 DEF SendPhoto
    <2>2. n # Menu BY <2>1 DEF ReturnInv, MenuOnly
    <2>3. /\ shown'[Menu] = shown[Menu] /\ shown'[n].kind = "photo"
          /\ \A m \in Messages \ {n} : shown'[m] = shown[m]
        BY <2>1, <2>2, Views DEF TypeOK
    <2>4. /\ task'[h].pc = "delete" /\ task'[h].msg = task[h].msg /\ task[h].pc = "find"
          /\ task'[h].back = task[h].back /\ calm' = calm
          /\ \A g \in Handlers \ {h} : task'[g] = task[g]
        BY <1>3, <1>7 DEF SendPhoto, Finding, At, Task
    <2>5. MenuOnly'
        <3>1. ASSUME NEW g \in Handlers, ~At(g, "idle")' PROVE shown'[task'[g].msg].kind # "none"
            <4>1. task[g].msg \in Messages BY DEF TypeOK, Task
            <4>2. task'[g].msg = task[g].msg /\ ~At(g, "idle") BY <1>1, <2>4, <3>1 DEF At
            <4> QED BY <2>3, <4>1, <4>2 DEF ReturnInv, MenuOnly
        <3> QED BY <2>2, <2>3, <3>1 DEF ReturnInv, MenuOnly
    <2>6. ASSUME calm PROVE Orderly'
        <3>1. ~task[h].back BY <1>2, <2>4, <2>6 DEF Way
        <3>2. Way(h)' BY <2>4, <3>1 DEF Way, At
        <3>3. MenuAt(nav)' BY <1>1, <1>2, <2>3, <2>4, <2>6 DEF MenuAt, Turning
        <3> QED BY <1>2, <2>4, <2>6, <3>2, <3>3, OneOrderly
    <2> QED BY <2>4, <2>5, <2>6 DEF ReturnInv
<1>8. CASE DeleteOld(h)
    <2>1. /\ task'[h] = Idle /\ \A g \in Handlers \ {h} : task'[g] = task[g]
          /\ calm' = calm /\ task[h].pc = "delete"
        BY <1>3, <1>8 DEF DeleteOld, End, At
    <2>2. \A m \in Messages : shown'[m] = shown[m] \/ shown'[m].kind = "gone"
        BY <1>8 DEF DeleteOld, TypeOK, Blank
    <2>3. MenuOnly'
        <3>1. ASSUME NEW g \in Handlers, ~At(g, "idle")' PROVE shown'[task'[g].msg].kind # "none"
            <4>1. task'[g] = task[g] /\ ~At(g, "idle") BY <2>1, <3>1 DEF At, Idle
            <4>2. task[g].msg \in Messages BY DEF TypeOK, Task
            <4> QED BY <2>2, <4>1, <4>2 DEF ReturnInv, MenuOnly
        <3> QED BY <2>2, <3>1, Views DEF ReturnInv, MenuOnly
    <2>4. ASSUME calm PROVE Orderly'
        <3>1. Way(h)' BY <2>1 DEF Way, At, Idle
        <3>2. MenuAt(nav)' BY <1>1, <1>2, <2>1, <2>2, <2>4, Views DEF MenuAt, Turning
        <3> QED BY <1>2, <2>1, <2>4, <3>1, <3>2, OneOrderly
    <2> QED BY <2>1, <2>3, <2>4 DEF ReturnInv
<1>9. CASE Raises(h)
    <2>1. task'[h] = Idle /\ \A g \in Handlers \ {h} : task'[g] = task[g]
        BY <1>3, <1>9 DEF Raises, End
    <2>2. shown' = shown /\ ~calm' BY <1>9 DEF Raises
    <2> QED BY <2>1, <2>2 DEF ReturnInv, MenuOnly, At, Idle
<1> QED BY <1>4, <1>5, <1>6, <1>7, <1>8, <1>9

LEMMA ReturnNext == ASSUME IInv, ReturnInv, [Next]_vars PROVE ReturnInv'
<1>1. TypeOK BY DEF IInv
<1>2. ASSUME NEW h \in Handlers, Handler(h) PROVE ReturnInv'
    BY <1>1, <1>2, MenuTap, MenuRenders, MenuStep DEF Handler
<1>3. ASSUME NEW missed \in BOOLEAN, LogGrows(missed) PROVE ReturnInv'
    BY <1>3 DEF LogGrows, ReturnInv, MenuOnly, Orderly, Alone, Others, MenuShows, MenuAt,
                Turning, Way, At
<1>4. CASE Forgotten BY <1>4 DEF Forgotten, ReturnInv, MenuOnly, At
<1>5. CASE UNCHANGED vars
    BY <1>5 DEF vars, ReturnInv, MenuOnly, Orderly, Alone, Others, MenuShows, MenuAt,
                Turning, Way, At
<1> QED BY <1>2, <1>3, <1>4, <1>5 DEF Next

LEMMA ReturnInit == Init => ReturnInv
<1> SUFFICES ASSUME Init PROVE ReturnInv OBVIOUS
<1>1. \A h \in Handlers : task[h].pc = "idle" BY DEF Init, Idle
<1>2. shown[Menu].kind = "home" /\ \A m \in Messages \ {Menu} : shown[m].kind = "none"
    BY Views DEF Init, Blank
<1> QED BY <1>1, <1>2 DEF ReturnInv, MenuOnly, Orderly, Alone, Others, MenuShows, MenuAt, Way, At

\* README, Calls: "Opening a call and returning to the list preserves the
\* current page and filter".  For any number of handlers, pages and messages,
\* when the taps come one at a time.
THEOREM ReturnsPreserve == Spec => []ReturnPreserves
<1>1. Init => IInv /\ ReturnInv BY IInvInit, ReturnInit
<1>2. IInv /\ ReturnInv /\ [Next]_vars => (IInv /\ ReturnInv)'
    BY IInvNext, ReturnNext
<1>3. ReturnInv => ReturnPreserves
    BY DEF ReturnInv, Orderly, Way, ReturnPreserves, At
<1> QED BY <1>1, <1>2, <1>3, PTL DEF Spec

----------------------------------------------------------------------------
(* CallbackAlias: the two tables of aliases.                               *)

\* The place an element at place j of ToEnd(s, i) comes from, and the place the
\* element at place k of s goes to, in a sequence of n elements.
From(i, n, j) == IF j < i THEN j ELSE IF j = n THEN i ELSE j + 1
To(i, n, k) == IF k < i THEN k ELSE IF k = i THEN n ELSE k - 1

LEMMA Shuffled ==
    ASSUME NEW n \in Nat, NEW i \in 1..n, NEW j \in 1..n, NEW k \in 1..n
    PROVE  /\ From(i, n, j) \in 1..n /\ To(i, n, k) \in 1..n
           /\ From(i, n, To(i, n, k)) = k
           /\ From(i, n, j) = From(i, n, k) => j = k
<1>1. From(i, n, j) \in 1..n
    BY DEF From
<1>2. To(i, n, k) \in 1..n
    BY DEF To
<1>3. From(i, n, To(i, n, k)) = k
    <2>1. CASE k < i
        BY <2>1 DEF From, To
    <2>2. CASE k = i
        BY <2>2 DEF From, To
    <2>3. CASE k > i
        BY <2>3 DEF From, To
    <2>4. QED
        BY <2>1, <2>2, <2>3
<1>4. From(i, n, j) = From(i, n, k) => j = k
    BY DEF From
<1>5. QED
    BY <1>1, <1>2, <1>3, <1>4

\* Moving an element to the end permutes the sequence.
LEMMA ToEndPermutes ==
    ASSUME NEW S, NEW s \in Seq(S), NEW n, n = Len(s), NEW i \in 1..n
    PROVE  /\ ToEnd(s, i) \in Seq(S) /\ Len(ToEnd(s, i)) = n
           /\ DOMAIN ToEnd(s, i) = 1..n
           /\ \A j \in 1..n : ToEnd(s, i)[j] = s[From(i, n, j)]
           /\ \A k \in 1..n : ToEnd(s, i)[To(i, n, k)] = s[k]
<1>1. n \in Nat /\ DOMAIN s = 1..n /\ \A j \in 1..n : s[j] \in S
    OBVIOUS
<1>2. ToEnd(s, i) = [j \in 1..n |-> s[From(i, n, j)]]
    BY <1>1 DEF ToEnd, From
<1>3. \A j \in 1..n : From(i, n, j) \in 1..n
    BY <1>1, Shuffled
<1>4. \A j \in 1..n : s[From(i, n, j)] \in S
    BY <1>1, <1>3
<1>5. [j \in 1..n |-> s[From(i, n, j)]] \in [1..n -> S]
    BY <1>4
<1>6. ToEnd(s, i) \in Seq(S) /\ Len(ToEnd(s, i)) = n /\ DOMAIN ToEnd(s, i) = 1..n
    BY <1>1, <1>2, <1>5, SeqDef, LenProperties
<1>7. \A j \in 1..n : ToEnd(s, i)[j] = s[From(i, n, j)]
    BY <1>2
<1>8. ASSUME NEW k \in 1..n
      PROVE  ToEnd(s, i)[To(i, n, k)] = s[k]
    <2>1. To(i, n, k) \in 1..n /\ From(i, n, To(i, n, k)) = k
        BY <1>1, Shuffled
    <2>2. QED
        BY <1>7, <2>1
<1>9. QED
    BY <1>6, <1>7, <1>8

\* Entry is what the table holds, for the tokens drawn so far.
Entry(n) == [alias : 1..n, id : Ids]

\* AliasTypeOK, with the order of the table and the history related to it: every
\* token is used last at one place of the history, the table has the tokens used
\* last, in that order, and each stands for the id it was made for.
AliasTyped ==
    /\ table \in Seq(Entry(drawn)) /\ Len(table) =< MaxAliases
    /\ inverse \in [Ids -> 0..drawn]
    /\ drawn \in 0..MaxDraws /\ given \in Seq(Ids) /\ Len(given) = drawn
    /\ uses \in Seq(1..drawn)
OneUseEach == \A i, j \in 1..Len(uses) : uses[i] = uses[j] => i = j
Faithful == \A i \in 1..Len(table) : table[i].id = given[table[i].alias]
Newest ==
    /\ Len(table) =< Len(uses)
    /\ Len(table) < MaxAliases => Len(uses) = Len(table)
    /\ \A i \in 1..Len(table) : table[i].alias = uses[Len(uses) - Len(table) + i]

AliasInv == AliasTyped /\ TablesAgree /\ OneUseEach /\ Faithful /\ Newest

LEMMA AliasTypesAgree == AliasTypeOK <=> AliasTyped
BY DEF AliasTypeOK, AliasTyped, Entry

LEMMA AliasInitially == AliasInit => AliasInv
<1> SUFFICES ASSUME AliasInit PROVE AliasInv
    OBVIOUS
<1>1. /\ table = <<>> /\ uses = <<>> /\ given = <<>> /\ drawn = 0
      /\ Len(table) = 0 /\ Len(uses) = 0 /\ Len(given) = 0 /\ DOMAIN table = {}
    BY DEF AliasInit
<1>2. \A v \in Ids : inverse[v] = 0
    BY DEF AliasInit
<1>3. inverse \in [Ids -> 0..drawn] /\ drawn \in 0..MaxDraws
    BY <1>1, AliasOK DEF AliasInit
<1>4. AliasTyped
    BY <1>1, <1>3, AliasOK DEF AliasTyped
<1>5. TablesAgree
    BY <1>1, <1>2 DEF TablesAgree
<1>6. OneUseEach /\ Faithful /\ Newest
    BY <1>1, AliasOK DEF OneUseEach, Faithful, Newest
<1>7. QED
    BY <1>4, <1>5, <1>6 DEF AliasInv

\* What a use of a token in the table keeps.
LEMMA UseKeeps ==
    ASSUME AliasInv, NEW a, Has(a), table' = MovedToEnd(a), UsedAgain(a),
           UNCHANGED <<inverse, drawn, given>>
    PROVE  AliasInv'
<1> DEFINE n == Len(table)
           m == Len(uses)
           p == Place(a)
           q == CHOOSE i \in DOMAIN uses : uses[i] = a
<1>sizes. n \in Nat /\ m \in Nat /\ n =< m
    BY DEF AliasInv, AliasTyped, Newest
<1>1. /\ DOMAIN table = 1..n /\ DOMAIN uses = 1..m
      /\ table \in Seq(Entry(drawn)) /\ uses \in Seq(1..drawn)
      /\ n = Len(table) /\ m = Len(uses)
    BY DEF AliasInv, AliasTyped, Newest
<1> HIDE DEF n, m
<1>place. p \in 1..n
    BY <1>1 DEF Has, Place
<1>2. p \in 1..n /\ table[p].alias = a
    BY <1>1 DEF Has, Place
<1>3. q = m - n + p /\ q \in 1..m
    <2>1. m - n + p \in 1..m
        BY <1>sizes, <1>place
    <2>here. uses[m - n + p] = a
        BY <1>1, <1>2 DEF AliasInv, Newest
    <2>2. q \in 1..m /\ uses[q] = a
        BY <1>1, <2>1, <2>here
    <2>3. QED
        BY <1>1, <2>1, <2>2, <2>here DEF AliasInv, OneUseEach
<1>4. table' = ToEnd(table, p) /\ uses' = ToEnd(uses, q)
    BY DEF MovedToEnd, UsedAgain
<1> HIDE DEF p, q
<1>5. /\ table' \in Seq(Entry(drawn)) /\ Len(table') = n /\ DOMAIN table' = 1..n
      /\ \A j \in 1..n : table'[j] = table[From(p, n, j)]
      /\ \A k \in 1..n : table'[To(p, n, k)] = table[k]
    <2>1. /\ ToEnd(table, p) \in Seq(Entry(drawn)) /\ Len(ToEnd(table, p)) = n
          /\ DOMAIN ToEnd(table, p) = 1..n
          /\ \A j \in 1..n : ToEnd(table, p)[j] = table[From(p, n, j)]
        BY ONLY <1>1, <1>place, ToEndPermutes
    <2>2. \A k \in 1..n : ToEnd(table, p)[To(p, n, k)] = table[k]
        BY ONLY <1>1, <1>place, ToEndPermutes
    <2>3. QED
        BY <1>4, <2>1, <2>2
<1>6. /\ uses' \in Seq(1..drawn) /\ Len(uses') = m /\ DOMAIN uses' = 1..m
      /\ \A j \in 1..m : uses'[j] = uses[From(q, m, j)]
    <2>1. /\ ToEnd(uses, q) \in Seq(1..drawn) /\ Len(ToEnd(uses, q)) = m
          /\ DOMAIN ToEnd(uses, q) = 1..m
          /\ \A j \in 1..m : ToEnd(uses, q)[j] = uses[From(q, m, j)]
        BY ONLY <1>1, <1>3, ToEndPermutes
    <2>2. QED
        BY <1>4, <2>1
<1>7. AliasTyped'
    <2>1. n =< MaxAliases
        BY <1>1 DEF AliasInv, AliasTyped
    <2>2. QED
        BY <1>5, <1>6, <2>1 DEF AliasInv, AliasTyped
<1>8. TablesAgree'
    <2>1. ASSUME NEW i \in 1..n
          PROVE  inverse[table'[i].id] = table'[i].alias
        <3>1. From(p, n, i) \in 1..n
            BY <1>sizes, <1>place, Shuffled
        <3>2. inverse[table[From(p, n, i)].id] = table[From(p, n, i)].alias
            BY <1>1, <3>1 DEF AliasInv, TablesAgree
        <3>3. QED
            BY <1>5, <3>2
    <2>2. ASSUME NEW v \in Ids, inverse[v] # 0
          PROVE  \E i \in 1..n : table'[i] = [alias |-> inverse[v], id |-> v]
        <3>1. PICK k \in 1..n : table[k] = [alias |-> inverse[v], id |-> v]
            BY <1>1, <2>2 DEF AliasInv, TablesAgree
        <3>2. To(p, n, k) \in 1..n
            BY <1>sizes, <1>place, Shuffled
        <3>3. QED
            BY <1>5, <3>1, <3>2
    <2>3. ASSUME NEW i \in 1..n, NEW j \in 1..n, table'[i].alias = table'[j].alias
          PROVE  i = j
        <3>1. From(p, n, i) \in 1..n /\ From(p, n, j) \in 1..n
            BY <1>sizes, <1>place, Shuffled
        <3>2. table[From(p, n, i)].alias = table[From(p, n, j)].alias
            BY <1>5, <2>3
        <3>3. From(p, n, i) = From(p, n, j)
            BY <1>1, <3>1, <3>2 DEF AliasInv, TablesAgree
        <3>4. QED
            BY <1>sizes, <1>place, <3>3, Shuffled
    <2>4. QED
        BY <1>5, <2>1, <2>2, <2>3 DEF TablesAgree
<1>9. OneUseEach'
    <2>1. ASSUME NEW i \in 1..m, NEW j \in 1..m, uses'[i] = uses'[j]
          PROVE  i = j
        <3>1. From(q, m, i) \in 1..m /\ From(q, m, j) \in 1..m
            BY <1>sizes, <1>3, Shuffled
        <3>2. uses[From(q, m, i)] = uses[From(q, m, j)]
            BY <1>6, <2>1
        <3>3. From(q, m, i) = From(q, m, j)
            BY <1>1, <3>1, <3>2 DEF AliasInv, OneUseEach
        <3>4. QED
            BY <1>sizes, <1>3, <3>3, Shuffled
    <2>2. QED
        BY <1>6, <2>1 DEF OneUseEach
<1>10. Faithful'
    <2>1. ASSUME NEW i \in 1..n
          PROVE  table'[i].id = given[table'[i].alias]
        <3>1. From(p, n, i) \in 1..n
            BY <1>sizes, <1>place, Shuffled
        <3>2. table[From(p, n, i)].id = given[table[From(p, n, i)].alias]
            BY <1>1, <3>1 DEF AliasInv, Faithful
        <3>3. QED
            BY <1>5, <3>2
    <2>2. QED
        BY <1>5, <2>1 DEF Faithful
<1>11. Newest'
    <2>1. ASSUME NEW i \in 1..n
          PROVE  table'[i].alias = uses'[m - n + i]
        <3>1. From(q, m, m - n + i) = m - n + From(p, n, i)
            <4>1. CASE i < p
                BY <1>sizes, <1>place, <1>3, <4>1 DEF From
            <4>2. CASE i >= p /\ i = n
                BY <1>sizes, <1>place, <1>3, <4>2 DEF From
            <4>3. CASE i >= p /\ i # n
                <5>1. From(p, n, i) = i + 1
                    BY <1>sizes, <1>place, <4>3 DEF From
                <5>2. ~(m - n + i < q) /\ m - n + i # m
                    BY <1>sizes, <1>place, <1>3, <4>3
                <5>3. From(q, m, m - n + i) = (m - n + i) + 1
                    BY <5>2 DEF From
                <5>4. QED
                    BY <1>sizes, <5>1, <5>3
            <4>4. QED
                <5>1. p \in Nat /\ i \in Nat
                    BY <1>sizes, <1>place
                <5>2. i < p \/ i >= p
                    BY <5>1
                <5>3. QED
                    BY <4>1, <4>2, <4>3, <5>2
        <3>2. m - n + i \in 1..m
            BY <1>sizes
        <3>3. From(p, n, i) \in 1..n
            BY <1>sizes, <1>place, Shuffled
        <3>4. table[From(p, n, i)].alias = uses[m - n + From(p, n, i)]
            BY <1>1, <3>3 DEF AliasInv, Newest
        <3>5. QED
            BY <1>5, <1>6, <3>1, <3>2, <3>4
    <2>2. n < MaxAliases => m = n
        BY <1>1 DEF AliasInv, Newest
    <2>3. QED
        BY <1>sizes, <1>5, <1>6, <2>1, <2>2, Zenon DEF Newest
<1>12. QED
    BY <1>7, <1>8, <1>9, <1>10, <1>11 DEF AliasInv

\* The table after an alias was added, with at most one entry evicted: places move
\* by one if one was.
LEMMA AddedEntries ==
    ASSUME AliasInv, NEW v \in Ids, Make(v)
    PROVE  LET n == Len(table)
               gone == IF n = MaxAliases THEN 1 ELSE 0
               e == [alias |-> drawn + 1, id |-> v]
           IN  /\ table' \in Seq(Entry(drawn')) /\ Len(table') = n + 1 - gone
               /\ \A i \in 1..(n - gone) : table'[i] = table[i + gone]
               /\ table'[n + 1 - gone] = e
               /\ inverse' = [w \in Ids |-> IF w = v THEN drawn + 1
                                            ELSE IF gone = 1 /\ w = table[1].id THEN 0
                                            ELSE inverse[w]]
<1> DEFINE n == Len(table)
           e == [alias |-> drawn + 1, id |-> v]
           gone == IF n = MaxAliases THEN 1 ELSE 0
           t == Append(table, e)
           inv == [inverse EXCEPT ![v] = drawn + 1]
<1>1. /\ n \in Nat /\ n =< MaxAliases /\ MaxAliases \in Nat \ {0} /\ drawn \in Nat
      /\ table \in Seq(Entry(drawn)) /\ inverse \in [Ids -> 0..drawn] /\ drawn' = drawn + 1
    BY AliasOK DEF AliasInv, AliasTyped, Make
<1>2. table \in Seq(Entry(drawn')) /\ e \in Entry(drawn')
    <2>1. Entry(drawn) \subseteq Entry(drawn') /\ e \in Entry(drawn')
        BY <1>1 DEF Entry
    <2>2. QED
        BY <1>1, <2>1
<1>3. /\ t \in Seq(Entry(drawn')) /\ Len(t) = n + 1 /\ t[n + 1] = e
      /\ \A i \in 1..n : t[i] = table[i]
    BY <1>1, <1>2
<1>4. inv = [w \in Ids |-> IF w = v THEN drawn + 1 ELSE inverse[w]]
    BY <1>1
<1>5. table' = Evicted(t, inv).table /\ inverse' = Evicted(t, inv).inverse
    BY DEF Make
<1> HIDE DEF t, inv
<1>6. CASE n < MaxAliases
    <2>1. table' = t /\ inverse' = inv
        BY <1>1, <1>3, <1>5, <1>6 DEF Evicted
    <2>2. QED
        BY <1>1, <1>3, <1>4, <1>6, <2>1
<1>7. CASE n = MaxAliases
    <2>1. /\ Head(t) = table[1] /\ Tail(t) \in Seq(Entry(drawn')) /\ Len(Tail(t)) = n
          /\ \A i \in 1..n : Tail(t)[i] = t[i + 1]
        BY <1>1, <1>3, <1>7
    <2>2. table[1].id # v /\ table[1].id \in Ids /\ inverse[table[1].id] = table[1].alias
        <3>1. 1 \in DOMAIN table /\ table[1] \in Entry(drawn)
            BY <1>1, <1>7
        <3>2. inverse[table[1].id] = table[1].alias
            BY <3>1 DEF AliasInv, TablesAgree
        <3>3. table[1].alias # 0 /\ table[1].id \in Ids
            BY <1>1, <3>1 DEF Entry
        <3>4. QED
            BY <3>2, <3>3 DEF Make
    <2>3. inv[table[1].id] = table[1].alias
        BY <1>4, <2>2
    <2>4. table' = Tail(t) /\ inverse' = [inv EXCEPT ![table[1].id] = 0]
        <3>1. Len(t) > MaxAliases
            BY <1>1, <1>3, <1>7
        <3>2. Evicted(t, inv).table = Tail(t)
            BY <3>1 DEF Evicted
        <3>3. Evicted(t, inv).inverse = [inv EXCEPT ![table[1].id] = 0]
            BY <2>1, <2>3, <3>1 DEF Evicted
        <3>4. QED
            BY <1>5, <3>2, <3>3
    <2>5. inverse' = [w \in Ids |-> IF w = v THEN drawn + 1
                                    ELSE IF w = table[1].id THEN 0 ELSE inverse[w]]
        BY <1>4, <2>2, <2>4
    <2>6. table'[n] = e /\ \A i \in 1..(n - 1) : table'[i] = table[i + 1]
        BY <1>1, <1>3, <1>7, <2>1, <2>4
    <2>7. gone = 1 /\ n + 1 - gone = n /\ n - gone = n - 1
        BY <1>1, <1>7
    <2>8. inverse' = [w \in Ids |-> IF w = v THEN drawn + 1
                                    ELSE IF gone = 1 /\ w = table[1].id THEN 0
                                    ELSE inverse[w]]
        BY <2>5, <2>7
    <2>9. QED
        BY <2>1, <2>4, <2>6, <2>7, <2>8
<1>8. QED
    BY <1>1, <1>6, <1>7

LEMMA MakeKeeps ==
    ASSUME AliasInv, NEW v \in Ids, Make(v)
    PROVE  AliasInv'
<1> DEFINE n == Len(table)
           m == Len(uses)
           gone == IF n = MaxAliases THEN 1 ELSE 0
           e == [alias |-> drawn + 1, id |-> v]
           k == n + 1 - gone
<1>sizes. n \in Nat /\ m \in Nat /\ n =< MaxAliases /\ MaxAliases \in Nat \ {0} /\ n =< m
    BY AliasOK DEF AliasInv, AliasTyped, Newest
<1>1. /\ drawn \in Nat /\ drawn' = drawn + 1 /\ inverse[v] = 0 /\ drawn < MaxDraws
      /\ MaxDraws \in Nat
      /\ table \in Seq(Entry(drawn)) /\ uses \in Seq(1..drawn) /\ given \in Seq(Ids)
      /\ Len(given) = drawn /\ inverse \in [Ids -> 0..drawn]
      /\ given' = Append(given, v) /\ uses' = Append(uses, drawn + 1)
      /\ DOMAIN table = 1..n /\ n = Len(table) /\ m = Len(uses)
    <2>1. /\ table \in Seq(Entry(drawn)) /\ uses \in Seq(1..drawn) /\ given \in Seq(Ids)
          /\ Len(given) = drawn /\ inverse \in [Ids -> 0..drawn] /\ drawn \in 0..MaxDraws
          /\ Len(table) =< MaxAliases /\ Len(table) =< Len(uses)
        BY DEF AliasInv, AliasTyped, Newest
    <2>2. /\ drawn' = drawn + 1 /\ inverse[v] = 0 /\ drawn < MaxDraws
          /\ given' = Append(given, v) /\ uses' = Append(uses, drawn + 1)
        BY DEF Make
    <2>3. DOMAIN table = 1..n
        BY <2>1
    <2>4. QED
        BY <2>1, <2>2, <2>3, AliasOK
<1>2. /\ gone \in {0, 1} /\ k \in Nat /\ k =< MaxAliases /\ k > 0 /\ k = n + 1 - gone
      /\ gone = 1 <=> n = MaxAliases
      /\ gone = 1 => n > 0
    BY <1>sizes
<1>3. /\ table' \in Seq(Entry(drawn')) /\ Len(table') = k /\ DOMAIN table' = 1..k
      /\ \A i \in 1..(k - 1) : table'[i] = table[i + gone] /\ i + gone \in 1..n
      /\ table'[k] = e
    <2>1. /\ table' \in Seq(Entry(drawn')) /\ Len(table') = k
          /\ \A i \in 1..(n - gone) : table'[i] = table[i + gone]
          /\ table'[k] = e
        BY AddedEntries
    <2> HIDE DEF n, m, gone, k
    <2>2. k - 1 = n - gone /\ \A i \in 1..(k - 1) : i + gone \in 1..n
        BY <1>sizes, <1>2
    <2>3. QED
        BY <2>1, <2>2
<1>4. inverse' = [w \in Ids |-> IF w = v THEN drawn + 1
                                ELSE IF gone = 1 /\ w = table[1].id THEN 0 ELSE inverse[w]]
    BY AddedEntries
<1>5. /\ uses' \in Seq(1..drawn') /\ Len(uses') = m + 1 /\ uses'[m + 1] = drawn + 1
      /\ \A i \in 1..m : uses'[i] = uses[i] /\ uses[i] \in 1..drawn
    <2>1. 1..drawn \subseteq 1..drawn' /\ drawn + 1 \in 1..drawn'
        BY <1>1
    <2>2. uses \in Seq(1..drawn')
        BY <1>1, <2>1
    <2>3. QED
        BY <1>1, <2>1, <2>2
<1>6. /\ given' \in Seq(Ids) /\ Len(given') = drawn' /\ given'[drawn + 1] = v
      /\ \A a \in 1..drawn : given'[a] = given[a]
    BY <1>1
<1>7. \A i \in 1..n : table[i].alias \in 1..drawn /\ table[i].id \in Ids
    <2>1. \A i \in 1..n : table[i] \in Entry(drawn)
        BY <1>1
    <2>2. QED
        BY <2>1 DEF Entry
<1> HIDE DEF n, m, gone, k
<1>8. AliasTyped'
    <2>1. inverse' \in [Ids -> 0..drawn']
        BY <1>1, <1>4
    <2>2. drawn' \in 0..MaxDraws
        BY <1>1
    <2>3. Len(table') =< MaxAliases
        BY <1>2, <1>3
    <2>4. QED
        BY <1>3, <1>5, <1>6, <2>1, <2>2, <2>3 DEF AliasTyped
<1>9. TablesAgree'
    <2>1. ASSUME NEW i \in 1..k
          PROVE  inverse'[table'[i].id] = table'[i].alias
        <3>1. CASE i = k
            BY <1>3, <1>4, <3>1
        <3>2. CASE i # k
            <4> DEFINE j == i + gone
            <4>1. i \in 1..(k - 1) /\ j \in 1..n /\ table'[i] = table[j]
                BY <1>2, <1>3, <3>2
            <4>2. inverse[table[j].id] = table[j].alias /\ table[j].id # v
                BY <1>1, <1>7, <4>1 DEF AliasInv, TablesAgree
            <4>3. gone = 1 => table[j].id # table[1].id
                <5>1. SUFFICES ASSUME gone = 1, table[j].id = table[1].id
                               PROVE  FALSE
                    OBVIOUS
                <5>2. 1 \in 1..n /\ j # 1
                    BY <1>sizes, <1>2, <4>1, <5>1
                <5>3. inverse[table[1].id] = table[1].alias
                    BY <1>1, <5>2 DEF AliasInv, TablesAgree
                <5>4. table[j].alias = table[1].alias
                    BY <4>2, <5>1, <5>3
                <5>5. QED
                    BY <1>1, <4>1, <5>2, <5>4 DEF AliasInv, TablesAgree
            <4>4. QED
                BY <1>4, <1>7, <4>1, <4>2, <4>3
        <3>3. QED
            BY <3>1, <3>2
    <2>2. ASSUME NEW w \in Ids, inverse'[w] # 0
          PROVE  \E i \in 1..k : table'[i] = [alias |-> inverse'[w], id |-> w]
        <3>1. CASE w = v
            <4>1. k \in 1..k /\ inverse'[w] = drawn + 1
                BY <1>2, <1>4, <3>1
            <4>2. table'[k] = [alias |-> inverse'[w], id |-> w]
                BY <1>3, <3>1, <4>1
            <4>3. QED
                BY <4>1, <4>2
        <3>2. CASE w # v
            <4>1. inverse'[w] = inverse[w] /\ ~(gone = 1 /\ w = table[1].id)
                BY <1>4, <2>2, <3>2
            <4>2. PICK j \in 1..n : table[j] = [alias |-> inverse[w], id |-> w]
                BY <1>1, <2>2, <4>1 DEF AliasInv, TablesAgree
            <4>3. j - gone \in 1..(k - 1)
                <5>1. gone = 1 => j # 1
                    BY <4>1, <4>2
                <5>2. QED
                    BY <1>sizes, <1>2, <5>1
            <4>4. table'[j - gone] = table[j] /\ j - gone \in 1..k
                <5>1. (j - gone) + gone = j /\ j - gone \in 1..k
                    BY <1>sizes, <1>2, <4>3
                <5>2. QED
                    BY <1>3, <4>3, <5>1
            <4>5. QED
                BY <4>1, <4>2, <4>4
        <3>3. QED
            BY <3>1, <3>2
    <2>3. ASSUME NEW i \in 1..k, NEW j \in 1..k, table'[i].alias = table'[j].alias
          PROVE  i = j
        <3>1. \A l \in 1..(k - 1) : table'[l].alias \in 1..drawn
            BY <1>3, <1>7
        <3>2. table'[k].alias \notin 1..drawn
            BY <1>1, <1>3
        <3>3. i = k <=> j = k
            BY <1>2, <2>3, <3>1, <3>2
        <3>4. CASE i # k
            <4>1. i \in 1..(k - 1) /\ j \in 1..(k - 1)
                BY <1>2, <3>3, <3>4
            <4>2. i + gone = j + gone
                BY <1>1, <1>3, <2>3, <4>1 DEF AliasInv, TablesAgree
            <4>3. QED
                BY <1>2, <4>2
        <3>5. QED
            BY <3>3, <3>4
    <2>4. QED
        BY <1>3, <2>1, <2>2, <2>3 DEF TablesAgree
<1>10. OneUseEach'
    <2>1. \A i \in 1..m : uses'[i] # drawn + 1
        BY <1>1, <1>5
    <2>2. ASSUME NEW i \in 1..(m + 1), NEW j \in 1..(m + 1), uses'[i] = uses'[j]
          PROVE  i = j
        <3>1. CASE i \in 1..m /\ j \in 1..m
            BY <1>5, <2>2, <3>1 DEF AliasInv, OneUseEach, m
        <3>2. CASE i = m + 1 \/ j = m + 1
            BY <1>1, <1>5, <2>1, <2>2, <3>2
        <3>3. i \in 1..m \/ i = m + 1
            BY <1>1
        <3>4. j \in 1..m \/ j = m + 1
            BY <1>1
        <3>5. QED
            BY <3>1, <3>2, <3>3, <3>4
    <2>3. QED
        BY <1>5, <2>2 DEF OneUseEach
<1>11. Faithful'
    <2>1. ASSUME NEW i \in 1..k
          PROVE  table'[i].id = given'[table'[i].alias]
        <3>1. CASE i = k
            BY <1>3, <1>6, <3>1
        <3>2. CASE i # k
            <4>1. i \in 1..(k - 1) /\ table'[i] = table[i + gone] /\ i + gone \in 1..n
                BY <1>2, <1>3, <3>2
            <4>2. table[i + gone].id = given[table[i + gone].alias]
                BY <4>1 DEF AliasInv, Faithful, n
            <4>3. QED
                BY <1>6, <1>7, <4>1, <4>2
        <3>3. QED
            BY <3>1, <3>2
    <2>2. QED
        BY <1>3, <2>1 DEF Faithful
<1>12. Newest'
    <2>1. k =< m + 1 /\ (k < MaxAliases => m + 1 = k)
        <3>1. n < MaxAliases => m = n
            BY DEF AliasInv, Newest, n, m
        <3>2. QED
            BY <1>sizes, <1>2, <3>1
    <2>2. ASSUME NEW i \in 1..k
          PROVE  table'[i].alias = uses'[m + 1 - k + i]
        <3>1. CASE i = k
            <4>1. m + 1 - k + i = m + 1
                BY <1>sizes, <1>2, <3>1
            <4>2. QED
                BY <1>3, <1>5, <3>1, <4>1
        <3>2. CASE i # k
            <4>1. i \in 1..(k - 1) /\ table'[i] = table[i + gone] /\ i + gone \in 1..n
                BY <1>2, <1>3, <3>2
            <4>2. table[i + gone].alias = uses[m - n + (i + gone)]
                BY <4>1 DEF AliasInv, Newest, n, m
            <4>3. m + 1 - k + i = m - n + (i + gone) /\ m + 1 - k + i \in 1..m
                BY <1>sizes, <1>2, <4>1
            <4>4. QED
                BY <1>5, <4>1, <4>2, <4>3
        <3>3. QED
            BY <3>1, <3>2
    <2>3. Len(uses') = m + 1 /\ Len(table') = k
        BY <1>3, <1>5
    <2>4. ASSUME NEW i \in 1..Len(table')
          PROVE  table'[i].alias = uses'[Len(uses') - Len(table') + i]
        <3>1. i \in 1..k /\ Len(uses') - Len(table') + i = m + 1 - k + i
            BY <1>sizes, <1>2, <2>3
        <3>2. table'[i].alias = uses'[m + 1 - k + i]
            BY <2>2, <3>1
        <3>3. QED
            BY <3>1, <3>2
    <2>5. Len(table') =< Len(uses') /\ (Len(table') < MaxAliases => Len(uses') = Len(table'))
        BY <2>1, <2>3, Zenon
    <2>6. QED
        BY <2>4, <2>5, Zenon DEF Newest
<1>13. QED
    BY <1>8, <1>9, <1>10, <1>11, <1>12 DEF AliasInv

LEMMA AliasInvariance == AliasInv /\ [AliasNext]_avars => AliasInv'
<1> SUFFICES ASSUME AliasInv, [AliasNext]_avars PROVE AliasInv'
    OBVIOUS
<1>1. ASSUME NEW v \in Ids, Reuse(v) PROVE AliasInv'
    <2>1. Has(inverse[v])
        BY <1>1 DEF Reuse, Has, AliasInv, TablesAgree
    <2>2. QED
        BY <1>1, <2>1, UseKeeps DEF Reuse
<1>2. ASSUME NEW v \in Ids, Make(v) PROVE AliasInv'
    BY <1>2, MakeKeeps
<1>3. ASSUME NEW a \in 1..drawn, Resolve(a) PROVE AliasInv'
    BY <1>3, UseKeeps DEF Resolve
<1>4. CASE AliasRestart
    <2>1. /\ table' = <<>> /\ uses' = <<>> /\ UNCHANGED <<drawn, given>>
          /\ Len(table') = 0 /\ Len(uses') = 0 /\ DOMAIN table' = {}
        BY <1>4 DEF AliasRestart
    <2>2. \A v \in Ids : inverse'[v] = 0
        BY <1>4 DEF AliasRestart
    <2>3. inverse' \in [Ids -> 0..drawn']
        BY <1>4, AliasOK DEF AliasRestart, AliasInv, AliasTyped
    <2>4. AliasTyped'
        BY <2>1, <2>3, AliasOK DEF AliasInv, AliasTyped
    <2>5. TablesAgree'
        BY <2>1, <2>2 DEF TablesAgree
    <2>6. (OneUseEach /\ Faithful /\ Newest)'
        BY <2>1, AliasOK DEF OneUseEach, Faithful, Newest
    <2>7. QED
        BY <2>4, <2>5, <2>6 DEF AliasInv
<1>5. CASE UNCHANGED avars
    BY <1>5 DEF avars, AliasInv, AliasTyped, TablesAgree, OneUseEach, Faithful, Newest
<1>6. QED
    BY <1>1, <1>2, <1>3, <1>4, <1>5 DEF AliasNext

\* The tables are typed and bounded, and inverse to each other, for any ids and
\* any size.
THEOREM TablesCorrect == AliasSpec => [](AliasTypeOK /\ TablesAgree)
<1>1. AliasInv => AliasTypeOK /\ TablesAgree
    BY AliasTypesAgree DEF AliasInv
<1>2. QED
    BY AliasInitially, AliasInvariance, <1>1, PTL DEF AliasSpec

\* For any ids, sizes, restarts and orders of use, a button never acts on
\* another id than the one it was made for.
THEOREM ButtonsKeepTheirId == AliasSpec => []NeverAnother
<1>1. AliasInv => NeverAnother
    <2> SUFFICES ASSUME AliasInv, NEW a \in 1..drawn, Has(a)
                 PROVE  Resolved(a) = given[a]
        BY DEF NeverAnother, Resolved
    <2>1. DOMAIN table = 1..Len(table)
        BY DEF AliasInv, AliasTyped
    <2>2. Place(a) \in 1..Len(table) /\ table[Place(a)].alias = a
        BY <2>1 DEF Has, Place
    <2>3. QED
        BY <2>2 DEF Resolved, AliasInv, Faithful
<1>2. QED
    BY AliasInitially, AliasInvariance, <1>1, PTL DEF AliasSpec

\* For any ids and sizes, the aliases used last, as many as the table holds,
\* all work.
THEOREM RecentOnesWork == AliasSpec => []RecentWork
<1>1. AliasInv => RecentWork
    <2> SUFFICES ASSUME AliasInv, NEW i \in DOMAIN uses, Len(uses) - i < MaxAliases
                 PROVE  Has(uses[i])
        BY DEF RecentWork
    <2> DEFINE n == Len(table)
               m == Len(uses)
               j == i - (m - n)
    <2>1. /\ n \in Nat /\ m \in Nat /\ n =< m /\ i \in 1..m /\ DOMAIN table = 1..n
          /\ n =< MaxAliases /\ MaxAliases \in Nat /\ (n < MaxAliases => m = n)
        BY AliasOK DEF AliasInv, AliasTyped, Newest
    <2>2. j \in 1..n /\ m - n + j = i
        BY <2>1
    <2>3. table[j].alias = uses[i]
        BY <2>1, <2>2 DEF AliasInv, Newest
    <2>4. QED
        BY <2>1, <2>2, <2>3 DEF Has
<1>2. QED
    BY AliasInitially, AliasInvariance, <1>1, PTL DEF AliasSpec

----------------------------------------------------------------------------
(* Paging: lists read page by page while they change.                      *)

LEMMA Pages ==
    ASSUME NEW n \in Nat, NEW p \in Nat, NEW q \in Nat, NEW s \in Nat \ {0}
    PROVE  /\ p * s \in Nat
           /\ p > 0 => (p - 1) * s \in Nat /\ p * s = (p - 1) * s + s
           /\ p =< q => p * s =< q * s
           /\ p >= (n + s - 1) \div s => n =< p * s
OBVIOUS

LEMMA Sizes ==
    /\ PerPage \in Nat \ {0} /\ MaxListPages \in Nat \ {0}
    /\ server \in Servers => server.size \in Nat \ {0}
<1>1. PerPage \in Nat \ {0} /\ MaxListPages \in Nat \ {0}
    BY PagingOK, Zenon
<1>2. server \in Servers => server.size \in 1..PerPage
    BY DEF Servers
<1>3. QED
    BY <1>1, <1>2

LEMMA ContainsBoth ==
    ASSUME NEW s \in Seq(Keys), NEW r \in Seq(Keys), NEW e
    PROVE  Contains(s \o r, e) <=> Contains(s, e) \/ Contains(r, e)
<1>1. /\ s \o r \in Seq(Keys) /\ Len(s \o r) = Len(s) + Len(r)
      /\ \A i \in 1..(Len(s) + Len(r)) :
            (s \o r)[i] = IF i =< Len(s) THEN s[i] ELSE r[i - Len(s)]
    BY ConcatProperties
<1>2. Len(s) \in Nat /\ Len(r) \in Nat
    OBVIOUS
<1>3. ASSUME Contains(s, e) PROVE Contains(s \o r, e)
    BY <1>1, <1>2, <1>3 DEF Contains
<1>4. ASSUME Contains(r, e) PROVE Contains(s \o r, e)
    <2>1. PICK i \in 1..Len(r) : r[i] = e
        BY <1>4 DEF Contains
    <2>2. Len(s) + i \in 1..(Len(s) + Len(r)) /\ (s \o r)[Len(s) + i] = e
        BY <1>1, <1>2, <2>1
    <2>3. QED
        BY <1>1, <2>2 DEF Contains
<1>5. ASSUME Contains(s \o r, e) PROVE Contains(s, e) \/ Contains(r, e)
    <2>1. PICK i \in 1..(Len(s) + Len(r)) : (s \o r)[i] = e
        BY <1>1, <1>5 DEF Contains
    <2>2. CASE i =< Len(s)
        BY <1>1, <1>2, <2>1, <2>2 DEF Contains
    <2>3. CASE i > Len(s)
        <3>1. i - Len(s) \in 1..Len(r) /\ r[i - Len(s)] = e
            BY <1>1, <1>2, <2>1, <2>3
        <3>2. QED
            BY <3>1 DEF Contains
    <2>4. QED
        BY <1>2, <2>2, <2>3
<1>6. QED
    BY <1>3, <1>4, <1>5

\* A page has the entries of its places, and is full if the list goes on.
LEMMA Slices ==
    ASSUME NEW list \in Seq(Keys), NEW p \in Nat \ {0}, server \in Servers
    PROVE  /\ Slice(list, p) \in Seq(Keys)
           /\ \A j \in 1..Len(list) :
                 j > (p - 1) * server.size =>
                    j > p * server.size \/ Contains(Slice(list, p), list[j])
           /\ Len(list) > p * server.size => Len(Slice(list, p)) = server.size
<1> DEFINE s == server.size
           lo == (p - 1) * s
           hi == IF p * s < Len(list) THEN p * s ELSE Len(list)
           slice == SubSeq(list, lo + 1, hi)
<1>1. s \in Nat \ {0}
    BY Sizes
<1> HIDE DEF s
<1>2. lo \in Nat /\ p * s = lo + s /\ p * s \in Nat
    BY <1>1, Pages
<1>3. Len(list) \in Nat /\ \A i \in 1..Len(list) : list[i] \in Keys
    OBVIOUS
<1>4. Slice(list, p) = slice
    BY DEF Slice, s
<1> HIDE DEF lo
<1>5. hi \in Nat /\ hi =< Len(list) /\ hi =< p * s /\ (p * s =< hi \/ hi = Len(list))
    BY <1>2, <1>3
<1>6. \A i \in (lo + 1)..hi : list[i] \in Keys
    BY <1>2, <1>3, <1>5
<1> HIDE DEF hi
<1>7. /\ slice \in Seq(Keys)
      /\ Len(slice) = IF lo + 1 =< hi THEN hi - (lo + 1) + 1 ELSE 0
      /\ \A i \in 1..(hi - (lo + 1) + 1) : slice[i] = list[(lo + 1) + i - 1]
    BY <1>2, <1>5, <1>6, SubSeqProperties
<1>8. ASSUME NEW j \in 1..Len(list), j > lo, j =< p * s
      PROVE  Contains(slice, list[j])
    <2>1. j - lo \in 1..(hi - (lo + 1) + 1) /\ (lo + 1) + (j - lo) - 1 = j
        BY <1>2, <1>5, <1>8
    <2>2. slice[j - lo] = list[j]
        BY <1>7, <2>1
    <2>3. j - lo \in 1..Len(slice)
        BY <1>2, <1>5, <1>7, <2>1
    <2>4. QED
        BY <2>2, <2>3 DEF Contains
<1>9. ASSUME Len(list) > p * s PROVE Len(slice) = s
    <2>1. hi = lo + s
        BY <1>2, <1>3, <1>5, <1>9
    <2>2. QED
        BY <1>1, <1>2, <1>7, <2>1
<1>10. ASSUME NEW j \in 1..Len(list), j > lo
       PROVE  j > p * s \/ Contains(slice, list[j])
    BY <1>2, <1>8, <1>10
<1> HIDE DEF slice
<1>11. QED
    BY <1>4, <1>7, <1>9, <1>10 DEF s, lo

\* Whoever stops reading a list that is readable has come to its end.
LEMMA EndOfKeys ==
    ASSUME NEW list \in Seq(Keys), NEW p \in 1..MaxListPages, server \in Servers,
           Readable(list), LastKeys(Page(list, p)) \/ p = MaxListPages
    PROVE  Len(list) =< p * server.size
<1> DEFINE s == server.size
           answer == Page(list, p)
<1> SUFFICES Len(list) =< p * s
    OBVIOUS
<1>1. s \in Nat \ {0} /\ p \in Nat \ {0} /\ Len(list) \in Nat
    <2>1. s \in Nat \ {0}
        BY Sizes, Zenon
    <2>2. p \in Nat \ {0}
        BY ONLY Sizes, p \in 1..MaxListPages
    <2>3. Len(list) \in Nat
        BY ONLY list \in Seq(Keys)
    <2>4. QED
        BY <2>1, <2>2, <2>3
<1>2. p * s \in Nat /\ 1 * s =< p * s
    BY <1>1, Pages
<1>3. /\ answer.results = Slice(list, p)
      /\ answer.page = (IF server.odd = "page 1" THEN 1 ELSE p)
      /\ answer.size = (IF server.odd = "no size" THEN PerPage ELSE s)
      /\ answer.total = (IF server.odd = "no total" THEN 0 ELSE Len(list))
    BY DEF Page
<1>4. answer.size = s
    BY <1>3 DEF Readable
<1>5. CASE p = MaxListPages
    <2>1. Len(list) =< s * p
        BY <1>5 DEF Readable
    <2>2. s * p = p * s
        BY ONLY <1>1
    <2>3. QED
        BY <2>1, <2>2
<1> HIDE DEF answer, s
<1>6. CASE answer.total > 0 /\ answer.page >= TotalPages(answer)
    <2>1. answer.total = Len(list) /\ answer.page \in Nat /\ answer.page =< p
        <3>1. answer.total = Len(list)
            <4>1. answer.total = 0 \/ answer.total = Len(list)
                BY ONLY <1>3
            <4>2. answer.total # 0
                BY ONLY <1>6
            <4>3. QED
                BY ONLY <4>1, <4>2
        <3>2. answer.page = 1 \/ answer.page = p
            BY ONLY <1>3
        <3>3. QED
            BY ONLY <1>1, <3>1, <3>2
    <2>2. answer.page >= (Len(list) + s - 1) \div s
        BY <1>4, <1>6, <2>1 DEF TotalPages
    <2>3. Len(list) =< answer.page * s /\ answer.page * s =< p * s
        BY <1>1, <2>1, <2>2, Pages
    <2>4. answer.page * s \in Nat
        BY <1>1, <2>1, Pages
    <2>5. QED
        BY <1>1, <1>2, <2>3, <2>4
<1>7. CASE ~(answer.total > 0) /\ Len(answer.results) < answer.size
    <2>1. SUFFICES ASSUME Len(list) > p * s PROVE FALSE
        BY <1>1, <1>2
    <2>2. Len(answer.results) = s
        BY <1>1, <1>3, <2>1, Slices DEF s
    <2>3. QED
        BY <1>1, <1>4, <1>7, <2>2
<1>8. QED
    BY <1>5, <1>6, <1>7 DEF LastKeys, answer

LEMMA EndOfLog ==
    ASSUME NEW list \in Seq(Keys), NEW p \in 1..MaxListPages, server \in Servers,
           Readable(list), server.odd # "no total",
           LastLog(Page(list, p), p) \/ p = MaxListPages
    PROVE  Len(list) =< p * server.size
<1> DEFINE s == server.size
           answer == Page(list, p)
<1> SUFFICES Len(list) =< p * s
    OBVIOUS
<1>1. s \in Nat \ {0} /\ p \in Nat \ {0} /\ Len(list) \in Nat
    <2>1. s \in Nat \ {0}
        BY Sizes, Zenon
    <2>2. p \in Nat \ {0}
        BY ONLY Sizes, p \in 1..MaxListPages
    <2>3. Len(list) \in Nat
        BY ONLY list \in Seq(Keys)
    <2>4. QED
        BY <2>1, <2>2, <2>3
<1>2. p * s \in Nat
    BY <1>1, Pages
<1>3. /\ answer.size = (IF server.odd = "no size" THEN PerPage ELSE s)
      /\ answer.total = Len(list)
    BY DEF Page
<1>4. answer.size = s
    BY <1>3 DEF Readable
<1>5. CASE p = MaxListPages
    <2>1. Len(list) =< s * p
        BY <1>5 DEF Readable
    <2>2. s * p = p * s
        BY ONLY <1>1
    <2>3. QED
        BY <2>1, <2>2
<1> HIDE DEF answer, s
<1>6. CASE answer.total = 0
    <2>1. Len(list) = 0
        BY ONLY <1>3, <1>6
    <2>2. QED
        BY ONLY <1>2, <2>1
<1>7. CASE p >= TotalPages(answer)
    <2>1. p >= (Len(list) + s - 1) \div s
        BY <1>3, <1>4, <1>7 DEF TotalPages
    <2>2. QED
        BY <1>1, <2>1, Pages
<1>8. QED
    BY <1>5, <1>6, <1>7 DEF LastLog, answer

\* An insertion keeps every entry, at the same place or a later one.
LEMMA Inserted ==
    ASSUME NEW list \in Seq(Keys), NEW i \in 1..(Len(list) + 1), NEW e \in Keys
    PROVE  /\ InsertAt(list, i, e) \in Seq(Keys)
           /\ Len(InsertAt(list, i, e)) = Len(list) + 1
           /\ \A j \in 1..Len(list) :
                 \E l \in j..(Len(list) + 1) : InsertAt(list, i, e)[l] = list[j]
<1> DEFINE n == Len(list)
           front == SubSeq(list, 1, i - 1)
           back == SubSeq(list, i, n)
           grown == (front \o <<e>>) \o back
<1>0. n \in Nat /\ i \in Nat /\ i >= 1 /\ i =< n + 1 /\ i + (n + 1 - i) = n + 1
    OBVIOUS
<1>1. n \in Nat /\ i \in Nat /\ i >= 1 /\ i =< n + 1 /\ \A j \in 1..n : list[j] \in Keys
    OBVIOUS
<1>2. /\ front \in Seq(Keys) /\ Len(front) = i - 1
      /\ \A j \in 1..(i - 1) : front[j] = list[j]
    <2>1. \A j \in 1..(i - 1) : list[j] \in Keys
        BY <1>1
    <2>2. /\ front \in Seq(Keys) /\ Len(front) = IF 1 =< i - 1 THEN (i - 1) - 1 + 1 ELSE 0
          /\ \A j \in 1..((i - 1) - 1 + 1) : front[j] = list[1 + j - 1]
        BY <1>1, <2>1, SubSeqProperties
    <2>3. QED
        BY <1>1, <2>2
<1>3. /\ back \in Seq(Keys) /\ Len(back) = n + 1 - i
      /\ \A j \in 1..(n + 1 - i) : back[j] = list[i + j - 1]
    <2>1. \A j \in i..n : list[j] \in Keys
        BY <1>1
    <2>2. /\ back \in Seq(Keys) /\ Len(back) = IF i =< n THEN n - i + 1 ELSE 0
          /\ \A j \in 1..(n - i + 1) : back[j] = list[i + j - 1]
        BY <1>1, <2>1, SubSeqProperties
    <2>3. QED
        BY <1>1, <2>2
<1> HIDE DEF front, back
<1>4. /\ front \o <<e>> \in Seq(Keys) /\ Len(front \o <<e>>) = i
      /\ \A j \in 1..(i - 1) : (front \o <<e>>)[j] = front[j]
    <2>1. <<e>> \in Seq(Keys) /\ Len(<<e>>) = 1
        OBVIOUS
    <2>2. QED
        BY <1>1, <1>2, <2>1, ConcatProperties
<1>5. /\ grown \in Seq(Keys) /\ Len(grown) = n + 1
      /\ \A j \in 1..i : grown[j] = (front \o <<e>>)[j]
      /\ \A j \in (i + 1)..(n + 1) : grown[j] = back[j - i]
    <2> DEFINE r == front \o <<e>>
    <2>1. r \in Seq(Keys) /\ Len(r) = i /\ back \in Seq(Keys) /\ Len(back) = n + 1 - i
        BY <1>3, <1>4
    <2> HIDE DEF r
    <2>2. /\ r \o back \in Seq(Keys) /\ Len(r \o back) = Len(r) + Len(back)
          /\ \A j \in 1..(Len(r) + Len(back)) :
                (r \o back)[j] = IF j =< Len(r) THEN r[j] ELSE back[j - Len(r)]
        BY <2>1, ConcatProperties
    <2>3. Len(r) + Len(back) = n + 1
        BY <1>0, <2>1
    <2>4. \A j \in 1..(n + 1) : (r \o back)[j] = IF j =< i THEN r[j] ELSE back[j - i]
        BY <2>1, <2>2, <2>3
    <2>5. /\ \A j \in 1..i : (r \o back)[j] = r[j]
          /\ \A j \in (i + 1)..(n + 1) : (r \o back)[j] = back[j - i]
        <3>1. \A j \in 1..i : j \in 1..(n + 1) /\ j =< i
            BY ONLY <1>0
        <3>2. \A j \in (i + 1)..(n + 1) : j \in 1..(n + 1) /\ ~(j =< i)
            BY ONLY <1>0
        <3>3. QED
            BY <2>4, <3>1, <3>2
    <2>6. QED
        BY <2>2, <2>3, <2>5 DEF r
<1>6. InsertAt(list, i, e) = grown
    BY DEF InsertAt, front, back
<1> HIDE DEF grown
<1>7. ASSUME NEW j \in 1..n
      PROVE  \E l \in j..(n + 1) : grown[l] = list[j]
    <2>1. CASE j < i
        <3>1. grown[j] = list[j] /\ j \in j..(n + 1)
            BY <1>1, <1>2, <1>4, <1>5, <2>1
        <3>2. QED
            BY <3>1
    <2>2. CASE j >= i
        <3>1. j + 1 \in (i + 1)..(n + 1) /\ j + 1 - i \in 1..(n + 1 - i) /\ j + 1 \in j..(n + 1)
            BY <1>1, <2>2
        <3>2. grown[j + 1] = back[j + 1 - i] /\ back[j + 1 - i] = list[i + (j + 1 - i) - 1]
            BY <1>3, <1>5, <3>1
        <3>3. i + (j + 1 - i) - 1 = j
            BY <1>1
        <3>4. QED
            BY <3>1, <3>2, <3>3
    <2>3. QED
        BY <1>1, <2>1, <2>2
<1>8. QED
    BY <1>5, <1>6, <1>7

LEMMA RemovedTyped ==
    ASSUME NEW list \in Seq(Keys), NEW i \in 1..Len(list)
    PROVE  RemoveAt(list, i) \in Seq(Keys)
<1>1. Len(list) \in Nat /\ \A j \in 1..Len(list) : list[j] \in Keys
    OBVIOUS
<1>2. SubSeq(list, 1, i - 1) \in Seq(Keys)
    <2>1. \A j \in 1..(i - 1) : list[j] \in Keys
        BY <1>1
    <2>2. QED
        BY <2>1, SubSeqProperties
<1>3. SubSeq(list, i + 1, Len(list)) \in Seq(Keys)
    <2>1. \A j \in (i + 1)..Len(list) : list[j] \in Keys
        BY <1>1
    <2>2. QED
        BY <1>1, <2>1, SubSeqProperties
<1>4. QED
    BY <1>2, <1>3, ConcatProperties DEF RemoveAt

\* A reader of any number of pages; ReaderTyped adds the limit.
Tables == [TypesSet -> Seq(Keys)]
ListsTyped ==
    /\ lists \in Tables /\ start \in Tables
    /\ server \in Servers /\ reader \in Reader
    /\ changes \in 0..MaxChanges

\* The page read next is the one after those sent; the key looked for is one.
InStep == reader.pc = "keys" => reader.page = reader.sent + 1

\* While nothing is removed, what was in a list at the beginning is in it still.
Kept ==
    reader.pc \in {"keys", "log"} /\ ~removed =>
        \A t \in TypesSet : \A i \in DOMAIN start[t] : Contains(lists[t], start[t][i])

\* An entry on a page still to be read.
Ahead(list, e) ==
    \E j \in 1..Len(list) : list[j] = e /\ j > (reader.page - 1) * server.size

\* All that was in the list of type t at the beginning has been read.
AllRead(t) == \A i \in DOMAIN start[t] : Contains(reader.got, start[t][i])

\* The types before the current one have been read, and of the current one what
\* is not read is ahead: an insertion moves no entry to a page already read.
Reading ==
    reader.pc = "keys" /\ ~removed =>
        /\ \A k \in 1..(reader.type - 1) : Readable(lists[Types[k]]) => AllRead(Types[k])
        /\ \A i \in DOMAIN start[Types[reader.type]] :
              \/ Contains(reader.got, start[Types[reader.type]][i])
              \/ Ahead(lists[Types[reader.type]], start[Types[reader.type]][i])

\* The call looked for is ahead if it was in the log at the beginning.
Searching ==
    reader.pc = "log" /\ ~removed /\ Contains(start[Types[1]], reader.got[1]) =>
        Ahead(lists[Types[1]], reader.got[1])

\* KeysComplete, from the moment the last page has come.
AllKeysRead ==
    (reader.pc \in {"merge", "done"} /\ ~removed) =>
        \A t \in TypesSet : Readable(lists[t]) =>
            \A i \in DOMAIN start[t] : Contains(reader.got, start[t][i])

\* Key f is the first of those read that opens door d; no key before it has a
\* field for d.
FirstKey(keys, f, d) ==
    /\ f \in 1..Len(keys) /\ keys[f].door = d
    /\ \A j \in 1..Len(keys) : keys[j].door = d => f =< j
NoneFull(keys, n, d) == \A j \in 1..Len(keys) : j =< n /\ keys[j].door = d => keys[j].field = 0
FirstFull(keys, f, d) ==
    /\ f \in 1..Len(keys) /\ keys[f].door = d /\ keys[f].field # 0
    /\ NoneFull(keys, f - 1, d)

\* The doors are those of the first n keys: every door of these is there, in the
\* order of their first keys, and with the field of the first that has one.
DoorsOfFirst(doors, keys, n) ==
    /\ \A j \in 1..Len(keys) : j =< n => \E i \in 1..Len(doors) : doors[i].door = keys[j].door
    /\ \A i \in 1..Len(doors) : \E f \in 1..Len(keys) : f =< n /\ FirstKey(keys, f, doors[i].door)
    /\ \A i, j \in 1..Len(doors), f, g \in 1..Len(keys) :
          i < j /\ FirstKey(keys, f, doors[i].door) /\ FirstKey(keys, g, doors[j].door) => f < g
    /\ \A i \in 1..Len(doors) :
          \/ doors[i].field = 0 /\ NoneFull(keys, n, doors[i].door)
          \/ \E f \in 1..Len(keys) :
                f =< n /\ FirstFull(keys, f, doors[i].door) /\ doors[i].field = keys[f].field

\* The merging of the keys, from its beginning to its end.
Merging ==
    /\ reader.pc = "keys" => reader.merged = 0 /\ reader.doors = <<>>
    /\ reader.pc \in {"merge", "done"} =>
          /\ reader.merged =< Len(reader.got)
          /\ DoorsOfFirst(reader.doors, reader.got, reader.merged)
    /\ reader.pc = "done" => reader.merged = Len(reader.got)

PagingInv ==
    /\ ListsTyped /\ removed \in BOOLEAN
    /\ InStep /\ Kept /\ Reading /\ Searching /\ AllKeysRead /\ Merging /\ FoundIfThere

LEMMA PagingTypesAgree == PagingTypeOK <=> ListsTyped /\ removed \in BOOLEAN
BY Zenon DEF PagingTypeOK, ListsTyped, Tables

LEMMA TypesNumbered ==
    /\ Len(Types) \in Nat \ {0} /\ DOMAIN Types = 1..Len(Types)
    /\ \A k \in 1..Len(Types) : Types[k] \in TypesSet
    /\ \A t \in TypesSet : \E k \in 1..Len(Types) : Types[k] = t
<1>1. Types \in Seq(TypesSet) /\ Types # <<>>
    BY PagingOK, Zenon
<1>2. Len(Types) \in Nat \ {0} /\ DOMAIN Types = 1..Len(Types)
    BY <1>1
<1>3. QED
    BY <1>2 DEF TypesSet

LEMMA ReaderParts ==
    ASSUME NEW r \in Reader
    PROVE  /\ r.type \in 1..Len(Types) /\ r.page \in 1..MaxListPages
           /\ r.sent \in 0..(MaxListPages - 1) /\ r.got \in Seq(Keys)
           /\ r.merged \in Nat /\ r.doors \in Seq(Door)
BY TypesNumbered DEF Reader

LEMMA BeginTyped ==
    /\ NoReader \in Reader
    /\ [NoReader EXCEPT !.pc = "keys"] \in Reader
    /\ \A e \in Keys : [NoReader EXCEPT !.pc = "log", !.got = <<e>>] \in Reader
<1>1. 1 \in 1..Len(Types) /\ 1 \in 1..MaxListPages /\ 0 \in 0..(MaxListPages - 1)
    BY TypesNumbered, Sizes
<1>2. /\ <<>> \in Seq(Keys) /\ (\A e \in Keys : <<e>> \in Seq(Keys))
      /\ <<>> \in Seq(Door) /\ 0 \in Nat
    OBVIOUS
<1>3. QED
    BY <1>1, <1>2, TypesNumbered DEF Reader, NoReader

LEMMA PagingInitially == PagingInit => PagingInv
<1> SUFFICES ASSUME PagingInit PROVE PagingInv
    OBVIOUS
<1>1. BoundedSeq(Keys, MaxListEntries - 1) \subseteq Seq(Keys)
    <2>1. ASSUME NEW n \in 0..(MaxListEntries - 1) PROVE [1..n -> Keys] \subseteq Seq(Keys)
        <3>1. n \in Nat
            OBVIOUS
        <3>2. QED
            BY <3>1, SeqDef
    <2>2. QED
        BY <2>1 DEF BoundedSeq, SeqOf
<1>2. lists \in Tables /\ start \in Tables
    BY <1>1 DEF PagingInit, Tables
<1>3. 0 \in 0..MaxChanges
    <2>1. MaxChanges \in Nat
        BY PagingOK, Zenon
    <2>2. QED
        BY <2>1
<1>4. reader = NoReader /\ server \in Servers /\ changes = 0 /\ removed = FALSE
    BY DEF PagingInit
<1>5. reader \in Reader /\ reader.pc = "idle"
    BY <1>4, BeginTyped DEF NoReader
<1>6. ListsTyped
    BY <1>2, <1>3, <1>4, <1>5 DEF ListsTyped
<1>7. InStep /\ Kept /\ Reading /\ Searching /\ AllKeysRead /\ Merging /\ FoundIfThere
    BY <1>5 DEF InStep, Kept, Reading, Searching, AllKeysRead, Merging, FoundIfThere
<1>8. removed \in BOOLEAN
    BY <1>4
<1>9. QED
    BY <1>6, <1>7, <1>8 DEF PagingInv

\* A list and what a reading that begins finds ahead in it: everything.
LEMMA AllAhead ==
    ASSUME NEW list \in Seq(Keys), NEW e, Contains(list, e), reader.page = 1,
           server \in Servers
    PROVE  Ahead(list, e)
<1>1. PICK j \in 1..Len(list) : list[j] = e
    BY DEF Contains
<1>2. (reader.page - 1) * server.size = 0 /\ Len(list) \in Nat
    BY Sizes
<1>3. j > (reader.page - 1) * server.size
    BY <1>2
<1>4. QED
    BY <1>1, <1>3 DEF Ahead

\* What has been read, and what is ahead, after one more page.
LEMMA PageRead ==
    ASSUME PagingInv, reader.pc = "keys",
           NEW got, got = reader.got \o Slice(lists[Types[reader.type]], reader.page)
    PROVE  /\ got \in Seq(Keys)
           /\ \A e : Contains(reader.got, e) => Contains(got, e)
           /\ ~removed =>
                 LET t == Types[reader.type]
                 IN  \A i \in DOMAIN start[t] :
                        \/ Contains(got, start[t][i])
                        \/ \E j \in 1..Len(lists[t]) :
                              lists[t][j] = start[t][i] /\ j > reader.page * server.size
<1> DEFINE t == Types[reader.type]
           slice == Slice(lists[t], reader.page)
<1>1. lists \in Tables /\ server \in Servers /\ reader \in Reader
    BY DEF PagingInv, ListsTyped
<1>2. t \in TypesSet /\ reader.page \in Nat \ {0} /\ reader.got \in Seq(Keys)
    <2>1. reader.type \in 1..Len(Types) /\ reader.page \in 1..MaxListPages
          /\ reader.got \in Seq(Keys)
        BY <1>1, ReaderParts
    <2>2. t \in TypesSet
        BY <2>1, TypesNumbered
    <2>3. reader.page \in Nat \ {0}
        BY <2>1
    <2>4. QED
        BY <2>1, <2>2, <2>3
<1>3. lists[t] \in Seq(Keys)
    BY <1>1, <1>2 DEF Tables
<1>4. /\ slice \in Seq(Keys)
      /\ \A j \in 1..Len(lists[t]) :
            j > (reader.page - 1) * server.size =>
               j > reader.page * server.size \/ Contains(slice, lists[t][j])
    BY <1>1, <1>2, <1>3, Slices
<1> HIDE DEF slice
<1>5. got = reader.got \o slice
    BY DEF slice
<1>6. \A e : Contains(got, e) <=> Contains(reader.got, e) \/ Contains(slice, e)
    BY <1>2, <1>4, <1>5, ContainsBoth
<1>7. got \in Seq(Keys)
    BY <1>2, <1>4, <1>5, ConcatProperties
<1>8. ASSUME ~removed, NEW i \in DOMAIN start[t]
      PROVE  \/ Contains(got, start[t][i])
             \/ \E j \in 1..Len(lists[t]) :
                   lists[t][j] = start[t][i] /\ j > reader.page * server.size
    <2>1. Contains(reader.got, start[t][i]) \/ Ahead(lists[t], start[t][i])
        BY <1>8 DEF PagingInv, Reading
    <2>2. CASE Contains(reader.got, start[t][i])
        BY <1>6, <2>2
    <2>3. CASE Ahead(lists[t], start[t][i])
        <3>1. PICK j \in 1..Len(lists[t]) :
                    lists[t][j] = start[t][i] /\ j > (reader.page - 1) * server.size
            BY <2>3 DEF Ahead
        <3>2. QED
            BY <1>4, <1>6, <3>1
    <2>4. QED
        BY <2>1, <2>2, <2>3
<1>9. QED
    BY <1>6, <1>7, <1>8

LEMMA NoDoors == ASSUME NEW keys \in Seq(Keys) PROVE DoorsOfFirst(<<>>, keys, 0)
<1>1. Len(<<>>) = 0 /\ (\A j \in 1..Len(keys) : ~(j =< 0)) /\ 1..0 = {}
    OBVIOUS
<1>2. QED
    BY <1>1 DEF DoorsOfFirst

LEMMA KeysPageKeeps ==
    ASSUME PagingInv, KeysPage
    PROVE  PagingInv'
<1> DEFINE t == Types[reader.type]
           p == reader.page
           answer == Page(lists[t], p)
           got == reader.got \o Slice(lists[t], p)
           end == \A e : (\E j \in 1..Len(lists[t]) : lists[t][j] = e /\ j > p * server.size)
                        => ~Readable(lists[t])
<1>1. /\ lists \in Tables /\ server \in Servers /\ reader \in Reader /\ reader.pc = "keys"
      /\ UNCHANGED <<lists, server, changes, start, removed>>
    BY DEF KeysPage, PagingInv, ListsTyped
<1>2. /\ reader.type \in 1..Len(Types) /\ p \in 1..MaxListPages /\ p = reader.sent + 1
      /\ reader.sent \in 0..(MaxListPages - 1) /\ MaxListPages \in Nat \ {0}
    BY <1>1, ReaderParts, Sizes DEF PagingInv, InStep
<1>3. t \in TypesSet /\ lists[t] \in Seq(Keys)
    <2>1. t \in TypesSet
        BY <1>2, TypesNumbered
    <2>2. QED
        BY <1>1, <2>1 DEF Tables
<1>4. /\ got \in Seq(Keys)
      /\ \A e : Contains(reader.got, e) => Contains(got, e)
      /\ ~removed =>
            \A i \in DOMAIN start[t] :
               \/ Contains(got, start[t][i])
               \/ \E j \in 1..Len(lists[t]) :
                     lists[t][j] = start[t][i] /\ j > p * server.size
    BY <1>1, PageRead
<1>5. ASSUME ~More(answer) PROVE end
    <2>1. LastKeys(answer) \/ p = MaxListPages
        BY <1>2, <1>5 DEF More
    <2>2. Readable(lists[t]) => Len(lists[t]) =< p * server.size
        BY <1>1, <1>2, <1>3, <2>1, EndOfKeys
    <2>3. p * server.size \in Nat /\ Len(lists[t]) \in Nat
        BY <1>1, <1>2, <1>3, Sizes, Pages
    <2>4. \A j \in 1..Len(lists[t]) :
              j > p * server.size => ~(Len(lists[t]) =< p * server.size)
        BY <2>3
    <2>5. QED
        BY <2>2, <2>4
<1>6. answer.page \in {1, p} /\ answer.results = Slice(lists[t], p)
    BY DEF Page
<1>7. (IF p > answer.page THEN p + 1 ELSE answer.page + 1) = p + 1
    BY <1>2, <1>6
<1>8. \/ /\ More(answer)
         /\ reader' = [reader EXCEPT !.page = p + 1, !.sent = @ + 1, !.got = got]
      \/ /\ ~More(answer) /\ reader.type < Len(Types)
         /\ reader' = [reader EXCEPT !.type = @ + 1, !.page = 1, !.sent = 0, !.got = got]
      \/ /\ ~More(answer) /\ ~(reader.type < Len(Types))
         /\ reader' = [reader EXCEPT !.pc = "merge", !.got = got]
    BY <1>6, <1>7 DEF KeysPage
<1>9. ASSUME ~removed, NEW k \in 1..(reader.type - 1), Readable(lists[Types[k]])
      PROVE  \A i \in DOMAIN start[Types[k]] : Contains(got, start[Types[k]][i])
    BY <1>1, <1>4, <1>9 DEF PagingInv, Reading, AllRead
<1>10. ASSUME ~removed, Readable(lists[t]), ~More(answer)
       PROVE  \A i \in DOMAIN start[t] : Contains(got, start[t][i])
    BY <1>4, <1>5, <1>10
<1>11. ASSUME ~removed, NEW u \in TypesSet, NEW i \in DOMAIN start[u]
       PROVE  Contains(lists[u], start[u][i])
    BY <1>1, <1>11 DEF PagingInv, Kept
<1>12. Searching' /\ FoundIfThere'
    <2>1. reader'.pc \in {"keys", "merge"}
        BY <1>1, <1>8, Zenon DEF Reader
    <2>2. QED
        BY <2>1 DEF Searching, FoundIfThere
<1>13. lists' = lists /\ start' = start /\ server' = server /\ removed' = removed
    BY <1>1
<1>14. Kept'
    BY <1>1, <1>13 DEF Kept, PagingInv
<1>15. ASSUME reader' \in Reader PROVE ListsTyped' /\ (removed \in BOOLEAN)'
    BY <1>1, <1>15 DEF PagingInv, ListsTyped
<1> HIDE DEF answer, got, end, p
<1>16. CASE /\ More(answer)
            /\ reader' = [reader EXCEPT !.page = p + 1, !.sent = @ + 1, !.got = got]
    <2>1. /\ reader'.pc = "keys" /\ reader'.type = reader.type /\ reader'.page = p + 1
          /\ reader'.sent = reader.sent + 1 /\ reader'.got = got
        BY <1>1, <1>16 DEF Reader
    <2>2. reader.sent + 1 < MaxListPages
        BY <1>16 DEF More
    <2>3. reader' \in Reader
        <3>1. p + 1 \in 1..MaxListPages /\ reader.sent + 1 \in 0..(MaxListPages - 1)
            BY <1>2, <2>2
        <3>2. QED
            BY <1>1, <1>4, <1>16, <3>1 DEF Reader
    <2>4. InStep' /\ AllKeysRead' /\ Merging'
        <3>1. reader.merged = 0 /\ reader.doors = <<>>
            BY <1>1 DEF PagingInv, Merging
        <3>2. reader'.merged = 0 /\ reader'.doors = <<>>
            BY <1>1, <1>16, <3>1 DEF Reader
        <3>3. QED
            BY <1>2, <2>1, <3>2 DEF InStep, AllKeysRead, Merging
    <2>5. (p + 1) - 1 = p
        BY <1>2
    <2>6. ASSUME ~removed, NEW i \in DOMAIN start[t]
          PROVE  Contains(got, start[t][i]) \/ Ahead(lists[t], start[t][i])'
        <3>1. CASE Contains(got, start[t][i])
            BY <3>1
        <3>2. CASE \E j \in 1..Len(lists[t]) :
                      lists[t][j] = start[t][i] /\ j > p * server.size
            <4>1. PICK j \in 1..Len(lists[t]) :
                      lists[t][j] = start[t][i] /\ j > p * server.size
                BY <3>2
            <4>2. (reader'.page - 1) * server.size = p * server.size
                BY <2>1, <2>5
            <4>3. Types[reader.type] = t
                BY DEF t
            <4>4. Ahead(lists[t], start[t][i])'
                BY <1>13, <2>1, <4>1, <4>2 DEF Ahead, t
            <4>5. QED
                BY <4>4
        <3>3. QED
            BY <1>4, <2>6, <3>1, <3>2
    <2>7. ASSUME ~removed, NEW k \in 1..(reader.type - 1), Readable(lists[Types[k]])
          PROVE  \A i \in DOMAIN start'[Types[k]] : Contains(reader'.got, start'[Types[k]][i])
        BY <1>9, <1>13, <2>1, <2>7
    <2>8. ASSUME ~removed, NEW i \in DOMAIN start[t]
          PROVE  Contains(reader'.got, start[t][i]) \/ Ahead(lists[t], start[t][i])'
        BY <2>1, <2>6, <2>8
    <2>9. Reading'
        <3>1. Types[reader'.type] = t /\ reader'.type = reader.type /\ t' = t
            BY <2>1 DEF t
        <3>2. (\A k \in 1..(reader.type - 1) : Readable(lists[Types[k]]) => AllRead(Types[k]))'
            \/ removed
            BY <1>13, <2>1, <2>7 DEF AllRead, Readable
        <3>3. QED
            BY <1>13, <2>8, <3>1, <3>2 DEF Reading
    <2>10. QED
        BY <1>12, <1>14, <1>15, <2>3, <2>4, <2>9 DEF PagingInv
<1>17. CASE /\ ~More(answer) /\ reader.type < Len(Types)
            /\ reader' = [reader EXCEPT !.type = @ + 1, !.page = 1, !.sent = 0, !.got = got]
    <2>1. /\ reader'.pc = "keys" /\ reader'.type = reader.type + 1 /\ reader'.page = 1
          /\ reader'.sent = 0 /\ reader'.got = got
        BY <1>1, <1>17 DEF Reader
    <2>2. reader.type + 1 \in 1..Len(Types) /\ 1 \in 1..MaxListPages /\ 0 \in 0..(MaxListPages - 1)
        BY <1>2, <1>17, TypesNumbered
    <2>3. reader' \in Reader
        BY <1>1, <1>4, <1>17, <2>2, TypesNumbered DEF Reader
    <2>4. InStep' /\ AllKeysRead' /\ Merging'
        <3>1. reader.merged = 0 /\ reader.doors = <<>>
            BY <1>1 DEF PagingInv, Merging
        <3>2. reader'.merged = 0 /\ reader'.doors = <<>>
            BY <1>1, <1>17, <3>1 DEF Reader
        <3>3. QED
            BY <2>1, <3>2 DEF InStep, AllKeysRead, Merging
    <2>5. Types[reader.type + 1] \in TypesSet
        BY <2>2, TypesNumbered
    <2> DEFINE u == Types[reader.type + 1]
    <2>6. ASSUME ~removed, NEW i \in DOMAIN start[u]
          PROVE  \E j \in 1..Len(lists[u]) : lists[u][j] = start[u][i] /\ j > (1 - 1) * server.size
        <3>1. lists[u] \in Seq(Keys) /\ Contains(lists[u], start[u][i])
            BY <1>1, <1>11, <2>5, <2>6 DEF Tables
        <3>2. PICK j \in 1..Len(lists[u]) : lists[u][j] = start[u][i]
            BY <3>1 DEF Contains
        <3>3. j > (1 - 1) * server.size
            BY <1>1, <3>1, Sizes
        <3>4. QED
            BY <3>2, <3>3
    <2>7. ASSUME ~removed, NEW k \in 1..reader.type, Readable(lists[Types[k]])
          PROVE  \A i \in DOMAIN start'[Types[k]] : Contains(reader'.got, start'[Types[k]][i])
        <3>1. k = reader.type \/ k \in 1..(reader.type - 1)
            BY <1>2
        <3>2. \A i \in DOMAIN start[Types[k]] : Contains(got, start[Types[k]][i])
            BY <1>9, <1>10, <1>17, <2>7, <3>1 DEF t
        <3>3. QED
            BY <1>13, <2>1, <3>2
    <2>8. Reading'
        <3>1. reader'.type - 1 = reader.type /\ Types[reader'.type] = u
            BY <1>2, <2>1
        <3> HIDE DEF u
        <3>2. removed \/ \A k \in 1..(reader'.type - 1) :
                            (Readable(lists[Types[k]]) => AllRead(Types[k]))'
            BY <1>13, <2>7, <3>1 DEF AllRead, Readable
        <3>3. removed \/ \A i \in DOMAIN start'[u] :
                 \E j \in 1..Len(lists'[u]) :
                    lists'[u][j] = start'[u][i] /\ j > (reader'.page - 1) * server'.size
            BY <1>13, <2>1, <2>6
        <3>4. QED
            BY <1>13, <3>1, <3>2, <3>3 DEF Reading, Ahead
    <2>9. QED
        BY <1>12, <1>14, <1>15, <2>3, <2>4, <2>8 DEF PagingInv
<1>18. CASE /\ ~More(answer) /\ ~(reader.type < Len(Types))
            /\ reader' = [reader EXCEPT !.pc = "merge", !.got = got]
    <2>1. reader'.pc = "merge" /\ reader'.got = got
        BY <1>1, <1>18 DEF Reader
    <2>2. reader' \in Reader
        BY <1>1, <1>4, <1>18 DEF Reader
    <2>3. InStep' /\ Reading'
        BY <2>1 DEF InStep, Reading
    <2>4. ASSUME ~removed, NEW u \in TypesSet, Readable(lists[u])
          PROVE  \A i \in DOMAIN start[u] : Contains(got, start[u][i])
        <3>1. PICK k \in 1..Len(Types) : Types[k] = u
            BY TypesNumbered
        <3>2. k = reader.type \/ k \in 1..(reader.type - 1)
            BY <1>2, <1>18, TypesNumbered
        <3>3. QED
            BY <1>9, <1>10, <1>18, <2>4, <3>1, <3>2 DEF t
    <2>5. AllKeysRead'
        BY <1>13, <2>1, <2>4 DEF AllKeysRead, Readable
    <2>6. Merging'
        <3>1. reader.merged = 0 /\ reader.doors = <<>>
            BY <1>1 DEF PagingInv, Merging
        <3>2. reader'.merged = 0 /\ reader'.doors = <<>> /\ 0 =< Len(got)
            BY <1>1, <1>4, <1>18, <3>1 DEF Reader
        <3>3. DoorsOfFirst(<<>>, got, 0)
            BY <1>4, NoDoors
        <3>4. QED
            BY <2>1, <3>2, <3>3 DEF Merging
    <2>7. QED
        BY <1>12, <1>14, <1>15, <2>2, <2>3, <2>5, <2>6 DEF PagingInv
<1>19. QED
    BY <1>8, <1>16, <1>17, <1>18

\* One more key is merged: a door of its own, or nothing but an empty field.
LEMMA OneMoreKey ==
    ASSUME NEW doors \in Seq(Door), NEW keys \in Seq(Keys), NEW n \in Nat, n < Len(keys),
           DoorsOfFirst(doors, keys, n)
    PROVE  /\ Merged(doors, keys[n + 1]) \in Seq(Door)
           /\ DoorsOfFirst(Merged(doors, keys[n + 1]), keys, n + 1)
<1> DEFINE key == keys[n + 1]
           most == Len(doors)
           all == Len(keys)
<1>1. /\ most \in Nat /\ all \in Nat /\ DOMAIN doors = 1..most /\ n + 1 \in 1..all
      /\ key \in Keys /\ \A i \in 1..most : doors[i] \in Door
    OBVIOUS
<1>2. key \in Door /\ \A i \in 1..most : doors[i] = [door |-> doors[i].door, field |-> doors[i].field]
    <2>1. key = [door |-> key.door, field |-> key.field]
        BY <1>1, PagingOK, Zenon
    <2>2. key \in Door
        BY <1>1, <2>1, Zenon DEF Door
    <2>3. QED
        BY <1>1, <2>2 DEF Door
<1>3. /\ \A j \in 1..all : j =< n => \E i \in 1..most : doors[i].door = keys[j].door
      /\ \A i \in 1..most : \E f \in 1..all : f =< n /\ FirstKey(keys, f, doors[i].door)
      /\ \A i, j \in 1..most, f, g \in 1..all :
            i < j /\ FirstKey(keys, f, doors[i].door) /\ FirstKey(keys, g, doors[j].door) => f < g
      /\ \A i \in 1..most :
            \/ doors[i].field = 0 /\ NoneFull(keys, n, doors[i].door)
            \/ \E f \in 1..all :
                  f =< n /\ FirstFull(keys, f, doors[i].door) /\ doors[i].field = keys[f].field
    BY DEF DoorsOfFirst
<1>4. ASSUME NEW j \in 1..all, j =< n + 1 PROVE j =< n \/ j = n + 1
    BY <1>4
<1>5. ASSUME NEW d, NoneFull(keys, n, d), key.door # d \/ key.field = 0
      PROVE  NoneFull(keys, n + 1, d)
    BY <1>4, <1>5 DEF NoneFull
<1>6. ASSUME NEW d, NoneFull(keys, n, d), key.door = d, key.field # 0
      PROVE  FirstFull(keys, n + 1, d)
    <2>1. (n + 1) - 1 = n
        OBVIOUS
    <2>2. QED
        BY <1>1, <1>6, <2>1 DEF FirstFull
<1> HIDE DEF key, most, all
<1>7. CASE \E i \in 1..most : doors[i].door = key.door
    <2> DEFINE more == [i \in 1..most |->
                          IF doors[i].door = key.door /\ doors[i].field = 0
                          THEN [doors[i] EXCEPT !.field = key.field] ELSE doors[i]]
    <2>1. Merged(doors, key) = more
        BY <1>1, <1>7, Zenon DEF Merged
    <2>2. ASSUME NEW i \in 1..most
          PROVE  /\ more[i] \in Door /\ more[i].door = doors[i].door
                 /\ more[i].field = (IF doors[i].door = key.door /\ doors[i].field = 0
                                     THEN key.field ELSE doors[i].field)
        BY <1>1, <1>2 DEF Door
    <2>3. more \in Seq(Door) /\ Len(more) = most
        <3>1. more \in [1..most -> Door]
            BY <2>2, Zenon
        <3>2. QED
            BY <1>1, <3>1
    <2> HIDE DEF more
    <2>4. ASSUME NEW j \in 1..all, j =< n + 1
          PROVE  \E i \in 1..most : more[i].door = keys[j].door
        BY <1>3, <1>4, <1>7, <2>2, <2>4 DEF key
    <2>5. ASSUME NEW i \in 1..most
          PROVE  \E f \in 1..all : f =< n + 1 /\ FirstKey(keys, f, more[i].door)
        <3>1. PICK f \in 1..all : f =< n /\ FirstKey(keys, f, doors[i].door)
            BY <1>3
        <3>2. f =< n + 1
            BY <1>1, <3>1
        <3>3. QED
            BY <2>2, <3>1, <3>2
    <2>6. ASSUME NEW i \in 1..most, NEW j \in 1..most, NEW f \in 1..all, NEW g \in 1..all,
                 i < j, FirstKey(keys, f, more[i].door), FirstKey(keys, g, more[j].door)
          PROVE  f < g
        <3>1. FirstKey(keys, f, doors[i].door) /\ FirstKey(keys, g, doors[j].door)
            BY <2>2, <2>6
        <3>2. QED
            BY <1>3, <2>6, <3>1
    <2>7. ASSUME NEW i \in 1..most
          PROVE  \/ more[i].field = 0 /\ NoneFull(keys, n + 1, more[i].door)
                 \/ \E f \in 1..all :
                       f =< n + 1 /\ FirstFull(keys, f, more[i].door) /\ more[i].field = keys[f].field
        <3>1. CASE doors[i].field = 0 /\ NoneFull(keys, n, doors[i].door)
            <4>1. CASE doors[i].door = key.door /\ key.field # 0
                <5>1. FirstFull(keys, n + 1, doors[i].door) /\ more[i].field = key.field
                    BY <1>6, <2>2, <3>1, <4>1
                <5>2. n + 1 \in 1..all /\ n + 1 =< n + 1
                    BY <1>1
                <5>3. QED
                    BY <2>2, <5>1, <5>2 DEF key
            <4>2. CASE doors[i].door # key.door \/ key.field = 0
                BY <1>5, <2>2, <3>1, <4>2
            <4>3. QED
                BY <4>1, <4>2
        <3>2. CASE \E f \in 1..all :
                      f =< n /\ FirstFull(keys, f, doors[i].door) /\ doors[i].field = keys[f].field
            <4>1. PICK f \in 1..all :
                      f =< n /\ FirstFull(keys, f, doors[i].door) /\ doors[i].field = keys[f].field
                BY <3>2
            <4>2. doors[i].field # 0
                BY <4>1 DEF FirstFull
            <4>3. f =< n + 1
                BY <1>1, <4>1
            <4>4. QED
                BY <2>2, <4>1, <4>2, <4>3
        <3>3. QED
            BY <1>3, <3>1, <3>2
    <2>8. DoorsOfFirst(more, keys, n + 1)
        BY <2>3, <2>4, <2>5, <2>6, <2>7 DEF DoorsOfFirst, all
    <2>9. QED
        BY <2>1, <2>3, <2>8 DEF key
<1>8. CASE ~ \E i \in 1..most : doors[i].door = key.door
    <2> DEFINE more == Append(doors, key)
    <2>1. Merged(doors, key) = more
        BY <1>1, <1>8, Zenon DEF Merged
    <2>2. /\ more \in Seq(Door) /\ Len(more) = most + 1 /\ more[most + 1] = key
          /\ \A i \in 1..most : more[i] = doors[i]
        BY <1>2 DEF most
    <2>3. ASSUME NEW i \in 1..(most + 1) PROVE i \in 1..most \/ i = most + 1
        BY <1>1
    <2>4. most + 1 \in 1..(most + 1) /\ \A i \in 1..most : i \in 1..(most + 1)
        BY <1>1
    <2> HIDE DEF more
    <2>5. \A j \in 1..all : j =< n => keys[j].door # key.door
        BY <1>3, <1>8
    <2>6. FirstKey(keys, n + 1, key.door)
        <3>1. \A j \in 1..all : keys[j].door = key.door => n + 1 =< j
            BY <1>1, <2>5
        <3>2. QED
            BY <1>1, <3>1 DEF FirstKey, key, all
    <2>7. ASSUME NEW j \in 1..all, j =< n + 1
          PROVE  \E i \in 1..(most + 1) : more[i].door = keys[j].door
        BY <1>3, <1>4, <2>2, <2>4, <2>7 DEF key
    <2>8. ASSUME NEW i \in 1..(most + 1)
          PROVE  \E f \in 1..all : f =< n + 1 /\ FirstKey(keys, f, more[i].door)
        <3>1. CASE i = most + 1
            BY <1>1, <2>2, <2>6, <3>1
        <3>2. CASE i \in 1..most
            <4>1. PICK f \in 1..all : f =< n /\ FirstKey(keys, f, doors[i].door)
                BY <1>3, <3>2
            <4>2. f =< n + 1
                BY <1>1, <4>1
            <4>3. QED
                BY <2>2, <3>2, <4>1, <4>2
        <3>3. QED
            BY <2>3, <3>1, <3>2
    <2>9. ASSUME NEW i \in 1..(most + 1), NEW j \in 1..(most + 1), NEW f \in 1..all,
                 NEW g \in 1..all,
                 i < j, FirstKey(keys, f, more[i].door), FirstKey(keys, g, more[j].door)
          PROVE  f < g
        <3>1. i \in 1..most
            BY <1>1, <2>9
        <3>2. FirstKey(keys, f, doors[i].door)
            BY <2>2, <2>9, <3>1
        <3>3. CASE j \in 1..most
            BY <1>3, <2>2, <2>9, <3>1, <3>2, <3>3
        <3>4. CASE j = most + 1
            <4>1. FirstKey(keys, g, key.door)
                BY <2>2, <2>9, <3>4
            <4>2. g > n
                BY <1>1, <2>5, <4>1 DEF FirstKey
            <4>3. PICK l \in 1..all : l =< n /\ FirstKey(keys, l, doors[i].door)
                BY <1>3, <3>1
            <4>4. f =< l
                BY <3>2, <4>3 DEF FirstKey, all
            <4>5. QED
                BY <1>1, <4>2, <4>3, <4>4
        <3>5. QED
            BY <2>3, <3>3, <3>4
    <2>10. ASSUME NEW i \in 1..(most + 1)
           PROVE  \/ more[i].field = 0 /\ NoneFull(keys, n + 1, more[i].door)
                  \/ \E f \in 1..all :
                        f =< n + 1 /\ FirstFull(keys, f, more[i].door) /\ more[i].field = keys[f].field
        <3>1. CASE i = most + 1
            <4>1. more[i] = key /\ NoneFull(keys, n, key.door)
                BY <2>2, <2>5, <3>1 DEF NoneFull, all
            <4>2. CASE key.field = 0
                BY <1>5, <4>1, <4>2
            <4>3. CASE key.field # 0
                <5>1. FirstFull(keys, n + 1, key.door) /\ n + 1 \in 1..all /\ n + 1 =< n + 1
                    BY <1>1, <1>6, <4>1, <4>3
                <5>2. QED
                    BY <4>1, <5>1 DEF key
            <4>4. QED
                BY <4>2, <4>3
        <3>2. CASE i \in 1..most
            <4>1. more[i] = doors[i] /\ doors[i].door # key.door
                BY <1>8, <2>2, <3>2
            <4>2. CASE doors[i].field = 0 /\ NoneFull(keys, n, doors[i].door)
                BY <1>5, <4>1, <4>2
            <4>3. CASE \E f \in 1..all :
                          f =< n /\ FirstFull(keys, f, doors[i].door) /\ doors[i].field = keys[f].field
                <5>1. PICK f \in 1..all :
                          f =< n /\ FirstFull(keys, f, doors[i].door) /\ doors[i].field = keys[f].field
                    BY <4>3
                <5>2. f =< n + 1
                    BY <1>1, <5>1
                <5>3. QED
                    BY <4>1, <5>1, <5>2
            <4>4. QED
                BY <1>3, <3>2, <4>2, <4>3
        <3>3. QED
            BY <2>3, <3>1, <3>2
    <2>11. DoorsOfFirst(more, keys, n + 1)
        BY <2>2, <2>7, <2>8, <2>9, <2>10 DEF DoorsOfFirst, all
    <2>12. QED
        BY <2>1, <2>2, <2>11 DEF key
<1>9. QED
    BY <1>7, <1>8

LEMMA MergeKeyKeeps ==
    ASSUME PagingInv, MergeKey
    PROVE  PagingInv'
<1>1. /\ lists \in Tables /\ server \in Servers /\ reader \in Reader /\ reader.pc = "merge"
      /\ lists' = lists /\ server' = server /\ changes' = changes /\ start' = start
      /\ removed' = removed
    BY DEF MergeKey, PagingInv, ListsTyped
<1>2. /\ reader.got \in Seq(Keys) /\ reader.merged \in Nat /\ reader.doors \in Seq(Door)
      /\ reader.merged =< Len(reader.got)
      /\ DoorsOfFirst(reader.doors, reader.got, reader.merged)
    BY <1>1, ReaderParts DEF PagingInv, Merging
<1>3. ASSUME reader' \in Reader, reader'.pc \in {"merge", "done"}, reader'.got = reader.got
      PROVE  /\ ListsTyped' /\ (removed \in BOOLEAN)' /\ InStep' /\ Kept' /\ Reading'
             /\ Searching' /\ AllKeysRead' /\ FoundIfThere'
    BY <1>1, <1>3
       DEF PagingInv, ListsTyped, InStep, Kept, Reading, Searching, AllKeysRead, FoundIfThere,
           Readable
<1>4. CASE reader.merged < Len(reader.got)
    <2> DEFINE more == Merged(reader.doors, reader.got[reader.merged + 1])
    <2>1. more \in Seq(Door) /\ DoorsOfFirst(more, reader.got, reader.merged + 1)
        BY <1>2, <1>4, OneMoreKey
    <2> HIDE DEF more
    <2>2. reader' = [reader EXCEPT !.merged = @ + 1, !.doors = more]
        BY <1>4 DEF MergeKey, more
    <2>3. /\ reader' \in Reader /\ reader'.pc = "merge" /\ reader'.got = reader.got
          /\ reader'.merged = reader.merged + 1 /\ reader'.doors = more
        <3>1. reader.merged + 1 \in Nat
            BY <1>2
        <3>2. QED
            BY <1>1, <2>1, <2>2, <3>1 DEF Reader
    <2>4. reader.merged + 1 =< Len(reader.got)
        BY <1>2, <1>4
    <2>5. Merging'
        BY <2>1, <2>3, <2>4 DEF Merging
    <2>6. QED
        BY <1>3, <2>3, <2>5 DEF PagingInv
<1>5. CASE ~(reader.merged < Len(reader.got))
    <2>1. reader' = [reader EXCEPT !.pc = "done"]
        BY <1>5 DEF MergeKey
    <2>2. /\ reader' \in Reader /\ reader'.pc = "done" /\ reader'.got = reader.got
          /\ reader'.merged = reader.merged /\ reader'.doors = reader.doors
        BY <1>1, <2>1 DEF Reader
    <2>3. reader.merged = Len(reader.got)
        BY <1>2, <1>5
    <2>4. Merging'
        BY <1>2, <2>2, <2>3 DEF Merging
    <2>5. QED
        BY <1>3, <2>2, <2>4 DEF PagingInv
<1>6. QED
    BY <1>4, <1>5

\* A reading begins with everything ahead of it.
LEMMA BeginKeeps ==
    ASSUME PagingInv, KeysBegin \/ \E key \in Keys : FindBegin(key)
    PROVE  PagingInv'
<1>1. lists \in Tables /\ server \in Servers /\ changes \in 0..MaxChanges
    BY DEF PagingInv, ListsTyped
<1>2. lists' = lists /\ start' = lists /\ server' = server /\ changes' = changes /\ removed' = FALSE
    BY DEF KeysBegin, FindBegin
<1>3. ASSUME NEW u \in TypesSet PROVE lists[u] \in Seq(Keys)
    BY <1>1 DEF Tables
<1>4. ASSUME NEW u \in TypesSet, NEW i \in DOMAIN lists[u] PROVE Contains(lists[u], lists[u][i])
    BY <1>3 DEF Contains
<1>5. 1 \in 1..Len(Types) /\ Types[1] \in TypesSet
    BY TypesNumbered
<1>6. Kept'
    BY <1>2, <1>4 DEF Kept
<1>7. ASSUME KeysBegin PROVE PagingInv'
    <2>1. reader' \in Reader /\ reader'.pc = "keys" /\ reader'.type = 1 /\ reader'.page = 1
          /\ reader'.sent = 0 /\ reader'.got = <<>> /\ reader'.merged = 0 /\ reader'.doors = <<>>
        BY <1>7, BeginTyped DEF KeysBegin, NoReader
    <2>2. ListsTyped' /\ (removed \in BOOLEAN)'
        BY <1>1, <1>2, <2>1 DEF ListsTyped
    <2>3. InStep' /\ Searching' /\ AllKeysRead' /\ Merging' /\ FoundIfThere'
        BY <2>1 DEF InStep, Searching, AllKeysRead, Merging, FoundIfThere
    <2>4. ASSUME NEW i \in DOMAIN lists[Types[1]]
          PROVE  \E j \in 1..Len(lists[Types[1]]) :
                    lists[Types[1]][j] = lists[Types[1]][i] /\ j > (1 - 1) * server.size
        <3>1. i \in 1..Len(lists[Types[1]])
            BY <1>3, <1>5
        <3>2. i > (1 - 1) * server.size
            BY <1>1, <3>1, Sizes
        <3>3. QED
            BY <3>1, <3>2
    <2>5. Reading'
        <3>1. 1..(reader'.type - 1) = {}
            BY <2>1
        <3>2. QED
            BY <1>2, <2>1, <2>4, <3>1 DEF Reading, Ahead
    <2>6. QED
        BY <1>6, <2>2, <2>3, <2>5 DEF PagingInv
<1>8. ASSUME NEW key \in Keys, FindBegin(key) PROVE PagingInv'
    <2>1. reader' \in Reader /\ reader'.pc = "log" /\ reader'.page = 1 /\ reader'.got = <<key>>
        BY <1>8, BeginTyped DEF FindBegin, NoReader
    <2>2. /\ ListsTyped' /\ (removed \in BOOLEAN)' /\ InStep' /\ Reading'
          /\ AllKeysRead' /\ Merging' /\ FoundIfThere'
        BY <1>1, <1>2, <2>1
           DEF ListsTyped, InStep, Reading, AllKeysRead, Merging, FoundIfThere
    <2>3. ASSUME Contains(lists[Types[1]], reader'.got[1])
          PROVE  \E j \in 1..Len(lists[Types[1]]) :
                    lists[Types[1]][j] = reader'.got[1] /\ j > (1 - 1) * server.size
        <3>1. PICK j \in 1..Len(lists[Types[1]]) : lists[Types[1]][j] = reader'.got[1]
            BY <2>3 DEF Contains
        <3>2. j > (1 - 1) * server.size
            BY <1>1, <1>3, <1>5, Sizes
        <3>3. QED
            BY <3>1, <3>2
    <2>4. Searching'
        BY <1>2, <2>1, <2>3 DEF Searching, Ahead
    <2>5. QED
        BY <1>6, <2>2, <2>4 DEF PagingInv
<1>9. QED
    BY <1>7, <1>8

LEMMA FindPageKeeps ==
    ASSUME PagingInv, FindPage
    PROVE  PagingInv'
<1> DEFINE list == lists[Types[1]]
           p == reader.page
           answer == Page(list, p)
           key == reader.got[1]
<1>1. /\ lists \in Tables /\ server \in Servers /\ reader \in Reader /\ reader.pc = "log"
      /\ lists' = lists /\ server' = server /\ changes' = changes /\ start' = start
      /\ removed' = removed
    BY DEF FindPage, PagingInv, ListsTyped
<1>2. p \in 1..MaxListPages /\ p \in Nat \ {0} /\ MaxListPages \in Nat \ {0}
    <2>1. p \in 1..MaxListPages
        BY <1>1, ReaderParts
    <2>2. QED
        BY <2>1, Sizes
<1>3. Types[1] \in TypesSet /\ list \in Seq(Keys)
    <2>1. Types[1] \in TypesSet
        BY TypesNumbered
    <2>2. QED
        BY <1>1, <2>1 DEF Tables
<1>4. answer.results = Slice(list, p)
    BY DEF Page
<1>5. \/ /\ Contains(Slice(list, p), key)
         /\ reader' = [reader EXCEPT !.pc = "found"]
      \/ /\ ~Contains(Slice(list, p), key) /\ (LastLog(answer, p) \/ p = MaxListPages)
         /\ reader' = [reader EXCEPT !.pc = "missing"]
      \/ /\ ~Contains(Slice(list, p), key) /\ p # MaxListPages
         /\ reader' = [reader EXCEPT !.page = @ + 1]
    BY <1>4 DEF FindPage
<1>6. /\ \A j \in 1..Len(list) :
            j > (p - 1) * server.size =>
               j > p * server.size \/ Contains(Slice(list, p), list[j])
    BY <1>1, <1>2, <1>3, Slices
<1>7. ASSUME reader' \in Reader PROVE ListsTyped' /\ (removed \in BOOLEAN)'
    BY <1>1, <1>7 DEF PagingInv, ListsTyped
<1>8. ASSUME ~removed, Contains(start[Types[1]], key), ~Contains(Slice(list, p), key)
      PROVE  \E j \in 1..Len(list) : list[j] = key /\ j > p * server.size
    <2>1. Ahead(list, key)
        BY <1>1, <1>8 DEF PagingInv, Searching
    <2>2. PICK j \in 1..Len(list) : list[j] = key /\ j > (p - 1) * server.size
        BY <2>1 DEF Ahead
    <2>3. QED
        BY <1>6, <1>8, <2>2
<1>9. ASSUME LastLog(answer, p) \/ p = MaxListPages, Readable(list), server.odd # "no total"
      PROVE  \A j \in 1..Len(list) : ~(j > p * server.size)
    <2>1. Len(list) =< p * server.size
        BY <1>1, <1>2, <1>3, <1>9, EndOfLog
    <2>2. p * server.size \in Nat /\ Len(list) \in Nat
        BY <1>1, <1>2, <1>3, Sizes, Pages
    <2>3. QED
        BY <2>1, <2>2
<1>10. Kept'
    BY <1>1, <1>5 DEF Kept, PagingInv
<1> HIDE DEF answer, p
<1>11. CASE reader' = [reader EXCEPT !.pc = "found"]
    <2>1. reader' \in Reader /\ reader'.pc = "found"
        BY <1>1, <1>11 DEF Reader
    <2>2. QED
        BY <1>7, <1>10, <2>1
           DEF PagingInv, InStep, Reading, Searching, AllKeysRead, Merging, FoundIfThere
<1>12. CASE /\ ~Contains(Slice(list, p), key) /\ (LastLog(answer, p) \/ p = MaxListPages)
            /\ reader' = [reader EXCEPT !.pc = "missing"]
    <2>1. reader' \in Reader /\ reader'.pc = "missing" /\ reader'.got = reader.got
        BY <1>1, <1>12 DEF Reader
    <2>2. FoundIfThere'
        BY <1>1, <1>8, <1>9, <1>12, <2>1 DEF FoundIfThere, Readable
    <2>3. QED
        BY <1>7, <1>10, <2>1, <2>2
           DEF PagingInv, InStep, Reading, Searching, AllKeysRead, Merging
<1>13. CASE /\ ~Contains(Slice(list, p), key) /\ p # MaxListPages
            /\ reader' = [reader EXCEPT !.page = @ + 1]
    <2>1. /\ reader'.pc = "log" /\ reader'.page = p + 1 /\ reader'.got = reader.got
        BY <1>1, <1>13 DEF Reader, p
    <2>2. reader' \in Reader
        <3>1. p + 1 \in 1..MaxListPages
            BY <1>2, <1>13
        <3>2. QED
            BY <1>1, <1>13, <3>1 DEF Reader, p
    <2>3. (p + 1) - 1 = p
        BY <1>2
    <2>4. Searching'
        BY <1>1, <1>8, <1>13, <2>1, <2>3 DEF Searching, Ahead
    <2>5. QED
        BY <1>7, <1>10, <2>1, <2>2, <2>4
           DEF PagingInv, InStep, Reading, AllKeysRead, Merging, FoundIfThere
<1>14. QED
    BY <1>5, <1>11, <1>12, <1>13

LEMMA ListChangesKeeps ==
    ASSUME PagingInv, NEW t \in TypesSet, ListChanges(t)
    PROVE  PagingInv'
<1>1. /\ lists \in Tables /\ server \in Servers /\ reader \in Reader
      /\ reader.pc \in {"keys", "log"} /\ changes \in 0..MaxChanges
      /\ changes < MaxChanges /\ changes' = changes + 1
      /\ server' = server /\ reader' = reader /\ start' = start
    BY DEF ListChanges, PagingInv, ListsTyped
<1>2. lists[t] \in Seq(Keys) /\ DOMAIN lists[t] = 1..Len(lists[t])
    BY <1>1 DEF Tables
<1>3. changes' \in 0..MaxChanges
    <2>1. MaxChanges \in Nat
        BY PagingOK, Zenon
    <2>2. QED
        BY ONLY <1>1, <2>1
<1>4. ASSUME NEW list \in Seq(Keys), lists' = [lists EXCEPT ![t] = list]
      PROVE  ListsTyped' /\ InStep' /\ AllKeysRead' /\ Merging' /\ FoundIfThere'
    <2>1. lists' \in Tables
        BY <1>1, <1>4 DEF Tables
    <2>2. ListsTyped'
        BY <1>1, <1>3, <2>1 DEF PagingInv, ListsTyped
    <2>3. InStep' /\ AllKeysRead' /\ Merging' /\ FoundIfThere'
        BY <1>1 DEF PagingInv, InStep, AllKeysRead, Merging, FoundIfThere
    <2>4. QED
        BY <2>2, <2>3
<1>5. CASE \E i \in 1..(Len(lists[t]) + 1), e \in Keys :
              lists' = [lists EXCEPT ![t] = InsertAt(@, i, e)] /\ removed' = removed
    <2>1. PICK i \in 1..(Len(lists[t]) + 1), e \in Keys :
              lists' = [lists EXCEPT ![t] = InsertAt(lists[t], i, e)] /\ removed' = removed
        BY <1>5
    <2> DEFINE list == InsertAt(lists[t], i, e)
    <2>2. /\ list \in Seq(Keys) /\ Len(list) = Len(lists[t]) + 1
          /\ \A j \in 1..Len(lists[t]) : \E l \in j..(Len(lists[t]) + 1) : list[l] = lists[t][j]
        BY <1>2, Inserted
    <2> HIDE DEF list
    <2>3. lists' = [lists EXCEPT ![t] = list]
        BY <2>1 DEF list
    <2>4. ASSUME NEW u \in TypesSet
          PROVE  /\ lists[u] \in Seq(Keys)
                 /\ u # t => lists'[u] = lists[u]
                 /\ u = t => lists'[u] = list
        BY <1>1, <2>3 DEF Tables
    <2>5. ASSUME NEW u \in TypesSet, NEW j \in 1..Len(lists[u])
          PROVE  \E l \in 1..Len(lists'[u]) : l >= j /\ lists'[u][l] = lists[u][j]
        <3>1. CASE u = t
            <4>1. PICK l \in j..(Len(lists[t]) + 1) : list[l] = lists[t][j]
                BY <2>2, <3>1
            <4>2. l \in 1..(Len(lists[t]) + 1) /\ l >= j
                BY <1>2
            <4>3. QED
                BY <2>2, <2>4, <3>1, <4>1, <4>2
        <3>2. CASE u # t
            <4>1. lists'[u] = lists[u] /\ j >= j
                BY <2>4, <3>2
            <4>2. QED
                BY <4>1
        <3>3. QED
            BY <3>1, <3>2
    <2>6. ASSUME NEW u \in TypesSet, NEW e2, Contains(lists[u], e2)
          PROVE  Contains(lists'[u], e2)
        BY <2>5, <2>6 DEF Contains
    <2>7. Kept'
        BY <1>1, <2>1, <2>6 DEF Kept, PagingInv
    <2>8. (reader.page - 1) * server.size \in Nat
        <3>1. reader.page \in 1..MaxListPages /\ MaxListPages \in Nat /\ server.size \in Nat \ {0}
            BY <1>1, ReaderParts, Sizes
        <3>2. reader.page \in Nat /\ reader.page > 0
            BY <3>1
        <3>3. QED
            BY <3>1, <3>2, Pages
    <2>9. ASSUME NEW u \in TypesSet, NEW e2, Ahead(lists[u], e2)
          PROVE  Ahead(lists'[u], e2)
        <3> DEFINE place == (reader.page - 1) * server.size
        <3>1. place \in Nat
            BY <2>8
        <3>2. PICK j \in 1..Len(lists[u]) : lists[u][j] = e2 /\ j > place
            BY <2>9 DEF Ahead
        <3>3. PICK l \in 1..Len(lists'[u]) : l >= j /\ lists'[u][l] = lists[u][j]
            BY <2>5
        <3> HIDE DEF place
        <3>4. l > place
            BY <3>1, <3>2, <3>3
        <3>5. QED
            BY <3>2, <3>3, <3>4 DEF Ahead, place
    <2>10. ASSUME NEW u \in TypesSet, Readable(lists'[u])
           PROVE  Readable(lists[u])
        <3>1. Len(lists[u]) =< Len(lists'[u]) /\ Len(lists[u]) \in Nat /\ Len(lists'[u]) \in Nat
            <4>1. CASE u = t
                BY <1>2, <2>2, <2>4, <4>1
            <4>2. CASE u # t
                BY <2>4, <4>2
            <4>3. QED
                BY <4>1, <4>2
        <3>2. server.size * MaxListPages \in Nat
            BY <1>1, Sizes
        <3>3. Len(lists[u]) =< server.size * MaxListPages
            <4> DEFINE most == server.size * MaxListPages
            <4>1. Len(lists'[u]) =< most
                BY <2>10 DEF Readable
            <4>2. most \in Nat
                BY <3>2
            <4> HIDE DEF most
            <4>3. Len(lists[u]) =< most
                BY <3>1, <4>1, <4>2
            <4>4. QED
                BY <4>3 DEF most
        <3>4. QED
            BY <2>10, <3>3 DEF Readable
    <2>11. Reading'
        <3>1. SUFFICES ASSUME reader.pc = "keys", ~removed PROVE Reading'
            BY <1>1, <2>1 DEF Reading
        <3>2. reader.type \in 1..Len(Types)
            BY <1>1, ReaderParts
        <3>3. Types[reader.type] \in TypesSet
            BY <3>2, TypesNumbered
        <3>4. ASSUME NEW k \in 1..(reader.type - 1), Readable(lists[Types[k]])'
              PROVE  AllRead(Types[k])'
            <4>1. k \in 1..Len(Types)
                BY <3>2, TypesNumbered
            <4>2. Types[k] \in TypesSet
                BY <4>1, TypesNumbered
            <4>3. Readable(lists[Types[k]])
                BY <1>1, <2>10, <3>4, <4>2 DEF Readable
            <4>4. AllRead(Types[k])
                BY <3>1, <4>3 DEF PagingInv, Reading
            <4>5. QED
                BY <1>1, <4>4 DEF AllRead
        <3>5. ASSUME NEW j \in DOMAIN start[Types[reader.type]]
              PROVE  \/ Contains(reader.got, start[Types[reader.type]][j])
                     \/ Ahead(lists'[Types[reader.type]], start[Types[reader.type]][j])
            BY <2>9, <3>1, <3>3, <3>5 DEF PagingInv, Reading
        <3>6. QED
            BY <1>1, <3>4, <3>5 DEF Reading, Ahead
    <2>12. Searching'
        <3>1. SUFFICES ASSUME reader.pc = "log", ~removed,
                              Contains(start[Types[1]], reader.got[1])
                       PROVE  Ahead(lists'[Types[1]], reader.got[1])
            BY <1>1, <2>1 DEF Searching, Ahead
        <3>2. Types[1] \in TypesSet
            BY TypesNumbered
        <3>3. Ahead(lists[Types[1]], reader.got[1])
            BY <3>1 DEF PagingInv, Searching
        <3>4. QED
            BY <2>9, <3>2, <3>3
    <2>13. QED
        BY <1>4, <2>1, <2>2, <2>3, <2>7, <2>11, <2>12 DEF PagingInv
<1>6. CASE /\ \E i \in DOMAIN lists[t] : lists' = [lists EXCEPT ![t] = RemoveAt(@, i)]
           /\ removed' = TRUE
    <2>1. PICK i \in 1..Len(lists[t]) : lists' = [lists EXCEPT ![t] = RemoveAt(lists[t], i)]
        BY <1>2, <1>6
    <2>2. RemoveAt(lists[t], i) \in Seq(Keys)
        BY <1>2, RemovedTyped
    <2>3. QED
        BY <1>4, <1>6, <2>1, <2>2 DEF PagingInv, Kept, Reading, Searching
<1>7. QED
    BY <1>5, <1>6 DEF ListChanges

LEMMA PagingSameKeeps ==
    ASSUME PagingInv, UNCHANGED gvars
    PROVE  PagingInv'
BY DEF gvars, PagingInv, ListsTyped, InStep, Kept, Reading, Searching, Ahead, AllRead,
       AllKeysRead, Merging, FoundIfThere, Readable

\* Whatever the server answers and however the lists change meanwhile, the
\* invariant of a reading is kept by every step (domonap/client.py).
THEOREM PagingInvariance == PagingSpec => []PagingInv
<1>1. PagingInv /\ [PagingNext]_gvars => PagingInv'
    BY BeginKeeps, KeysPageKeeps, MergeKeyKeeps, FindPageKeeps, ListChangesKeeps, PagingSameKeeps
       DEF PagingNext
<1>2. QED
    BY PagingInitially, <1>1, PTL DEF PagingSpec

\* A reading asks for no more pages than the limit, whatever the server answers
\* (domonap/client.py get_all_keys, find_call_log).
THEOREM PagingTypeCorrect == PagingSpec => []PagingTypeOK
<1>1. PagingInv => PagingTypeOK
    BY PagingTypesAgree DEF PagingInv
<1>2. QED
    BY PagingInvariance, <1>1, PTL

\* get_all_keys returns every key that was there while it read, whatever is
\* added before or behind the page it reads.
THEOREM NoKeyIsMissed == PagingSpec => []KeysComplete
<1>1. PagingInv => KeysComplete
    BY DEF PagingInv, AllKeysRead, KeysComplete
<1>2. QED
    BY PagingInvariance, <1>1, PTL

\* find_call_log gives up only on a call that was not in the log when it began.
THEOREM NoCallIsMissed == PagingSpec => []FoundIfThere
<1>1. PagingInv => FoundIfThere
    BY DEF PagingInv
<1>2. QED
    BY PagingInvariance, <1>1, PTL

\* get_doors returns every door of the keys it has read, once, in the order of
\* their first keys, and with the field of the first key that has one.
THEOREM DoorsAreThoseOfTheKeys == PagingSpec => []DoorsOfKeys
<1> DEFINE Opening(d) == {i \in DOMAIN reader.got : reader.got[i].door = d}
           FirstOf(S) == CHOOSE i \in S : \A j \in S : i =< j
           Full(d) == {i \in Opening(d) : reader.got[i].field # 0}
<1>1. PagingInv => DoorsOfKeys
    <2> DEFINE keys == reader.got
               doors == reader.doors
    <2>1. SUFFICES ASSUME PagingInv, reader.pc = "done" PROVE DoorsOfKeys
        BY DEF DoorsOfKeys
    <2>2. /\ keys \in Seq(Keys) /\ doors \in Seq(Door) /\ Len(keys) \in Nat
          /\ DOMAIN keys = 1..Len(keys) /\ DOMAIN doors = 1..Len(doors)
        BY <2>1, ReaderParts DEF PagingInv, ListsTyped
    <2>3. DoorsOfFirst(doors, keys, Len(keys))
        BY <2>1 DEF PagingInv, Merging
    <2> HIDE DEF keys, doors
    <2>4. ASSUME NEW S, NEW f \in S, S \subseteq 1..Len(keys), \A j \in S : f =< j
          PROVE  FirstOf(S) = f
        <3>1. \A i \in S : (\A j \in S : i =< j) => i = f
            BY <2>2, <2>4
        <3>2. QED
            BY <2>4, <3>1
    <2>5. ASSUME NEW d PROVE Opening(d) \subseteq 1..Len(keys) /\ Full(d) \subseteq 1..Len(keys)
        BY <2>2 DEF keys
    <2>6. ASSUME NEW d, NEW f \in 1..Len(keys), FirstKey(keys, f, d) PROVE FirstOf(Opening(d)) = f
        <3>1. f \in Opening(d) /\ \A j \in Opening(d) : f =< j
            BY <2>2, <2>6 DEF FirstKey, keys
        <3> HIDE DEF Opening, FirstOf
        <3>2. QED
            BY <2>4, <2>5, <3>1
    <2>7. {doors[i].door : i \in DOMAIN doors} = {keys[i].door : i \in DOMAIN keys}
        <3>1. ASSUME NEW i \in DOMAIN doors PROVE \E j \in DOMAIN keys : keys[j].door = doors[i].door
            BY <2>2, <2>3 DEF DoorsOfFirst, FirstKey
        <3>2. ASSUME NEW j \in DOMAIN keys PROVE \E i \in DOMAIN doors : keys[j].door = doors[i].door
            <4>1. j =< Len(keys)
                BY <2>2
            <4>2. QED
                BY <2>2, <2>3, <4>1 DEF DoorsOfFirst
        <3>3. QED
            BY <3>1, <3>2
    <2>8. ASSUME NEW i \in DOMAIN doors, NEW j \in DOMAIN doors, i < j
          PROVE  FirstOf(Opening(doors[i].door)) < FirstOf(Opening(doors[j].door))
        <3>1. PICK f \in 1..Len(keys) : FirstKey(keys, f, doors[i].door)
            BY <2>2, <2>3 DEF DoorsOfFirst
        <3>2. PICK g \in 1..Len(keys) : FirstKey(keys, g, doors[j].door)
            BY <2>2, <2>3 DEF DoorsOfFirst
        <3>3. f < g
            BY <2>2, <2>3, <2>8, <3>1, <3>2 DEF DoorsOfFirst
        <3> HIDE DEF Opening, FirstOf
        <3>4. QED
            BY <2>6, <3>1, <3>2, <3>3
    <2>9. ASSUME NEW i \in DOMAIN doors
          PROVE  doors[i].field = (IF Full(doors[i].door) = {} THEN 0
                                   ELSE keys[FirstOf(Full(doors[i].door))].field)
        <3> DEFINE d == doors[i].door
        <3>1. CASE doors[i].field = 0 /\ NoneFull(keys, Len(keys), d)
            <4>1. ASSUME NEW j \in Full(d) PROVE FALSE
                <5>1. j \in 1..Len(keys) /\ keys[j].door = d /\ keys[j].field # 0
                    BY <2>2 DEF keys
                <5>2. j =< Len(keys)
                    BY <2>2, <5>1
                <5>3. QED
                    BY <3>1, <5>1, <5>2 DEF NoneFull
            <4> HIDE DEF Full
            <4>2. QED
                BY <3>1, <4>1
        <3>2. CASE \E f \in 1..Len(keys) :
                      FirstFull(keys, f, d) /\ doors[i].field = keys[f].field
            <4>1. PICK f \in 1..Len(keys) :
                      FirstFull(keys, f, d) /\ doors[i].field = keys[f].field
                BY <3>2
            <4>2. f \in Full(d)
                BY <2>2, <4>1 DEF FirstFull, keys
            <4>3. ASSUME NEW j \in Full(d) PROVE f =< j
                <5>1. j \in 1..Len(keys) /\ keys[j].door = d /\ keys[j].field # 0
                    BY <2>2 DEF keys
                <5>2. ~(j =< f - 1)
                    BY <4>1, <5>1 DEF FirstFull, NoneFull
                <5>3. QED
                    BY <2>2, <5>1, <5>2
            <4> HIDE DEF Full, FirstOf, d
            <4>4. FirstOf(Full(d)) = f
                BY <2>4, <2>5, <4>2, <4>3
            <4>5. QED
                BY <4>1, <4>2, <4>4 DEF d
        <3>3. QED
            BY <2>2, <2>3, <3>1, <3>2 DEF DoorsOfFirst
    <2>10. QED
        BY <2>7, <2>8, <2>9 DEF DoorsOfKeys, keys, doors
<1>2. QED
    BY PagingInvariance, <1>1, PTL

=============================================================================
