---------------------------- MODULE RuntimeProofs ----------------------------
(***************************************************************************)
(* Theorems about Runtime, for any limits and any number of clear() tasks. *)
(* The invariant relates the heartbeat file to the silence of the loop,    *)
(* the watchdog's first wait to the time since the start, and what is open *)
(* and pending to the position in the shutdown.                            *)
(***************************************************************************)
EXTENDS Runtime, TLAPS

Thread == [pc : {"off", "waits", "reads", "judges", "terminates", "ended"},
           left : Nat, stop : BOOLEAN, seen : Files]
Counts == [jumps : 0..MaxJumps, restarts : 0..MaxRestarts]
Places == StartSteps \cup CloseSteps
          \cup {"begin", "polling", "join", "cancel", "gone", "killed", "crashed"}
Answers == {"none", "pending", "done", "lost"}
Parts == {"storage", "client", "proxy", "runner", "bot", "watcher"}

Typed ==
    /\ main \in Places /\ open \subseteq Parts /\ bound \in BOOLEAN
    /\ patience \in 0..JoinTimeout
    /\ hb \in {"none", "sleeps", "stamped", "writing", "failed"}
    /\ watcher \in {"off", "runs", "dead"}
    /\ file \in Files /\ stamp \in Files /\ dog \in Thread
    /\ clear \in [Clears -> Answers] /\ batch \subseteq Clears /\ late \subseteq Clears
    /\ silent \in 0..MaxAge+1 /\ trouble \in BOOLEAN
    /\ count \in Counts

Starting == main \in StartSteps \cup {"begin"}
Watched == main \in {"polling", "join", "cancel"}

\* A beat is of this process, and at least as old as its silence is long; a
\* heartbeat task that sleeps has written the last one, whole.
Truthful ==
    (main # "begin" /\ ~Ended) =>
        /\ file.is = "beat" => hb # "none" /\ (~file.set => file.age >= silent)
        /\ (file.is = "beat" /\ hb = "sleeps" /\ ~file.set) => file.age = silent
        /\ file.is = "torn" => hb \in {"writing", "failed"}
        /\ hb \in {"stamped", "writing"} =>
              stamp.is = "beat" /\ (~stamp.set => stamp.age = silent)

\* A process that starts has nothing of an earlier one but its file.
Blank ==
    /\ Starting => dog.pc = "off" /\ watcher = "off" /\ hb = "none"
    /\ main = "begin" => open = {} /\ ~bound /\ clear = NoClears /\ late = {}
    /\ Ended => dog.pc = "off"

\* A process without a beat, whose watcher is well, is in the first wait of
\* its watchdog, or has been silent for longer than a beat is valid.
Graced ==
    (Watched /\ file = Missing /\ watcher # "dead" /\ hb = "sleeps") =>
        \/ silent > MaxAge
        \/ dog.pc \in {"off", "ended"}
        \/ dog.pc = "waits" /\ dog.left + silent >= Grace

\* Unless it gave up on a step, the shutdown has closed what it has passed.
Closed ==
    (~trouble /\ ~Ended) =>
        /\ main \in CloseSteps \ {"close watcher"} => "watcher" \notin open
        /\ main \in CloseSteps \ {"close watcher", "close proxy"} => "proxy" \notin open
        /\ main \in {"close client", "drain", "close storage"} => "bot" \notin open
        /\ main \in {"drain", "close storage"} => "client" \notin open

\* A bound client has its storage.  Unless the shutdown gave up on a step, no
\* clear() has been lost while the process runs; past the drain's choice
\* those that still run are in it or came late, and past the drain they came
\* late.
Persisted ==
    ~Ended =>
        /\ bound => "storage" \in open
        /\ \A c \in Clears : clear[c] = "pending" => bound
        /\ ~trouble => \A c \in Clears : clear[c] # "lost"
        /\ (~trouble /\ main = "drain") =>
              \A c \in Clears : clear[c] = "pending" => c \in batch \cup late
        /\ (~trouble /\ main = "close storage") =>
              \A c \in Clears : clear[c] = "pending" => c \in late

----------------------------------------------------------------------------
(* Types.                                                                  *)

\* A file stays one as it ages.
LEMMA AgedFiles ==
    ASSUME NEW f \in Files, NEW d \in Int, NEW set \in BOOLEAN
    PROVE  /\ Aged(f, d, set) \in Files
           /\ Aged(f, d, set).is = f.is
           /\ (f.is # "beat") => Aged(f, d, set) = f
           /\ f.is = "beat" => /\ Aged(f, d, set).age = Capped(f.age + d)
                               /\ Aged(f, d, set).set = (f.set \/ set)
                               /\ f.age \in Ages
<1>1. CASE f \in {Missing, Torn}
    BY <1>1 DEF Aged, Missing, Torn, Files
<1>2. CASE f \in [is : {"beat"}, age : Ages, set : BOOLEAN]
    <2>1. f.age \in Int /\ MaxAge \in Nat /\ f.is = "beat" /\ f.age \in Ages /\ f.set \in BOOLEAN
        BY <1>2, RuntimeOK DEF Ages
    <2>2. Capped(f.age + d) \in Ages
        BY <2>1 DEF Capped, Ages
    <2>3. Aged(f, d, set) = Beat(Capped(f.age + d), f.set \/ set)
        BY <2>1 DEF Aged
    <2>4. (f.set \/ set) \in BOOLEAN
        OBVIOUS
    <2>5. Aged(f, d, set) \in Files
        BY <2>2, <2>3, <2>4 DEF Files, Beat
    <2>6. /\ Aged(f, d, set).is = "beat" /\ Aged(f, d, set).age = Capped(f.age + d)
          /\ Aged(f, d, set).set = (f.set \/ set)
        BY <2>3 DEF Beat
    <2> QED BY <2>1, <2>5, <2>6
<1> QED BY <1>1, <1>2 DEF Files

\* A tick and a setting of the clock are both such ageings.
LEMMA Ageings ==
    /\ \A f \in Files : Aged(f, 1, FALSE) \in Files
    /\ \A f \in Files, d \in {-1 - MaxAge, -1, 1} : Aged(f, d, TRUE) \in Files
<1>1. 1 \in Int /\ FALSE \in BOOLEAN /\ TRUE \in BOOLEAN
    OBVIOUS
<1>2. \A d \in {-1 - MaxAge, -1, 1} : d \in Int
    BY RuntimeOK
<1> QED BY <1>1, <1>2, AgedFiles

\* The kinds of files.
LEMMA FileKinds ==
    ASSUME NEW f \in Files
    PROVE  /\ f.is \in {"none", "torn", "beat"}
           /\ f.is = "none" => f = Missing
           /\ f.is = "torn" => f = Torn
           /\ f.is = "beat" => f.age \in Ages /\ f.set \in BOOLEAN
BY DEF Files, Missing, Torn

\* No file is two of these.
LEMMA Kinds ==
    /\ Missing.is = "none" /\ Torn.is = "torn"
    /\ \A age, set : Beat(age, set).is = "beat" /\ Beat(age, set).age = age
                     /\ Beat(age, set).set = set
BY DEF Missing, Torn, Beat

\* The values a step may give.
LEMMA Values ==
    /\ NoThread \in Thread /\ Missing \in Files /\ Torn \in Files /\ Beat(0, FALSE) \in Files
    /\ NoClears \in [Clears -> Answers] /\ 0 \in 0..MaxAge+1
    /\ JoinTimeout \in Nat /\ 0 \in 0..JoinTimeout /\ JoinTimeout \in 0..JoinTimeout
<1>1. JoinTimeout \in Nat
    BY RuntimeOK DEF JoinTimeout
<1>2. 0 \in Ages /\ 0 \in 0..MaxAge+1
    BY RuntimeOK DEF Ages
<1>3. Missing \in Files /\ Torn \in Files /\ Beat(0, FALSE) \in Files
    BY <1>2 DEF Files, Beat
<1>4. NoThread \in Thread
    BY <1>3 DEF NoThread, Thread
<1>5. NoClears \in [Clears -> Answers]
    BY DEF NoClears, Answers
<1>6. 0 \in 0..JoinTimeout /\ JoinTimeout \in 0..JoinTimeout
    BY <1>1
<1> QED BY <1>1, <1>2, <1>3, <1>4, <1>5, <1>6

\* The type invariant in terms of these sets.
LEMMA TypedAsType == TypeOK <=> Typed
BY DEF TypeOK, Typed, Thread, Counts, Places, Answers, Parts

LEMMA TypeInit == Init => Typed
<1>1. [jumps |-> 0, restarts |-> 0] \in Counts
    BY RuntimeOK DEF Counts
<1> QED BY <1>1, Values DEF Init, Typed, Places

\* The end of the process keeps the types of what it changes.
LEMMA EndsTypes ==
    ASSUME Typed, NEW how \in {"gone", "killed", "crashed"}, Ends(how)
    PROVE  main' = how /\ dog' \in Thread /\ clear' \in [Clears -> Answers]
BY Values DEF Ends, Typed, Answers

\* What the steps of the heartbeat task and the watcher leave alone.
LEMMA BeatSteps ==
    ASSUME ReadClock \/ TruncateBeat \/ WriteBeat \/ WithholdBeat \/ BeatFails \/ WatcherDies
    PROVE  /\ UNCHANGED <<main, open, bound, patience, dog, clear, batch, late, trouble, count>>
           /\ ~Ended
BY DEF ReadClock, TruncateBeat, WriteBeat, WithholdBeat, BeatFails, WatcherDies, opened, clears,
       beats, LoopFree, Ended

\* What those of the clear() tasks leave alone.
LEMMA ClearSteps ==
    ASSUME NEW c \in Clears, Invalidate(c) \/ ClearEnds(c)
    PROVE  /\ UNCHANGED <<main, open, bound, patience, hb, stamp, file, silent, watcher, dog,
                          batch, trouble, count>>
           /\ ~Ended
BY DEF Invalidate, ClearEnds, opened, beats, LoopFree, Ended

\* What the thread leaves alone.
LEMMA DogSteps ==
    ASSUME Watchdog
    PROVE  /\ UNCHANGED <<open, bound, patience, hb, stamp, file, silent, watcher, batch, late,
                          trouble, count>>
           /\ DogTerminates \/ UNCHANGED <<main, clear>>
           /\ DogTerminates => Ends("killed")
           /\ ~Ended
BY DEF Watchdog, DogWakes, DogReads, DogJudges, DogTerminates, opened, beats, clears, Ended

\* What time and the setting of the clock leave alone.
LEMMA TimeSteps ==
    ASSUME Tick \/ SetClock
    PROVE  UNCHANGED <<main, open, bound, hb, watcher, clear, batch, late, trouble>>
BY DEF Tick, SetClock, opened, clears

\* The steps of a start that goes on.
LEMMA StartStep ==
    ASSUME Typed, OpenStorage \/ StartProxy \/ Hydrate \/ BuildBot
    PROVE  /\ UNCHANGED <<patience, hb, stamp, file, silent, watcher, dog, clear, batch, late,
                          trouble, count>>
           /\ main \in StartSteps \ {"run"} /\ main' \in StartSteps
           /\ open' \subseteq open \cup Parts /\ open \subseteq open'
           /\ bound' => bound \/ "storage" \in open'
           /\ bound' \in BOOLEAN
<1>1. CASE OpenStorage
    BY <1>1 DEF OpenStorage, Opened, StartSteps, Parts, beats, clears
<1>2. CASE StartProxy
    <2>1. PICK new \in {{}, {"proxy"}} : Opened("proxy", new, "hydrate")
        BY <1>2 DEF StartProxy
    <2>2. "client" \notin new
        BY <2>1
    <2>3. bound' \in BOOLEAN /\ (bound' => bound)
        BY <2>1, <2>2 DEF Opened
    <2> QED BY <2>1, <2>3 DEF Opened, StartSteps, Parts, beats, clears
<1>3. CASE Hydrate \/ BuildBot
    <2>1. "client" \notin {} /\ "client" \notin {"bot"}
        OBVIOUS
    <2>2. bound' \in BOOLEAN /\ (bound' => bound)
        BY <1>3, <2>1 DEF Hydrate, BuildBot, Opened
    <2> QED BY <1>3, <2>2 DEF Hydrate, BuildBot, Opened, StartSteps, Parts, beats, clears
<1> QED BY <1>1, <1>2, <1>3

\* The failing steps of a start.
LEMMA FailedStart ==
    ASSUME Typed, StartFails
    PROVE  /\ UNCHANGED <<patience, hb, stamp, silent, watcher, dog, clear, batch, late,
                          trouble, count>>
           /\ main \in StartSteps /\ main' = "close watcher" /\ file' = Missing
           /\ open' \subseteq open \cup Parts /\ open \subseteq open'
           /\ bound' => bound \/ "storage" \in open'
           /\ bound' \in BOOLEAN
<1>1. PICK new \in Partly(main) : open' = open \cup new /\ bound' = (bound \/ "client" \in new)
    BY DEF StartFails
<1>2. main \in StartSteps
    BY DEF StartFails
<1>3. new \in {{}, {"storage"}, {"storage", "client"}, {"runner"}, {"bot"}, {"watcher"}}
    BY <1>1, <1>2 DEF Partly, StartSteps
<1>4. new \subseteq Parts /\ ("client" \in new => "storage" \in new)
    BY <1>3 DEF Parts
<1>5. open' \subseteq open \cup Parts /\ open \subseteq open'
    BY <1>1, <1>4
<1>6. bound' \in BOOLEAN /\ (bound' => bound \/ "storage" \in open')
    BY <1>1, <1>4 DEF Typed
<1> QED BY <1>5, <1>6 DEF StartFails, clears

\* Closing a component moves on in the shutdown and leaves the heartbeat, the
\* thread and the clear() tasks alone.
LEMMA Closes ==
    ASSUME CloseWatcher \/ CloseProxy \/ CloseBot \/ CloseClient
    PROVE  /\ main \in CloseSteps /\ main' \in CloseSteps \ {"close watcher"}
           /\ UNCHANGED <<bound, patience, hb, stamp, file, silent, dog, clear, late, count>>
           /\ open' \subseteq open /\ ("storage" \in open => "storage" \in open')
           /\ ~trouble' => ~trouble
           /\ ~trouble' => ~trouble
           /\ watcher' \in {watcher, "off"}
           /\ batch' \in {batch, {c \in Clears : clear[c] = "pending"}}
BY DEF CloseWatcher, CloseProxy, CloseBot, CloseClient, BoundedClose, CloseSteps, beats

LEMMA TypeNext == Typed /\ [Next]_vars => Typed'
<1> SUFFICES ASSUME Typed, [Next]_vars PROVE Typed'
    OBVIOUS
<1> USE DEF Places
<1>0. {"gone", "killed", "crashed"} \subseteq Places /\ StartSteps \subseteq Places
      /\ CloseSteps \subseteq Places /\ {"storage", "close watcher"} \subseteq Places
    BY DEF StartSteps, CloseSteps
<1>1. CASE ClearHeartbeat
    BY <1>0, <1>1, Values DEF ClearHeartbeat, Typed, opened, clears
<1>2. CASE OpenStorage \/ StartProxy \/ Hydrate \/ BuildBot
    BY <1>0, <1>2, StartStep DEF Typed
<1>3. CASE Run \/ ThreadFails
    <2>1. /\ open' = open \cup {"watcher"} /\ watcher' \in {"runs", "off"} /\ hb' = "sleeps"
          /\ UNCHANGED <<bound, patience, stamp, file, silent, clear, batch, late, trouble, count>>
          /\ main' \in {"polling", "cancel"}
        BY <1>3 DEF Run, ThreadFails, TasksStart, clears
    <2>2. dog' \in Thread
        <3>1. [NoThread EXCEPT !.pc = "waits", !.left = Grace] \in Thread
            BY Values, RuntimeOK DEF Thread
        <3> QED BY <1>3, <3>1 DEF Run, ThreadFails, Typed
    <2> QED BY <2>1, <2>2 DEF Typed, Parts
<1>4. CASE StartFails
    BY <1>0, <1>4, FailedStart, Values DEF Typed
<1>5. CASE ReadClock \/ TruncateBeat \/ WriteBeat \/ WithholdBeat \/ BeatFails \/ WatcherDies
    <2>1. /\ hb' \in {hb, "sleeps", "stamped", "writing", "failed"} /\ watcher' \in {watcher, "dead"}
          /\ file' \in {file, Torn, Missing, stamp} /\ stamp' \in {stamp, Missing, Beat(0, FALSE)}
          /\ silent' \in {silent, 0}
        BY <1>5 DEF ReadClock, TruncateBeat, WriteBeat, WithholdBeat, BeatFails, WatcherDies, beats
    <2> QED BY <1>5, <2>1, BeatSteps, Values DEF Typed
<1>6. ASSUME NEW c \in Clears, Invalidate(c) \/ ClearEnds(c) PROVE Typed'
    <2>1. clear' \in [Clears -> Answers] /\ late' \subseteq Clears
        BY <1>6 DEF Invalidate, ClearEnds, Typed, Answers
    <2> QED BY <1>6, <2>1, ClearSteps DEF Typed
<1>7. CASE Watchdog
    <2>1. CASE DogTerminates
        <3>1. main' = "killed" /\ dog' \in Thread /\ clear' \in [Clears -> Answers]
            BY <1>7, <2>1, DogSteps, EndsTypes
        <3> QED BY <1>0, <1>7, <3>1, DogSteps DEF Typed
    <2>2. CASE ~DogTerminates
        <3>1. dog \in Thread /\ file \in Files
            BY DEF Typed
        <3>2. dog' \in Thread
            BY <1>7, <2>2, <3>1, Values, RuntimeOK
               DEF Watchdog, DogWakes, DogReads, DogJudges, Thread
        <3> QED BY <1>7, <2>2, <3>2, DogSteps DEF Typed
    <2> QED BY <2>1, <2>2
<1>8. CASE BeginStop
    <2>1. dog' \in Thread
        BY <1>8 DEF BeginStop, Typed, Thread
    <2>2. main' \in Places
        BY <1>8 DEF BeginStop
    <2> QED BY <1>8, <2>1, <2>2, Values DEF BeginStop, Typed, opened, beats, clears
<1>9. CASE Joined
    BY <1>9, Values DEF Joined, Typed, opened, beats, clears
<1>10. CASE CancelHeartbeat
    <2>1. CASE hb = "failed"
        <3>1. Ends("gone") /\ main' \in Places
            BY <1>10, <2>1 DEF CancelHeartbeat, Ends
        <3> QED BY <1>10, <2>1, <3>1, EndsTypes DEF CancelHeartbeat, Typed, opened
    <2>2. CASE hb # "failed"
        BY <1>0, <1>10, <2>2, Values DEF CancelHeartbeat, Typed, opened
    <2> QED BY <2>1, <2>2
<1>11. CASE CloseWatcher \/ CloseProxy \/ CloseBot \/ CloseClient
    <2>1. {c \in Clears : clear[c] = "pending"} \subseteq Clears
        OBVIOUS
    <2>2. main' \in Places
        BY <1>0, <1>11, Closes
    <2>3. watcher' \in {"off", "runs", "dead"}
        BY <1>11, Closes DEF Typed
    <2>4. trouble' \in BOOLEAN
        BY <1>11 DEF CloseWatcher, CloseProxy, CloseBot, CloseClient, BoundedClose, Typed
    <2> QED BY <1>11, <2>1, <2>2, <2>3, <2>4, Closes DEF Typed
<1>12. CASE Drain
    <2>1. clear' \in [Clears -> Answers] /\ trouble' \in BOOLEAN
        BY <1>12 DEF Drain, Typed, Answers
    <2>2. main' \in Places
        BY <1>12 DEF Drain, CloseSteps
    <2> QED BY <1>12, <2>1, <2>2 DEF Drain, Typed, opened, beats
<1>13. CASE CloseStorage
    <2>1. open' \subseteq open /\ trouble' \in BOOLEAN
        BY <1>13 DEF CloseStorage, Typed
    <2>2. Ends("gone") /\ main' \in Places
        BY <1>13 DEF CloseStorage, Ends
    <2> QED BY <1>13, <2>1, <2>2, EndsTypes DEF CloseStorage, Typed, beats
<1>14. CASE Tick
    <2>0. /\ file \in Files /\ stamp \in Files /\ dog \in Thread
          /\ silent \in 0..MaxAge+1 /\ patience \in 0..JoinTimeout /\ MaxAge \in Nat
          /\ JoinTimeout \in Nat
        BY RuntimeOK, Values DEF Typed
    <2>1. file' \in Files /\ stamp' \in Files
        BY <2>0, <1>14, Ageings DEF Tick
    <2>2. silent' \in 0..MaxAge+1 /\ patience' \in 0..JoinTimeout
        BY <2>0, <1>14 DEF Tick
    <2>3. dog' \in Thread
        <3>1. Aged(dog.seen, 1, FALSE) \in Files
            BY <2>0, Ageings DEF Thread
        <3>2. PICK n \in Nat : n = IF dog.left = 0 THEN 0 ELSE dog.left - 1
            <4>1. dog.left \in Nat
                BY <2>0 DEF Thread
            <4> QED BY <4>1
        <3>3. dog' = [dog EXCEPT !.left = n, !.seen = Aged(dog.seen, 1, FALSE)]
            BY <1>14, <2>0, <3>2 DEF Tick, Thread
        <3> QED BY <2>0, <3>1, <3>3 DEF Thread
    <2> QED BY <1>14, <2>1, <2>2, <2>3, TimeSteps DEF Tick, Typed
<1>15. CASE SetClock
    <2>1. PICK d \in {-1 - MaxAge, -1, 1} : /\ file' = Aged(file, d, TRUE)
                                           /\ stamp' = Aged(stamp, d, TRUE)
                                           /\ dog' = [dog EXCEPT !.seen = Aged(@, d, TRUE)]
        BY <1>15 DEF SetClock
    <2>2. d \in Int /\ file \in Files /\ stamp \in Files /\ dog \in Thread
        BY <2>1, RuntimeOK DEF Typed
    <2>3. file' \in Files /\ stamp' \in Files
        BY <2>1, <2>2, AgedFiles
    <2>4. dog' \in Thread
        <3>1. Aged(dog.seen, d, TRUE) \in Files
            BY <2>2, AgedFiles DEF Thread
        <3>2. dog' = [dog EXCEPT !.seen = Aged(dog.seen, d, TRUE)]
            BY <2>1, <2>2 DEF Thread
        <3> QED BY <2>2, <3>1, <3>2 DEF Thread
    <2>5. count' \in Counts
        BY <1>15, RuntimeOK DEF SetClock, Typed, Counts
    <2> QED BY <1>15, <2>3, <2>4, <2>5, TimeSteps DEF SetClock, Typed
<1>16. CASE Crash
    <2>1. Ends("crashed") /\ main' \in Places
        BY <1>16 DEF Crash, Ends
    <2> QED BY <1>16, <2>1, EndsTypes DEF Crash, Typed, opened, beats
<1>17. CASE Restart
    <2>1. count' \in Counts
        BY <1>17, RuntimeOK DEF Restart, Counts, Typed
    <2> QED BY <1>17, <2>1, Values DEF Restart, Typed
<1>18. CASE UNCHANGED vars
    BY <1>18 DEF vars, Typed, opened, beats, clears
<1> QED BY <1>1, <1>2, <1>3, <1>4, <1>5, <1>6, <1>7, <1>8, <1>9, <1>10, <1>11, <1>12, <1>13,
           <1>14, <1>15, <1>16, <1>17, <1>18 DEF Next, Stop

----------------------------------------------------------------------------
(* The heartbeat file and the watchdog.                                    *)

\* What time and the setting of the clock do to a file.
LEMMA FileAges ==
    ASSUME Typed, Tick \/ SetClock
    PROVE  /\ file'.is = file.is /\ (file.is # "beat" => file' = file)
           /\ stamp'.is = stamp.is
           /\ Tick => /\ file.is = "beat" => /\ file'.age = Capped(file.age + 1)
                                            /\ file'.set = file.set /\ file.age \in Ages
                      /\ stamp.is = "beat" => /\ stamp'.age = Capped(stamp.age + 1)
                                             /\ stamp'.set = stamp.set /\ stamp.age \in Ages
           /\ SetClock => /\ file.is = "beat" => file'.set
                          /\ stamp.is = "beat" => stamp'.set
<1>1. file \in Files /\ stamp \in Files /\ \A d \in {-1 - MaxAge, -1, 1} : d \in Int
    BY RuntimeOK DEF Typed
<1>2. \A f \in Files : f.is = "beat" => f.set \in BOOLEAN
    BY FileKinds
<1>3. ASSUME Tick
      PROVE  /\ file'.is = file.is /\ (file.is # "beat" => file' = file)
             /\ stamp'.is = stamp.is
             /\ file.is = "beat" => /\ file'.age = Capped(file.age + 1)
                                    /\ file'.set = file.set /\ file.age \in Ages
             /\ stamp.is = "beat" => /\ stamp'.age = Capped(stamp.age + 1)
                                     /\ stamp'.set = stamp.set /\ stamp.age \in Ages
    <2>1. file' = Aged(file, 1, FALSE) /\ stamp' = Aged(stamp, 1, FALSE)
        BY <1>3 DEF Tick
    <2>2. 1 \in Int /\ FALSE \in BOOLEAN
        OBVIOUS
    <2>3. \A f \in Files : /\ Aged(f, 1, FALSE).is = f.is
                           /\ f.is # "beat" => Aged(f, 1, FALSE) = f
                           /\ f.is = "beat" => /\ Aged(f, 1, FALSE).age = Capped(f.age + 1)
                                               /\ Aged(f, 1, FALSE).set = (f.set \/ FALSE)
                                               /\ f.age \in Ages
        BY <2>2, AgedFiles
    <2> QED BY <1>1, <1>2, <2>1, <2>3
<1>4. ASSUME SetClock
      PROVE  /\ file'.is = file.is /\ (file.is # "beat" => file' = file)
             /\ stamp'.is = stamp.is
             /\ file.is = "beat" => file'.set
             /\ stamp.is = "beat" => stamp'.set
    <2>1. PICK d \in {-1 - MaxAge, -1, 1} : file' = Aged(file, d, TRUE) /\ stamp' = Aged(stamp, d, TRUE)
        BY <1>4 DEF SetClock
    <2>2. d \in Int /\ TRUE \in BOOLEAN
        BY <1>1
    <2> QED BY <1>1, <2>1, <2>2, AgedFiles
<1> QED BY <1>3, <1>4

LEMMA TruthfulInit == Init => Truthful
BY DEF Init, Truthful

\* A beat that ages stays as old as its silence.
LEMMA AgesAlike ==
    ASSUME NEW age \in Ages, NEW s \in 0..MaxAge+1
    PROVE  /\ age >= s => Capped(age + 1) >= (IF s > MaxAge THEN s ELSE s + 1)
           /\ age = s => Capped(age + 1) = (IF s > MaxAge THEN s ELSE s + 1)
BY RuntimeOK DEF Ages, Capped

LEMMA TruthfulNext == Typed /\ Truthful /\ Blank /\ [Next]_vars => Truthful'
<1> SUFFICES ASSUME Typed, Truthful, Blank, [Next]_vars, main' # "begin", ~Ended'
             PROVE  /\ file'.is = "beat" => hb' # "none" /\ (~file'.set => file'.age >= silent')
                    /\ (file'.is = "beat" /\ hb' = "sleeps" /\ ~file'.set) => file'.age = silent'
                    /\ file'.is = "torn" => hb' \in {"writing", "failed"}
                    /\ hb' \in {"stamped", "writing"} =>
                          stamp'.is = "beat" /\ (~stamp'.set => stamp'.age = silent')
    BY DEF Truthful
<1> USE DEF Truthful, Ended
<1>1. CASE ClearHeartbeat \/ StartFails
    BY <1>1, Kinds DEF ClearHeartbeat, StartFails, Blank, Starting, StartSteps
<1>2. CASE OpenStorage \/ StartProxy \/ Hydrate \/ BuildBot
    BY <1>2, StartStep DEF StartSteps
<1>3. CASE Run \/ ThreadFails
    <2>1. main = "run" /\ hb' = "sleeps" /\ UNCHANGED <<stamp, file, silent>>
        BY <1>3 DEF Run, ThreadFails, TasksStart
    <2>2. hb = "none" /\ file.is # "beat" /\ file.is # "torn"
        BY <2>1 DEF Blank, Starting, StartSteps
    <2> QED BY <2>1, <2>2
<1>4. CASE ReadClock
    <2>1. /\ hb = "sleeps" /\ hb' = "stamped" /\ stamp' = Beat(0, FALSE) /\ silent' = 0 /\ file' = file
          /\ main # "begin" /\ ~Ended
        BY <1>4, BeatSteps DEF ReadClock
    <2>2. file.is = "beat" /\ ~file.set => file.age >= 0
        <3>1. silent \in 0..MaxAge+1 /\ MaxAge \in Nat
            BY RuntimeOK DEF Typed
        <3> QED BY <2>1, <3>1
    <2> QED BY <2>1, <2>2, Kinds
<1>5. CASE TruncateBeat \/ WithholdBeat
    BY <1>5, BeatSteps, Kinds DEF TruncateBeat, WithholdBeat
<1>6. CASE WriteBeat
    <2>1. /\ hb = "writing" /\ hb' = "sleeps" /\ file' = stamp /\ silent' = silent
          /\ main # "begin" /\ ~Ended
        BY <1>6, BeatSteps DEF WriteBeat
    <2>2. silent \in 0..MaxAge+1 /\ MaxAge \in Nat
        BY RuntimeOK DEF Typed
    <2> QED BY <2>1, <2>2
<1>7. CASE BeatFails
    BY <1>7, BeatSteps DEF BeatFails
<1>8. CASE WatcherDies
    BY <1>8, BeatSteps DEF WatcherDies, beats
<1>9. CASE \E c \in Clears : Invalidate(c) \/ ClearEnds(c)
    BY <1>9, ClearSteps
<1>10. CASE Watchdog
    BY <1>10, DogSteps DEF Ends
<1>11. CASE BeginStop \/ Joined
    BY <1>11 DEF BeginStop, Joined, beats
<1>12. CASE CancelHeartbeat
    BY <1>12, Kinds DEF CancelHeartbeat, Ends
<1>13. CASE CloseWatcher \/ CloseProxy \/ CloseBot \/ CloseClient
    BY <1>13, Closes DEF CloseSteps
<1>14. CASE Drain
    BY <1>14 DEF Drain, beats
<1>15. CASE CloseStorage \/ Crash \/ Restart
    BY <1>15 DEF CloseStorage, Crash, Restart, Ends
<1>16. CASE Tick
    <2>1. main # "begin" /\ ~Ended /\ hb' = hb
        BY <1>16, TimeSteps
    <2>2. silent \in 0..MaxAge+1 /\ silent' = (IF silent > MaxAge THEN silent ELSE silent + 1)
        BY <1>16 DEF Tick, Typed
    <2>3. file'.is = file.is /\ stamp'.is = stamp.is
        BY <1>16, FileAges
    <2>4. file.is = "beat" => /\ file'.age = Capped(file.age + 1)
                             /\ file'.set = file.set /\ file.age \in Ages
        BY <1>16, FileAges
    <2>5. stamp.is = "beat" => /\ stamp'.age = Capped(stamp.age + 1)
                              /\ stamp'.set = stamp.set /\ stamp.age \in Ages
        BY <1>16, FileAges
    <2>6. file.is = "beat" /\ ~file.set => file'.age >= silent'
        BY <2>1, <2>2, <2>4, AgesAlike
    <2>7. file.is = "beat" /\ hb = "sleeps" /\ ~file.set => file'.age = silent'
        BY <2>1, <2>2, <2>4, AgesAlike
    <2>8. stamp.is = "beat" /\ hb \in {"stamped", "writing"} /\ ~stamp.set => stamp'.age = silent'
        BY <2>1, <2>2, <2>5, AgesAlike
    <2> QED BY <2>1, <2>3, <2>4, <2>5, <2>6, <2>7, <2>8
<1>17. CASE SetClock
    <2>1. main # "begin" /\ ~Ended /\ hb' = hb
        BY <1>17, TimeSteps
    <2>2. /\ file'.is = file.is /\ stamp'.is = stamp.is
          /\ file.is = "beat" => file'.set
          /\ stamp.is = "beat" => stamp'.set
        BY <1>17, FileAges
    <2> QED BY <2>1, <2>2
<1>18. CASE UNCHANGED vars
    BY <1>18 DEF vars, beats
<1> QED BY <1>1, <1>2, <1>3, <1>4, <1>5, <1>6, <1>7, <1>8, <1>9, <1>10, <1>11, <1>12, <1>13,
           <1>14, <1>15, <1>16, <1>17, <1>18 DEF Next, Stop

LEMMA BlankInit == Init => Blank
BY DEF Init, Blank, Starting, StartSteps, Ended, NoThread

LEMMA BlankNext == Typed /\ Blank /\ [Next]_vars => Blank'
<1> SUFFICES ASSUME Typed, Blank, [Next]_vars PROVE Blank'
    OBVIOUS
<1> USE DEF Blank, Starting, Ended
<1>a. NoThread.pc = "off"
    BY DEF NoThread
<1>0. StartSteps \cap CloseSteps = {} /\ "begin" \notin StartSteps \cup CloseSteps
      /\ {"join", "cancel", "polling", "gone", "killed", "crashed"} \cap (StartSteps \cup CloseSteps) = {}
      /\ "close watcher" \in CloseSteps /\ "close storage" \in CloseSteps
      /\ "run" \in StartSteps
    BY DEF StartSteps, CloseSteps
<1>1. CASE ClearHeartbeat
    BY <1>1 DEF ClearHeartbeat
<1>2. CASE OpenStorage \/ StartProxy \/ Hydrate \/ BuildBot
    BY <1>0, <1>2, StartStep
<1>3. CASE Run \/ ThreadFails
    BY <1>0, <1>3 DEF Run, ThreadFails
<1>4. CASE StartFails
    BY <1>0, <1>4, FailedStart
<1>5. CASE ReadClock \/ TruncateBeat \/ WriteBeat \/ WithholdBeat \/ BeatFails \/ WatcherDies
    <2>1. Starting => hb' = hb /\ watcher' = watcher
        BY <1>5 DEF ReadClock, TruncateBeat, WriteBeat, WithholdBeat, BeatFails, WatcherDies
    <2> QED BY <1>5, <2>1, BeatSteps
<1>6. ASSUME NEW c \in Clears, Invalidate(c) \/ ClearEnds(c) PROVE Blank'
    <2>1. main # "begin"
        BY <1>6 DEF Invalidate, ClearEnds, NoClears
    <2> QED BY <1>6, <2>1, ClearSteps
<1>7. CASE Watchdog
    <2>1. dog.pc # "off"
        BY <1>7 DEF Watchdog, DogWakes, DogReads, DogJudges, DogTerminates
    <2>2. ~Starting
        BY <2>1
    <2> QED BY <1>0, <1>a, <1>7, <2>2, DogSteps DEF Ends
<1>8. CASE BeginStop \/ Joined
    BY <1>0, <1>8 DEF BeginStop, Joined
<1>9. CASE CancelHeartbeat
    BY <1>0, <1>a, <1>9 DEF CancelHeartbeat, Ends
<1>10. CASE CloseWatcher \/ CloseProxy \/ CloseBot \/ CloseClient
    BY <1>0, <1>10, Closes
<1>11. CASE Drain
    BY <1>0, <1>11 DEF Drain
<1>12. CASE CloseStorage \/ Crash
    BY <1>0, <1>a, <1>12 DEF CloseStorage, Crash, Ends
<1>13. CASE Tick \/ SetClock
    <2>1. dog'.pc = dog.pc
        BY <1>13 DEF Tick, SetClock, Typed, Thread
    <2> QED BY <1>13, <2>1, TimeSteps
<1>14. CASE Restart
    BY <1>0, <1>a, <1>14 DEF Restart
<1>15. CASE UNCHANGED vars
    BY <1>15 DEF vars, opened, beats, clears
<1> QED BY <1>1, <1>2, <1>3, <1>4, <1>5, <1>6, <1>7, <1>8, <1>9, <1>10, <1>11, <1>12, <1>13,
           <1>14, <1>15 DEF Next, Stop

LEMMA GracedNext == Typed /\ Truthful /\ Blank /\ Graced /\ [Next]_vars => Graced'
<1> SUFFICES ASSUME Typed, Truthful, Blank, Graced, [Next]_vars,
                    Watched', file' = Missing, watcher' # "dead", hb' = "sleeps"
             PROVE  \/ silent' > MaxAge
                    \/ dog'.pc \in {"off", "ended"}
                    \/ dog'.pc = "waits" /\ dog'.left + silent' >= Grace
    BY DEF Graced
<1> USE DEF Graced, Watched
<1>0. /\ Missing # Torn /\ Missing.is = "none"
      /\ silent \in Nat /\ MaxAge \in Nat /\ Grace \in Nat /\ Grace > MaxAge
      /\ dog \in Thread /\ file \in Files
    BY RuntimeOK, Kinds DEF Typed
<1>1. CASE ClearHeartbeat \/ StartFails
    BY <1>1 DEF ClearHeartbeat, StartFails
<1>2. CASE OpenStorage \/ StartProxy \/ Hydrate \/ BuildBot
    BY <1>2, StartStep DEF StartSteps
<1>3. CASE Run
    BY <1>0, <1>3 DEF Run, NoThread
<1>4. CASE ThreadFails
    <2>1. dog'.pc = "off"
        BY <1>4 DEF ThreadFails, TasksStart, Blank, Starting, StartSteps
    <2> QED BY <2>1
<1>5. CASE ReadClock \/ TruncateBeat \/ BeatFails
    BY <1>5 DEF ReadClock, TruncateBeat, BeatFails
<1>6. CASE WriteBeat
    <2>1. hb = "writing" /\ file' = stamp /\ ~Ended
        BY <1>6 DEF WriteBeat
    <2>2. stamp.is = "beat"
        BY <2>1 DEF Truthful, Blank, Starting
    <2> QED BY <1>0, <2>1, <2>2
<1>7. CASE WithholdBeat
    BY <1>7 DEF WithholdBeat
<1>8. CASE WatcherDies
    BY <1>8 DEF WatcherDies
<1>9. ASSUME NEW c \in Clears, Invalidate(c) \/ ClearEnds(c)
      PROVE  Watched /\ file = Missing /\ watcher # "dead" /\ hb = "sleeps" /\ UNCHANGED <<silent, dog>>
    BY <1>9, ClearSteps
<1>10. CASE Watchdog
    <2>1. ~DogTerminates
        BY DEF DogTerminates, Ends
    <2>2. Watched /\ file = Missing /\ watcher # "dead" /\ hb = "sleeps" /\ silent' = silent
        BY <1>10, <2>1, DogSteps
    <2>3. CASE silent > MaxAge
        BY <2>2, <2>3
    <2>4. CASE silent =< MaxAge
        <3>1. dog.pc = "waits" /\ dog.left + silent >= Grace
            BY <1>0, <1>10, <2>1, <2>2, <2>4 DEF Watchdog, DogWakes, DogReads, DogJudges
        <3>2. DogWakes
            BY <1>10, <2>1, <3>1 DEF Watchdog, DogReads, DogJudges
        <3>3. dog.left \in Nat /\ dog.left # 0
            BY <1>0, <2>4, <3>1 DEF Thread
        <3>4. dog' = [dog EXCEPT !.pc = "ended"]
            BY <3>2, <3>3 DEF DogWakes
        <3> QED BY <1>0, <3>4 DEF Thread
    <2> QED BY <1>0, <2>3, <2>4
<1>11. CASE BeginStop
    BY <1>0, <1>11 DEF BeginStop, Thread, beats
<1>12. CASE Joined
    BY <1>12 DEF Joined, beats
<1>13. CASE CancelHeartbeat
    BY <1>13 DEF CancelHeartbeat, Ends
<1>14. CASE CloseWatcher \/ CloseProxy \/ CloseBot \/ CloseClient
    BY <1>14, Closes DEF CloseSteps
<1>15. CASE Drain \/ CloseStorage \/ Crash \/ Restart
    BY <1>15 DEF Drain, CloseStorage, Crash, Restart, Ends
<1>16. CASE Tick \/ SetClock
    <2>1. file = Missing
        BY <1>0, <1>16, FileAges, FileKinds
    <2>2. Watched /\ watcher # "dead" /\ hb = "sleeps"
        BY <1>16, TimeSteps
    <2>3. CASE Tick
        <3>1. dog'.pc = dog.pc /\ dog'.left = (IF dog.left = 0 THEN 0 ELSE dog.left - 1)
            BY <1>0, <2>3 DEF Tick, Thread
        <3>2. silent' = (IF silent > MaxAge THEN silent ELSE silent + 1)
            BY <2>3 DEF Tick
        <3>3. dog.left \in Nat
            BY <1>0 DEF Thread
        <3> QED BY <1>0, <2>1, <2>2, <3>1, <3>2, <3>3
    <2>4. CASE SetClock
        <3>1. dog'.pc = dog.pc /\ dog'.left = dog.left /\ silent' = silent
            BY <1>0, <2>4 DEF SetClock, Thread
        <3> QED BY <2>1, <2>2, <3>1
    <2> QED BY <1>16, <2>3, <2>4
<1>17. CASE UNCHANGED vars
    BY <1>17 DEF vars, beats
<1> QED BY <1>1, <1>2, <1>3, <1>4, <1>5, <1>6, <1>7, <1>8, <1>9, <1>10, <1>11, <1>12, <1>13,
           <1>14, <1>15, <1>16, <1>17 DEF Next, Stop

----------------------------------------------------------------------------
(* The shutdown.                                                           *)

LEMMA ClosedNext == Typed /\ Closed /\ [Next]_vars => Closed'
<1> SUFFICES ASSUME Typed, Closed, [Next]_vars, ~trouble', ~Ended' PROVE Closed'
    BY DEF Closed
<1> USE DEF Closed, CloseSteps, Ended
<1>1. CASE ClearHeartbeat
    BY <1>1 DEF ClearHeartbeat
<1>2. CASE OpenStorage \/ StartProxy \/ Hydrate \/ BuildBot \/ StartFails
    BY <1>2, StartStep, FailedStart DEF StartSteps
<1>3. CASE Run \/ ThreadFails
    BY <1>3 DEF Run, ThreadFails
<1>4. CASE \/ ReadClock \/ TruncateBeat \/ WriteBeat \/ WithholdBeat \/ BeatFails \/ WatcherDies
           \/ (\E c \in Clears : Invalidate(c) \/ ClearEnds(c))
           \/ Tick \/ SetClock
    <2>1. UNCHANGED <<main, open, trouble>>
        BY <1>4, BeatSteps, ClearSteps, TimeSteps
    <2> QED BY <2>1
<1>5. CASE Watchdog
    <2>1. UNCHANGED <<main, open, trouble>>
        BY <1>5, DogSteps DEF Ends
    <2> QED BY <2>1
<1>6. CASE BeginStop \/ Joined
    BY <1>6 DEF BeginStop, Joined
<1>7. CASE CancelHeartbeat
    BY <1>7 DEF CancelHeartbeat, Ends
<1>8. CASE CloseWatcher
    BY <1>8 DEF CloseWatcher, BoundedClose
<1>9. CASE CloseProxy
    BY <1>9 DEF CloseProxy, BoundedClose
<1>10. CASE CloseBot
    BY <1>10 DEF CloseBot, BoundedClose
<1>11. CASE CloseClient
    BY <1>11 DEF CloseClient, BoundedClose
<1>12. CASE Drain
    <2>1. main = "drain" /\ main' = "close storage" /\ open' = open /\ ~trouble
        BY <1>12 DEF Drain, opened
    <2> QED BY <2>1
<1>13. CASE CloseStorage \/ Crash \/ Restart
    BY <1>13 DEF CloseStorage, Crash, Restart, Ends
<1>14. CASE UNCHANGED vars
    BY <1>14 DEF vars, opened
<1> QED BY <1>1, <1>2, <1>3, <1>4, <1>5, <1>6, <1>7, <1>8, <1>9, <1>10, <1>11, <1>12, <1>13,
           <1>14 DEF Next, Stop

LEMMA PersistedNext == Typed /\ Blank /\ Persisted /\ [Next]_vars => Persisted'
<1> SUFFICES ASSUME Typed, Blank, Persisted, [Next]_vars, ~Ended' PROVE Persisted'
    BY DEF Persisted
<1> USE DEF Persisted
<1>0. clear \in [Clears -> Answers] /\ bound \in BOOLEAN
    BY DEF Typed
<1>1. CASE ClearHeartbeat
    BY <1>1 DEF ClearHeartbeat, Ended, opened, clears
<1>2. CASE OpenStorage \/ StartProxy \/ Hydrate \/ BuildBot \/ StartFails
    <2>1. /\ main \in StartSteps /\ main' \in StartSteps \cup {"close watcher"}
          /\ UNCHANGED <<clear, late, trouble>>
          /\ open \subseteq open' /\ (bound' => bound \/ "storage" \in open')
        BY <1>2, StartStep, FailedStart
    <2>2. bound => bound'
        BY <1>2 DEF OpenStorage, StartProxy, Hydrate, BuildBot, Opened, StartFails
    <2> QED BY <2>1, <2>2 DEF Ended, StartSteps
<1>3. CASE Run \/ ThreadFails
    <2>1. /\ main = "run" /\ main' \in {"polling", "cancel"} /\ open \subseteq open'
          /\ UNCHANGED <<bound, clear, trouble>>
        BY <1>3 DEF Run, ThreadFails, TasksStart, clears
    <2> QED BY <2>1 DEF Ended
<1>4. CASE \/ ReadClock \/ TruncateBeat \/ WriteBeat \/ WithholdBeat \/ BeatFails \/ WatcherDies
           \/ Tick \/ SetClock
    <2>1. UNCHANGED <<main, open, bound, clear, batch, late, trouble>>
        BY <1>4, BeatSteps, TimeSteps
    <2> QED BY <2>1 DEF Ended
<1>5. ASSUME NEW c \in Clears, Invalidate(c) PROVE Persisted'
    <2>1. /\ UNCHANGED <<main, open, bound, batch, trouble>> /\ ~Ended
          /\ bound /\ clear' = [clear EXCEPT ![c] = "pending"]
          /\ late \subseteq late'
          /\ main \in {"drain", "close storage"} => c \in late'
        BY <1>5, ClearSteps DEF Invalidate
    <2> QED BY <1>0, <2>1 DEF Ended
<1>6. ASSUME NEW c \in Clears, ClearEnds(c) PROVE Persisted'
    <2>1. /\ UNCHANGED <<main, open, bound, batch, late, trouble>> /\ ~Ended
          /\ clear[c] = "pending"
        BY <1>6, ClearSteps DEF ClearEnds
    <2>2. clear' = [clear EXCEPT ![c] = "done"]
        BY <1>6, <2>1 DEF ClearEnds
    <2> QED BY <1>0, <2>1, <2>2 DEF Ended
<1>7. CASE Watchdog
    <2>1. UNCHANGED <<main, open, bound, clear, batch, late, trouble>>
        BY <1>7, DogSteps DEF Ends, Ended
    <2> QED BY <2>1 DEF Ended
<1>8. CASE BeginStop \/ Joined
    <2>1. /\ main \in {"polling", "join"} /\ main' \in {"join", "cancel"}
          /\ UNCHANGED <<open, bound, clear, trouble>>
        BY <1>8 DEF BeginStop, Joined, opened, clears
    <2> QED BY <2>1 DEF Ended
<1>9. CASE CancelHeartbeat
    <2>1. hb # "failed"
        BY <1>9 DEF CancelHeartbeat, Ends, Ended
    <2> QED BY <1>9, <2>1 DEF CancelHeartbeat, Ended, opened
<1>10. CASE CloseWatcher \/ CloseProxy \/ CloseBot
    <2>1. /\ main \in CloseSteps /\ main' \in {"close proxy", "close bot", "close client"}
          /\ UNCHANGED <<bound, clear>> /\ ("storage" \in open => "storage" \in open')
          /\ ~trouble' => ~trouble
        BY <1>10, Closes DEF CloseWatcher, CloseProxy, CloseBot, BoundedClose
    <2>2. ~Ended
        BY <2>1 DEF Ended, CloseSteps
    <2> QED BY <2>1, <2>2
<1>11. CASE CloseClient
    <2>1. /\ main = "close client" /\ main' = "drain"
          /\ batch' = {c \in Clears : clear[c] = "pending"}
          /\ UNCHANGED <<bound, clear, late>> /\ ("storage" \in open => "storage" \in open')
          /\ ~trouble' => ~trouble
        BY <1>11, Closes DEF CloseClient, BoundedClose
    <2>2. ~Ended /\ \A c \in Clears : clear[c] = "pending" => c \in batch'
        BY <2>1 DEF Ended
    <2> QED BY <2>1, <2>2
<1>12. CASE Drain
    <2>1. /\ main = "drain" /\ main' = "close storage"
          /\ UNCHANGED <<open, bound, batch, late>>
        BY <1>12 DEF Drain, opened
    <2>2. CASE \A c \in batch : clear[c] # "pending"
        BY <1>12, <2>1, <2>2 DEF Drain, Ended
    <2>3. CASE ~\A c \in batch : clear[c] # "pending"
        <3>1. /\ trouble'
              /\ clear' = [c \in Clears |->
                            IF c \in batch /\ clear[c] = "pending" THEN "lost" ELSE clear[c]]
            BY <1>12, <2>3 DEF Drain
        <3>2. \A c \in Clears : clear'[c] = "pending" => clear[c] = "pending"
            BY <3>1
        <3> QED BY <2>1, <3>1, <3>2 DEF Ended
    <2> QED BY <2>2, <2>3
<1>13. CASE CloseStorage \/ Crash
    BY <1>13 DEF CloseStorage, Crash, Ends, Ended
<1>14. CASE Restart
    BY <1>14 DEF Restart, NoClears
<1>15. CASE UNCHANGED vars
    BY <1>15 DEF vars, Ended, opened, clears
<1> QED BY <1>1, <1>2, <1>3, <1>4, <1>5, <1>6, <1>7, <1>8, <1>9, <1>10, <1>11, <1>12, <1>13,
           <1>14, <1>15 DEF Next, Stop

LEMMA CleanNext == Typed /\ Blank /\ Closed /\ Persisted /\ CleanExit /\ [Next]_vars => CleanExit'
<1> SUFFICES ASSUME Typed, Blank, Closed, Persisted, CleanExit, [Next]_vars, main' = "gone", ~trouble'
             PROVE  /\ open' \subseteq {"runner"}
                    /\ \A c \in Clears \ late' : clear'[c] \in {"none", "done"}
    BY DEF CleanExit
<1> USE DEF CloseSteps
<1>1. CASE ClearHeartbeat
    BY <1>1 DEF ClearHeartbeat, Blank, NoClears, opened, clears
<1>2. CASE OpenStorage \/ StartProxy \/ Hydrate \/ BuildBot \/ StartFails
    BY <1>2, StartStep, FailedStart DEF StartSteps
<1>3. CASE Run \/ ThreadFails
    BY <1>3 DEF Run, ThreadFails
<1>4. CASE ReadClock \/ TruncateBeat \/ WriteBeat \/ WithholdBeat \/ BeatFails \/ WatcherDies
    BY <1>4, BeatSteps DEF Ended
<1>5. ASSUME NEW c \in Clears, Invalidate(c) \/ ClearEnds(c) PROVE FALSE
    BY <1>5, ClearSteps DEF Ended
<1>6. CASE Watchdog
    BY <1>6, DogSteps DEF Ends, Ended
<1>7. CASE BeginStop \/ Joined
    BY <1>7 DEF BeginStop, Joined
<1>8. CASE CancelHeartbeat
    BY <1>8 DEF CancelHeartbeat, Ends
<1>9. CASE CloseWatcher \/ CloseProxy \/ CloseBot \/ CloseClient
    BY <1>9, Closes
<1>10. CASE Drain
    BY <1>10 DEF Drain
<1>11. CASE CloseStorage
    <2>1. /\ ~trouble /\ main = "close storage" /\ ~Ended
          /\ open' = open \ {"storage"} /\ Ends("gone") /\ late' = late
        BY <1>11 DEF CloseStorage, Ended
    <2>2. open' \subseteq {"runner"}
        BY <2>1 DEF Closed, Typed, Parts
    <2>3. \A c \in Clears \ late : clear[c] \in {"none", "done"}
        BY <2>1 DEF Persisted, Typed, Answers
    <2> QED BY <2>1, <2>2, <2>3 DEF Ends
<1>12. CASE Tick \/ SetClock
    BY <1>12, TimeSteps DEF CleanExit
<1>13. CASE Crash \/ Restart
    BY <1>13 DEF Crash, Restart, Ends
<1>14. CASE UNCHANGED vars
    BY <1>14 DEF vars, opened, clears, CleanExit
<1> QED BY <1>1, <1>2, <1>3, <1>4, <1>5, <1>6, <1>7, <1>8, <1>9, <1>10, <1>11, <1>12, <1>13,
           <1>14 DEF Next, Stop

----------------------------------------------------------------------------
(* The theorems.                                                           *)

IInv == Typed /\ Truthful /\ Blank /\ Graced /\ Closed /\ Persisted /\ CleanExit

LEMMA InitIInv == Init => IInv
<1> SUFFICES ASSUME Init PROVE IInv
    OBVIOUS
<1>1. Typed /\ Truthful /\ Blank
    BY TypeInit, TruthfulInit, BlankInit
<1>2. Graced /\ Closed /\ CleanExit
    BY DEF Init, Graced, Watched, Closed, CloseSteps, CleanExit
<1>3. Persisted
    BY DEF Init, Persisted, NoClears
<1> QED BY <1>1, <1>2, <1>3 DEF IInv

LEMMA NextIInv == IInv /\ [Next]_vars => IInv'
BY TypeNext, TruthfulNext, BlankNext, GracedNext, ClosedNext, PersistedNext, CleanNext DEF IInv

LEMMA Invariance == Spec => []IInv
BY InitIInv, NextIInv, PTL DEF Spec

\* Type correctness of the process, its tasks, its thread and its file.
THEOREM TypeCorrect == Spec => []TypeOK
<1>1. IInv => TypeOK
    BY TypedAsType DEF IInv
<1> QED BY <1>1, Invariance, PTL

\* Whatever process left the heartbeat file, and wherever the loop stalls, a
\* file that looks fresh is a sign of life of the present process, unless the
\* clock was set.
THEOREM FreshIsAlive == Spec => []FreshMeansAlive
<1>1. IInv => FreshMeansAlive
    <2> SUFFICES ASSUME IInv, main # "begin", ~Ended, Fresh(file), ~file.set
                 PROVE  hb # "none" /\ silent =< MaxAge
        BY DEF FreshMeansAlive
    <2>1. file.is = "beat" /\ file.age \in 0..MaxAge
        BY DEF Fresh
    <2>2. hb # "none" /\ file.age >= silent
        BY <2>1 DEF IInv, Truthful
    <2>3. silent \in 0..MaxAge+1 /\ MaxAge \in Nat
        BY RuntimeOK DEF IInv, Typed
    <2> QED BY <2>1, <2>2, <2>3
<1> QED BY <1>1, Invariance, PTL

\* A shutdown that gave up on nothing leaves nothing open that main() knows
\* of, and no session on disk whose invalidation began before the drain, at
\* whatever step of the start or the run it began.
THEOREM ExitsClean == Spec => []CleanExit
<1>1. IInv => CleanExit
    BY DEF IInv
<1> QED BY <1>1, Invariance, PTL

\* The watchdog condemns only a process that is stuck by one of the signs it
\* has, as long as the beat it read is still the one in the file.
THEOREM OnlyStuckCondemned == Spec => CondemnsOnlyTheStuck
<1> DEFINE A ==
        (dog.pc = "judges" /\ dog'.pc = "terminates" /\ dog.seen = file) =>
            \/ silent > MaxAge \/ watcher = "dead"
            \/ file.set \/ hb # "sleeps"
            \/ main \in CloseSteps
<1>1. IInv /\ [Next]_vars => [A]_vars
    <2> SUFFICES ASSUME IInv, Next, dog.pc = "judges", dog'.pc = "terminates", dog.seen = file,
                        watcher # "dead", ~file.set, hb = "sleeps", main \notin CloseSteps
                 PROVE  silent > MaxAge
        OBVIOUS
    <2>0. dog \in Thread /\ NoThread.pc = "off"
        BY DEF IInv, Typed, NoThread
    <2>1. ~Fresh(file)
        <3>1. ~(\/ ClearHeartbeat \/ OpenStorage \/ StartProxy \/ Hydrate \/ BuildBot
                \/ StartFails \/ ReadClock \/ TruncateBeat \/ WriteBeat \/ WithholdBeat
                \/ BeatFails \/ WatcherDies \/ (\E c \in Clears : Invalidate(c) \/ ClearEnds(c))
                \/ CloseWatcher \/ CloseProxy \/ CloseBot \/ CloseClient)
            <4>1. dog' # dog
                OBVIOUS
            <4> QED BY <4>1, BeatSteps, ClearSteps, Closes, StartStep, FailedStart
                   DEF IInv, ClearHeartbeat
        <3>2. ~(Run \/ ThreadFails \/ Joined \/ CancelHeartbeat \/ Drain \/ CloseStorage
                \/ Crash \/ Restart)
            BY <2>0 DEF Run, ThreadFails, Joined, CancelHeartbeat, Drain, CloseStorage, Crash,
                        Restart, Ends, NoThread
        <3>3. ~(BeginStop \/ Tick \/ SetClock)
            BY <2>0 DEF BeginStop, Tick, SetClock, Thread
        <3>4. DogJudges
            BY <2>0, <3>1, <3>2, <3>3 DEF Next, Stop, Watchdog, DogWakes, DogReads, DogTerminates, Ends
        <3> QED BY <2>0, <3>4 DEF DogJudges, Thread
    <2>2. ~Ended /\ ~Starting
        BY <2>0 DEF IInv, Blank
    <2>3. Watched
        BY <2>2 DEF IInv, Typed, Places, Starting, Ended, Watched
    <2>4. file \in Files /\ silent \in 0..MaxAge+1 /\ MaxAge \in Nat
        BY RuntimeOK DEF IInv, Typed
    <2>5. file.is # "torn"
        BY <2>2, <2>3 DEF IInv, Truthful, Watched
    <2>6. CASE file = Missing
        BY <2>3, <2>6 DEF IInv, Graced
    <2>7. CASE file.is = "beat"
        <3>1. file.age = silent
            BY <2>2, <2>3, <2>7 DEF IInv, Truthful, Watched
        <3>2. file.age \notin 0..MaxAge
            BY <2>1, <2>7 DEF Fresh
        <3> QED BY <2>4, <3>1, <3>2
    <2> QED BY <2>4, <2>5, <2>6, <2>7, FileKinds
<1> HIDE DEF A
<1>2. Spec => [][A]_vars
    BY <1>1, Invariance, PTL DEF Spec
<1> QED BY <1>2 DEF CondemnsOnlyTheStuck, A

=============================================================================
