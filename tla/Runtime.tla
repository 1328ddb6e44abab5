------------------------------ MODULE Runtime ------------------------------
(***************************************************************************)
(* The life of the process: the start and the ordered shutdown of main.py, *)
(* the heartbeat task and the watchdog thread of health.py, and the clear()*)
(* tasks that an invalidated session leaves behind.                        *)
(*                                                                         *)
(* The event loop runs main(), the heartbeat task and the clear() tasks,   *)
(* one at a time; the watchdog is a thread and runs between any two of     *)
(* their system calls, as they run between any two of its own.  A stalled  *)
(* loop is a loop that takes no step: only the watchdog and time are sure  *)
(* to go on.  The heartbeat file holds a wall-clock time; here it is its   *)
(* age in ticks, which setting the clock changes and which may then be     *)
(* negative.                                                               *)
(***************************************************************************)
EXTENDS Integers, FiniteSets

CONSTANTS MaxAge,      \* HEARTBEAT_MAX_AGE_SECONDS, in ticks
          Grace,       \* WATCHDOG_STARTUP_GRACE_SECONDS
          Poll,        \* WATCHDOG_POLL_INTERVAL_SECONDS
          Clears,      \* names of the clear() tasks one process may start
          MaxJumps,    \* bound: how often the wall clock is set
          MaxRestarts  \* bound: how often the supervisor starts it again

\* The watchdog leaves a starting process more time than a beat may be old.
ASSUME RuntimeOK ==
    /\ MaxAge \in Nat /\ Grace \in Nat /\ Grace > MaxAge
    /\ Poll \in Nat /\ MaxJumps \in Nat /\ MaxRestarts \in Nat

VARIABLES
    main,     \* where main() is: a step of the start, polling, a step of the stop, or the end
    open,     \* what has been opened and not closed
    bound,    \* the client exists, and its on_token_update is bound
    patience, \* what is left of the time the shutdown waits for the thread
    hb,       \* the heartbeat task
    stamp,    \* the beat the heartbeat task is about to write
    file,     \* the heartbeat file
    watcher,  \* the task of the call watcher
    dog,      \* the watchdog thread: position, rest of its wait, stop flag, what it has read
    clear,    \* the clear() tasks
    batch,    \* the clear() tasks the shutdown waits for
    late,     \* history: the clear() tasks started after it chose them
    silent,   \* history: ticks since the heartbeat task last ran, or since the start
    trouble,  \* history: the shutdown gave up on a step
    count     \* clock changes and restarts so far

opened == <<open, bound>>
beats == <<hb, stamp, file, silent>>
clears == <<clear, batch, late>>
vars == <<main, opened, patience, beats, watcher, dog, clears, trouble, count>>

StartSteps == {"storage", "proxy", "hydrate", "bot", "run"}
CloseSteps == {"close watcher", "close proxy", "close bot", "close client", "drain", "close storage"}
Ended == main \in {"gone", "killed", "crashed"}
Stopping == main \in CloseSteps \cup {"join", "cancel"}

\* What the file holds: nothing, a beat whose number is not there yet, or a
\* beat, its age, and whether the clock was set since.
Ages == -1..MaxAge+1
Capped(age) == IF age < -1 THEN -1 ELSE IF age > MaxAge + 1 THEN MaxAge + 1 ELSE age
Missing == [is |-> "none", age |-> 0, set |-> FALSE]
Torn == [is |-> "torn", age |-> 0, set |-> FALSE]
Beat(age, set) == [is |-> "beat", age |-> age, set |-> set]
Aged(f, d, set) == IF f.is = "beat" THEN Beat(Capped(f.age + d), f.set \/ set) ELSE f

\* heartbeat_is_fresh: there is a number in the file, neither old nor of the
\* future.
Fresh(f) == f.is = "beat" /\ f.age \in 0..MaxAge

Files == {Missing, Torn} \cup [is : {"beat"}, age : Ages, set : BOOLEAN]

NoThread == [pc |-> "off", left |-> 0, stop |-> FALSE, seen |-> Missing]
NoClears == [c \in Clears |-> "none"]

\* HeartbeatWatchdog.stop: how long it waits for the thread.
JoinTimeout == IF 2 * Poll > 1 THEN 2 * Poll ELSE 1

Init ==
    /\ main = "begin" /\ open = {} /\ bound = FALSE /\ patience = 0
    /\ hb = "none" /\ stamp = Missing /\ file = Missing /\ watcher = "off"
    /\ dog = NoThread /\ clear = NoClears /\ batch = {} /\ late = {}
    /\ silent = 0 /\ trouble = FALSE /\ count = [jumps |-> 0, restarts |-> 0]

\* The loop is inside neither the heartbeat task's step nor the stop of the thread.
LoopFree == hb \notin {"stamped", "writing"} /\ main \notin {"join", "cancel"} /\ ~Ended

\* The end of the process takes its tasks and its thread with it.
Ends(how) ==
    /\ main' = how
    /\ dog' = NoThread
    /\ clear' = [c \in Clears |-> IF clear[c] = "pending" THEN "lost" ELSE clear[c]]

----------------------------------------------------------------------------
(* The start.                                                              *)

\* Mutant: the heartbeat of an earlier process stays.
ClearHeartbeatNot ==
    /\ main = "begin"
    /\ main' \in {"storage", "gone"}
    /\ UNCHANGED <<opened, patience, beats, watcher, dog, clears, trouble, count>>

\* main() first removes the heartbeat of an earlier process.  A missing
\* setting ends it there.
ClearHeartbeat ==
    /\ main = "begin"
    /\ file' = Missing
    /\ main' \in {"storage", "gone"}
    /\ UNCHANGED <<opened, patience, hb, stamp, silent, watcher, dog, clears, trouble, count>>

Opened(step, new, next) ==
    /\ main = step
    /\ open' = open \cup new
    /\ bound' = (bound \/ "client" \in new)
    /\ main' = next
    /\ UNCHANGED <<patience, beats, watcher, dog, clears, trouble, count>>

OpenStorage == Opened("storage", {"storage", "client"}, "proxy")
\* The proxy is started only if it is configured, and not if its secret is bad.
StartProxy == \E new \in {{}, {"proxy"}} : Opened("proxy", new, "hydrate")
Hydrate == Opened("hydrate", {}, "bot")
BuildBot == Opened("bot", {"bot"}, "run")

\* The watcher (unless it is switched off) and the heartbeat task start.
TasksStart ==
    /\ main = "run"
    /\ open' = open \cup {"watcher"}
    /\ watcher' \in {"runs", "off"}
    /\ hb' = "sleeps"

\* Mutant: the watchdog looks at once.
RunWithoutGrace ==
    /\ TasksStart
    /\ dog' = [NoThread EXCEPT !.pc = "waits", !.left = 0]
    /\ main' = "polling"
    /\ UNCHANGED <<bound, patience, stamp, file, silent, clears, trouble, count>>

\* The watchdog starts with them.
Run ==
    /\ TasksStart
    /\ dog' = [NoThread EXCEPT !.pc = "waits", !.left = Grace]
    /\ main' = "polling"
    /\ UNCHANGED <<bound, patience, stamp, file, silent, clears, trouble, count>>

\* What a step that fails may have opened.  The runner of a camera proxy
\* whose site cannot be bound is known to nobody.
Partly(step) ==
    CASE step = "storage" -> {{}, {"storage"}, {"storage", "client"}}
      [] step = "proxy" -> {{}, {"runner"}}
      [] step = "bot" -> {{}, {"bot"}}
      [] step = "run" -> {{}, {"watcher"}}
      [] OTHER -> {{}}

\* A step of the start raises or refuses: finally, without a watchdog and a
\* heartbeat task to end.
StartFails ==
    /\ main \in StartSteps
    /\ \E new \in Partly(main) :
          open' = open \cup new /\ bound' = (bound \/ "client" \in new)
    /\ main' = "close watcher"
    /\ file' = Missing
    /\ UNCHANGED <<patience, hb, stamp, silent, watcher, dog, clears, trouble, count>>

\* The thread cannot be started: finally, with a heartbeat task to end.
ThreadFails ==
    /\ TasksStart
    /\ main' = "cancel"
    /\ UNCHANGED <<bound, patience, stamp, file, silent, dog, clears, trouble, count>>

----------------------------------------------------------------------------
(* What goes on while it runs.                                             *)

\* run_heartbeat: read the clock, truncate the file, write the time; or,
\* when the watcher has ended, remove the file.
ReadClock ==
    /\ hb = "sleeps" /\ LoopFree /\ watcher # "dead"
    /\ hb' = "stamped"
    /\ stamp' = Beat(0, FALSE)
    /\ silent' = 0
    /\ UNCHANGED <<main, opened, patience, file, watcher, dog, clears, trouble, count>>

TruncateBeat ==
    /\ hb = "stamped" /\ ~Ended
    /\ hb' = "writing"
    /\ file' = Torn
    /\ UNCHANGED <<main, opened, patience, stamp, silent, watcher, dog, clears, trouble, count>>

WriteBeat ==
    /\ hb = "writing" /\ ~Ended
    /\ hb' = "sleeps"
    /\ file' = stamp /\ stamp' = Missing
    /\ UNCHANGED <<main, opened, patience, silent, watcher, dog, clears, trouble, count>>

WithholdBeat ==
    /\ hb = "sleeps" /\ LoopFree /\ watcher = "dead"
    /\ file' = Missing
    /\ UNCHANGED <<main, opened, patience, hb, stamp, silent, watcher, dog, clears, trouble, count>>

\* The file cannot be opened, or its time not written: the task ends.
BeatFails ==
    /\ hb \in {"stamped", "writing"} /\ ~Ended
    /\ hb' = "failed" /\ stamp' = Missing
    /\ UNCHANGED <<main, opened, patience, file, silent, watcher, dog, clears, trouble, count>>

\* The watcher's task ends by an exception.
WatcherDies ==
    /\ watcher = "runs" /\ LoopFree
    /\ watcher' = "dead"
    /\ UNCHANGED <<main, opened, patience, beats, dog, clears, trouble, count>>

\* The session is invalidated: on_token_update starts a clear() of the
\* storage.  It may, too, after the client is closed: a refresh token that
\* has expired is dropped without a request.
Invalidate(c) ==
    /\ bound /\ LoopFree
    /\ clear[c] = "none"
    /\ clear' = [clear EXCEPT ![c] = "pending"]
    /\ late' = IF main \in {"drain", "close storage"} THEN late \cup {c} ELSE late
    /\ UNCHANGED <<main, opened, patience, beats, watcher, dog, batch, trouble, count>>

\* It ends; with the storage closed, by an error that is logged.
ClearEnds(c) ==
    /\ clear[c] = "pending" /\ LoopFree
    /\ clear' = [clear EXCEPT ![c] = IF "storage" \in open THEN "done" ELSE "lost"]
    /\ UNCHANGED <<main, opened, patience, beats, watcher, dog, batch, late, trouble, count>>

----------------------------------------------------------------------------
(* The watchdog thread.                                                    *)

\* Its wait is over, by time or by the stop flag.
DogWakes ==
    /\ dog.pc = "waits" /\ (dog.stop \/ dog.left = 0) /\ ~Ended
    /\ dog' = [dog EXCEPT !.pc = IF dog.stop THEN "ended" ELSE "reads"]
    /\ UNCHANGED <<main, opened, patience, beats, watcher, clears, trouble, count>>

\* It reads the file,
DogReads ==
    /\ dog.pc = "reads" /\ ~Ended
    /\ dog' = [dog EXCEPT !.pc = "judges", !.seen = file]
    /\ UNCHANGED <<main, opened, patience, beats, watcher, clears, trouble, count>>

\* Mutant: a missing file is no reason to end the process.
DogJudgesOnlyStale ==
    /\ dog.pc = "judges" /\ ~Ended
    /\ dog' = IF Fresh(dog.seen) \/ dog.seen = Missing
              THEN [dog EXCEPT !.pc = "waits", !.left = Poll, !.seen = Missing]
              ELSE [dog EXCEPT !.pc = "terminates", !.seen = Missing]
    /\ UNCHANGED <<main, opened, patience, beats, watcher, clears, trouble, count>>

\* then the clock, and waits again if the beat is fresh.
DogJudges ==
    /\ dog.pc = "judges" /\ ~Ended
    /\ dog' = IF Fresh(dog.seen)
              THEN [dog EXCEPT !.pc = "waits", !.left = Poll, !.seen = Missing]
              ELSE [dog EXCEPT !.pc = "terminates", !.seen = Missing]
    /\ UNCHANGED <<main, opened, patience, beats, watcher, clears, trouble, count>>

\* If not, it ends the process (os._exit) without looking again.
DogTerminates ==
    /\ dog.pc = "terminates" /\ ~Ended
    /\ Ends("killed")
    /\ UNCHANGED <<opened, patience, beats, watcher, batch, late, trouble, count>>

Watchdog == DogWakes \/ DogReads \/ DogJudges \/ DogTerminates

----------------------------------------------------------------------------
(* The shutdown: the finally block of main().                              *)

\* A signal or an error ends the polling; the stop flag is set and the
\* thread joined, while the loop is blocked.
BeginStop ==
    /\ main = "polling" /\ LoopFree
    /\ main' = "join"
    /\ patience' = JoinTimeout
    /\ dog' = [dog EXCEPT !.stop = TRUE]
    /\ UNCHANGED <<opened, beats, watcher, clears, trouble, count>>

\* The thread has ended, or the join gives up and leaves it running.
Joined ==
    /\ main = "join" /\ (dog.pc = "ended" \/ patience = 0)
    /\ main' = "cancel"
    /\ patience' = 0
    /\ UNCHANGED <<opened, beats, watcher, dog, clears, trouble, count>>

\* The heartbeat task is cancelled and the file removed.  If the task had
\* failed, awaiting it raises its error, and main() ends there.
CancelHeartbeat ==
    /\ main = "cancel"
    /\ hb' = "none"
    /\ IF hb = "failed"
       THEN Ends("gone") /\ trouble' = TRUE /\ UNCHANGED file
       ELSE main' = "close watcher" /\ file' = Missing /\ UNCHANGED <<dog, clear, trouble>>
    /\ UNCHANGED <<opened, patience, stamp, silent, watcher, batch, late, count>>

\* _bounded_close: closed, or given up after the timeout or an error.  A
\* watcher that is dead raises its own.  The drain that follows the client
\* takes the tasks there are at that moment.
BoundedClose(step, what, next) ==
    /\ main = step
    /\ main' = next
    /\ IF what \in open
       THEN \/ ~(what = "watcher" /\ watcher = "dead") /\ open' = open \ {what} /\ UNCHANGED trouble
            \/ UNCHANGED open /\ trouble' = TRUE
       ELSE UNCHANGED <<open, trouble>>
    /\ watcher' = IF what = "watcher" THEN "off" ELSE watcher
    /\ batch' = IF next = "drain" THEN {c \in Clears : clear[c] = "pending"} ELSE batch
    /\ UNCHANGED <<bound, patience, beats, dog, clear, late, count>>

CloseWatcher == BoundedClose("close watcher", "watcher", "close proxy")
CloseProxy == BoundedClose("close proxy", "proxy", "close bot")
CloseBot == BoundedClose("close bot", "bot", "close client")
CloseClient == BoundedClose("close client", "client", "drain")

\* Mutant: nobody waits; the storage is closed at once.
DrainSkipped ==
    /\ main = "drain"
    /\ main' = "close storage"
    /\ UNCHANGED <<opened, patience, beats, watcher, dog, clears, trouble, count>>

\* Mutant: no timeout.
DrainForever ==
    /\ main = "drain"
    /\ \A c \in batch : clear[c] # "pending"
    /\ main' = "close storage"
    /\ UNCHANGED <<opened, patience, beats, watcher, dog, clears, trouble, count>>

\* _drain_persistence_tasks: all of them ended, or the timeout, which cancels
\* the others.
Drain ==
    /\ main = "drain"
    /\ IF \A c \in batch : clear[c] # "pending"
       THEN UNCHANGED <<clear, trouble>>
       ELSE /\ trouble' = TRUE
            /\ clear' = [c \in Clears |->
                          IF c \in batch /\ clear[c] = "pending" THEN "lost" ELSE clear[c]]
    /\ main' = "close storage"
    /\ UNCHANGED <<opened, patience, beats, watcher, dog, batch, late, count>>

\* The last step; main() returns and the loop is closed.
CloseStorage ==
    /\ main = "close storage"
    /\ IF "storage" \in open
       THEN \/ open' = open \ {"storage"} /\ UNCHANGED trouble
            \/ UNCHANGED open /\ trouble' = TRUE
       ELSE UNCHANGED <<open, trouble>>
    /\ Ends("gone")
    /\ UNCHANGED <<bound, patience, beats, watcher, batch, late, count>>

Stop ==
    \/ Joined \/ CancelHeartbeat \/ CloseWatcher \/ CloseProxy \/ CloseBot
    \/ CloseClient \/ Drain \/ CloseStorage

----------------------------------------------------------------------------
(* Time, clocks and the supervisor.                                        *)

\* Time passes for everybody.
Tick ==
    /\ file' = Aged(file, 1, FALSE)
    /\ stamp' = Aged(stamp, 1, FALSE)
    /\ dog' = [dog EXCEPT !.left = IF @ = 0 THEN 0 ELSE @ - 1, !.seen = Aged(@, 1, FALSE)]
    /\ patience' = IF patience = 0 THEN 0 ELSE patience - 1
    /\ silent' = IF silent > MaxAge THEN silent ELSE silent + 1
    /\ UNCHANGED <<main, opened, hb, watcher, clears, trouble, count>>

\* Somebody sets the wall clock.
SetClock ==
    /\ count.jumps < MaxJumps
    /\ \E d \in {-1 - MaxAge, -1, 1} :
          /\ file' = Aged(file, d, TRUE)
          /\ stamp' = Aged(stamp, d, TRUE)
          /\ dog' = [dog EXCEPT !.seen = Aged(@, d, TRUE)]
    /\ count' = [count EXCEPT !.jumps = @ + 1]
    /\ UNCHANGED <<main, opened, patience, hb, silent, watcher, clears, trouble>>

\* The process is killed from outside.
Crash ==
    /\ ~Ended
    /\ Ends("crashed")
    /\ UNCHANGED <<opened, patience, beats, watcher, batch, late, trouble, count>>

\* "restart: unless-stopped": a new process finds the file of the old one.
Restart ==
    /\ Ended /\ count.restarts < MaxRestarts
    /\ main' = "begin" /\ open' = {} /\ bound' = FALSE /\ patience' = 0
    /\ hb' = "none" /\ stamp' = Missing /\ watcher' = "off"
    /\ dog' = NoThread /\ clear' = NoClears /\ batch' = {} /\ late' = {}
    /\ silent' = 0 /\ trouble' = FALSE
    /\ count' = [count EXCEPT !.restarts = @ + 1]
    /\ UNCHANGED file

Next ==
    \/ ClearHeartbeat \/ OpenStorage \/ StartProxy \/ Hydrate \/ BuildBot \/ Run
    \/ StartFails \/ ThreadFails
    \/ ReadClock \/ TruncateBeat \/ WriteBeat \/ WithholdBeat \/ BeatFails \/ WatcherDies
    \/ \E c \in Clears : Invalidate(c) \/ ClearEnds(c)
    \/ Watchdog \/ BeginStop \/ Stop
    \/ Tick \/ SetClock \/ Crash \/ Restart

Spec == Init /\ [][Next]_vars

\* Time passes, the thread runs, and a shutdown, all of whose steps are
\* bounded by timeouts, goes on.  Nothing is assumed of the heartbeat.
Fairness == WF_vars(Tick) /\ WF_vars(Watchdog) /\ WF_vars(Stop)
FairSpec == Spec /\ Fairness

----------------------------------------------------------------------------
(* Correctness.                                                            *)

\* Every variable has its type.
TypeOK ==
    /\ main \in StartSteps \cup CloseSteps
                \cup {"begin", "polling", "join", "cancel", "gone", "killed", "crashed"}
    /\ open \subseteq {"storage", "client", "proxy", "runner", "bot", "watcher"}
    /\ bound \in BOOLEAN /\ patience \in 0..JoinTimeout
    /\ hb \in {"none", "sleeps", "stamped", "writing", "failed"}
    /\ watcher \in {"off", "runs", "dead"}
    /\ file \in Files /\ stamp \in Files
    /\ dog \in [pc : {"off", "waits", "reads", "judges", "terminates", "ended"},
                left : Nat, stop : BOOLEAN, seen : Files]
    /\ clear \in [Clears -> {"none", "pending", "done", "lost"}]
    /\ batch \subseteq Clears /\ late \subseteq Clears
    /\ silent \in 0..MaxAge+1 /\ trouble \in BOOLEAN
    /\ count \in [jumps : 0..MaxJumps, restarts : 0..MaxRestarts]

\* A heartbeat that looks fresh is of this process and its heartbeat task ran
\* within the last MaxAge, unless the clock has been set since: neither a
\* file left by a process that crashed nor a beat that a stalled loop wrote
\* long after it read the clock is taken for a sign of life.
FreshMeansAlive ==
    (main # "begin" /\ ~Ended /\ Fresh(file) /\ ~file.set) => hb # "none" /\ silent =< MaxAge

\* Of a beat that is still the one it read, written whole and by a clock that
\* was not set, the watchdog condemns only a process that has been silent for
\* too long or whose watcher is dead; or, having outlived its join, one in
\* the closing steps.  What changes after its reading it does not see.
CondemnsOnlyTheStuck ==
    [][(dog.pc = "judges" /\ dog'.pc = "terminates" /\ dog.seen = file) =>
        \/ silent > MaxAge \/ watcher = "dead"
        \/ file.set \/ hb # "sleeps"
        \/ main \in CloseSteps]_vars

\* A shutdown that did not have to give up on anything has closed all that
\* main() knows to be open, after a start that was complete or not, and every
\* invalidation of the session that began before the drain is on disk.
CleanExit ==
    (main = "gone" /\ ~trouble) =>
        /\ open \subseteq {"runner"}
        /\ \A c \in Clears \ late : clear[c] \in {"none", "done"}

\* A running process whose loop has stalled is ended, or the loop goes on; and
\* one whose watcher has died is ended although its loop is well.
StuckEnds ==
    /\ (main = "polling" /\ silent > MaxAge) ~> (main # "polling" \/ silent = 0)
    /\ (main = "polling" /\ watcher = "dead") ~> main # "polling"

\* A shutdown that has begun comes to its end.
StopEnds == Stopping ~> Ended

=============================================================================
