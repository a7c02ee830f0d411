------------------------------- MODULE Logger -------------------------------
(***************************************************************************)
(* The asynchronous logger: src/src/Logger.cpp, driven by main and main2   *)
(* of src/src/main.cpp.  The threads that log share a bounded queue with   *)
(* one writer thread.  `mutex' guards the queue and its flags, and the     *)
(* condition variable is notified after it is released; `file_mutex'       *)
(* guards the file.  A step is what a thread does under one lock.          *)
(*                                                                         *)
(* A line is its number in the order of acceptance.  Whether it also goes  *)
(* to the terminal (LOG_STDERR) and its text are left out.                 *)
(***************************************************************************)
EXTENDS Naturals, Sequences

CONSTANTS
  MaxQueued,    \* MAX_QUEUED_ITEMS
  RotateSize,   \* log_rotate_size(), in lines
  Generations,  \* the rotated files: suffixes .0 to .9
  MaxLines,     \* bound: calls of push
  MaxReloads    \* bound: calls of main2 after the first

ASSUME LoggerAssumption ==
  /\ MaxQueued \in Nat \ {0}
  /\ RotateSize \in Nat \ {0}
  /\ Generations \in Nat \ {0}
  /\ MaxLines \in Nat
  /\ MaxReloads \in Nat

VARIABLES
  \* Logger::Private, guarded by mutex
  items, paused, interrupted, dropped,
  \* guarded by file_mutex
  fd_log,    \* is the log file open?
  active,    \* the contents of the log file
  rotated,   \* the contents of the files .0, .1, ...
  \* the writer thread: where it is, and its local variables
  writer, batch, batch_dropped,
  \* the other threads
  main,      \* where the main thread is between its calls of the logger
  notifying, \* threads in push, past the lock, about to notify
  reloads,
  \* history
  pushed, output, reported

queue_vars == <<items, paused, interrupted, dropped>>
file_vars == <<fd_log, active, rotated>>
writer_vars == <<writer, batch, batch_dropped>>
history_vars == <<pushed, output, reported>>
vars == <<queue_vars, file_vars, writer_vars, main, notifying, reloads, history_vars>>

\* The asynchronous validation of a reload runs the resolver, which may log.
Threads == {"main", "validator"}

Lines == Seq(Nat)

\* Lines pushed so far and not refused, in the order in which they come out.
Waiting == batch \o items

Accepted == Len(output) + Len(Waiting)

TypeOK ==
  /\ items \in Lines /\ Len(items) <= MaxQueued
  /\ paused \in BOOLEAN /\ interrupted \in BOOLEAN
  /\ dropped \in Nat
  /\ fd_log \in BOOLEAN
  /\ active \in Lines
  /\ rotated \in [0..Generations - 1 -> Lines]
  /\ writer \in {"none", "check", "waiting", "taken", "writing", "done"}
  /\ batch \in Lines /\ batch_dropped \in Nat
  /\ main \in {"init", "started", "boot", "opened", "running",
               "stopping", "joining", "closing", "stopped"}
  /\ notifying \subseteq Threads
  /\ reloads \in Nat
  /\ pushed \in Nat /\ output \in Lines /\ reported \in Nat

Init ==
  /\ items = <<>> /\ paused = FALSE /\ interrupted = FALSE /\ dropped = 0
  /\ fd_log = FALSE /\ active = <<>>
  /\ rotated = [g \in 0..Generations - 1 |-> <<>>]
  /\ writer = "none" /\ batch = <<>> /\ batch_dropped = 0
  /\ main = "init" /\ notifying = {} /\ reloads = 0
  /\ pushed = 0 /\ output = <<>> /\ reported = 0

-----------------------------------------------------------------------------
\* Threads that log.

\* The main thread logs outside x_start, x_pause, x_open and x_stop. It never
\* fills the queue before x_start: only the first validation logs there, a line
\* for each forwarder it cannot resolve. The validator is started from the
\* event loop, and main waits for it before x_stop or kills the process.
MayLog(t) ==
  /\ t \notin notifying
  /\ pushed < MaxLines
  /\ \/ t = "main" /\ main = "init" /\ Len(items) < MaxQueued
     \/ t = "main" /\ main \in {"boot", "running"}
     \/ t = "validator" /\ main = "running"
     \/ t = "validator" /\ main \in {"boot", "opened"} /\ reloads > 0

HasRoomButOne == Len(items) + 1 < MaxQueued
HasRoom == Len(items) < MaxQueued

\* push(): a full queue refuses the line.
Refuse(t) ==
  /\ MayLog(t)
  /\ ~HasRoom
  /\ dropped' = dropped + 1
  /\ pushed' = pushed + 1
  /\ UNCHANGED <<items, paused, interrupted, file_vars, writer_vars, main,
                 notifying, reloads, output, reported>>

\* Only the line that ends an empty queue wakes the writer.
NeedsNotifyWhenFull(size) == size = MaxQueued /\ ~paused
NeedsNotify(size) == size = 1 /\ ~paused

QueuedFirst(line) == <<line>> \o items
Queued(line) == Append(items, line)

\* push(): the line is queued; the notification follows the unlock.
Accept(t) ==
  /\ MayLog(t)
  /\ HasRoom
  /\ items' = Queued(Accepted + 1)
  /\ notifying' = IF NeedsNotify(Len(items'))
                  THEN notifying \cup {t} ELSE notifying
  /\ pushed' = pushed + 1
  /\ UNCHANGED <<paused, interrupted, dropped, file_vars, writer_vars, main,
                 reloads, output, reported>>

\* What notify_one and notify_all do to the only thread that waits.
Woken == IF writer = "waiting" THEN "check" ELSE writer

NotifyOne(t) ==
  /\ t \in notifying
  /\ notifying' = notifying \ {t}
  /\ writer' = Woken
  /\ UNCHANGED <<queue_vars, file_vars, batch, batch_dropped, main, reloads,
                 history_vars>>

-----------------------------------------------------------------------------
\* The writer thread.

\* The condition of cv.wait.
MustWaitThoughInterrupted == paused \/ items = <<>>
MustWait == ~interrupted /\ (paused \/ items = <<>>)

\* The test after the wait.
MayReturnAtOnce == interrupted
MayReturn == items = <<>>

\* The count of lost lines the writer takes with the queue.
LossesForgotten == 0
LossesTaken == dropped

WriterWaits ==
  /\ writer = "check"
  /\ MustWait
  /\ writer' = "waiting"
  /\ UNCHANGED <<queue_vars, file_vars, batch, batch_dropped, main, notifying,
                 reloads, history_vars>>

\* wait() may return without a notification.
SpuriousWakeup ==
  /\ writer = "waiting"
  /\ writer' = "check"
  /\ UNCHANGED <<queue_vars, file_vars, batch, batch_dropped, main, notifying,
                 reloads, history_vars>>

WriterReturns ==
  /\ writer = "check"
  /\ ~MustWait
  /\ MayReturn
  /\ writer' = "done"
  /\ UNCHANGED <<queue_vars, file_vars, batch, batch_dropped, main, notifying,
                 reloads, history_vars>>

WriterTakes ==
  /\ writer = "check"
  /\ ~MustWait
  /\ ~MayReturn
  /\ writer' = "taken"
  /\ batch' = items /\ items' = <<>>
  /\ batch_dropped' = LossesTaken /\ dropped' = 0
  /\ UNCHANGED <<paused, interrupted, file_vars, main, notifying, reloads,
                 history_vars>>

\* rotate(): .9 is unlinked and the others renamed, each to the next suffix;
\* the log is copied to .0 and emptied, though the copy may have failed.
RotateKeeping ==
  /\ rotated' = [g \in 0..Generations - 1 |->
                   IF g = 0 THEN active ELSE rotated[g - 1]]
  /\ UNCHANGED active
Rotate ==
  \E n \in 0..Len(active) :
    /\ rotated' = [g \in 0..Generations - 1 |->
                     IF g = 0 THEN SubSeq(active, 1, n) ELSE rotated[g - 1]]
    /\ active' = <<>>

\* The writer takes file_mutex, and keeps it until WriterReports.
WriterOpensBatch ==
  /\ writer = "taken"
  /\ writer' = "writing"
  /\ IF fd_log /\ Len(active) >= RotateSize
     THEN Rotate ELSE UNCHANGED <<active, rotated>>
  /\ UNCHANGED <<queue_vars, fd_log, batch, batch_dropped, main, notifying,
                 reloads, history_vars>>

\* write(): to the terminal when there is no file.
WriterWrites ==
  /\ writer = "writing"
  /\ batch # <<>>
  /\ batch' = Tail(batch)
  /\ output' = Append(output, Head(batch))
  /\ active' = IF fd_log THEN Append(active, Head(batch)) ELSE active
  /\ UNCHANGED <<queue_vars, fd_log, rotated, writer, batch_dropped, main,
                 notifying, reloads, pushed, reported>>

\* The warning, if lines were dropped, ends the batch.
WriterReports ==
  /\ writer = "writing"
  /\ batch = <<>>
  /\ writer' = "check"
  /\ reported' = reported + batch_dropped
  /\ batch_dropped' = 0
  /\ UNCHANGED <<queue_vars, file_vars, batch, main, notifying, reloads,
                 pushed, output>>

-----------------------------------------------------------------------------
\* The main thread.

MainCalls(from) == main = from /\ "main" \notin notifying

\* x_start()
Start ==
  /\ MainCalls("init")
  /\ main' = "started"
  /\ paused' = FALSE /\ interrupted' = FALSE /\ dropped' = 0
  /\ writer' = "check"
  /\ UNCHANGED <<items, file_vars, batch, batch_dropped, notifying, reloads,
                 history_vars>>

\* x_pause(true), right after x_start()
Pause ==
  /\ MainCalls("started")
  /\ main' = "boot"
  /\ paused' = TRUE
  /\ UNCHANGED <<items, interrupted, dropped, file_vars, writer_vars, notifying,
                 reloads, history_vars>>

\* x_open() at the start of main2: the old file is closed; the open may fail.
Open ==
  /\ MainCalls("boot")
  /\ writer # "writing"
  /\ main' = "opened"
  /\ fd_log' \in BOOLEAN
  /\ UNCHANGED <<queue_vars, active, rotated, writer_vars, notifying, reloads,
                 history_vars>>

\* x_pause(false), right after x_open(): notifies under the lock.
UnpauseSilently ==
  /\ MainCalls("opened")
  /\ main' = "running"
  /\ paused' = FALSE
  /\ UNCHANGED <<items, interrupted, dropped, file_vars, writer_vars,
                 notifying, reloads, history_vars>>
Unpause ==
  /\ MainCalls("opened")
  /\ main' = "running"
  /\ paused' = FALSE
  /\ writer' = Woken
  /\ UNCHANGED <<items, interrupted, dropped, file_vars, batch, batch_dropped,
                 notifying, reloads, history_vars>>

\* main2 returns and is called again.
Reload ==
  /\ MainCalls("running")
  /\ reloads < MaxReloads
  /\ main' = "boot"
  /\ reloads' = reloads + 1
  /\ UNCHANGED <<queue_vars, file_vars, writer_vars, notifying, history_vars>>

\* x_stop(), from main or, when no writer was started, from the destructor.
Stop ==
  /\ MainCalls("running") \/ MainCalls("init")
  /\ "validator" \notin notifying
  /\ main' = "stopping"
  /\ paused' = FALSE /\ interrupted' = TRUE
  /\ UNCHANGED <<items, dropped, file_vars, writer_vars, notifying, reloads,
                 history_vars>>

StopNotifies ==
  /\ main = "stopping"
  /\ main' = "joining"
  /\ writer' = Woken
  /\ UNCHANGED <<queue_vars, file_vars, batch, batch_dropped, notifying, reloads,
                 history_vars>>

\* join(), if there is a thread, then x_close(). No thread is left to exclude.
StopJoins ==
  /\ main = "joining"
  /\ writer \in {"none", "done"}
  /\ main' = "closing"
  /\ fd_log' = FALSE
  /\ UNCHANGED <<queue_vars, active, rotated, writer_vars, notifying, reloads,
                 history_vars>>

StopReturns ==
  /\ main = "closing"
  /\ main' = "stopped"
  /\ interrupted' = FALSE
  /\ UNCHANGED <<items, paused, dropped, file_vars, writer_vars, notifying,
                 reloads, history_vars>>

\* The process has ended.
Stopped == main = "stopped" /\ UNCHANGED vars

-----------------------------------------------------------------------------
WriterStep ==
  \/ WriterWaits \/ WriterReturns \/ WriterTakes
  \/ WriterOpensBatch \/ WriterWrites \/ WriterReports

\* What main does without waiting for anything outside the program.
MainStep ==
  \/ Start \/ Pause \/ Open \/ Unpause
  \/ StopNotifies \/ StopJoins \/ StopReturns

Next ==
  \/ \E t \in Threads : Accept(t) \/ Refuse(t) \/ NotifyOne(t)
  \/ WriterStep
  \/ SpuriousWakeup
  \/ MainStep
  \/ Reload
  \/ Stop
  \/ Stopped

Spec == Init /\ [][Next]_vars

\* Every thread that can run is run. Nobody is made to log, reload or stop.
FairSpec ==
  /\ Spec
  /\ WF_vars(WriterStep)
  /\ WF_vars(Pause \/ Open \/ Unpause \/ StopNotifies \/ StopJoins \/ StopReturns)
  /\ \A t \in Threads : WF_vars(NotifyOne(t))

-----------------------------------------------------------------------------
\* Properties.

\* Lines come out in the order of push, none twice and none skipped, whatever
\* swaps and refusals lie between: what was written, what the writer holds and
\* what is queued are the accepted lines, in this order.
Fifo == \A i \in 1..Accepted : (output \o Waiting)[i] = i

\* No call of push goes unaccounted for: its line is written, held, queued, or
\* counted in a warning written or to come (push and the writer's swap).
NothingUncounted == pushed = Accepted + dropped + batch_dropped + reported

\* x_stop loses nothing ("Keep flushing once interrupted so shutdown loses
\* nothing"): once the writer has returned, no line and no count of lost lines
\* is left behind.
StopDrains ==
  writer = "done" => Waiting = <<>> /\ dropped + batch_dropped = 0

\* A writer that waits while it should work has a notification under way: the
\* wakeup of push, x_pause or x_stop cannot be lost.
NoLostWakeup ==
  writer = "waiting" /\ ~MustWait => notifying # {} \/ main = "stopping"

\* Files read from the oldest to the log itself show every line at most once
\* and in order, through rotation, failed copies and reopening.
Increasing(s) == \A i, j \in DOMAIN s : i < j => s[i] < s[j]
Before(s, t) == \A i \in DOMAIN s, j \in DOMAIN t : s[i] < t[j]
FilesInOrder ==
  /\ Increasing(active)
  /\ \A g \in DOMAIN rotated :
       Increasing(rotated[g]) /\ Before(rotated[g], active)
  /\ \A g, h \in DOMAIN rotated : g < h => Before(rotated[h], rotated[g])

\* The logger implements the abstract service.
Service == INSTANCE LogService WITH
  Capacity <- MaxQueued, queue <- Waiting, out <- output,
  lost <- dropped + batch_dropped
ImplementsLogService == Service!Spec

\* With threads that run, what is accepted after x_start is written.
LinesAreWritten ==
  \A n \in 1..MaxLines :
    Accepted >= n /\ writer # "none" ~> Len(output) >= n

\* x_stop returns: the writer sees the interruption wherever it is.
StopReturnsEventually == main = "stopping" ~> main = "stopped"
=============================================================================
