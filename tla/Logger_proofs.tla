---------------------------- MODULE Logger_proofs ----------------------------
(***************************************************************************)
(* Theorems about Logger, for every size of the queue and of the files and *)
(* any number of lines and reloads.                                        *)
(***************************************************************************)
EXTENDS Logger, SequenceTheorems, TLAPS

USE LoggerAssumption DEF LoggerAssumption

-----------------------------------------------------------------------------
(***************************************************************************)
(* Type correctness.                                                       *)
(***************************************************************************)

\* The initial values have their types.
LEMMA TypeInit == Init => TypeOK
<1> SUFFICES ASSUME Init PROVE TypeOK
  OBVIOUS
<1>1. <<>> \in Seq(Nat) /\ Len(<<>>) = 0
  OBVIOUS
<1>2. rotated \in [0 .. Generations - 1 -> Seq(Nat)]
  BY <1>1 DEF Init
<1>3. paused \in BOOLEAN /\ interrupted \in BOOLEAN /\ fd_log \in BOOLEAN
  BY Zenon DEF Init
<1>4. QED
  BY <1>1, <1>2, <1>3 DEF Init, TypeOK, Lines

\* Every action keeps the types; push checks the size of the queue first.
LEMMA TypeStep == TypeOK /\ [Next]_vars => TypeOK'
<1> SUFFICES ASSUME TypeOK, [Next]_vars PROVE TypeOK'
  OBVIOUS
<1> USE DEF TypeOK, Lines, queue_vars, file_vars, writer_vars, history_vars
<1>1. ASSUME NEW t \in Threads, Accept(t) PROVE TypeOK'
  <2>1. Accepted + 1 \in Nat
    BY DEF Accepted, Waiting
  <2>2. /\ Queued(Accepted + 1) \in Seq(Nat)
        /\ Len(Queued(Accepted + 1)) = Len(items) + 1
    BY <2>1 DEF Queued
  <2>3. Len(items) < MaxQueued
    BY <1>1 DEF Accept, HasRoom
  <2> HIDE DEF Accepted
  <2>4. QED
    BY <1>1, <2>2, <2>3 DEF Accept, Threads
<1>2. ASSUME NEW t \in Threads, Refuse(t) PROVE TypeOK'
  BY <1>2 DEF Refuse
<1>3. ASSUME NEW t \in Threads, NotifyOne(t) PROVE TypeOK'
  BY <1>3 DEF NotifyOne, Woken, Threads
<1>4. CASE WriterWaits \/ WriterReturns \/ SpuriousWakeup
  BY <1>4 DEF WriterWaits, WriterReturns, SpuriousWakeup
<1>5. CASE WriterTakes
  BY <1>5 DEF WriterTakes, LossesTaken
<1>6. CASE WriterOpensBatch
  <2>1. active' \in Seq(Nat) /\ rotated' \in [0 .. Generations - 1 -> Seq(Nat)]
    <3>1. CASE fd_log /\ Len(active) >= RotateSize
      <4>1. PICK n \in 0 .. Len(active) :
              /\ rotated' = [g \in 0 .. Generations - 1 |->
                               IF g = 0 THEN SubSeq(active, 1, n) ELSE rotated[g - 1]]
              /\ active' = <<>>
        BY <1>6, <3>1 DEF WriterOpensBatch, Rotate
      <4>2. SubSeq(active, 1, n) \in Seq(Nat)
        OBVIOUS
      <4>3. QED
        BY <4>1, <4>2, EmptySeq
    <3>2. CASE ~(fd_log /\ Len(active) >= RotateSize)
      BY <1>6, <3>2 DEF WriterOpensBatch
    <3>3. QED
      BY <3>1, <3>2
  <2>2. QED
    BY <1>6, <2>1 DEF WriterOpensBatch
<1>7. CASE WriterWrites
  BY <1>7 DEF WriterWrites
<1>8. CASE WriterReports
  BY <1>8 DEF WriterReports
<1>9. CASE MainStep
  <2>1. paused' \in BOOLEAN /\ interrupted' \in BOOLEAN /\ fd_log' \in BOOLEAN
    BY <1>9, Zenon DEF MainStep, Start, Pause, Open, Unpause, StopNotifies,
                       StopJoins, StopReturns
  <2>2. CASE Start
    BY <2>1, <2>2 DEF Start
  <2>3. CASE Pause
    BY <2>1, <2>3 DEF Pause
  <2>4. CASE Open
    BY <2>1, <2>4 DEF Open
  <2>5. CASE Unpause
    BY <2>1, <2>5 DEF Unpause, Woken
  <2>6. CASE StopNotifies
    BY <2>1, <2>6 DEF StopNotifies, Woken
  <2>7. CASE StopJoins
    BY <2>1, <2>7 DEF StopJoins
  <2>8. CASE StopReturns
    BY <2>1, <2>8 DEF StopReturns
  <2>9. QED
    BY <1>9, <2>2, <2>3, <2>4, <2>5, <2>6, <2>7, <2>8 DEF MainStep
<1>10. CASE Reload \/ Stop
  <2>1. paused' \in BOOLEAN /\ interrupted' \in BOOLEAN /\ fd_log' \in BOOLEAN
    BY <1>10, Zenon DEF Reload, Stop
  <2>2. CASE Reload
    BY <2>1, <2>2 DEF Reload
  <2>3. CASE Stop
    BY <2>1, <2>3 DEF Stop
  <2>4. QED
    BY <1>10, <2>2, <2>3
<1>11. CASE Stopped \/ UNCHANGED vars
  BY <1>11 DEF Stopped, vars
<1>12. QED
  BY <1>1, <1>2, <1>3, <1>4, <1>5, <1>6, <1>7, <1>8, <1>9, <1>10, <1>11
     DEF Next, WriterStep

\* Every variable keeps its type; the queue never exceeds MAX_QUEUED_ITEMS.
THEOREM TypeCorrect == Spec => []TypeOK
<1>1. QED
  BY TypeInit, TypeStep, PTL DEF Spec

-----------------------------------------------------------------------------
(***************************************************************************)
(* The inductive invariant.                                                *)
(***************************************************************************)

\* What the numbers in the three sequences are.
InOrder ==
  /\ \A i \in 1..Len(output) : output[i] = i
  /\ \A i \in 1..Len(batch) : batch[i] = Len(output) + i
  /\ \A i \in 1..Len(items) : items[i] = Len(output) + Len(batch) + i

\* The writer holds lines and losses only between its swap and its warning.
HandsEmpty ==
  writer \notin {"taken", "writing"} => batch = <<>> /\ batch_dropped = 0

\* Lines were dropped only if the queue is still full.
LossesMeanFull ==
  dropped > 0 => Len(items) = MaxQueued /\ main # "init"

\* How far x_start and x_stop have come decides where the writer can be.
Phases ==
  /\ interrupted <=> main \in {"stopping", "joining", "closing"}
  /\ main = "init" => writer = "none"
  /\ main \in {"closing", "stopped"} => writer \in {"none", "done"}
  /\ writer = "done" =>
       /\ main \in {"stopping", "joining", "closing", "stopped"}
       /\ items = <<>>

LoggerInv ==
  /\ TypeOK
  /\ InOrder
  /\ NothingUncounted
  /\ HandsEmpty
  /\ LossesMeanFull
  /\ Phases
  /\ NoLostWakeup

USE DEF queue_vars, file_vars, writer_vars, history_vars

\* Before x_start nothing is logged, and there is no writer.
LEMMA InvInit == Init => LoggerInv
<1> SUFFICES ASSUME Init PROVE LoggerInv
  OBVIOUS
<1>1. TypeOK
  BY TypeInit
<1>2. InOrder /\ HandsEmpty /\ LossesMeanFull
  BY DEF Init, InOrder, HandsEmpty, LossesMeanFull
<1>3. Phases
  BY Zenon DEF Init, Phases
<1>4. NothingUncounted /\ NoLostWakeup
  BY DEF Init, NothingUncounted, NoLostWakeup, Accepted, Waiting
<1>5. QED
  BY <1>1, <1>2, <1>3, <1>4 DEF LoggerInv

\* The number of accepted lines, by where they are.
LEMMA AcceptedIs ==
  ASSUME TypeOK
  PROVE  /\ Accepted = Len(output) + Len(batch) + Len(items)
         /\ Accepted \in Nat
         /\ Len(output) \in Nat /\ Len(batch) \in Nat /\ Len(items) \in Nat
<1>1. Len(batch \o items) = Len(batch) + Len(items)
  BY DEF TypeOK, Lines
<1>2. QED
  BY <1>1 DEF TypeOK, Lines, Accepted, Waiting

\* Nothing is pushed once x_stop has begun, so that the queue the writer left
\* empty stays empty.
LEMMA PhasesStep ==
  ASSUME LoggerInv, [Next]_vars
  PROVE  Phases'
<1> USE DEF LoggerInv, Phases
<1>1. ASSUME NEW t \in Threads, Accept(t) PROVE Phases'
  BY <1>1 DEF Accept, MayLog
<1>2. ASSUME NEW t \in Threads, Refuse(t) PROVE Phases'
  BY <1>2 DEF Refuse
<1>3. ASSUME NEW t \in Threads, NotifyOne(t) PROVE Phases'
  BY <1>3 DEF NotifyOne, Woken
<1>4. CASE WriterWaits \/ SpuriousWakeup
  BY <1>4 DEF WriterWaits, SpuriousWakeup
<1>5. CASE WriterReturns
  BY <1>5 DEF WriterReturns, MustWait, MayReturn
<1>6. CASE WriterTakes
  BY <1>6 DEF WriterTakes
<1>7. CASE WriterOpensBatch \/ WriterWrites \/ WriterReports
  BY <1>7 DEF WriterOpensBatch, WriterWrites, WriterReports
<1>8. CASE Start
  BY <1>8 DEF Start, MainCalls
<1>9. CASE Pause \/ Open \/ Unpause \/ Reload
  BY <1>9 DEF Pause, Open, Unpause, Reload, MainCalls, Woken
<1>10. CASE Stop
  BY <1>10 DEF Stop, MainCalls
<1>11. CASE StopNotifies \/ StopJoins
  BY <1>11 DEF StopNotifies, StopJoins, Woken
<1>12. CASE StopReturns
  BY <1>12 DEF StopReturns
<1>13. CASE Stopped \/ UNCHANGED vars
  BY <1>13 DEF Stopped, vars
<1>14. QED
  BY <1>1, <1>2, <1>3, <1>4, <1>5, <1>6, <1>7, <1>8, <1>9, <1>10, <1>11, <1>12,
     <1>13 DEF Next, WriterStep, MainStep

\* The writer goes back to its wait only through the end of a batch.
LEMMA HandsStep ==
  ASSUME LoggerInv, [Next]_vars
  PROVE  HandsEmpty'
<1> USE DEF LoggerInv, HandsEmpty
<1>1. ASSUME NEW t \in Threads, Accept(t) \/ Refuse(t) \/ NotifyOne(t)
      PROVE  HandsEmpty'
  BY <1>1 DEF Accept, Refuse, NotifyOne, Woken
<1>2. CASE WriterStep \/ SpuriousWakeup
  BY <1>2 DEF WriterStep, WriterWaits, WriterReturns, WriterTakes,
              WriterOpensBatch, WriterWrites, WriterReports, SpuriousWakeup
<1>3. CASE MainStep
  BY <1>3 DEF MainStep, Start, Pause, Open, Unpause, StopNotifies, StopJoins,
              StopReturns, MainCalls, Phases, Woken
<1>4. CASE Reload \/ Stop \/ Stopped \/ UNCHANGED vars
  BY <1>4 DEF Reload, Stop, Stopped, vars
<1>5. QED
  BY <1>1, <1>2, <1>3, <1>4 DEF Next

\* The swap that empties the queue takes the count of losses with it.
LEMMA LossesStep ==
  ASSUME LoggerInv, [Next]_vars
  PROVE  LossesMeanFull'
<1> USE DEF LoggerInv, LossesMeanFull
<1>1. ASSUME NEW t \in Threads, Accept(t) PROVE LossesMeanFull'
  BY <1>1 DEF Accept, HasRoom, TypeOK
<1>2. ASSUME NEW t \in Threads, Refuse(t) PROVE LossesMeanFull'
  BY <1>2 DEF Refuse, MayLog, HasRoom, TypeOK, Lines, Threads
<1>3. ASSUME NEW t \in Threads, NotifyOne(t) PROVE LossesMeanFull'
  BY <1>3 DEF NotifyOne
<1>4. CASE WriterTakes
  BY <1>4 DEF WriterTakes
<1>5. CASE \/ WriterWaits \/ WriterReturns \/ WriterOpensBatch \/ WriterWrites
           \/ WriterReports \/ SpuriousWakeup
  BY <1>5 DEF WriterWaits, WriterReturns, WriterOpensBatch, WriterWrites,
              WriterReports, SpuriousWakeup
<1>6. CASE MainStep
  BY <1>6 DEF MainStep, Start, Pause, Open, Unpause, StopNotifies, StopJoins,
              StopReturns
<1>7. CASE Reload \/ Stop \/ Stopped \/ UNCHANGED vars
  BY <1>7 DEF Reload, Stop, Stopped, vars
<1>8. QED
  BY <1>1, <1>2, <1>3, <1>4, <1>5, <1>6, <1>7 DEF Next, WriterStep

\* What appending a number to a sequence changes.
LEMMA Appended ==
  ASSUME NEW s \in Seq(Nat), NEW n \in Nat
  PROVE  /\ Len(Append(s, n)) = Len(s) + 1
         /\ DOMAIN s = 1..Len(s)
         /\ 1..Len(Append(s, n)) = 1..Len(s) \cup {Len(s) + 1}
         /\ DOMAIN Append(s, n) = 1..Len(s) \cup {Len(s) + 1}
         /\ \A i \in 1..Len(s) : Append(s, n)[i] = s[i]
         /\ Append(s, n)[Len(s) + 1] = n
<1>1. /\ Len(Append(s, n)) = Len(s) + 1
      /\ \A i \in 1..Len(s) : Append(s, n)[i] = s[i]
      /\ Append(s, n)[Len(s) + 1] = n
      /\ Append(s, n) \in Seq(Nat)
  BY AppendProperties
<1>2. DOMAIN Append(s, n) = 1..Len(s) + 1 /\ DOMAIN s = 1..Len(s) /\ Len(s) \in Nat
  BY <1>1, LenProperties
<1>3. QED
  BY <1>1, <1>2

\* push appends the next number, the swap and write move the first ones.
LEMMA InOrderStep ==
  ASSUME LoggerInv, [Next]_vars
  PROVE  InOrder'
<1> USE DEF LoggerInv, InOrder, TypeOK, Lines
<1>1. ASSUME NEW t \in Threads, Accept(t) PROVE InOrder'
  <2>1. items' = Append(items, Len(output) + Len(batch) + Len(items) + 1)
    BY <1>1, AcceptedIs DEF Accept, Queued
  <2>2. output' = output /\ batch' = batch
    BY <1>1 DEF Accept
  <2> DEFINE line == Len(output) + Len(batch) + (Len(items) + 1)
  <2>3. /\ DOMAIN items' = 1..Len(items) \cup {Len(items) + 1}
        /\ \A i \in 1..Len(items) : items'[i] = items[i]
        /\ items'[Len(items) + 1] = line
        /\ 1..Len(items') = 1..Len(items) \cup {Len(items) + 1}
    <3>1. line \in Nat /\ line = Len(output) + Len(batch) + Len(items) + 1
      BY AcceptedIs
    <3>2. items' = Append(items, line)
      BY <2>1, <3>1
    <3>3. QED
      BY <3>1, <3>2, Appended
  <2>4. \A i \in 1..Len(items') : items'[i] = Len(output) + Len(batch) + i
    <3>1. \A i \in 1..Len(items) : items'[i] = Len(output) + Len(batch) + i
      BY <2>3
    <3>2. QED
      BY <2>3, <3>1, Zenon
  <2>5. QED
    BY <2>2, <2>4
<1>2. ASSUME NEW t \in Threads, Refuse(t) \/ NotifyOne(t) PROVE InOrder'
  BY <1>2 DEF Refuse, NotifyOne
<1>3. CASE WriterTakes
  BY <1>3 DEF WriterTakes, HandsEmpty
<1>4. CASE WriterWrites
  <2>1. /\ batch # <<>> /\ batch' = Tail(batch) /\ items' = items
        /\ output' = Append(output, Len(output) + 1)
    BY <1>4 DEF WriterWrites
  <2>2. /\ Len(batch') = Len(batch) - 1
        /\ \A i \in 1..Len(batch') : batch'[i] = batch[i + 1]
    BY <2>1
  <2>3. /\ Len(output') = Len(output) + 1
        /\ \A i \in 1..Len(output') : output'[i] = i
    <3>1. Len(output) \in Nat
      OBVIOUS
    <3>2. /\ Len(output') = Len(output) + 1
          /\ \A i \in 1..Len(output) : output'[i] = output[i]
          /\ output'[Len(output) + 1] = Len(output) + 1
          /\ 1..Len(output') = 1..Len(output) \cup {Len(output) + 1}
      BY <2>1, <3>1, Appended
    <3>3. QED
      BY <3>2, Zenon
  <2>4. \A i \in 1..Len(batch') : batch'[i] = Len(output') + i
    BY <2>2, <2>3
  <2>5. \A i \in 1..Len(items') : items'[i] = Len(output') + Len(batch') + i
    BY <2>1, <2>2, <2>3
  <2>6. QED
    BY <2>3, <2>4, <2>5
<1>5. CASE \/ WriterWaits \/ WriterReturns \/ WriterOpensBatch \/ WriterReports
           \/ SpuriousWakeup
  BY <1>5 DEF WriterWaits, WriterReturns, WriterOpensBatch, WriterReports,
              SpuriousWakeup
<1>6. CASE MainStep
  BY <1>6 DEF MainStep, Start, Pause, Open, Unpause, StopNotifies, StopJoins,
              StopReturns
<1>7. CASE Reload \/ Stop \/ Stopped \/ UNCHANGED vars
  BY <1>7 DEF Reload, Stop, Stopped, vars
<1>8. QED
  BY <1>1, <1>2, <1>3, <1>4, <1>5, <1>6, <1>7 DEF Next, WriterStep

\* A line that is queued is one more; what the writer moves stays.
LEMMA CountStep ==
  ASSUME LoggerInv, [Next]_vars
  PROVE  NothingUncounted'
<1> DEFINE Count == /\ pushed = Len(output) + Len(batch) + Len(items)
                                 + dropped + batch_dropped + reported
<1>1. TypeOK /\ TypeOK'
  BY TypeStep DEF LoggerInv
<1>2. Count
  BY <1>1, AcceptedIs DEF LoggerInv, NothingUncounted
<1>3. Count'
  <2> USE <1>1, <1>2 DEF TypeOK, Lines
  <2>1. ASSUME NEW t \in Threads, Accept(t) PROVE Count'
    BY <2>1, AcceptedIs DEF Accept, Queued
  <2>2. ASSUME NEW t \in Threads, Refuse(t) PROVE Count'
    BY <2>2 DEF Refuse
  <2>3. ASSUME NEW t \in Threads, NotifyOne(t) PROVE Count'
    BY <2>3 DEF NotifyOne
  <2>4. CASE WriterTakes
    BY <2>4 DEF WriterTakes, LossesTaken, LoggerInv, HandsEmpty
  <2>5. CASE WriterWrites
    BY <2>5 DEF WriterWrites
  <2>6. CASE WriterReports
    BY <2>6 DEF WriterReports
  <2>7. CASE \/ WriterWaits \/ WriterReturns \/ WriterOpensBatch \/ SpuriousWakeup
    BY <2>7 DEF WriterWaits, WriterReturns, WriterOpensBatch, SpuriousWakeup
  <2>8. CASE Start
    BY <2>8 DEF Start, MainCalls, LoggerInv, LossesMeanFull
  <2>9. CASE Pause \/ Open \/ Unpause \/ StopNotifies \/ StopJoins \/ StopReturns
    BY <2>9 DEF Pause, Open, Unpause, StopNotifies, StopJoins, StopReturns
  <2>10. CASE Reload \/ Stop \/ Stopped \/ UNCHANGED vars
    BY <2>10 DEF Reload, Stop, Stopped, vars
  <2>11. QED
    BY <2>1, <2>2, <2>3, <2>4, <2>5, <2>6, <2>7, <2>8, <2>9, <2>10
       DEF Next, WriterStep, MainStep
<1>4. Accepted' = (Len(output) + Len(batch) + Len(items))'
  BY <1>1 DEF TypeOK, Lines, Accepted, Waiting
<1>5. QED
  BY <1>3, <1>4 DEF NothingUncounted

\* Whoever ends the writer's reason to wait notifies it, or is about to.
LEMMA WakeupStep ==
  ASSUME LoggerInv, [Next]_vars
  PROVE  NoLostWakeup'
<1> USE DEF LoggerInv, NoLostWakeup, MustWait
<1>1. ASSUME NEW t \in Threads, Accept(t) PROVE NoLostWakeup'
  <2>1. /\ writer' = writer /\ main' = main
        /\ paused' = paused /\ interrupted' = interrupted
    BY <1>1 DEF Accept
  <2>2. notifying # {} => notifying' # {}
    BY <1>1 DEF Accept
  <2>3. CASE MustWait /\ ~paused
    <3>1. items' = Append(<<>>, Accepted + 1)
      BY <1>1, <2>3 DEF Accept, Queued
    <3>2. Len(items') = 1
      BY <3>1
    <3>3. t \in notifying'
      BY <1>1, <2>3, <3>2 DEF Accept, NeedsNotify
    <3>4. QED
      BY <3>3
  <2>4. CASE MustWait /\ paused
    BY <2>1, <2>4
  <2>5. CASE ~MustWait
    BY <2>1, <2>2, <2>5
  <2>6. QED
    BY <2>3, <2>4, <2>5
<1>2. ASSUME NEW t \in Threads, Refuse(t) PROVE NoLostWakeup'
  BY <1>2 DEF Refuse
<1>3. ASSUME NEW t \in Threads, NotifyOne(t) PROVE NoLostWakeup'
  BY <1>3 DEF NotifyOne, Woken
<1>4. CASE WriterStep
  BY <1>4 DEF WriterStep, WriterWaits, WriterReturns, WriterTakes,
              WriterOpensBatch, WriterWrites, WriterReports
<1>5. CASE SpuriousWakeup
  BY <1>5 DEF SpuriousWakeup
<1>6. CASE Start
  BY <1>6 DEF Start
<1>7. CASE Pause
  BY <1>7 DEF Pause, MainCalls
<1>8. CASE Open \/ Reload
  BY <1>8 DEF Open, Reload, MainCalls
<1>9. CASE Unpause \/ StopNotifies
  BY <1>9 DEF Unpause, StopNotifies, Woken
<1>10. CASE Stop
  BY <1>10 DEF Stop
<1>11. CASE StopJoins \/ StopReturns
  BY <1>11 DEF StopJoins, StopReturns, Phases
<1>12. CASE Stopped \/ UNCHANGED vars
  BY <1>12 DEF Stopped, vars
<1>13. QED
  BY <1>1, <1>2, <1>3, <1>4, <1>5, <1>6, <1>7, <1>8, <1>9, <1>10, <1>11, <1>12
     DEF Next, MainStep

\* The invariant is inductive.
LEMMA InvStep == LoggerInv /\ [Next]_vars => LoggerInv'
<1> SUFFICES ASSUME LoggerInv, [Next]_vars PROVE LoggerInv'
  OBVIOUS
<1>1. TypeOK'
  BY TypeStep DEF LoggerInv
<1>2. QED
  BY <1>1, InOrderStep, CountStep, HandsStep, LossesStep, PhasesStep, WakeupStep
     DEF LoggerInv

\* The invariant holds.
THEOREM LoggerCorrect == Spec => []LoggerInv
<1>1. QED
  BY InvInit, InvStep, PTL DEF Spec

\* An index past the first of two sequences is one of the second.
LEMMA ConcatIndex ==
  ASSUME NEW s \in Seq(Nat), NEW t \in Seq(Nat),
         NEW i \in 1..Len(s) + Len(t), i > Len(s)
  PROVE  (s \o t)[i] = t[i - Len(s)]
BY ConcatProperties

\* The accepted lines, wherever they are, are 1, 2, 3, ... in order.
THEOREM FifoCorrect == Spec => []Fifo
<1>1. ASSUME LoggerInv PROVE Fifo
  <2> USE <1>1 DEF LoggerInv, TypeOK, Lines, InOrder
  <2>1. ASSUME NEW i \in 1..Accepted PROVE (output \o Waiting)[i] = i
    <3>1. Waiting \in Seq(Nat) /\ Len(Waiting) = Len(batch) + Len(items)
      BY DEF Waiting
    <3>. /\ i \in Nat
         /\ Len(output) \in Nat /\ Len(batch) \in Nat /\ Len(items) \in Nat
         /\ i > Len(output) => i - Len(output) \in 1..Len(Waiting)
      BY <3>1, AcceptedIs
    <3>2. CASE i <= Len(output)
      BY <3>1, <3>2
    <3>3. CASE i > Len(output)
      <4>1. (output \o Waiting)[i] = Waiting[i - Len(output)]
        BY <3>1, <3>3, ConcatIndex, AcceptedIs
      <4> DEFINE k == i - Len(output)
      <4>2. CASE k <= Len(batch)
        <5>1. Waiting[k] = batch[k]
          BY <3>3, <4>2 DEF Waiting
        <5>2. QED
          BY <3>3, <4>1, <4>2, <5>1
      <4>3. CASE k > Len(batch)
        <5>1. k \in 1..Len(batch) + Len(items)
          BY <3>1, <3>3
        <5>2. Waiting[k] = items[k - Len(batch)]
          BY <4>3, <5>1, ConcatIndex DEF Waiting
        <5>3. k - Len(batch) \in 1..Len(items)
          BY <4>3, <5>1
        <5>4. QED
          BY <4>1, <5>2, <5>3
      <4>4. QED
        BY <4>2, <4>3
    <3>4. QED
      BY <3>2, <3>3
  <2>2. QED
    BY <2>1 DEF Fifo
<1>2. QED
  BY <1>1, LoggerCorrect, PTL

\* No call of push is forgotten.
THEOREM CountCorrect == Spec => []NothingUncounted
<1>1. LoggerInv => NothingUncounted
  BY DEF LoggerInv
<1>2. QED
  BY <1>1, LoggerCorrect, PTL

\* When the writer has returned, nothing is left behind.
THEOREM StopCorrect == Spec => []StopDrains
<1>1. ASSUME LoggerInv PROVE StopDrains
  <2>1. CASE writer = "done"
    <3>1. items = <<>> /\ batch = <<>> /\ batch_dropped = 0
      BY <1>1, <2>1 DEF LoggerInv, Phases, HandsEmpty
    <3>2. dropped = 0
      BY <1>1, <3>1 DEF LoggerInv, LossesMeanFull, TypeOK
    <3>3. QED
      BY <3>1, <3>2 DEF StopDrains, Waiting
  <2>2. QED
    BY <2>1 DEF StopDrains
<1>2. QED
  BY <1>1, LoggerCorrect, PTL

\* A writer that should work is awake or about to be woken.
THEOREM WakeupCorrect == Spec => []NoLostWakeup
<1>1. LoggerInv => NoLostWakeup
  BY DEF LoggerInv
<1>2. QED
  BY <1>1, LoggerCorrect, PTL

-----------------------------------------------------------------------------
(***************************************************************************)
(* The logger implements the abstract service.                             *)
(***************************************************************************)

\* What is appended to the second of two sequences is appended to both.
LEMMA AppendToConcat ==
  ASSUME NEW s \in Seq(Nat), NEW t \in Seq(Nat), NEW n \in Nat
  PROVE  s \o Append(t, n) = Append(s \o t, n)
OBVIOUS

\* The first element of two sequences is that of the first, if it has one.
LEMMA HeadTailOfConcat ==
  ASSUME NEW s \in Seq(Nat), NEW t \in Seq(Nat), s # <<>>
  PROVE  /\ s \o t # <<>>
         /\ Head(s \o t) = Head(s)
         /\ Tail(s \o t) = Tail(s) \o t
OBVIOUS

\* push accepts or refuses, write delivers, the warning reports, and every
\* other step is a stutter of the service.
LEMMA ServiceStep ==
  ASSUME LoggerInv, [Next]_vars
  PROVE  [Service!Next]_(Service!vars)
<1> USE DEF LoggerInv, TypeOK, Lines
<1> DEFINE lost == dropped + batch_dropped
<1>1. ASSUME NEW t \in Threads, Accept(t) PROVE Service!Accept
  <2>1. Waiting' = Append(Waiting, Len(output) + Len(Waiting) + 1)
    <3>1. items' = Append(items, Accepted + 1) /\ batch' = batch
      BY <1>1 DEF Accept, Queued
    <3>2. Accepted + 1 \in Nat
      BY AcceptedIs
    <3>3. batch \o Append(items, Accepted + 1) = Append(batch \o items, Accepted + 1)
      BY <3>2, AppendToConcat
    <3>4. QED
      BY <3>1, <3>3 DEF Waiting, Accepted
  <2>2. QED
    BY <1>1, <2>1 DEF Accept, Service!Accept
<1>2. ASSUME NEW t \in Threads, Refuse(t) PROVE Service!Refuse
  <2>1. Len(Waiting) = Len(batch) + Len(items)
    BY DEF Waiting
  <2>2. Len(Waiting) >= MaxQueued
    BY <1>2, <2>1 DEF Refuse, HasRoom
  <2>3. QED
    BY <1>2, <2>2 DEF Refuse, Service!Refuse, Waiting
<1>3. CASE WriterWrites
  <2>1. /\ Waiting # <<>>
        /\ output' = Append(output, Head(Waiting))
        /\ Waiting' = Tail(Waiting)
    BY <1>3, HeadTailOfConcat DEF WriterWrites, Waiting
  <2>2. Service!Deliver
    BY <1>3, <2>1 DEF WriterWrites, Service!Deliver
  <2>3. QED
    BY <2>2 DEF Service!Next
<1>4. CASE WriterReports
  <2>1. /\ UNCHANGED <<Waiting, output>>
        /\ lost' = lost - batch_dropped
        /\ reported' = reported + batch_dropped
    BY <1>4 DEF WriterReports, Waiting
  <2>2. CASE batch_dropped = 0
    BY <2>1, <2>2 DEF Service!vars
  <2>3. CASE batch_dropped \in 1..lost
    BY <2>1, <2>3 DEF Service!Report, Service!Next
  <2>4. QED
    BY <2>2, <2>3
<1>5. CASE WriterTakes
  <2>1. Waiting' = Waiting
    BY <1>5 DEF WriterTakes, HandsEmpty, Waiting
  <2>2. lost' = lost
    BY <1>5 DEF WriterTakes, LossesTaken, HandsEmpty
  <2>3. QED
    BY <1>5, <2>1, <2>2 DEF WriterTakes, Service!vars
<1>6. CASE Start
  <2>1. dropped = 0
    BY <1>6 DEF Start, MainCalls, LossesMeanFull
  <2>2. QED
    BY <1>6, <2>1 DEF Start, Service!vars, Waiting
<1>7. ASSUME NEW t \in Threads, NotifyOne(t) PROVE UNCHANGED Service!vars
  BY <1>7 DEF NotifyOne, Service!vars, Waiting
<1>8. CASE WriterWaits \/ WriterReturns \/ WriterOpensBatch \/ SpuriousWakeup
  BY <1>8 DEF WriterWaits, WriterReturns, WriterOpensBatch, SpuriousWakeup,
              Service!vars, Waiting
<1>9. CASE Pause \/ Open \/ Unpause \/ StopNotifies \/ StopJoins \/ StopReturns
  BY <1>9 DEF Pause, Open, Unpause, StopNotifies, StopJoins, StopReturns,
              Service!vars, Waiting
<1>10. CASE Reload \/ Stop \/ Stopped \/ UNCHANGED vars
  BY <1>10 DEF Reload, Stop, Stopped, vars, Service!vars, Waiting
<1>11. QED
  BY <1>1, <1>2, <1>3, <1>4, <1>5, <1>6, <1>7, <1>8, <1>9, <1>10
     DEF Next, WriterStep, MainStep, Service!Next

\* Callers of logprint see the abstract queue: lines in order, refused only when
\* the queue is full, and refusals counted until a warning reports them.
THEOREM ServiceCorrect == Spec => ImplementsLogService
<1>1. Init => Service!Init
  BY DEF Init, Service!Init, Waiting
<1>2. LoggerInv /\ [Next]_vars => [Service!Next]_(Service!vars)
  BY ServiceStep
<1>3. QED
  BY <1>1, <1>2, LoggerCorrect, PTL DEF Spec, ImplementsLogService, Service!Spec

-----------------------------------------------------------------------------
(***************************************************************************)
(* The files.                                                              *)
(***************************************************************************)

\* A file holds nothing but lines that have been written.
Written(s) == \A i \in DOMAIN s : s[i] <= Len(output)

FilesInv ==
  /\ FilesInOrder
  /\ Written(active)
  /\ \A g \in DOMAIN rotated : Written(rotated[g])

\* There is nothing in the files at first.
LEMMA FilesInit == Init => FilesInv
<1> SUFFICES ASSUME Init PROVE FilesInv
  OBVIOUS
<1>1. /\ active = <<>>
      /\ \A g \in DOMAIN rotated : rotated[g] = <<>>
  BY DEF Init
<1>2. QED
  BY <1>1 DEF FilesInv, FilesInOrder, Written, Increasing, Before

\* The rotated files hold numbers.
LEMMA RotatedNat ==
  ASSUME TypeOK, NEW g \in DOMAIN rotated
  PROVE  /\ rotated[g] \in Seq(Nat)
         /\ \A i \in DOMAIN rotated[g] : rotated[g][i] \in Nat
<1>1. rotated[g] \in Seq(Nat)
  BY DEF TypeOK, Lines
<1>2. QED
  BY <1>1

\* write() appends a number that exceeds all in the files.
LEMMA FilesWrite ==
  ASSUME LoggerInv, FilesInv, WriterWrites
  PROVE  FilesInv'
<1> USE DEF LoggerInv, TypeOK, Lines, Written, Increasing, Before
<1>1. Head(batch) = Len(output) + 1
  BY DEF WriterWrites, InOrder
<1>2. /\ output' = Append(output, Head(batch))
      /\ Len(output') = Len(output) + 1
      /\ rotated' = rotated
  BY DEF WriterWrites
<1>3. ASSUME NEW g \in DOMAIN rotated
      PROVE  Written(rotated[g])' /\ Increasing(rotated[g])'
  <2>1. \A i \in DOMAIN rotated[g] : rotated[g][i] \in Nat
    BY RotatedNat
  <2>2. Written(rotated[g]) /\ Increasing(rotated[g])
    BY Zenon DEF FilesInv, FilesInOrder
  <2>3. QED
    BY <1>2, <2>1, <2>2
<1>4. CASE ~fd_log
  <2>1. active' = active
    BY <1>4 DEF WriterWrites
  <2>2. QED
    BY <1>2, <1>3, <2>1 DEF FilesInv, FilesInOrder
<1>5. CASE fd_log
  <2>1. active' = Append(active, Len(output) + 1)
    BY <1>1, <1>5 DEF WriterWrites
  <2>2. /\ Len(active') = Len(active) + 1
        /\ DOMAIN active' = 1..Len(active) \cup {Len(active) + 1}
        /\ DOMAIN active = 1..Len(active)
        /\ \A i \in 1..Len(active) : active'[i] = active[i]
        /\ active'[Len(active) + 1] = Len(output) + 1
    <3>1. Len(output) + 1 \in Nat
      OBVIOUS
    <3>2. QED
      BY <2>1, <3>1, Appended
  <2>3. Written(active)' /\ Increasing(active)'
    <3>1. Written(active) /\ Increasing(active)
      BY Zenon DEF FilesInv, FilesInOrder
    <3>2. \A i \in DOMAIN active : active[i] \in Nat
      OBVIOUS
    <3>3. ASSUME NEW i \in DOMAIN active' PROVE active'[i] <= Len(output')
      BY <1>2, <2>2, <3>1, <3>2
    <3>4. ASSUME NEW i \in DOMAIN active', NEW j \in DOMAIN active', i < j
          PROVE  active'[i] < active'[j]
      <4>1. i \in DOMAIN active
        BY <2>2, <3>4
      <4>2. CASE j \in DOMAIN active
        BY <2>2, <3>1, <3>4, <4>1, <4>2
      <4>3. CASE j = Len(active) + 1
        BY <2>2, <3>1, <3>2, <4>1, <4>3
      <4>4. QED
        BY <2>2, <4>2, <4>3
    <3>5. QED
      BY <3>3, <3>4
  <2>4. ASSUME NEW g \in DOMAIN rotated
        PROVE  Before(rotated[g], active)'
    <3>1. Before(rotated[g], active) /\ Written(rotated[g])
      BY Zenon DEF FilesInv, FilesInOrder
    <3>2. \A i \in DOMAIN rotated[g] : rotated[g][i] \in Nat
      BY RotatedNat
    <3>3. ASSUME NEW i \in DOMAIN rotated[g], NEW j \in DOMAIN active'
          PROVE  rotated[g][i] < active'[j]
      <4>1. CASE j \in DOMAIN active
        BY <2>2, <3>1, <4>1
      <4>2. CASE j = Len(active) + 1
        BY <2>2, <3>1, <3>2, <4>2
      <4>3. QED
        BY <2>2, <4>1, <4>2
    <3>4. QED
      BY <1>2, <3>3
  <2>5. QED
    BY <1>2, <1>3, <2>3, <2>4 DEF FilesInv, FilesInOrder
<1>6. QED
  BY <1>4, <1>5

\* rotate() shifts the files and makes what it copied of the log the newest.
LEMMA FilesRotate ==
  ASSUME LoggerInv, FilesInv, WriterOpensBatch
  PROVE  FilesInv'
<1> USE DEF LoggerInv, TypeOK, Lines, Written, Increasing, Before
<1>1. output' = output
  BY DEF WriterOpensBatch
<1>2. CASE UNCHANGED <<active, rotated>>
  BY <1>1, <1>2 DEF FilesInv, FilesInOrder
<1>3. CASE Rotate
  <2>1. PICK n \in 0..Len(active) :
          /\ rotated' = [g \in 0..Generations - 1 |->
                           IF g = 0 THEN SubSeq(active, 1, n) ELSE rotated[g - 1]]
          /\ active' = <<>>
    BY <1>3 DEF Rotate
  <2> DEFINE copy == SubSeq(active, 1, n)
  <2>2. /\ DOMAIN copy = 1..n
        /\ DOMAIN copy \subseteq DOMAIN active
        /\ \A i \in DOMAIN copy : copy[i] = active[i]
    BY <2>1
  <2> HIDE DEF copy
  <2>3. /\ rotated'[0] = copy
        /\ \A g \in 1..Generations - 1 :
             rotated'[g] = rotated[g - 1] /\ g - 1 \in DOMAIN rotated
        /\ DOMAIN rotated' = 0..Generations - 1
        /\ DOMAIN rotated = 0..Generations - 1
    <3>1. rotated' = [g \in 0..Generations - 1 |->
                        IF g = 0 THEN copy ELSE rotated[g - 1]]
      BY <2>1, Zenon DEF copy
    <3>2. DOMAIN rotated = 0..Generations - 1
      OBVIOUS
    <3>3. DOMAIN rotated' = 0..Generations - 1
      BY <3>1
    <3>4. rotated'[0] = copy
      BY <3>1
    <3>5. ASSUME NEW g \in 1..Generations - 1
          PROVE  rotated'[g] = rotated[g - 1] /\ g - 1 \in DOMAIN rotated
      BY <3>1, <3>2
    <3>6. QED
      BY <3>2, <3>3, <3>4, <3>5
  <2>4. Written(copy) /\ Increasing(copy)
    BY <2>2 DEF FilesInv, FilesInOrder
  <2>5. \A g \in DOMAIN rotated : Before(rotated[g], copy)
    BY <2>2 DEF FilesInv, FilesInOrder
  <2>6. \A g \in DOMAIN rotated' :
          /\ Written(rotated'[g]) /\ Increasing(rotated'[g])
          /\ Before(rotated'[g], active')
    <3>1. ASSUME NEW g \in DOMAIN rotated'
          PROVE  Written(rotated'[g]) /\ Increasing(rotated'[g])
      <4>1. CASE g = 0
        BY <2>3, <2>4, <4>1, Zenon
      <4>2. CASE g \in 1..Generations - 1
        <5>1. rotated'[g] = rotated[g - 1] /\ g - 1 \in DOMAIN rotated
          BY <2>3, <4>2
        <5>2. QED
          BY <5>1, Zenon DEF FilesInv, FilesInOrder
      <4>3. QED
        BY <2>3, <4>1, <4>2
    <3>2. DOMAIN active' = {}
      BY <2>1
    <3>3. QED
      BY <3>1, <3>2
  <2>7. ASSUME NEW g \in DOMAIN rotated', NEW h \in DOMAIN rotated', g < h
        PROVE  Before(rotated'[h], rotated'[g])
    <3>1. /\ rotated'[h] = rotated[h - 1] /\ h - 1 \in DOMAIN rotated
          /\ g \in 0..Generations - 1 /\ h \in 1..Generations - 1
      BY <2>3, <2>7
    <3>2. CASE g = 0
      BY <2>3, <2>5, <3>1, <3>2, Zenon
    <3>3. CASE g # 0
      <4>1. g \in 1..Generations - 1 /\ g - 1 < h - 1
        BY <2>7, <3>1, <3>3
      <4>2. rotated'[g] = rotated[g - 1] /\ g - 1 \in DOMAIN rotated
        BY <2>3, <4>1
      <4>3. QED
        BY <3>1, <4>1, <4>2, Zenon DEF FilesInv, FilesInOrder
    <3>4. QED
      BY <3>2, <3>3
  <2>8. Written(active)' /\ Increasing(active)'
    BY <2>1
  <2>9. \A g \in DOMAIN rotated' : Written(rotated[g])'
    BY <1>1, <2>6
  <2>10. QED
    BY <2>6, <2>7, <2>8, <2>9, Zenon DEF FilesInv, FilesInOrder
<1>4. QED
  BY <1>2, <1>3 DEF WriterOpensBatch

\* No other action touches the files or what has been written.
LEMMA FilesStep == LoggerInv /\ FilesInv /\ [Next]_vars => FilesInv'
<1> SUFFICES ASSUME LoggerInv, FilesInv, [Next]_vars PROVE FilesInv'
  OBVIOUS
<1>1. CASE WriterWrites
  BY <1>1, FilesWrite
<1>2. CASE WriterOpensBatch
  BY <1>2, FilesRotate
<1>3. CASE UNCHANGED <<active, rotated, output>>
  BY <1>3 DEF FilesInv, FilesInOrder, Written, Increasing, Before
<1>4. ASSUME NEW t \in Threads, Accept(t) \/ Refuse(t) \/ NotifyOne(t)
      PROVE  UNCHANGED <<active, rotated, output>>
  BY <1>4 DEF Accept, Refuse, NotifyOne
<1>5. CASE \/ WriterWaits \/ WriterReturns \/ WriterTakes \/ WriterReports
           \/ SpuriousWakeup
  BY <1>3, <1>5 DEF WriterWaits, WriterReturns, WriterTakes, WriterReports,
                    SpuriousWakeup
<1>6. CASE MainStep
  BY <1>3, <1>6 DEF MainStep, Start, Pause, Open, Unpause, StopNotifies,
                    StopJoins, StopReturns
<1>7. CASE Reload \/ Stop \/ Stopped \/ UNCHANGED vars
  BY <1>3, <1>7 DEF Reload, Stop, Stopped, vars
<1>8. QED
  BY <1>1, <1>2, <1>3, <1>4, <1>5, <1>6, <1>7 DEF Next, WriterStep

\* The files, from the oldest to the log, show lines at most once and in order,
\* however many rotations there are and however much each of them copied.
THEOREM FilesCorrect == Spec => []FilesInOrder
<1>1. FilesInv => FilesInOrder
  BY DEF FilesInv
<1>2. QED
  BY <1>1, FilesInit, FilesStep, LoggerCorrect, PTL DEF Spec
=============================================================================
