--------------------------- MODULE TcpTask_proofs ---------------------------
(***************************************************************************)
(* Theorems about TcpTask, for any finite set of descriptors and listeners *)
(* and every limit and timeout.                                            *)
(***************************************************************************)
EXTENDS TcpTask, FiniteSetTheorems, TLAPS

USE TcpTaskAssumption DEF TcpTaskAssumption

-----------------------------------------------------------------------------
(***************************************************************************)
(* Type correctness. The descriptors and their tasks first.                *)
(***************************************************************************)

Descriptors ==
  /\ open \in [Fds -> {"closed", "client", "upstream"}]
  /\ task \in [Fds -> Task \cup {NoTask}]
  /\ lost \in SUBSET Fds

\* A new task is a task, whatever it is for.
LEMMA NewTaskIsTask ==
  ASSUME NEW op \in {Reading, Writing, Forward, Reply}, NEW c \in Fds \cup {None}
  PROVE  /\ NewTask(op, c) \in Task /\ NewTask(op, c) # NoTask
         /\ NewTask(op, c).op = op /\ NewTask(op, c).client_fd = c
<1>1. (op = Forward) \in BOOLEAN
  OBVIOUS
<1>2. op # "NONE"
  BY DEF Reading, Writing, Forward, Reply
<1>3. QED
  BY <1>1, <1>2 DEF NewTask, Task, NoTask

\* A descriptor has a task exactly when it is in Tasks.
LEMMA TaskOrNot ==
  ASSUME Descriptors, NEW f \in Fds
  PROVE  /\ f \in Tasks <=> task[f] # NoTask
         /\ f \in Tasks => task[f] \in Task
         /\ f \notin Tasks => task[f].op = "NONE" /\ task[f].client_fd = None
  BY DEF Descriptors, Tasks, NoTask

\* What a task is waiting for, and since when, changes nothing else about it.
LEMMA ChangedOp ==
  ASSUME Descriptors, NEW f \in Tasks, NEW op \in {Reading, Writing, Forward, Reply}
  PROVE  /\ [task[f] EXCEPT !.op = op] \in Task
         /\ [task[f] EXCEPT !.op = op].client_fd = task[f].client_fd
         /\ [task[f] EXCEPT !.op = op].op = op
         /\ [task[f] EXCEPT !.op = op, !.used_edns = FALSE] \in Task
         /\ [task[f] EXCEPT !.op = op, !.used_edns = FALSE].client_fd = task[f].client_fd
         /\ [task[f] EXCEPT !.op = op, !.used_edns = FALSE].op = op
<1>1. task[f] \in Task
  BY TaskOrNot DEF Tasks
<1>2. QED
  BY <1>1 DEF Task

\* So does time.
LEMMA ChangedAge ==
  ASSUME Descriptors, NEW f \in Tasks, NEW age \in 0 .. Timeout
  PROVE  /\ [task[f] EXCEPT !.age = age] \in Task
         /\ [task[f] EXCEPT !.age = age].client_fd = task[f].client_fd
         /\ [task[f] EXCEPT !.age = age].op = task[f].op
<1>1. task[f] \in Task
  BY TaskOrNot DEF Tasks
<1>2. QED
  BY <1>1 DEF Task

\* A task is none of the kind that says there is none.
LEMMA TasksAreReal == Task \cap {NoTask} = {}
  BY DEF Task, NoTask, Reading, Writing, Forward, Reply

\* finish_task() is what Respond does when there is nothing to answer.
LEMMA FinishIsRespond ==
  ASSUME NEW S \in SUBSET Fds, finish_task(S)
  PROVE  Respond(S, {})
<1>1. task' = [f \in Fds |-> IF f \in {task[u].client_fd : u \in {}} THEN NewTask(Writing, None)
                             ELSE TasksWithout(S)[f]]
  BY DEF finish_task, TasksWithout
<1>2. open' = ClosedBy(S, {task[u].client_fd : u \in {}})
  BY DEF finish_task, ClosedBy
<1>3. QED
  BY <1>1, <1>2 DEF Respond

\* Which descriptors Respond closes and which tasks it leaves.
Responded(S, Sent) ==
  /\ \A f \in Fds : f \in {task[u].client_fd : u \in Sent} =>
       /\ task'[f] = NewTask(Writing, None)
       /\ open'[f] = IF f \in S THEN "closed" ELSE open[f]
  /\ \A f \in Fds : f \notin {task[u].client_fd : u \in Sent} =>
       /\ task'[f] = IF f \in S THEN NoTask ELSE task[f]
       /\ open'[f] = IF f \in S \/ f \in {task[u].client_fd : u \in S}
                     THEN "closed" ELSE open[f]

\* It answers some of the exchanges that end, and keeps the types.
LEMMA RespondResult ==
  ASSUME Descriptors, NEW S \in SUBSET Fds, NEW X \in SUBSET S, Respond(S, X)
  PROVE  /\ \E Sent \in SUBSET X : Responded(S, Sent)
         /\ open' \in [Fds -> {"closed", "client", "upstream"}]
         /\ task' \in [Fds -> Task \cup {NoTask}]
<1>1. PICK Sent \in SUBSET X :
        /\ open' = ClosedBy(S, {task[u].client_fd : u \in Sent})
        /\ task' = [f \in Fds |-> IF f \in {task[u].client_fd : u \in Sent}
                                  THEN NewTask(Writing, None) ELSE TasksWithout(S)[f]]
  BY DEF Respond
<1>2. NewTask(Writing, None) \in Task
  BY NewTaskIsTask
<1>3. open' \in [Fds -> {"closed", "client", "upstream"}]
  BY <1>1 DEF ClosedBy, Descriptors
<1>4. task' \in [Fds -> Task \cup {NoTask}]
  BY <1>1, <1>2 DEF TasksWithout, Descriptors
<1> DEFINE A == {task[u].client_fd : u \in Sent}
<1>5. \A f \in Fds : f \in A =>
        /\ task'[f] = NewTask(Writing, None)
        /\ open'[f] = IF f \in S THEN "closed" ELSE open[f]
  BY <1>1 DEF ClosedBy
<1>6. \A f \in Fds : f \notin A =>
        /\ task'[f] = IF f \in S THEN NoTask ELSE task[f]
        /\ open'[f] = IF f \in S \/ f \in {task[u].client_fd : u \in S}
                      THEN "closed" ELSE open[f]
  BY <1>1 DEF ClosedBy, TasksWithout
<1>7. Responded(S, Sent)
  BY <1>5, <1>6 DEF Responded
<1>8. QED
  BY <1>3, <1>4, <1>7

\* Every step keeps the types of the descriptors and of the tasks.
LEMMA DescriptorsStep == Descriptors /\ [Next]_vars => Descriptors'
<1> SUFFICES ASSUME Descriptors, [Next]_vars PROVE Descriptors'
  OBVIOUS
<1>0. ASSUME NEW f \in Fds, task[f].op # "NONE" PROVE f \in Tasks
  BY <1>0, TaskOrNot
<1>1. ASSUME NEW S \in SUBSET Fds, NEW X \in SUBSET S, Respond(S, X), lost' = lost
      PROVE  Descriptors'
  BY <1>1, RespondResult DEF Descriptors
<1>2. ASSUME NEW l \in Listeners, AcceptClient(l) PROVE Descriptors'
  BY <1>2, NewTaskIsTask DEF AcceptClient, Descriptors, Closed
<1>3. ASSUME NEW l \in Listeners, AcceptFails(l) PROVE Descriptors'
  BY <1>3 DEF AcceptFails, Descriptors
<1>4. ASSUME NEW f \in Fds, Read(f) PROVE /\ f \in Tasks
                                         /\ ReplyOn(f) \in [Fds -> Task \cup {NoTask}]
  <2>1. f \in Tasks
    BY <1>0, <1>4 DEF Read, Reading
  <2>2. [task[f] EXCEPT !.op = Writing] \in Task
    BY <2>1, ChangedOp
  <2>3. QED
    BY <2>1, <2>2 DEF ReplyOn, Descriptors
<1>5. ASSUME NEW f \in Fds, process_receive(f) PROVE Descriptors'
  <2>1. CASE ReadFails(f)
    BY <1>1, <2>1, FinishIsRespond DEF ReadFails
  <2>2. CASE ReplyLocally(f)
    BY <1>4, <2>2 DEF ReplyLocally, Descriptors
  <2>3. CASE ForwardLeaks(f)
    BY <1>4, <2>3 DEF ForwardLeaks, Descriptors, TasksWithout, Closed
  <2>4. CASE LocalReplyLost(f)
    BY <2>4 DEF LocalReplyLost, Descriptors, TasksWithout
  <2>5. CASE forward_tcp(f)
    BY <2>5, NewTaskIsTask DEF forward_tcp, Descriptors, Closed
  <2>6. CASE QueryIsSent(f)
    <3>1. f \in Tasks
      BY <1>0, <2>6 DEF QueryIsSent, Forward
    <3>2. QED
      BY <2>6, <3>1, ChangedOp DEF QueryIsSent, Descriptors
  <2>7. CASE RetryWithoutEdns(f)
    <3>1. f \in Tasks
      BY <1>0, <2>7 DEF RetryWithoutEdns, Reply
    <3>2. [task[f] EXCEPT !.op = Forward, !.used_edns = FALSE] \in Task
      BY <3>1, ChangedOp
    <3>3. task' = [task EXCEPT ![f] = [task[f] EXCEPT !.op = Forward, !.used_edns = FALSE]]
      BY <2>7 DEF RetryWithoutEdns, Descriptors
    <3>4. QED
      BY <2>7, <3>2, <3>3 DEF RetryWithoutEdns, Descriptors
  <2>8. CASE ExchangeEnds(f)
    BY <1>1, <2>8 DEF ExchangeEnds
  <2>9. CASE ReplyIsWritten(f)
    BY <1>1, <2>9, FinishIsRespond DEF ReplyIsWritten
  <2>10. QED
    BY <1>5, <2>1, <2>2, <2>3, <2>4, <2>5, <2>6, <2>7, <2>8, <2>9 DEF process_receive
<1>6. CASE CleanPausedListeners \/ CleanOther \/ UdpQueries
  BY <1>6 DEF CleanPausedListeners, CleanOther, UdpQueries, Descriptors
<1>7. CASE CleanExpiredTcp
  <2> DEFINE X == {f \in Expired : task[f].op \in Exchange}
  <2>1. Expired \in SUBSET Fds /\ X \in SUBSET Expired
    BY DEF Expired, Tasks
  <2>2. Respond(Expired, X) /\ lost' = lost
    BY <1>7 DEF CleanExpiredTcp
  <2> HIDE DEF X
  <2>3. QED
    BY <1>1, <2>1, <2>2
<1>8. CASE Tick
  <2>1. ASSUME NEW f \in Tasks PROVE [task[f] EXCEPT !.age = Lesser(@ + 1, Timeout)] \in Task
    <3>1. task[f] \in Task
      BY TaskOrNot DEF Tasks
    <3>2. Lesser(task[f].age + 1, Timeout) \in 0 .. Timeout
      BY <3>1 DEF Lesser, Task
    <3>3. QED
      BY <3>1, <3>2, ChangedAge
  <2>2. QED
    BY <1>8, <2>1 DEF Tick, Descriptors
<1>9. CASE Shutdown
  BY <1>1, <1>9, FinishIsRespond DEF Shutdown, Tasks
<1>10. CASE UNCHANGED vars
  BY <1>10 DEF vars, Descriptors
<1>11. QED
  BY <1>2, <1>3, <1>5, <1>6, <1>7, <1>8, <1>9, <1>10 DEF Next, clean

\* The rest of the state.
Counters ==
  /\ udp_queries \in 0 .. MaxTasks
  /\ paused \in [Listeners -> {Accepting} \cup 0 .. Pause]
  /\ clean_state \in 0 .. 4

\* The number of tasks is a number.
LEMMA LoadIsNat == Cardinality(Tasks) \in Nat
  BY FS_Subset, FS_CardinalityType DEF Tasks

\* Every step keeps the counters: a UDP query is added only where there is room.
LEMMA CountersStep == Counters /\ [Next]_vars => Counters'
<1> SUFFICES ASSUME Counters, [Next]_vars PROVE Counters'
  OBVIOUS
<1> USE DEF Counters, others
<1>1. ASSUME NEW l \in Listeners, AcceptClient(l) \/ AcceptFails(l) PROVE Counters'
  BY <1>1 DEF AcceptClient, AcceptFails, Accepting
<1>2. ASSUME NEW f \in Fds, process_receive(f) PROVE Counters'
  BY <1>2 DEF process_receive, ReadFails, ReplyLocally, ForwardLeaks, LocalReplyLost,
              forward_tcp, QueryIsSent, RetryWithoutEdns, ExchangeEnds, ReplyIsWritten, Read
<1>3. CASE CleanPausedListeners
  BY <1>3 DEF CleanPausedListeners, Accepting
<1>4. CASE CleanExpiredTcp \/ CleanOther
  BY <1>4 DEF CleanExpiredTcp, CleanOther
<1>5. CASE UdpQueries
  BY <1>5, LoadIsNat DEF UdpQueries, active_task_count
<1>6. CASE Tick
  BY <1>6 DEF Tick, Accepting
<1>7. CASE Shutdown \/ UNCHANGED vars
  BY <1>7 DEF Shutdown, vars
<1>8. QED
  BY <1>1, <1>2, <1>3, <1>4, <1>5, <1>6, <1>7 DEF Next, clean

Runs == running \in BOOLEAN

\* Only leaving the loop changes whether it runs.
LEMMA RunningStep == Runs /\ [Next]_vars => Runs'
<1> SUFFICES ASSUME Runs, [Next]_vars PROVE Runs'
  OBVIOUS
<1> USE DEF others, Runs
<1>1. ASSUME NEW l \in Listeners, AcceptClient(l) \/ AcceptFails(l) PROVE running' = running
  BY <1>1, Zenon DEF AcceptClient, AcceptFails
<1>2. ASSUME NEW f \in Fds, process_receive(f) PROVE running' = running
  <2>1. CASE ReadFails(f) \/ ReplyLocally(f) \/ ForwardLeaks(f)
    BY <2>1, Zenon DEF ReadFails, ReplyLocally, ForwardLeaks, Read
  <2>2. CASE LocalReplyLost(f) \/ forward_tcp(f)
    BY <2>2, Zenon DEF LocalReplyLost, forward_tcp, Read
  <2>3. CASE QueryIsSent(f) \/ RetryWithoutEdns(f) \/ ExchangeEnds(f) \/ ReplyIsWritten(f)
    BY <2>3, Zenon DEF QueryIsSent, RetryWithoutEdns, ExchangeEnds, ReplyIsWritten
  <2>4. QED
    BY <1>2, <2>1, <2>2, <2>3, Zenon DEF process_receive
<1>3. CASE clean
  BY <1>3, Zenon DEF clean, CleanPausedListeners, CleanExpiredTcp, CleanOther
<1>4. CASE UdpQueries \/ Tick
  BY <1>4, Zenon DEF UdpQueries, Tick
<1>5. CASE Shutdown
  BY <1>5, Zenon DEF Shutdown
<1>6. CASE UNCHANGED vars
  BY <1>6, Zenon DEF vars
<1>7. QED
  BY <1>1, <1>2, <1>3, <1>4, <1>5, <1>6, Zenon DEF Next

\* Every reachable state is typed.
THEOREM TypeCorrect == Spec => []TypeOK
<1>1. Init => Descriptors /\ Counters /\ Runs
  <2> SUFFICES ASSUME Init PROVE Descriptors /\ Counters /\ Runs
    OBVIOUS
  <2>1. Runs
    BY Zenon DEF Init, Runs
  <2>2. Descriptors /\ Counters
    BY DEF Init, Descriptors, Counters, Accepting
  <2>3. QED
    BY <2>1, <2>2
<1>2. Descriptors /\ Counters /\ Runs => TypeOK
  BY Zenon DEF Descriptors, Counters, Runs, TypeOK
<1>3. QED
  BY <1>1, <1>2, DescriptorsStep, CountersStep, RunningStep, PTL DEF Spec

-----------------------------------------------------------------------------
(***************************************************************************)
(* One owner for every descriptor. OneOwner is inductive with the types: a *)
(* number that the kernel hands out anew is closed, so nobody owns it.     *)
(***************************************************************************)

\* Nobody owns a closed descriptor.
LEMMA ClosedIsFree ==
  ASSUME Descriptors, OneOwner, NEW c \in Closed
  PROVE  c \in Fds /\ c \notin Tasks /\ \A u \in Tasks : task[u].client_fd # c
<1>1. c \in Fds /\ open[c] = "closed" /\ c # None
  BY DEF Closed
<1>2. c \notin Tasks
  BY <1>1 DEF OneOwner
<1>3. ASSUME NEW u \in Tasks, task[u].client_fd = c PROVE FALSE
  BY <1>1, <1>3 DEF OneOwner
<1>4. QED
  BY <1>1, <1>2, <1>3

\* The four kinds of task are told apart.
LEMMA Kinds ==
  /\ Reading \notin Exchange /\ Writing \notin Exchange
  /\ Forward \in Exchange /\ Reply \in Exchange /\ "NONE" \notin Exchange
  /\ Exchange \subseteq {Reading, Writing, Forward, Reply}
  BY DEF Reading, Writing, Forward, Reply, Exchange

\* Ending exchanges, answered or not, and finishing tasks with their clients leaves
\* one owner for what stays open, and none for what is closed.
LEMMA RespondKeepsOwners ==
  ASSUME Descriptors, OneOwner, NEW S \in SUBSET Tasks, NEW X \in SUBSET S,
         \A u \in X : task[u].op \in Exchange, Respond(S, X)
  PROVE  OneOwner'
<1>0. S \subseteq Fds
  BY DEF Tasks
<1>1a. PICK Sent \in SUBSET X : Responded(S, Sent)
  BY <1>0, RespondResult
<1>1. /\ \A f \in Fds : f \in {task[u].client_fd : u \in Sent} =>
           /\ task'[f] = NewTask(Writing, None)
           /\ open'[f] = IF f \in S THEN "closed" ELSE open[f]
      /\ \A f \in Fds : f \notin {task[u].client_fd : u \in Sent} =>
           /\ task'[f] = IF f \in S THEN NoTask ELSE task[f]
           /\ open'[f] = IF f \in S \/ f \in {task[u].client_fd : u \in S}
                         THEN "closed" ELSE open[f]
  BY <1>1a DEF Responded
<1> DEFINE A == {task[u].client_fd : u \in Sent}
<1>2. ASSUME NEW f \in A PROVE f \in Fds \ Tasks /\ open[f] = "client"
  BY DEF OneOwner
<1>3. ASSUME NEW f \in A
      PROVE  /\ task'[f].op = Writing /\ task'[f].client_fd = None /\ open'[f] = "client"
  BY <1>1, <1>2, NewTaskIsTask
<1>4. ASSUME NEW f \in Tasks', f \notin A
      PROVE  f \in Tasks \ S /\ task'[f] = task[f]
  BY <1>1, <1>4 DEF Tasks
<1>5. ASSUME NEW f \in Tasks \ S
      PROVE  f \notin A /\ f \notin {task[u].client_fd : u \in S} /\ open'[f] = open[f]
  <2>1. f \notin {task[u].client_fd : u \in S}
    BY DEF OneOwner, Tasks
  <2>2. QED
    BY <1>1, <2>1 DEF Tasks
<1>6. ASSUME NEW f \in Tasks \ S, task[f].op \in Exchange
      PROVE  LET c == task[f].client_fd
             IN  c \in Fds \ Tasks' /\ open'[c] = "client"
  <2> DEFINE c == task[f].client_fd
  <2>1. c \in Fds \ Tasks /\ open[c] = "client" /\ c # None
    BY <1>6 DEF OneOwner
  <2>2. c \notin {task[u].client_fd : u \in S}
    BY <2>1 DEF OneOwner
  <2>3. c \notin A /\ c \notin S
    BY <2>1, <2>2
  <2>4. task'[c] = task[c] /\ open'[c] = open[c]
    BY <1>1, <2>1, <2>2, <2>3
  <2>5. QED
    BY <2>1, <2>4 DEF Tasks
<1>7. ASSUME NEW f \in Tasks'
      PROVE  IF task'[f].op \in Exchange
             THEN /\ open'[f] = "upstream"
                  /\ task'[f].client_fd \in Fds \ Tasks'
                  /\ open'[task'[f].client_fd] = "client"
             ELSE open'[f] = "client" /\ task'[f].client_fd = None
  <2>1. CASE f \in A
    BY <1>3, <2>1, Kinds
  <2>2. CASE f \notin A
    BY <1>4, <1>5, <1>6, <2>2 DEF OneOwner
  <2>3. QED
    BY <2>1, <2>2
<1>8. ASSUME NEW u \in Tasks', NEW v \in Tasks', task'[u].client_fd = task'[v].client_fd
      PROVE  u = v \/ task'[u].client_fd = None
  <2>1. CASE u \in A \/ v \in A
    BY <1>3, <1>8, <2>1
  <2>2. CASE u \notin A /\ v \notin A
    BY <1>4, <1>8, <2>2 DEF OneOwner
  <2>3. QED
    BY <2>1, <2>2
<1>9. QED
  BY <1>7, <1>8 DEF OneOwner

\* It leaves nothing open without an owner either.
LEMMA RespondLosesNothing ==
  ASSUME Descriptors, OneOwner, NothingElseLost, NEW S \in SUBSET Tasks, NEW X \in SUBSET S,
         \A u \in X : task[u].op \in Exchange, Respond(S, X), lost' = lost
  PROVE  NothingElseLost'
<1>0. S \subseteq Fds
  BY DEF Tasks
<1>1. PICK Sent \in SUBSET X : Responded(S, Sent)
  BY <1>0, RespondResult
<1> DEFINE A == {task[u].client_fd : u \in Sent}
<1>2. ASSUME NEW u \in Tasks \ S PROVE u \in Tasks' /\ task'[u] = task[u]
  <2>1. u \notin A
    BY DEF OneOwner
  <2>2. task'[u] = task[u]
    BY <1>1, <2>1 DEF Responded, Tasks
  <2>3. QED
    BY <2>2 DEF Tasks
<1>3. ASSUME NEW f \in Fds \ lost
      PROVE  open'[f] = "closed" \/ f \in Tasks' \/ \E u \in Tasks' : task'[u].client_fd = f
  <2>1. CASE f \in A
    <3>1. task'[f] = NewTask(Writing, None)
      BY <1>1, <2>1 DEF Responded
    <3>2. f \in Tasks'
      BY <3>1, NewTaskIsTask DEF Tasks
    <3>3. QED
      BY <3>2
  <2>2. CASE f \notin A /\ (f \in S \/ f \in {task[u].client_fd : u \in S})
    BY <1>1, <2>2 DEF Responded
  <2>3. CASE f \notin A /\ f \notin S /\ f \notin {task[u].client_fd : u \in S}
    <3>1. open'[f] = open[f]
      BY <1>1, <2>3 DEF Responded
    <3>2. open[f] = "closed" \/ f \in Tasks \/ \E u \in Tasks : task[u].client_fd = f
      BY DEF NothingElseLost, Owned
    <3>3. QED
      BY <1>2, <2>3, <3>1, <3>2
  <2>4. QED
    BY <2>1, <2>2, <2>3
<1>4. QED
  BY <1>3 DEF NothingElseLost, Owned

Ownership == OneOwner /\ NothingElseLost

\* A step that only changes what tasks are waiting for changes no owner.
LEMMA SameOwners ==
  ASSUME Descriptors, Ownership, open' = open, lost \subseteq lost',
         \A f \in Fds : /\ f \in Tasks' <=> f \in Tasks
                        /\ task'[f].client_fd = task[f].client_fd
                        /\ f \in Tasks => (task'[f].op \in Exchange <=> task[f].op \in Exchange)
  PROVE  Ownership'
<1>1. Tasks' = Tasks /\ Tasks \subseteq Fds
  BY DEF Tasks
<1>2. OneOwner'
  BY <1>1 DEF Ownership, OneOwner
<1>3. NothingElseLost'
  BY <1>1 DEF Ownership, NothingElseLost, Owned
<1>4. QED
  BY <1>2, <1>3 DEF Ownership

\* So does a change of one task that keeps its client and what kind it is.
LEMMA SameOwner ==
  ASSUME Descriptors, Ownership, open' = open, lost \subseteq lost',
         NEW f \in Tasks, NEW t \in Task, task' = [task EXCEPT ![f] = t],
         t.client_fd = task[f].client_fd, t.op \in Exchange <=> task[f].op \in Exchange
  PROVE  Ownership'
<1>1. ASSUME NEW g \in Fds
      PROVE  /\ g \in Tasks' <=> g \in Tasks
             /\ task'[g].client_fd = task[g].client_fd
             /\ g \in Tasks => (task'[g].op \in Exchange <=> task[g].op \in Exchange)
  <2>1. CASE g = f
    BY <2>1, TasksAreReal DEF Tasks, Descriptors
  <2>2. CASE g # f
    BY <2>2 DEF Tasks, Descriptors
  <2>3. QED
    BY <2>1, <2>2
<1>2. QED
  BY <1>1, SameOwners

\* A step after which every task that is left waits for the same client, and both
\* descriptors are as they were, gives nothing a second owner.
LEMMA FewerOwners ==
  ASSUME OneOwner, Tasks' \subseteq Tasks,
         \A v \in Tasks' :
           /\ task'[v].client_fd = task[v].client_fd
           /\ task'[v].op \in Exchange <=> task[v].op \in Exchange
           /\ open'[v] = open[v]
           /\ task[v].client_fd \in Fds => open'[task[v].client_fd] = open[task[v].client_fd]
  PROVE  OneOwner'
<1>1. ASSUME NEW v \in Tasks'
      PROVE  IF task'[v].op \in Exchange
             THEN /\ open'[v] = "upstream"
                  /\ task'[v].client_fd \in Fds \ Tasks'
                  /\ open'[task'[v].client_fd] = "client"
             ELSE open'[v] = "client" /\ task'[v].client_fd = None
  BY DEF OneOwner
<1>2. ASSUME NEW u \in Tasks', NEW v \in Tasks', task'[u].client_fd = task'[v].client_fd
      PROVE  u = v \/ task'[u].client_fd = None
  BY <1>2 DEF OneOwner
<1>3. QED
  BY <1>1, <1>2 DEF OneOwner

\* A step that accounts for the descriptors of D and leaves every other one and every
\* waiting client as it was loses nothing.
LEMMA NothingLostBut ==
  ASSUME NothingElseLost, lost \subseteq lost', NEW D,
         \A f \in Fds \ lost' :
           IF f \in D
           THEN open'[f] = "closed" \/ f \in Tasks' \/ \E v \in Tasks' : task'[v].client_fd = f
           ELSE open'[f] = open[f] /\ (f \in Tasks => f \in Tasks'),
         \A v \in Tasks : task[v].client_fd # None =>
           v \in Tasks' /\ task'[v].client_fd = task[v].client_fd
  PROVE  NothingElseLost'
<1>1. ASSUME NEW f \in Fds \ lost', f \notin D
      PROVE  open'[f] = "closed" \/ f \in Tasks' \/ \E v \in Tasks' : task'[v].client_fd = f
  <2>1. open[f] = "closed" \/ f \in Tasks \/ \E v \in Tasks : task[v].client_fd = f
    BY DEF NothingElseLost, Owned
  <2>2. f # None
    OBVIOUS
  <2>3. QED
    BY <1>1, <2>1, <2>2
<1>2. QED
  BY <1>1 DEF NothingElseLost, Owned

\* A task that is reading a query has no client but itself.
LEMMA ReadingTask ==
  ASSUME Descriptors, OneOwner, NEW c \in Fds, Read(c)
  PROVE  c \in Tasks /\ task[c].client_fd = None /\ open[c] = "client" /\ task[c].op = Reading
<1>1. task[c].op = Reading /\ c \in Tasks
  BY TaskOrNot DEF Read, Reading
<1>2. QED
  BY <1>1, Kinds DEF OneOwner

\* A connection is accepted on a number that nobody owns.
LEMMA AcceptOwners ==
  ASSUME Descriptors, Ownership, NEW l \in Listeners, AcceptClient(l)
  PROVE  Ownership'
<1>1. PICK c \in Closed : /\ open' = [open EXCEPT ![c] = "client"]
                          /\ task' = [task EXCEPT ![c] = NewTask(Reading, None)]
  BY DEF AcceptClient
<1>2. c \in Fds /\ c \notin Tasks /\ \A u \in Tasks : task[u].client_fd # c
  BY ClosedIsFree DEF Ownership
<1>3. /\ NewTask(Reading, None) # NoTask
      /\ NewTask(Reading, None).op = Reading /\ NewTask(Reading, None).client_fd = None
  BY NewTaskIsTask
<1>4. /\ task'[c] = NewTask(Reading, None) /\ open'[c] = "client"
      /\ \A f \in Fds \ {c} : task'[f] = task[f] /\ open'[f] = open[f]
  BY <1>1, <1>2 DEF Descriptors
<1>5. Tasks' = Tasks \cup {c} /\ Tasks \subseteq Fds
  BY <1>2, <1>3, <1>4 DEF Tasks
<1>6. OneOwner'
  BY <1>2, <1>3, <1>4, <1>5, Kinds DEF Ownership, OneOwner
<1>7. NothingElseLost'
  <2>1. lost' = lost /\ NothingElseLost
    BY DEF AcceptClient, Ownership
  <2>2. \A v \in Tasks : v \in Tasks' /\ task'[v].client_fd = task[v].client_fd
    BY <1>2, <1>4, <1>5
  <2>3. \A f \in Fds : IF f \in {c} THEN f \in Tasks'
                       ELSE open'[f] = open[f] /\ (f \in Tasks => f \in Tasks')
    BY <1>4, <1>5
  <2>4. QED
    BY <2>1, <2>2, <2>3, NothingLostBut
<1>8. QED
  BY <1>6, <1>7 DEF Ownership

\* The client's descriptor moves to the task of a socket that nobody owned.
LEMMA ForwardOwners ==
  ASSUME Descriptors, Ownership, NEW c \in Fds, forward_tcp(c)
  PROVE  Ownership'
<1>1. PICK u \in Closed :
        /\ open' = [open EXCEPT ![u] = "upstream"]
        /\ task' = [task EXCEPT ![u] = NewTask(Forward, c), ![c] = NoTask]
  BY DEF forward_tcp
<1>2. u \in Fds /\ u \notin Tasks /\ \A v \in Tasks : task[v].client_fd # u
  BY ClosedIsFree DEF Ownership
<1>3. /\ c \in Tasks /\ task[c].client_fd = None /\ open[c] = "client"
      /\ \A v \in Tasks : task[v].client_fd # c
  BY ReadingTask DEF forward_tcp, Ownership, OneOwner, Tasks
<1>4. NewTask(Forward, c) # NoTask /\ NewTask(Forward, c).op = Forward /\ NewTask(Forward, c).client_fd = c
  BY NewTaskIsTask
<1>5. /\ task'[u] = NewTask(Forward, c) /\ open'[u] = "upstream"
      /\ task'[c] = NoTask /\ open'[c] = "client"
      /\ \A f \in Fds \ {c, u} : task'[f] = task[f] /\ open'[f] = open[f]
  BY <1>1, <1>2, <1>3 DEF Descriptors
<1>6. Tasks' = (Tasks \ {c}) \cup {u} /\ Tasks \subseteq Fds
  BY <1>2, <1>3, <1>4, <1>5 DEF Tasks
<1>7. OneOwner'
  BY <1>2, <1>3, <1>4, <1>5, <1>6, Kinds DEF Ownership, OneOwner
<1>8. NothingElseLost'
  <2>1. ASSUME NEW f \in Fds \ lost
        PROVE  open'[f] = "closed" \/ f \in Tasks' \/ \E v \in Tasks' : task'[v].client_fd = f
    <3>1. CASE f = c
      BY <1>4, <1>5, <1>6, <3>1
    <3>2. CASE f = u
      BY <1>6, <3>2
    <3>3. CASE f \notin {c, u}
      <4>1. open'[f] = open[f]
        BY <1>5, <3>3
      <4>2. open[f] = "closed" \/ f \in Tasks \/ \E v \in Tasks : task[v].client_fd = f
        BY DEF Ownership, NothingElseLost, Owned
      <4>3. ASSUME NEW v \in Tasks, task[v].client_fd = f
            PROVE  v \in Tasks' /\ task'[v].client_fd = f
        BY <1>2, <1>3, <1>5, <1>6, <4>3
      <4>4. QED
        BY <1>6, <3>3, <4>1, <4>2, <4>3
    <3>4. QED
      BY <3>1, <3>2, <3>3
  <2>2. lost' = lost
    BY DEF forward_tcp
  <2>3. QED
    BY <2>1, <2>2 DEF NothingElseLost, Owned
<1>9. QED
  BY <1>7, <1>8 DEF Ownership

\* What forward_tcp() leaves open is owned by nobody, and nobody else loses anything.
LEMMA LeakOwners ==
  ASSUME Descriptors, Ownership, NEW c \in Fds, ForwardLeaks(c) \/ LocalReplyLost(c)
  PROVE  Ownership'
<1>0. Read(c)
  BY DEF ForwardLeaks, LocalReplyLost
<1>1. /\ c \in Tasks /\ task[c].client_fd = None /\ open[c] = "client" /\ task[c].op = Reading
      /\ Tasks \subseteq Fds
      /\ \A v \in Tasks : task[v].client_fd # c
  BY <1>0, ReadingTask DEF Ownership, OneOwner, Tasks
<1>2. ASSUME NEW u \in Closed, lost' = lost \cup {u},
             open' = [open EXCEPT ![u] = "upstream"], task' = ReplyOn(c)
      PROVE  Ownership'
  <2>1. u \in Fds /\ u \notin Tasks /\ \A v \in Tasks : task[v].client_fd # u
    BY ClosedIsFree DEF Ownership
  <2>2. /\ [task[c] EXCEPT !.op = Writing] \in Task
        /\ [task[c] EXCEPT !.op = Writing].client_fd = None
        /\ [task[c] EXCEPT !.op = Writing].op = Writing
    BY <1>1, ChangedOp
  <2>3. /\ task'[c] = [task[c] EXCEPT !.op = Writing]
        /\ \A f \in Fds \ {c} : task'[f] = task[f]
        /\ \A f \in Fds \ {u} : open'[f] = open[f]
    BY <1>2, <2>1 DEF ReplyOn, Descriptors
  <2>4. Tasks' = Tasks
    BY <1>1, <2>2, <2>3, TasksAreReal DEF Tasks
  <2>5. /\ \A v \in Tasks : task'[v].client_fd = task[v].client_fd
        /\ \A v \in Tasks : task'[v].op \in Exchange <=> task[v].op \in Exchange
    BY <1>1, <2>2, <2>3, Kinds
  <2>6. OneOwner'
    BY <1>1, <2>1, <2>3, <2>4, <2>5, FewerOwners DEF Ownership
  <2>7. \A f \in Fds \ lost' : open'[f] = open[f]
    BY <1>2, <2>3
  <2>8. NothingElseLost'
    BY <1>2, <2>4, <2>5, <2>7, NothingLostBut DEF Ownership
  <2>9. QED
    BY <2>6, <2>8 DEF Ownership
<1>3. ASSUME NEW u \in Closed, lost' = lost \cup {u},
             open' = [open EXCEPT ![u] = "upstream", ![c] = "closed"], task' = TasksWithout({c})
      PROVE  Ownership'
  <2>1. u \in Fds /\ u \notin Tasks /\ \A v \in Tasks : task[v].client_fd # u
    BY ClosedIsFree DEF Ownership
  <2>2. /\ task'[c] = NoTask /\ open'[c] = "closed"
        /\ \A f \in Fds \ {c} : task'[f] = task[f]
        /\ \A f \in Fds \ {c, u} : open'[f] = open[f]
    BY <1>1, <1>3, <2>1 DEF TasksWithout, Descriptors
  <2>3. Tasks' = Tasks \ {c}
    BY <1>1, <2>2 DEF Tasks
  <2>4. \A v \in Tasks' : task'[v] = task[v] /\ open'[v] = open[v] /\ v \in Tasks
    BY <1>1, <2>1, <2>2, <2>3
  <2>5. \A v \in Tasks' : task[v].client_fd \in Fds =>
                            open'[task[v].client_fd] = open[task[v].client_fd]
    BY <1>1, <2>1, <2>2, <2>3
  <2>6. OneOwner'
    BY <2>3, <2>4, <2>5, FewerOwners DEF Ownership
  <2>7. \A v \in Tasks : task[v].client_fd # None => v \in Tasks' /\ task'[v] = task[v]
    BY <1>1, <2>2, <2>3
  <2>8. \A f \in Fds \ lost' : IF f \in {c} THEN open'[f] = "closed"
                              ELSE open'[f] = open[f] /\ (f \in Tasks => f \in Tasks')
    BY <1>3, <2>2, <2>3
  <2>9. NothingElseLost'
    BY <1>3, <2>7, <2>8, NothingLostBut DEF Ownership
  <2>10. QED
    BY <2>6, <2>9 DEF Ownership
<1>4. CASE LocalReplyLost(c)
  <2>1. lost' = lost \cup {c} /\ open' = open /\ task' = TasksWithout({c})
    BY <1>4 DEF LocalReplyLost
  <2>2. task'[c] = NoTask /\ \A f \in Fds \ {c} : task'[f] = task[f]
    BY <1>1, <2>1 DEF TasksWithout
  <2>3. Tasks' = Tasks \ {c}
    BY <1>1, <2>2 DEF Tasks
  <2>4. \A v \in Tasks' : task'[v] = task[v] /\ v \in Tasks
    BY <1>1, <2>2, <2>3
  <2>5. OneOwner'
    BY <2>1, <2>3, <2>4, FewerOwners DEF Ownership
  <2>6. \A v \in Tasks : task[v].client_fd # None => v \in Tasks' /\ task'[v] = task[v]
    BY <1>1, <2>2, <2>3
  <2>7. \A f \in Fds \ lost' : f \in Tasks => f \in Tasks'
    BY <2>1, <2>3
  <2>8. NothingElseLost'
    BY <2>1, <2>6, <2>7, NothingLostBut DEF Ownership
  <2>9. QED
    BY <2>5, <2>8 DEF Ownership
<1>5. QED
  BY <1>2, <1>3, <1>4 DEF ForwardLeaks

\* Nothing is open at first.
LEMMA OwnershipInit == Init => Ownership
<1> SUFFICES ASSUME Init PROVE Ownership
  OBVIOUS
<1>1. Tasks = {}
  BY DEF Init, Tasks
<1>2. \A f \in Fds : open[f] = "closed"
  BY DEF Init
<1>3. QED
  BY <1>1, <1>2 DEF Ownership, OneOwner, NothingElseLost

\* Ending tasks, answered or not, is one step of ownership.
LEMMA RespondOwners ==
  ASSUME Descriptors, Ownership, NEW S \in SUBSET Tasks, NEW X \in SUBSET S,
         \A u \in X : task[u].op \in Exchange, Respond(S, X), lost' = lost
  PROVE  Ownership'
<1>1. OneOwner'
  BY RespondKeepsOwners DEF Ownership
<1>2. NothingElseLost'
  BY RespondLosesNothing DEF Ownership
<1>3. QED
  BY <1>1, <1>2 DEF Ownership

\* So is finishing them.
LEMMA FinishOwners ==
  ASSUME Descriptors, Ownership, NEW S \in SUBSET Tasks, finish_task(S), lost' = lost
  PROVE  Ownership'
<1>1. S \in SUBSET Fds
  BY DEF Tasks
<1>2. Respond(S, {})
  BY <1>1, FinishIsRespond
<1>3. {} \in SUBSET S /\ \A u \in {} : task[u].op \in Exchange
  OBVIOUS
<1>4. QED
  BY <1>2, <1>3, RespondOwners

\* Every handler of an event keeps the owners.
LEMMA ReceiveOwners ==
  ASSUME Descriptors, Ownership, NEW f \in Fds, process_receive(f)
  PROVE  Ownership'
<1>0. ASSUME task[f].op \in {Reading, Writing, Forward, Reply} PROVE f \in Tasks
  BY <1>0, TaskOrNot DEF Reading, Writing, Forward, Reply
<1>1. CASE ReadFails(f)
  BY <1>0, <1>1, FinishOwners DEF ReadFails, Read
<1>2. CASE ReplyLocally(f)
  <2>1. f \in Tasks /\ task[f].op = Reading
    BY <1>0, <1>2 DEF ReplyLocally, Read
  <2> DEFINE t == [task[f] EXCEPT !.op = Writing]
  <2>2. t \in Task /\ t.client_fd = task[f].client_fd /\ t.op = Writing
    BY <2>1, ChangedOp
  <2>3. open' = open /\ lost \subseteq lost' /\ task' = [task EXCEPT ![f] = t]
    BY <1>2 DEF ReplyLocally, ReplyOn
  <2> HIDE DEF t
  <2>4. t.op \in Exchange <=> task[f].op \in Exchange
    BY <2>1, <2>2, Kinds
  <2>5. QED
    BY <2>1, <2>2, <2>3, <2>4, SameOwner
<1>3. CASE ForwardLeaks(f) \/ LocalReplyLost(f)
  BY <1>3, LeakOwners
<1>4. CASE forward_tcp(f)
  BY <1>4, ForwardOwners
<1>5. CASE QueryIsSent(f)
  <2>1. f \in Tasks /\ task[f].op = Forward
    BY <1>0, <1>5 DEF QueryIsSent
  <2> DEFINE t == [task[f] EXCEPT !.op = Reply]
  <2>2. t \in Task /\ t.client_fd = task[f].client_fd /\ t.op = Reply
    BY <2>1, ChangedOp
  <2>3. open' = open /\ lost \subseteq lost' /\ task' = [task EXCEPT ![f] = t]
    BY <1>5 DEF QueryIsSent
  <2> HIDE DEF t
  <2>4. t.op \in Exchange <=> task[f].op \in Exchange
    BY <2>1, <2>2, Kinds
  <2>5. QED
    BY <2>1, <2>2, <2>3, <2>4, SameOwner
<1>6. CASE RetryWithoutEdns(f)
  <2>1. f \in Tasks /\ task[f].op = Reply
    BY <1>0, <1>6 DEF RetryWithoutEdns
  <2> DEFINE t == [task[f] EXCEPT !.op = Forward, !.used_edns = FALSE]
  <2>2. t \in Task /\ t.client_fd = task[f].client_fd /\ t.op = Forward
    BY <2>1, ChangedOp
  <2>3. open' = open /\ lost \subseteq lost' /\ task' = [task EXCEPT ![f] = t]
    BY <1>6 DEF RetryWithoutEdns, Descriptors
  <2> HIDE DEF t
  <2>4. t.op \in Exchange <=> task[f].op \in Exchange
    BY <2>1, <2>2, Kinds
  <2>5. QED
    BY <2>1, <2>2, <2>3, <2>4, SameOwner
<1>7. CASE ExchangeEnds(f)
  <2>1. f \in Tasks /\ task[f].op \in Exchange /\ Respond({f}, {f}) /\ lost' = lost
    BY <1>0, <1>7, Kinds DEF ExchangeEnds
  <2>2. {f} \in SUBSET Tasks /\ {f} \in SUBSET {f} /\ \A u \in {f} : task[u].op \in Exchange
    BY <2>1
  <2>3. QED
    BY <2>1, <2>2, RespondOwners
<1>8. CASE ReplyIsWritten(f)
  <2>1. {f} \in SUBSET Tasks /\ finish_task({f}) /\ lost' = lost
    BY <1>0, <1>8 DEF ReplyIsWritten
  <2>2. QED
    BY <2>1, FinishOwners
<1>9. QED
  BY <1>1, <1>2, <1>3, <1>4, <1>5, <1>6, <1>7, <1>8 DEF process_receive

\* Time changes no owner.
LEMMA TickOwners ==
  ASSUME Descriptors, Ownership, Tick
  PROVE  Ownership'
<1>1. ASSUME NEW f \in Fds
      PROVE  /\ f \in Tasks' <=> f \in Tasks
             /\ task'[f].client_fd = task[f].client_fd
             /\ f \in Tasks => (task'[f].op \in Exchange <=> task[f].op \in Exchange)
  <2>1. task'[f] = IF f \in Tasks THEN [task[f] EXCEPT !.age = Lesser(@ + 1, Timeout)]
                   ELSE NoTask
    BY DEF Tick
  <2>2. CASE f \in Tasks
    <3>1. task[f] \in Task
      BY <2>2, TaskOrNot
    <3>2. Lesser(task[f].age + 1, Timeout) \in 0 .. Timeout
      BY <3>1 DEF Lesser, Task
    <3>3. /\ task'[f] \in Task /\ task'[f].client_fd = task[f].client_fd
          /\ task'[f].op = task[f].op
      BY <2>1, <2>2, <3>2, ChangedAge
    <3>4. task'[f] # NoTask
      BY <3>3, TasksAreReal
    <3>5. f \in Tasks'
      BY <3>4 DEF Tasks
    <3>6. QED
      BY <2>2, <3>3, <3>5
  <2>3. CASE f \notin Tasks
    <3>1. task'[f] = NoTask /\ task[f] = NoTask
      BY <2>1, <2>3 DEF Tasks
    <3>2. QED
      BY <2>3, <3>1 DEF Tasks
  <2>4. QED
    BY <2>2, <2>3
<1>2. open' = open /\ lost \subseteq lost'
  BY DEF Tick
<1>3. QED
  BY <1>1, <1>2, SameOwners

\* Ownership is inductive with the types.
LEMMA OwnershipStep == Descriptors /\ Ownership /\ [Next]_vars => Ownership'
<1> SUFFICES ASSUME Descriptors, Ownership, [Next]_vars PROVE Ownership'
  OBVIOUS
<1>1. ASSUME open' = open, task' = task, lost' = lost PROVE Ownership'
  <2>1. Tasks' = Tasks
    BY <1>1 DEF Tasks
  <2>2. QED
    BY <1>1, <2>1, SameOwners
<1>2. ASSUME NEW l \in Listeners, AcceptClient(l) \/ AcceptFails(l) PROVE Ownership'
  <2>1. CASE AcceptClient(l)
    BY <2>1, AcceptOwners
  <2>2. CASE AcceptFails(l)
    BY <1>1, <2>2 DEF AcceptFails
  <2>3. QED
    BY <1>2, <2>1, <2>2
<1>3. ASSUME NEW f \in Fds, process_receive(f) PROVE Ownership'
  BY <1>3, ReceiveOwners
<1>4. CASE CleanPausedListeners \/ CleanOther \/ UdpQueries
  BY <1>1, <1>4 DEF CleanPausedListeners, CleanOther, UdpQueries
<1>5. CASE CleanExpiredTcp
  <2> DEFINE X == {f \in Expired : task[f].op \in Exchange}
  <2>1. /\ Expired \in SUBSET Tasks /\ X \in SUBSET Expired
        /\ \A u \in X : task[u].op \in Exchange
    BY DEF Expired
  <2>2. Respond(Expired, X) /\ lost' = lost
    BY <1>5 DEF CleanExpiredTcp
  <2> HIDE DEF X
  <2>3. QED
    BY <2>1, <2>2, RespondOwners
<1>6. CASE Tick
  BY <1>6, TickOwners
<1>7. CASE Shutdown
  <2>1. Tasks \in SUBSET Tasks /\ finish_task(Tasks) /\ lost' = lost
    BY <1>7 DEF Shutdown
  <2>2. QED
    BY <2>1, FinishOwners
<1>8. CASE UNCHANGED vars
  BY <1>1, <1>8 DEF vars
<1>9. QED
  BY <1>2, <1>3, <1>4, <1>5, <1>6, <1>7, <1>8 DEF Next, clean

\* Whatever fails in whichever order, a descriptor has at most one owner, and a closed
\* one none: finish_task() closes no descriptor twice and none of a new client.
THEOREM OneOwnerHolds == Spec => []OneOwner
<1>1. Init => Descriptors
  BY DEF Init, Descriptors
<1>2. Ownership => OneOwner
  BY DEF Ownership
<1>3. QED
  BY <1>1, <1>2, OwnershipInit, DescriptorsStep, OwnershipStep, PTL DEF Spec

\* But for the two error paths that lose one, every open descriptor has an owner that
\* will close it.
THEOREM NothingIsLost == Spec => []NothingElseLost
<1>1. Init => Descriptors
  BY DEF Init, Descriptors
<1>2. Ownership => NothingElseLost
  BY DEF Ownership
<1>3. QED
  BY <1>1, <1>2, OwnershipInit, DescriptorsStep, OwnershipStep, PTL DEF Spec

-----------------------------------------------------------------------------
(***************************************************************************)
(* The limits. The tasks alone stay within both: a step that gives a       *)
(* descriptor a task takes one from another, unless a client is accepted.  *)
(* The clients are as many at most, for every descriptor of a client that  *)
(* is not lost has a task, its own or the one exchange it waits for.       *)
(***************************************************************************)

Limits ==
  /\ active_task_count <= MaxTasks
  /\ connected_tcp_client_count <= MaxTcpClients

\* Where each member of S finds one of T of its own, there are no fewer in T.
LEMMA OneEach ==
  ASSUME NEW S, NEW T, IsFiniteSet(T), NEW m \in [S -> T],
         \A x, y \in S : m[x] = m[y] => x = y
  PROVE  Cardinality(S) <= Cardinality(T)
<1>1. m \in Injection(S, T)
  BY DEF Injection, IsInjective
<1>2. QED
  BY <1>1, FS_Injection

LEMMA TasksAreFinite == IsFiniteSet(Tasks) /\ Cardinality(Tasks) \in Nat
  BY FS_Subset, FS_CardinalityType DEF Tasks

LEMMA OneMore ==
  ASSUME NEW S, NEW x, IsFiniteSet(S)
  PROVE  /\ IsFiniteSet(S \cup {x}) /\ Cardinality(S \cup {x}) \in Nat
         /\ Cardinality(S \cup {x}) <= Cardinality(S) + 1
<1>1. Cardinality(S) \in Nat
  BY FS_CardinalityType
<1>2. /\ IsFiniteSet(S \cup {x})
      /\ Cardinality(S \cup {x}) = IF x \in S THEN Cardinality(S) ELSE Cardinality(S) + 1
  BY FS_AddElement
<1>3. QED
  BY <1>1, <1>2

\* No more tasks and no more queries than before keep the limits.
LEMMA NoMoreTasks ==
  ASSUME Counters, Limits, udp_queries' = udp_queries, IsFiniteSet(Tasks'),
         Cardinality(Tasks') <= Cardinality(Tasks)
  PROVE  Limits'
<1>1. Cardinality(Tasks) \in Nat /\ Cardinality(Tasks') \in Nat
  BY TasksAreFinite, FS_CardinalityType
<1>2. /\ Cardinality(Tasks) + udp_queries <= MaxTasks
      /\ Cardinality(Tasks) <= MaxTcpClients
  BY DEF Limits, active_task_count, connected_tcp_client_count
<1>3. udp_queries \in Nat
  BY DEF Counters
<1>4. /\ Cardinality(Tasks') + udp_queries' <= MaxTasks
      /\ Cardinality(Tasks') <= MaxTcpClients
  BY <1>1, <1>2, <1>3
<1>5. QED
  BY <1>4 DEF Limits, active_task_count, connected_tcp_client_count

LEMMA NoNewTasks ==
  ASSUME Counters, Limits, udp_queries' = udp_queries, Tasks' \subseteq Tasks
  PROVE  Limits'
  BY TasksAreFinite, FS_Subset, NoMoreTasks

\* Every reply has the place of the exchange it ends.
LEMMA RespondLimits ==
  ASSUME Descriptors, Counters, Limits, NEW S \in SUBSET Tasks, NEW X \in SUBSET S,
         Respond(S, X), udp_queries' = udp_queries
  PROVE  Limits'
<1>0. S \subseteq Fds
  BY DEF Tasks
<1>1. PICK Sent \in SUBSET X : Responded(S, Sent)
  BY <1>0, RespondResult
<1> DEFINE A    == {task[u].client_fd : u \in Sent}
           m    == [f \in Tasks' |-> IF f \in A THEN CHOOSE u \in Sent : task[u].client_fd = f
                                     ELSE f]
<1>2. ASSUME NEW f \in A PROVE \E u \in Sent : task[u].client_fd = f
  OBVIOUS
<1>3. ASSUME NEW f \in Tasks', f \in A PROVE m[f] \in Sent /\ task[m[f]].client_fd = f
  BY <1>2, <1>3
<1>4. ASSUME NEW f \in Tasks', f \notin A PROVE m[f] = f /\ f \in Tasks \ S
  BY <1>1, <1>4 DEF Responded, Tasks
<1>5. m \in [Tasks' -> Tasks]
  BY <1>3, <1>4
<1>6. \A f, g \in Tasks' : m[f] = m[g] => f = g
  BY <1>3, <1>4
<1> HIDE DEF m
<1>7. Cardinality(Tasks') <= Cardinality(Tasks)
  BY <1>5, <1>6, OneEach, TasksAreFinite
<1>8. IsFiniteSet(Tasks')
  BY FS_Subset DEF Tasks
<1>9. QED
  BY <1>7, <1>8, NoMoreTasks

LEMMA FinishLimits ==
  ASSUME Descriptors, Counters, Limits, NEW S \in SUBSET Tasks, finish_task(S),
         udp_queries' = udp_queries
  PROVE  Limits'
<1>1. S \in SUBSET Fds
  BY DEF Tasks
<1>2. Respond(S, {})
  BY <1>1, FinishIsRespond
<1>3. QED
  BY <1>2, RespondLimits

\* A client is accepted where there is room for a task and for a client.
LEMMA AcceptLimits ==
  ASSUME Descriptors, Counters, Limits, NEW l \in Listeners, AcceptClient(l)
  PROVE  Limits'
<1>1. PICK c \in Closed : task' = [task EXCEPT ![c] = NewTask(Reading, None)]
  BY DEF AcceptClient
<1>2. Tasks' \subseteq Tasks \cup {c}
  BY <1>1 DEF Tasks, Closed, Descriptors
<1>3. /\ IsFiniteSet(Tasks \cup {c}) /\ Cardinality(Tasks \cup {c}) \in Nat
      /\ Cardinality(Tasks \cup {c}) <= Cardinality(Tasks) + 1
  BY TasksAreFinite, OneMore
<1>4. Cardinality(Tasks') <= Cardinality(Tasks \cup {c}) /\ Cardinality(Tasks') \in Nat
  BY <1>2, <1>3, FS_Subset, FS_CardinalityType
<1>5. /\ Cardinality(Tasks) + udp_queries < MaxTasks
      /\ Cardinality(Tasks) < MaxTcpClients
      /\ udp_queries' = udp_queries
  BY DEF AcceptClient, HasRoom, active_task_count, connected_tcp_client_count, others
<1>6. /\ Cardinality(Tasks') + udp_queries' <= MaxTasks
      /\ Cardinality(Tasks') <= MaxTcpClients
  BY <1>3, <1>4, <1>5, TasksAreFinite DEF Counters
<1>7. QED
  BY <1>6 DEF Limits, active_task_count, connected_tcp_client_count

\* The task of the query gives its place to that of the exchange.
LEMMA ForwardLimits ==
  ASSUME Descriptors, Counters, Limits, NEW c \in Fds, forward_tcp(c)
  PROVE  Limits'
<1>1. PICK u \in Closed : task' = [task EXCEPT ![u] = NewTask(Forward, c), ![c] = NoTask]
  BY DEF forward_tcp
<1>2. c \in Tasks
  BY TaskOrNot DEF forward_tcp, Read, Reading
<1>3. Tasks' \subseteq (Tasks \ {c}) \cup {u}
  BY <1>1, <1>2 DEF Tasks, Closed, Descriptors
<1>4. /\ IsFiniteSet(Tasks \ {c})
      /\ Cardinality(Tasks \ {c}) = Cardinality(Tasks) - 1
  BY <1>2, TasksAreFinite, FS_RemoveElement
<1>5. /\ IsFiniteSet((Tasks \ {c}) \cup {u})
      /\ Cardinality((Tasks \ {c}) \cup {u}) <= Cardinality(Tasks)
      /\ Cardinality((Tasks \ {c}) \cup {u}) \in Nat
  <2>1. Cardinality((Tasks \ {c}) \cup {u}) <= Cardinality(Tasks \ {c}) + 1
    BY <1>4, OneMore
  <2>2. Cardinality((Tasks \ {c}) \cup {u}) \in Nat /\ IsFiniteSet((Tasks \ {c}) \cup {u})
    BY <1>4, OneMore
  <2>3. QED
    BY <1>4, <2>1, <2>2, TasksAreFinite
<1>6. IsFiniteSet(Tasks') /\ Cardinality(Tasks') <= Cardinality(Tasks)
  BY <1>3, <1>5, FS_Subset, FS_CardinalityType, TasksAreFinite
<1>7. udp_queries' = udp_queries
  BY DEF forward_tcp, Read, others
<1>8. QED
  BY <1>6, <1>7, NoMoreTasks

\* Every handler of an event keeps the limits, whatever fails in it.
LEMMA ReceiveLimits ==
  ASSUME Descriptors, Counters, Limits, NEW f \in Fds, process_receive(f)
  PROVE  Limits'
<1>0. ASSUME task[f].op \in {Reading, Writing, Forward, Reply} PROVE f \in Tasks
  BY <1>0, TaskOrNot DEF Reading, Writing, Forward, Reply
<1>1. ASSUME f \in Tasks, task' = [task EXCEPT ![f] = task'[f]] \/ task' = TasksWithout({f}),
             udp_queries' = udp_queries
      PROVE  Limits'
  <2>1. Tasks' \subseteq Tasks
    BY <1>1 DEF Tasks, TasksWithout, Descriptors
  <2>2. QED
    BY <1>1, <2>1, NoNewTasks
<1>2. CASE ReadFails(f)
  BY <1>0, <1>2, FinishLimits DEF ReadFails, Read, others
<1>3. CASE ReplyLocally(f) \/ ForwardLeaks(f) \/ LocalReplyLost(f)
  BY <1>0, <1>1, <1>3 DEF ReplyLocally, ForwardLeaks, LocalReplyLost, Read, ReplyOn, others,
                          Descriptors
<1>4. CASE forward_tcp(f)
  BY <1>4, ForwardLimits
<1>5. CASE QueryIsSent(f) \/ RetryWithoutEdns(f)
  BY <1>0, <1>1, <1>5 DEF QueryIsSent, RetryWithoutEdns, others, Descriptors
<1>6. CASE ExchangeEnds(f)
  <2>1. task[f].op \in {Reading, Writing, Forward, Reply} /\ Respond({f}, {f})
        /\ udp_queries' = udp_queries
    BY <1>6, Kinds DEF ExchangeEnds, others
  <2>2. QED
    BY <1>0, <2>1, RespondLimits
<1>7. CASE ReplyIsWritten(f)
  BY <1>0, <1>7, FinishLimits DEF ReplyIsWritten, others
<1>8. QED
  BY <1>2, <1>3, <1>4, <1>5, <1>6, <1>7 DEF process_receive

\* The limits are inductive with the types.
LEMMA LimitsStep == Descriptors /\ Counters /\ Limits /\ [Next]_vars => Limits'
<1> SUFFICES ASSUME Descriptors, Counters, Limits, [Next]_vars PROVE Limits'
  OBVIOUS
<1>1. ASSUME task' = task, udp_queries' = udp_queries PROVE Limits'
  BY <1>1, NoNewTasks DEF Tasks
<1>2. ASSUME NEW l \in Listeners, AcceptClient(l) \/ AcceptFails(l) PROVE Limits'
  <2>1. CASE AcceptClient(l)
    BY <2>1, AcceptLimits
  <2>2. CASE AcceptFails(l)
    BY <1>1, <2>2 DEF AcceptFails
  <2>3. QED
    BY <1>2, <2>1, <2>2
<1>3. ASSUME NEW f \in Fds, process_receive(f) PROVE Limits'
  BY <1>3, ReceiveLimits
<1>4. CASE CleanPausedListeners \/ CleanOther
  BY <1>1, <1>4 DEF CleanPausedListeners, CleanOther
<1>5. CASE CleanExpiredTcp
  <2> DEFINE X == {f \in Expired : task[f].op \in Exchange}
  <2>1. Expired \in SUBSET Tasks /\ X \in SUBSET Expired
    BY DEF Expired
  <2>2. Respond(Expired, X) /\ udp_queries' = udp_queries
    BY <1>5 DEF CleanExpiredTcp
  <2> HIDE DEF X
  <2>3. QED
    BY <2>1, <2>2, RespondLimits
<1>6. CASE UdpQueries
  <2>1. Tasks' = Tasks
    BY <1>6 DEF UdpQueries, Tasks
  <2>2. \/ Cardinality(Tasks) + udp_queries < MaxTasks /\ udp_queries' = udp_queries + 1
        \/ udp_queries' = udp_queries - 1
    BY <1>6 DEF UdpQueries, active_task_count
  <2>3. QED
    BY <2>1, <2>2, TasksAreFinite
    DEF Limits, Counters, active_task_count, connected_tcp_client_count
<1>7. CASE Tick
  <2>1. Tasks' \subseteq Tasks
    BY <1>7 DEF Tick, Tasks
  <2>2. QED
    BY <1>7, <2>1, NoNewTasks DEF Tick
<1>8. CASE Shutdown
  BY <1>8, FinishLimits DEF Shutdown
<1>9. CASE UNCHANGED vars
  BY <1>1, <1>9 DEF vars
<1>10. QED
  BY <1>2, <1>3, <1>4, <1>5, <1>6, <1>7, <1>8, <1>9 DEF Next, clean

\* A client that is not lost has a task of its own or an exchange to itself.
LEMMA ClientsHaveTasks ==
  Descriptors /\ Ownership =>
    Cardinality({f \in Fds \ lost : open[f] = "client"}) <= Cardinality(Tasks)
<1> SUFFICES ASSUME Descriptors, Ownership
             PROVE  Cardinality({f \in Fds \ lost : open[f] = "client"}) <= Cardinality(Tasks)
  OBVIOUS
<1> DEFINE Clients == {f \in Fds \ lost : open[f] = "client"}
           m       == [f \in Clients |-> IF f \in Tasks THEN f
                                         ELSE CHOOSE u \in Tasks : task[u].client_fd = f]
<1>1. ASSUME NEW f \in Clients, f \notin Tasks
      PROVE  m[f] \in Tasks /\ task[m[f]].client_fd = f
  <2>1. \E u \in Tasks : task[u].client_fd = f
    BY <1>1 DEF Ownership, NothingElseLost, Owned
  <2>2. QED
    BY <1>1, <2>1
<1>2. ASSUME NEW f \in Clients, f \in Tasks
      PROVE  m[f] = f /\ task[f].client_fd = None
  BY <1>2 DEF Ownership, OneOwner
<1>3. m \in [Clients -> Tasks]
  BY <1>1, <1>2
<1>4. \A f, g \in Clients : m[f] = m[g] => f = g
  BY <1>1, <1>2
<1> HIDE DEF m
<1>5. QED
  BY <1>3, <1>4, OneEach, TasksAreFinite

\* TCP and UDP together stay within max-tasks, and the connected clients within
\* max-tcp-clients, whichever tasks their descriptors pass through.
THEOREM WithinLimitsHolds == Spec => []WithinLimits
<1>1. Init => Descriptors /\ Counters /\ Limits
  <2> SUFFICES ASSUME Init PROVE Descriptors /\ Counters /\ Limits
    OBVIOUS
  <2>1. Descriptors /\ Counters
    BY DEF Init, Descriptors, Counters, Accepting
  <2>2. Tasks = {} /\ udp_queries = 0
    BY DEF Init, Tasks
  <2>3. Cardinality({}) = 0
    BY FS_EmptySet
  <2>4. QED
    BY <2>1, <2>2, <2>3 DEF Limits, active_task_count, connected_tcp_client_count
<1>2. Descriptors /\ Ownership /\ Limits => WithinLimits
  <2> SUFFICES ASSUME Descriptors, Ownership, Limits PROVE WithinLimits
    OBVIOUS
  <2> DEFINE Clients == {f \in Fds \ lost : open[f] = "client"}
  <2>1. Cardinality(Clients) \in Nat
    BY FS_Subset, FS_CardinalityType
  <2>2. Cardinality(Clients) <= Cardinality(Tasks)
    BY ClientsHaveTasks
  <2> HIDE DEF Clients
  <2>3. Cardinality(Clients) <= MaxTcpClients
    BY <2>1, <2>2, TasksAreFinite DEF Limits, connected_tcp_client_count
  <2>4. QED
    BY <2>3 DEF WithinLimits, Limits, Clients
<1>3. QED
  BY <1>1, <1>2, OwnershipInit, DescriptorsStep, CountersStep, OwnershipStep, LimitsStep, PTL
  DEF Spec
=============================================================================
