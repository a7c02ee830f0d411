------------------------------- MODULE TcpTask -------------------------------
(***************************************************************************)
(* DNS over TCP: a task for every descriptor the loop waits on. A client's *)
(* descriptor has a task of its own while its query is read and its reply  *)
(* written; in between it belongs to the task of an upstream connection    *)
(* and to no other. Every handler may fail half way, and a closed number   *)
(* is soon in use again.                                                   *)
(***************************************************************************)
EXTENDS Integers, FiniteSets

CONSTANTS
  Fds,           \* the descriptor numbers the process may have
  None,          \* no descriptor, -1
  Listeners,     \* the listening sockets, which are always open
  MaxTasks,      \* options.max_tasks
  MaxTcpClients, \* options.max_tcp_clients
  Timeout,       \* the timeouts of tasks, in clock ticks
  Pause          \* how long accept() rests after EMFILE or ENFILE

ASSUME TcpTaskAssumption ==
  /\ IsFiniteSet(Fds) /\ None \notin Fds
  /\ MaxTasks \in Nat \ {0} /\ MaxTcpClients \in Nat \ {0}
  /\ Timeout \in Nat \ {0} /\ Pause \in Nat \ {0}

VARIABLES
  open,         \* descriptor -> what the kernel has it open as
  task,         \* tasks_by_fd
  udp_queries,  \* udp_queries_by_local_txid.size()
  paused,       \* paused_listeners: ticks until the next attempt, or Accepting
  clean_state,  \* the phase the next clean() runs
  running,      \* the loop has not been left
  lost          \* the descriptors two error paths have left open (history)

vars == <<open, task, udp_queries, paused, clean_state, running, lost>>

Accepting == -1
Reading   == "READING_FROM_CLIENT"
Writing   == "WRITING_TO_CLIENT_TCP"
Forward   == "FORWARD_TO_UPSTREAM_TCP"
Reply     == "REPLY_TO_CLIENT_TCP"
Exchange  == {Forward, Reply}

Task == [op : {Reading, Writing, Forward, Reply}, client_fd : Fds \cup {None},
         used_edns : BOOLEAN, age : 0 .. Timeout]

NoTask == [op |-> "NONE", client_fd |-> None, used_edns |-> FALSE, age |-> 0]
NewTask(op, c) == [op |-> op, client_fd |-> c, used_edns |-> op = Forward, age |-> 0]

TypeOK ==
  /\ open \in [Fds -> {"closed", "client", "upstream"}]
  /\ task \in [Fds -> Task \cup {NoTask}]
  /\ udp_queries \in 0 .. MaxTasks
  /\ paused \in [Listeners -> {Accepting} \cup 0 .. Pause]
  /\ clean_state \in 0 .. 4
  /\ running \in BOOLEAN
  /\ lost \in SUBSET Fds

Init ==
  /\ open = [f \in Fds |-> "closed"]
  /\ task = [f \in Fds |-> NoTask]
  /\ udp_queries = 0
  /\ paused = [l \in Listeners |-> Accepting]
  /\ clean_state = 0
  /\ running = TRUE
  /\ lost = {}

-----------------------------------------------------------------------------
Tasks             == {f \in Fds : task[f] # NoTask}
active_task_count == Cardinality(Tasks) + udp_queries
Closed            == {f \in Fds : open[f] = "closed"}

\* Every task stands for one client, whichever descriptor it waits on.
connected_tcp_client_count == Cardinality(Tasks)

\* finish_task() for each task of S: its descriptor is closed, and its client's too
\* unless the client is in Kept. Mutant: no client is closed with the task it waits for.
ClosedAlone(S, Kept) == [f \in Fds |-> IF f \in S THEN "closed" ELSE open[f]]
ClosedBy(S, Kept) ==
  [f \in Fds |-> IF f \in S \/ f \in {task[u].client_fd : u \in S} \ Kept
                 THEN "closed" ELSE open[f]]
TasksWithout(S) == [f \in Fds |-> IF f \in S THEN NoTask ELSE task[f]]

finish_task(S) ==
  /\ open' = ClosedBy(S, {})
  /\ task' = TasksWithout(S)

\* The upstream exchanges of X are over, whatever came of them. Each reply goes to a
\* new task on the client's descriptor, or closes it when it cannot be sent. The
\* other tasks of S are finished with their clients.
Respond(S, X) ==
  \E Sent \in SUBSET X :
    LET Answered == {task[u].client_fd : u \in Sent} IN
    /\ Sent # {} => active_task_count - 1 < MaxTasks
    /\ open' = ClosedBy(S, Answered)
    /\ task' = [f \in Fds |-> IF f \in Answered THEN NewTask(Writing, None)
                              ELSE TasksWithout(S)[f]]

\* A reply on the task the client's query was read by, which keeps its age.
ReplyOn(c) == [task EXCEPT ![c].op = Writing]

others == <<udp_queries, paused, clean_state, running>>

\* Mutant: only the clients whose query is being read are counted.
HasRoomToRead ==
  /\ active_task_count < MaxTasks
  /\ Cardinality({f \in Tasks : task[f].op = Reading}) < MaxTcpClients
HasRoom == active_task_count < MaxTasks /\ connected_tcp_client_count < MaxTcpClients

-----------------------------------------------------------------------------
(***************************************************************************)
(* process_tcp. Connections that are not admitted are closed at once.      *)
(***************************************************************************)
AcceptClient(l) ==
  /\ running /\ paused[l] = Accepting
  /\ HasRoom
  /\ \E c \in Closed : /\ open' = [open EXCEPT ![c] = "client"]
                       /\ task' = [task EXCEPT ![c] = NewTask(Reading, None)]
  /\ UNCHANGED <<others, lost>>

\* accept() may fail for the whole system, ENFILE, and does when no number is left.
AcceptFails(l) ==
  /\ running /\ paused[l] = Accepting
  /\ paused' = [paused EXCEPT ![l] = Pause]
  /\ UNCHANGED <<open, task, udp_queries, clean_state, running, lost>>

(***************************************************************************)
(* process_receive, by the state of the task found for the descriptor. An  *)
(* event without a task, a read or write that wants more and a reply that  *)
(* ends a retry change nothing here.                                       *)
(***************************************************************************)
Read(c) == running /\ task[c].op = Reading /\ UNCHANGED others

\* The connection ended, or not even an error reply could be queued.
ReadFails(c) == Read(c) /\ finish_task({c}) /\ UNCHANGED lost

\* An error, a local answer, or SERVFAIL after forwarding failed; a socket that
\* could not be connected is closed again.
ReplyLocally(c) == Read(c) /\ task' = ReplyOn(c) /\ UNCHANGED <<open, lost>>

\* forward_tcp() gave up without closing the socket it had opened: no id was free, or
\* the query could not be built. SERVFAIL may fail as well.
ForwardLeaks(c) ==
  /\ Read(c)
  /\ \E u \in Closed :
       /\ lost' = lost \cup {u}
       /\ \/ open' = [open EXCEPT ![u] = "upstream"] /\ task' = ReplyOn(c)
          \/ open' = [open EXCEPT ![u] = "upstream", ![c] = "closed"] /\ task' = TasksWithout({c})

\* A local answer that could not be built is taken for a query that was forwarded.
LocalReplyLost(c) ==
  /\ Read(c)
  /\ task' = TasksWithout({c})
  /\ lost' = lost \cup {c}
  /\ UNCHANGED open

\* The task of the query ends; its descriptor moves to the upstream task. Mutant: the
\* client keeps its task.
ForwardShared(c) ==
  /\ Read(c) /\ UNCHANGED lost
  /\ \E u \in Closed : /\ open' = [open EXCEPT ![u] = "upstream"]
                       /\ task' = [task EXCEPT ![u] = NewTask(Forward, c)]
forward_tcp(c) ==
  /\ Read(c) /\ UNCHANGED lost
  /\ \E u \in Closed : /\ open' = [open EXCEPT ![u] = "upstream"]
                       /\ task' = [task EXCEPT ![u] = NewTask(Forward, c), ![c] = NoTask]

QueryIsSent(u) ==
  /\ running /\ task[u].op = Forward
  /\ task' = [task EXCEPT ![u].op = Reply]
  /\ UNCHANGED <<open, others, lost>>

RetryWithoutEdns(u) ==
  /\ running /\ task[u].op = Reply /\ task[u].used_edns
  /\ task' = [task EXCEPT ![u].op = Forward, ![u].used_edns = FALSE]
  /\ UNCHANGED <<open, others, lost>>

\* An answer, or anything that cannot be one: the client gets it or SERVFAIL.
ExchangeEnds(u) ==
  /\ running /\ task[u].op \in Exchange
  /\ Respond({u}, {u})
  /\ UNCHANGED <<others, lost>>

ReplyIsWritten(c) ==
  /\ running /\ task[c].op = Writing
  /\ finish_task({c})
  /\ UNCHANGED <<others, lost>>

process_receive(f) ==
  \/ ReadFails(f) \/ ReplyLocally(f) \/ ForwardLeaks(f) \/ LocalReplyLost(f)
  \/ forward_tcp(f) \/ QueryIsSent(f) \/ RetryWithoutEdns(f)
  \/ ExchangeEnds(f) \/ ReplyIsWritten(f)

-----------------------------------------------------------------------------
(***************************************************************************)
(* The phases of clean. Those that look after UDP only move on.            *)
(***************************************************************************)
CleanPausedListeners ==
  /\ running /\ clean_state = 0
  /\ \E Resumed \in SUBSET {l \in Listeners : paused[l] = 0} :
       paused' = [l \in Listeners |-> IF l \in Resumed THEN Accepting
                                      ELSE IF paused[l] = 0 THEN Pause ELSE paused[l]]
  /\ clean_state' = 1
  /\ UNCHANGED <<open, task, udp_queries, running, lost>>

\* Mutant: only exchanges time out.
ExpiredExchanges == {f \in Tasks : task[f].age = Timeout /\ task[f].op \in Exchange}
Expired == {f \in Tasks : task[f].age = Timeout}

CleanExpiredTcp ==
  /\ running /\ clean_state = 1
  /\ Respond(Expired, {f \in Expired : task[f].op \in Exchange})
  /\ clean_state' = 2
  /\ UNCHANGED <<udp_queries, paused, running, lost>>

\* Mutant: after the last phase the first never comes again.
CleanWithoutReset ==
  /\ running /\ clean_state \in 2 .. 4
  /\ clean_state' = IF clean_state = 4 THEN 4 ELSE clean_state + 1
  /\ UNCHANGED <<open, task, udp_queries, paused, running, lost>>
CleanOther ==
  /\ running /\ clean_state \in 2 .. 4
  /\ clean_state' = (clean_state + 1) % 5
  /\ UNCHANGED <<open, task, udp_queries, paused, running, lost>>

clean == CleanPausedListeners \/ CleanExpiredTcp \/ CleanOther

-----------------------------------------------------------------------------
\* What UDP does to the shared capacity.
UdpQueries ==
  /\ running
  /\ \/ active_task_count < MaxTasks /\ udp_queries' = udp_queries + 1
     \/ udp_queries > 0 /\ udp_queries' = udp_queries - 1
  /\ UNCHANGED <<open, task, paused, clean_state, running, lost>>

Lesser(a, b) == IF a <= b THEN a ELSE b

Tick ==
  /\ running
  /\ task' = [f \in Fds |-> IF f \in Tasks
                            THEN [task[f] EXCEPT !.age = Lesser(@ + 1, Timeout)] ELSE NoTask]
  /\ paused' = [l \in Listeners |-> IF paused[l] > 0 THEN paused[l] - 1 ELSE paused[l]]
  /\ UNCHANGED <<open, udp_queries, clean_state, running, lost>>

\* The loop is left: every task is finished, with its client.
Shutdown ==
  /\ running
  /\ finish_task(Tasks)
  /\ running' = FALSE
  /\ UNCHANGED <<udp_queries, paused, clean_state, lost>>

Next ==
  \/ \E l \in Listeners : AcceptClient(l) \/ AcceptFails(l)
  \/ \E f \in Fds : process_receive(f)
  \/ clean
  \/ UdpQueries
  \/ Tick
  \/ Shutdown

Spec == Init /\ [][Next]_vars

\* Time passes, the loop calls clean(), and epoll_ctl() does not for ever refuse to
\* take a listener back. No client or upstream is assumed to do anything.
FairSpec ==
  /\ Spec
  /\ WF_vars(Tick) /\ WF_vars(clean)
  /\ \A l \in Listeners :
       SF_vars(CleanPausedListeners /\ paused[l] = 0 /\ paused'[l] = Accepting)

-----------------------------------------------------------------------------
(***************************************************************************)
(* Properties                                                              *)
(***************************************************************************)

\* A descriptor has at most one owner, which is a task registered for it or the one
\* exchange it waits for, and nobody owns a closed one: whatever fails in whichever
\* order, no descriptor is closed twice, and none of a new client by an old task.
OneOwner ==
  /\ \A u \in Tasks :
       IF task[u].op \in Exchange
       THEN /\ open[u] = "upstream"
            /\ task[u].client_fd \in Fds \ Tasks
            /\ open[task[u].client_fd] = "client"
       ELSE open[u] = "client" /\ task[u].client_fd = None
  /\ \A u, v \in Tasks :
       task[u].client_fd = task[v].client_fd => u = v \/ task[u].client_fd = None

Owned(f) == f \in Tasks \/ \E u \in Tasks : task[u].client_fd = f

\* A client's descriptor that has left its reading task belongs to the upstream task
\* it waits for, as the comment says where the reading task lets go of it (3523).
ClientsAreOwned == \A f \in Fds : open[f] = "client" => Owned(f)

\* Every open descriptor belongs to a task, registered for it or waiting to answer it,
\* that will close it: but for two error paths, no step of several failing loses one.
NothingElseLost == \A f \in Fds \ lost : open[f] = "closed" \/ Owned(f)

\* TCP and UDP together stay within max-tasks, and the connected clients, wherever
\* their descriptors are kept, within max-tcp-clients.
WithinLimits ==
  /\ active_task_count <= MaxTasks
  /\ Cardinality({f \in Fds \ lost : open[f] = "client"}) <= MaxTcpClients

\* Every client's descriptor is closed in the end, though it passes through up to
\* three tasks with timeouts of their own.
ClientsLeave ==
  \A f \in Fds : open[f] = "client" ~> open[f] = "closed" \/ f \in lost

\* A listener that rests accepts again, unless the server stops, however often
\* waking it has failed.
ListenersResume ==
  \A l \in Listeners : paused[l] # Accepting /\ running ~> paused[l] = Accepting \/ ~running
=============================================================================
