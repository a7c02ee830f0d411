------------------------------ MODULE UdpForward ------------------------------
(***************************************************************************)
(* The UDP forwarding path of BEHIND: client queries for the same name are *)
(* coalesced into one transaction, a transaction is fanned out to several  *)
(* upstream forwarders over pooled sockets, and the first answer (or the   *)
(* first deadline that passes) ends it for every client that waits on it.  *)
(*                                                                         *)
(* Everything here runs on the one thread of the event loop, so an action  *)
(* is a whole event handler. What interleaves is the world: client         *)
(* queries, upstream datagrams (any, in any order, any number of times),   *)
(* the clock, the maintenance phases and the TCP tasks that share the      *)
(* task capacity.                                                          *)
(***************************************************************************)
EXTENDS Integers, FiniteSets

CONSTANTS
  Requests,              \* client datagrams; each is one query of one client
  Names,                 \* coalescing keys: lower-cased name, type and class
  NameOf,                \* the key a request asks for
  RootNames,             \* the keys of the root, which is never looked up here
  Forwarders,            \* upstream endpoints, with distinct addresses
  Route,                 \* the forwarders choose_forwarder() may draw for a key
  Txids,                 \* the 16-bit upstream transaction ids
  ChannelsPerForwarder,  \* BEHIND_UPSTREAM_UDP_CHANNELS_PER_FORWARDER
  MaxTasks,              \* options.max_tasks
  MaxWaiters,            \* MAX_WAITERS_PER_QUERY
  UdpMultipleForwarding, \* options.udp_multiple_forwarding
  Timeout,               \* options.upstream_timeout_ms, in clock ticks
  MaxTransactions,       \* bound on next_local_transaction_id()
  MaxTcpTasks            \* bound on the slots the TCP path holds at once

ASSUME UdpForwardAssumption ==
  /\ NameOf \in [Requests -> Names]
  /\ RootNames \subseteq Names
  /\ Route \in [Names -> SUBSET Forwarders]
  /\ Txids # {}
  /\ IsFiniteSet(Requests) /\ IsFiniteSet(Forwarders) /\ IsFiniteSet(Txids)
  /\ ChannelsPerForwarder \in Nat \ {0}
  /\ MaxTasks \in Nat \ {0}
  /\ MaxWaiters \in Nat \ {0}
  /\ UdpMultipleForwarding \in Nat \ {0}
  /\ Timeout \in Nat \ {0}
  /\ MaxTransactions \in Nat
  /\ MaxTcpTasks \in 0 .. MaxTasks

VARIABLES
  pending_udp,          \* key -> the transaction its PendingQuery belongs to
  waiters,              \* transaction -> the waiters of its PendingQuery
  by_local_txid,        \* udp_queries_by_local_txid: the registered queries
  by_socket_txid,       \* udp_queries_by_socket_txid: <<channel, id, query>>
  query,                \* the fields of a UdpQuery that change its behaviour
  channel_count,        \* forwarder -> sockets opened to it so far
  active_queries,       \* channel -> UdpChannel::active_queries
  active_txids,         \* <<forwarder, id>> -> age of the reservation, or Free
  cache,                \* key -> what is cached for it, and by which path
  tcp_tasks,            \* m->tasks_by_fd.size()
  tcp_txids,            \* <<forwarder, id>> that TCP tasks will release
  local_transaction_id, \* the next local transaction id
  clean_state,          \* the phase the next clean() runs
  status,               \* request -> where its query is
  replies               \* request -> datagrams sent in answer (history)

network == <<by_local_txid, by_socket_txid, query, channel_count,
             active_queries, active_txids>>
vars == <<pending_udp, waiters, network, cache, tcp_tasks, tcp_txids,
          local_transaction_id, clean_state, status, replies>>

-------------------------------------------------------------------------------
Ltids    == 0 .. (MaxTransactions - 1)
Channels == Forwarders \X (1 .. ChannelsPerForwarder)

\* A UdpQuery is known by its transaction and the forwarder it was sent to:
\* a transaction draws each forwarder once.
QueryIds == Ltids \X Forwarders

UdpQuery == [channel     : 1 .. ChannelsPerForwarder,
             upstream_id : Txids,
             used_edns   : BOOLEAN,
             age         : 0 .. Timeout]

\* What the cache the two paths share may hold for a key: nothing, or an answer or
\* a failure that the UDP path stored, or one that the TCP path stored.
FromTcp == {"tcp_answer", "tcp_failure"}
Entries == {"none", "answer", "failure"} \cup FromTcp

NoTransaction == -1
Free          == -1

\* The body of a UdpQuery that has not been made yet.
NullQuery == [channel |-> 1, upstream_id |-> CHOOSE i \in Txids : TRUE,
              used_edns |-> TRUE, age |-> 0]

Lesser(a, b) == IF a <= b THEN a ELSE b

ChannelOf(q)  == <<q[2], query[q].channel>>
SocketKey(q)  == <<ChannelOf(q), query[q].upstream_id, q>>

\* Mutant: the query found last is the only one to retire.
OneSibling(t) == {CHOOSE q \in by_local_txid : q[1] = t}
Siblings(t)   == {q \in by_local_txid : q[1] = t}
KeyOf(t)      == CHOOSE n \in Names : pending_udp[n] = t

active_task_count == tcp_tasks + Cardinality(by_local_txid)

TypeOK ==
  /\ pending_udp \in [Names -> Ltids \cup {NoTransaction}]
  /\ waiters \in [Ltids -> SUBSET Requests]
  /\ by_local_txid \in SUBSET QueryIds
  /\ by_socket_txid \in SUBSET (Channels \X Txids \X QueryIds)
  /\ query \in [QueryIds -> UdpQuery]
  /\ channel_count \in [Forwarders -> 0 .. ChannelsPerForwarder]
  /\ active_queries \in [Channels -> Nat]
  /\ active_txids \in [Forwarders \X Txids -> {Free} \cup 0 .. Timeout]
  /\ cache \in [Names -> Entries]
  /\ tcp_tasks \in 0 .. MaxTcpTasks
  /\ tcp_txids \in SUBSET (Forwarders \X Txids)
  /\ local_transaction_id \in 0 .. MaxTransactions
  /\ clean_state \in 0 .. 4
  /\ status \in [Requests -> {"idle", "waiting", "done"}]
  /\ replies \in [Requests -> Nat]

Init ==
  /\ pending_udp = [n \in Names |-> NoTransaction]
  /\ waiters = [t \in Ltids |-> {}]
  /\ by_local_txid = {}
  /\ by_socket_txid = {}
  /\ query = [q \in QueryIds |-> NullQuery]
  /\ channel_count = [f \in Forwarders |-> 0]
  /\ active_queries = [c \in Channels |-> 0]
  /\ active_txids = [k \in Forwarders \X Txids |-> Free]
  /\ cache = [n \in Names |-> "none"]
  /\ tcp_tasks = 0
  /\ tcp_txids = {}
  /\ local_transaction_id = 0
  /\ clean_state = 0
  /\ status = [r \in Requests |-> "idle"]
  /\ replies = [r \in Requests |-> 0]

-------------------------------------------------------------------------------
(***************************************************************************)
(* Helpers: each names one idea several handlers share.                    *)
(***************************************************************************)

\* Datagrams to the requests of D leave the socket; those to others fail.
Send(D) == replies' = [r \in Requests |-> IF r \in D THEN replies[r] + 1
                                                     ELSE replies[r]]

\* insert_failure() for each key of N: whatever the verdict was, it is stored over
\* any earlier entry, unless it is too large to be kept.
insert_failure(N) ==
  \E K \in SUBSET N :
    cache' = [n \in Names |-> IF n \in K THEN "failure" ELSE cache[n]]

\* cache_insert(): only a cacheable answer is stored.
cache_insert(n) == cache' \in {cache, [cache EXCEPT ![n] = "answer"]}

\* What is left of udp_queries_by_local_txid when the queries of Q finish.
LocalWithout(Q) == by_local_txid \ Q

\* What is left of the socket index: erased by key and identity.
\* Mutant: the index is not cleaned up.
SocketKept(Q) == by_socket_txid
SocketWithout(Q) == by_socket_txid \ {SocketKey(q) : q \in Q}

\* pending_udp forgets a key once the last sibling of its transaction is gone.
\* Mutants: it never does; it does when the first sibling is gone.
PendingKept(Q) == pending_udp
PendingDropped(Q) ==
  [n \in Names |-> IF \E q \in Q : q[1] = pending_udp[n] THEN NoTransaction
                                                        ELSE pending_udp[n]]
PendingWithout(Q) ==
  [n \in Names |->
     IF /\ \E q \in Q : q[1] = pending_udp[n]
        /\ \A q \in LocalWithout(Q) : q[1] # pending_udp[n]
     THEN NoTransaction
     ELSE pending_udp[n]]

\* The transactions that end when the queries of Q finish.
EndedBy(Q) == {t \in Ltids : /\ \E q \in Q : q[1] = t
                             /\ \A q \in LocalWithout(Q) : q[1] # t}

\* UdpChannel::active_queries, which never drops below zero.
\* Mutant: one decrement for each socket, however many of its queries finish.
ActiveOnce(Q) ==
  [c \in Channels |-> IF \E q \in Q : ChannelOf(q) = c
                      THEN active_queries[c] - 1 ELSE active_queries[c]]
ActiveWithout(Q) ==
  [c \in Channels |->
     LET n == Cardinality({q \in Q : ChannelOf(q) = c})
     IN  IF n <= active_queries[c] THEN active_queries[c] - n ELSE 0]

\* release_txid() of every query of Q, whoever holds the reservation now.
TxidsWithout(Q, txids) ==
  [k \in Forwarders \X Txids |->
     IF \E q \in Q : <<q[2], query[q].upstream_id>> = k THEN Free ELSE txids[k]]

\* finish_udp_query() for each query of Q, all of them registered, when the
\* reservations are txids. The waiters of a transaction that ends are gone with
\* its PendingQuery.
finish_udp_query(Q, txids) ==
  /\ pending_udp' = PendingWithout(Q)
  /\ waiters' = [t \in Ltids |-> IF t \in EndedBy(Q) THEN {} ELSE waiters[t]]
  /\ by_local_txid' = LocalWithout(Q)
  /\ by_socket_txid' = SocketWithout(Q)
  /\ query' = [q \in QueryIds |-> IF q \in Q THEN NullQuery ELSE query[q]]
  /\ active_queries' = ActiveWithout(Q)
  /\ active_txids' = TxidsWithout(Q, txids)
  /\ status' = [r \in Requests |->
                  IF \E t \in EndedBy(Q) : r \in waiters[t] THEN "done"
                                                            ELSE status[r]]
  /\ UNCHANGED <<channel_count, tcp_tasks, tcp_txids, local_transaction_id>>

\* get_or_create_udp_channel(): a new socket until the pool is full, then the
\* first of the least busy ones.
ChooseChannel(f) ==
  IF channel_count[f] < ChannelsPerForwarder
  THEN channel_count[f] + 1
  ELSE CHOOSE k \in 1 .. ChannelsPerForwarder :
         \A j \in 1 .. ChannelsPerForwarder :
           \/ active_queries[<<f, k>>] < active_queries[<<f, j>>]
           \/ active_queries[<<f, k>>] = active_queries[<<f, j>>] /\ k <= j

\* allocate_txid(): any id nobody reserved at this address.
FreeTxids(f) == {i \in Txids : active_txids[<<f, i>>] = Free}

\* It gives up after 100 draws, so it may fail whenever some id is taken.
AllocateMayFail(f) == FreeTxids(f) # Txids

-------------------------------------------------------------------------------
(***************************************************************************)
(* Client queries: process_query_udp().                                    *)
(***************************************************************************)

\* The hosts table, the filters, the special names or the cache answer.
process_local_query(r) ==
  /\ status[r] = "idle"
  /\ NameOf[r] \notin RootNames
  /\ status' = [status EXCEPT ![r] = "done"]
  /\ \E D \in SUBSET {r} : Send(D)
  /\ UNCHANGED <<pending_udp, waiters, network, cache, tcp_tasks, tcp_txids,
                 local_transaction_id, clean_state>>

\* A query that is not answered locally: no cached entry matched, or it was not
\* looked for.
Forwardable(r) == /\ status[r] = "idle"
                  /\ NameOf[r] \in RootNames \/ cache[NameOf[r]] = "none"

\* No forwarder for the zone, or the PendingQuery is full: SERVFAIL at once.
RefuseQuery(r) ==
  /\ Forwardable(r)
  /\ \/ Route[NameOf[r]] = {}
     \/ /\ pending_udp[NameOf[r]] # NoTransaction
        /\ Cardinality(waiters[pending_udp[NameOf[r]]]) >= MaxWaiters
  /\ status' = [status EXCEPT ![r] = "done"]
  /\ \E D \in SUBSET {r} : Send(D)
  /\ UNCHANGED <<pending_udp, waiters, network, cache, tcp_tasks, tcp_txids,
                 local_transaction_id, clean_state>>

\* The same question is already in flight: wait for its answer.
JoinPending(r) ==
  LET t == pending_udp[NameOf[r]] IN
  /\ Forwardable(r)
  /\ Route[NameOf[r]] # {}
  /\ t # NoTransaction
  /\ Cardinality(waiters[t]) < MaxWaiters
  /\ waiters' = [waiters EXCEPT ![t] = @ \cup {r}]
  /\ status' = [status EXCEPT ![r] = "waiting"]
  /\ UNCHANGED <<pending_udp, network, cache, tcp_tasks, tcp_txids,
                 local_transaction_id, clean_state, replies>>

\* A busy server does not fan out.
Fanout == IF active_task_count < MaxTasks \div 2 THEN UdpMultipleForwarding
                                                 ELSE 1
choose_forwarder(n) ==
  {F \in SUBSET Route[n] :
     Cardinality(F) = Lesser(Fanout, Cardinality(Route[n]))}

\* The outcomes forward_udp() may have over the forwarders of F: the query is
\* sent to S; to those of L the send fails after the id was reserved; for
\* those of N no id is found; for the rest the server is at capacity or no
\* socket could be opened.
\* Mutant: the server's capacity is not looked at.
OutcomeAtAnyLoad(F, S, L, N) ==
  /\ L \cap S = {} /\ N \cap (S \cup L) = {}
  /\ \A f \in N : AllocateMayFail(f)
ForwardOutcome(F, S, L, N) ==
  LET room == MaxTasks - active_task_count
      rest == F \ (S \cup L \cup N)
  IN
  /\ L \cap S = {} /\ N \cap (S \cup L) = {}
  /\ Cardinality(S) <= room
  /\ L \cup N # {} => room > 0
  /\ \A f \in N : AllocateMayFail(f)
  /\ \/ Cardinality(S) >= room
     \/ \A f \in rest : channel_count[f] < ChannelsPerForwarder

\* forward_udp() to the forwarders of F for the transaction t; ids gives the
\* upstream ids drawn. A failed send leaves its id reserved and its socket open.
forward_udp(t, S, L, N, ids) ==
  LET sent(q) == q[1] = t /\ q[2] \in S
  IN
  /\ by_local_txid' = by_local_txid \cup {q \in QueryIds : sent(q)}
  /\ by_socket_txid' = by_socket_txid \cup
       {<<<<f, ChooseChannel(f)>>, ids[f], <<t, f>>>> : f \in S}
  /\ query' = [q \in QueryIds |->
                 IF sent(q)
                 THEN [channel |-> ChooseChannel(q[2]),
                       upstream_id |-> ids[q[2]],
                       used_edns |-> TRUE, age |-> 0]
                 ELSE query[q]]
  /\ channel_count' = [f \in Forwarders |->
                         IF f \in S \cup L \cup N
                         THEN Lesser(channel_count[f] + 1, ChannelsPerForwarder)
                         ELSE channel_count[f]]
  /\ active_queries' = [c \in Channels |->
                          IF c[1] \in S /\ c[2] = ChooseChannel(c[1])
                          THEN active_queries[c] + 1
                          ELSE active_queries[c]]
  /\ active_txids' = [k \in Forwarders \X Txids |->
                        IF k[1] \in S \cup L /\ k[2] = ids[k[1]]
                        THEN 0 ELSE active_txids[k]]

\* A new question: open a transaction and fan it out. If no forwarder took it
\* the coalescing entry is dropped again and the client gets SERVFAIL.
StartTransaction(r) ==
  LET n == NameOf[r]
      t == local_transaction_id
  IN
  /\ Forwardable(r)
  /\ Route[n] # {}
  /\ pending_udp[n] = NoTransaction
  /\ t < MaxTransactions
  /\ local_transaction_id' = t + 1
  /\ \E F \in choose_forwarder(n) :
       \E S, L, N \in SUBSET F :
         /\ ForwardOutcome(F, S, L, N)
         /\ \E ids \in [S \cup L -> Txids] :
              /\ \A f \in S \cup L : ids[f] \in FreeTxids(f)
              /\ forward_udp(t, S, L, N, ids)
         /\ IF S # {}
            THEN /\ pending_udp' = [pending_udp EXCEPT ![n] = t]
                 /\ waiters' = [waiters EXCEPT ![t] = {r}]
                 /\ status' = [status EXCEPT ![r] = "waiting"]
                 /\ UNCHANGED replies
            ELSE /\ status' = [status EXCEPT ![r] = "done"]
                 /\ \E D \in SUBSET {r} : Send(D)
                 /\ UNCHANGED <<pending_udp, waiters>>
  /\ UNCHANGED <<cache, tcp_tasks, tcp_txids, clean_state>>

-------------------------------------------------------------------------------
(***************************************************************************)
(* Upstream datagrams: process_upstream_udp_channel(). A datagram that      *)
(* finds no registered query or does not match its question changes        *)
(* nothing and is not a step. When two queries have the same socket key,   *)
(* find() may return either.                                               *)
(***************************************************************************)

\* find() returned the entry e, the query is registered and it still has the
\* id and socket of the entry.
Found(e) == /\ e \in by_socket_txid
            /\ e[3] \in by_local_txid
            /\ e = SocketKey(e[3])

\* The body of a query that is sent again. Mutant: it may be sent again and again.
AgainWithEdns(q, i) == [query EXCEPT ![q].upstream_id = i, ![q].age = 0]
WithoutEdns(q, i) == [query EXCEPT ![q].upstream_id = i,
                                   ![q].used_edns = FALSE,
                                   ![q].age = 0]

\* FORMERR or NOTIMP to a query with EDNS: ask again without, under a new id.
\* The old id stays reserved until the maintenance drops it.
RetryWithoutEdns(e) ==
  LET q == e[3] IN
  /\ Found(e)
  /\ query[q].used_edns
  /\ \E i \in FreeTxids(q[2]) :
       /\ by_socket_txid' = (by_socket_txid \ {e}) \cup {<<e[1], i, q>>}
       /\ query' = WithoutEdns(q, i)
       /\ active_txids' = [active_txids EXCEPT ![<<q[2], i>>] = 0]
  /\ UNCHANGED <<pending_udp, waiters, by_local_txid, channel_count,
                 active_queries, cache, tcp_tasks, tcp_txids,
                 local_transaction_id, clean_state, status, replies>>

\* Mutant: only the query that got the verdict ends.
ConcludeOne(q, D, txids) ==
  /\ Send(D)
  /\ finish_udp_query({q}, txids)
  /\ UNCHANGED clean_state

\* reply_to_client_udp() reached the clients of D, and then either the whole
\* transaction ends, or just this query when nobody could be reached.
Conclude(q, D, txids) ==
  /\ Send(D)
  /\ finish_udp_query(IF D # {} THEN Siblings(q[1]) ELSE {q}, txids)
  /\ UNCHANGED clean_state

\* NOERROR or NXDOMAIN: delivered to the waiters, and cached if delivered.
ReceiveAnswer(e) ==
  LET q == e[3] IN
  /\ Found(e)
  /\ \E D \in SUBSET waiters[q[1]] :
       /\ Conclude(q, D, active_txids)
       /\ IF D # {} THEN cache_insert(KeyOf(q[1])) ELSE UNCHANGED cache

\* The reservations when a second send was tried and failed: the id drawn for
\* it stays reserved.
TxidsAfterLostRetry(q) ==
  {active_txids} \cup
  {[active_txids EXCEPT ![<<q[2], i>>] = 0] :
     i \in {i \in FreeTxids(q[2]) : query[q].used_edns}}

\* Any other verdict is cached as a failure first and then delivered. A
\* FORMERR or NOTIMP comes here too when there was no EDNS to drop, no free
\* id, or the second send failed.
ReceiveFailure(e) ==
  LET q == e[3] IN
  /\ Found(e)
  /\ insert_failure({KeyOf(q[1])})
  /\ \E D \in SUBSET waiters[q[1]], txids \in TxidsAfterLostRetry(q) :
       Conclude(q, D, txids)

-------------------------------------------------------------------------------
(***************************************************************************)
(* The clock and the maintenance: one phase per call of clean().           *)
(***************************************************************************)

Tick ==
  /\ \/ \E q \in by_local_txid : query[q].age < Timeout
     \/ \E k \in Forwarders \X Txids : active_txids[k] \in 0 .. (Timeout - 1)
  /\ query' = [q \in QueryIds |->
                 IF q \in by_local_txid
                 THEN [query[q] EXCEPT !.age = Lesser(@ + 1, Timeout)]
                 ELSE query[q]]
  /\ active_txids' = [k \in Forwarders \X Txids |->
                        IF active_txids[k] = Free THEN Free
                        ELSE Lesser(active_txids[k] + 1, Timeout)]
  /\ UNCHANGED <<pending_udp, waiters, by_local_txid, by_socket_txid,
                 channel_count, active_queries, cache, tcp_tasks, tcp_txids,
                 local_transaction_id, clean_state, status, replies>>

\* The phases for paused listeners and TCP deadlines, and the reset that
\* follows the last phase, leave the UDP path alone.
CleanOther ==
  /\ clean_state \in {0, 1, 4}
  /\ clean_state' = IF clean_state = 4 THEN 0 ELSE clean_state + 1
  /\ UNCHANGED <<pending_udp, waiters, network, cache, tcp_tasks, tcp_txids,
                 local_transaction_id, status, replies>>

Expired == {q \in by_local_txid : query[q].age >= Timeout}

\* The transactions that CLEAN_EXPIRED_UDP ends: those with an expired query.
TimedOut == {q[1] : q \in Expired}

\* All their queries. Mutant: their expired queries.
OnlyExpired     == Expired
TimedOutQueries == {q \in by_local_txid : q[1] \in TimedOut}

CleanExpiredUdp ==
  /\ clean_state = 2
  /\ clean_state' = 3
  /\ insert_failure({n \in Names : pending_udp[n] \in TimedOut})
  /\ \E D \in SUBSET UNION {waiters[t] : t \in TimedOut} : Send(D)
  /\ finish_udp_query(TimedOutQueries, active_txids)

\* Reservations as old as the upstream timeout are dropped. Mutant: only those
\* whose query is still registered, as if every other had been released.
HeldTxids == [k \in Forwarders \X Txids |->
                IF /\ active_txids[k] >= Timeout
                   /\ \E q \in by_local_txid : <<q[2], query[q].upstream_id>> = k
                THEN Free ELSE active_txids[k]]
UnexpiredTxids == [k \in Forwarders \X Txids |->
                     IF active_txids[k] >= Timeout THEN Free
                                                   ELSE active_txids[k]]

\* CLEAN_ACTIVE_TXIDS.
CleanActiveTxids ==
  /\ clean_state = 3
  /\ clean_state' = 4
  /\ active_txids' = UnexpiredTxids
  /\ UNCHANGED <<pending_udp, waiters, by_local_txid, by_socket_txid, query,
                 channel_count, active_queries, cache, tcp_tasks, tcp_txids,
                 local_transaction_id, status, replies>>

clean == CleanOther \/ CleanExpiredUdp \/ CleanActiveTxids

-------------------------------------------------------------------------------
(***************************************************************************)
(* What the rest of the program does to the state kept here.               *)
(***************************************************************************)

\* A TCP client takes a task slot.
TcpTaskStarts ==
  /\ active_task_count < MaxTasks
  /\ tcp_tasks < MaxTcpTasks
  /\ tcp_tasks' = tcp_tasks + 1
  /\ UNCHANGED <<pending_udp, waiters, network, cache, tcp_txids,
                 local_transaction_id, clean_state, status, replies>>

\* A TCP exchange reserves an id, from the same pool: the client's task becomes
\* the upstream's, or a retry without EDNS takes a second id and forgets the first,
\* or the exchange fails before the task knows the id.
TcpReserves ==
  /\ tcp_tasks > 0
  /\ \E k \in Forwarders \X Txids :
       /\ active_txids[k] = Free
       /\ active_txids' = [active_txids EXCEPT ![k] = 0]
       /\ \/ UNCHANGED tcp_txids
          \/ /\ Cardinality(tcp_txids) < tcp_tasks
             /\ tcp_txids' = tcp_txids \cup {k}
          \/ \E j \in tcp_txids : tcp_txids' = (tcp_txids \ {j}) \cup {k}
  /\ UNCHANGED <<pending_udp, waiters, by_local_txid, by_socket_txid, query,
                 channel_count, active_queries, cache, tcp_tasks,
                 local_transaction_id, clean_state, status, replies>>

\* A TCP exchange ends. It may store what it learned, or that it failed, over any
\* entry of the shared cache; finish_task() releases its id, whoever holds the
\* reservation now; its slot is freed, or goes to the task that writes the reply.
TcpTaskEnds ==
  /\ tcp_tasks > 0
  /\ \/ UNCHANGED cache
     \/ \E n \in Names, v \in FromTcp : cache' = [cache EXCEPT ![n] = v]
  /\ \/ /\ Cardinality(tcp_txids) < tcp_tasks
        /\ tcp_tasks' = tcp_tasks - 1
        /\ UNCHANGED <<tcp_txids, active_txids>>
     \/ /\ tcp_tasks' \in {tcp_tasks, tcp_tasks - 1}
        /\ \E k \in tcp_txids :
             /\ tcp_txids' = tcp_txids \ {k}
             /\ active_txids' = [active_txids EXCEPT ![k] = Free]
  /\ UNCHANGED <<pending_udp, waiters, by_local_txid, by_socket_txid, query,
                 channel_count, active_queries, local_transaction_id,
                 clean_state, status, replies>>

\* An entry expires or is evicted (a hit on one is an instance of
\* process_local_query).
CacheEntryLeaves(n) ==
  /\ cache[n] # "none"
  /\ cache' = [cache EXCEPT ![n] = "none"]
  /\ UNCHANGED <<pending_udp, waiters, network, tcp_tasks, tcp_txids,
                 local_transaction_id, clean_state, status, replies>>

-------------------------------------------------------------------------------
Query(r) == \/ process_local_query(r)
            \/ RefuseQuery(r)
            \/ JoinPending(r)
            \/ StartTransaction(r)

Response == \E e \in by_socket_txid : \/ RetryWithoutEdns(e)
                                      \/ ReceiveAnswer(e)
                                      \/ ReceiveFailure(e)

Next == \/ \E r \in Requests : Query(r)
        \/ Response
        \/ Tick
        \/ clean
        \/ TcpTaskStarts
        \/ TcpReserves
        \/ TcpTaskEnds
        \/ \E n \in Names : CacheEntryLeaves(n)

Spec == Init /\ [][Next]_vars

\* Time passes, and the event loop runs periodic() after every wait of at most
\* 100 ms. Nothing makes a client ask or an upstream answer.
FairSpec == Spec /\ WF_vars(Tick) /\ WF_vars(clean)

-------------------------------------------------------------------------------
(***************************************************************************)
(* Safety.                                                                 *)
(***************************************************************************)

\* Clients coalesce only onto questions that an upstream query can still
\* answer: pending_udp holds a key exactly while a query of its transaction is
\* registered. (A key left behind would make every later client of that name
\* join it and hang; a key dropped early would fork the question.)
PendingIffInFlight ==
  /\ \A n \in Names : pending_udp[n] # NoTransaction
                       => \E q \in by_local_txid : q[1] = pending_udp[n]
  /\ \A q \in by_local_txid : \E n \in Names : pending_udp[n] = q[1]

\* The registry scanned for deadlines and the index that dispatches upstream
\* datagrams hold the same queries, each under its present socket and id: no
\* query is orphaned in one of them by a sibling that finishes or by a retry.
IndexesAgree ==
  by_socket_txid = {SocketKey(q) : q \in by_local_txid}

\* A client waits in exactly one PendingQuery, that of the question it asked,
\* and one that pending_udp still knows; who waits there has not been answered.
WaitersAreReachable ==
  \A r \in Requests :
    /\ \A t \in Ltids : r \in waiters[t] <=> /\ status[r] = "waiting"
                                             /\ pending_udp[NameOf[r]] = t
    /\ status[r] = "waiting" => pending_udp[NameOf[r]] # NoTransaction

\* Whatever is retried, timed out, duplicated or reordered, a client datagram
\* is answered at most once, and never after it was given up.
AtMostOneReply ==
  \A r \in Requests : replies[r] <= IF status[r] = "done" THEN 1 ELSE 0

\* Fan-out and TCP tasks together stay within max_tasks: each upstream query
\* takes one slot, checked while the fan-out is under way.
WithinCapacity == active_task_count <= MaxTasks

\* UdpChannel::active_queries, by which the least busy socket is chosen, is
\* the number of registered queries on that socket, through every way a query
\* ends.
ChannelLoadExact ==
  \A c \in Channels :
    active_queries[c] = Cardinality({q \in by_local_txid : ChannelOf(q) = c})

\* The UDP path never stores a failure over an answer it has stored, although it
\* stores failures without looking: every sibling that could still fail was retired
\* when the answer came. The paths do not protect each other: a failure of a TCP
\* exchange replaces such an answer, and a failure that this path learns replaces
\* what a TCP exchange stored while the question was open. (Nor does it hold for
\* the root, but what is cached for the root is never looked up.)
OwnFailureNeverMasksAnswer ==
  [][\A n \in Names \ RootNames :
       cache[n] = "answer" => cache'[n] # "failure"]_vars

\* What makes the invariants above inductive: a local transaction id that has not
\* been drawn yet is used nowhere.
FreshLtids ==
  \A t \in Ltids :
    t >= local_transaction_id => /\ \A q \in by_local_txid : q[1] # t
                                 /\ \A n \in Names : pending_udp[n] # t

CoalescingInv == /\ FreshLtids
                 /\ PendingIffInFlight
                 /\ WaitersAreReachable
                 /\ IndexesAgree
                 /\ AtMostOneReply

\* Requests that wait on a key: the mapping to the abstract service.
OpenFor(n) == IF pending_udp[n] = NoTransaction THEN {}
                                               ELSE waiters[pending_udp[n]]

Service == INSTANCE UdpService
             WITH open <- [n \in Names |-> OpenFor(n)]

\* The forwarding path implements the abstract coalescing service: whatever the
\* upstreams and the clock do, all clients of a question wait together, leave
\* together, and are answered at most once, in the step in which they leave.
ImplementsService == Service!Spec

-------------------------------------------------------------------------------
(***************************************************************************)
(* What a comment of the source says, and the code does not keep.          *)
(***************************************************************************)

\* "allocate_udp_upstream_id() keeps the key unique among live queries": no two
\* registered queries have the same socket and upstream id.
UpstreamIdsUnique ==
  \A q1, q2 \in by_local_txid :
    /\ ChannelOf(q1) = ChannelOf(q2)
    /\ query[q1].upstream_id = query[q2].upstream_id
    => q1 = q2

-------------------------------------------------------------------------------
(***************************************************************************)
(* Liveness.                                                               *)
(***************************************************************************)

\* A client that waits is let go, answered or not, even if no upstream ever
\* answers: deadlines are scanned, and a retry may postpone one only once.
EveryWaiterLeaves ==
  \A r \in Requests : status[r] = "waiting" ~> status[r] = "done"

\* An upstream id does not stay reserved for ever, although retries and failed
\* sends never release theirs: the last maintenance phase drops it.
ReservationsExpire ==
  \A k \in Forwarders \X Txids : active_txids[k] # Free ~> active_txids[k] = Free

===============================================================================
