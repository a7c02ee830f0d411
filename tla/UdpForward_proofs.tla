-------------------------- MODULE UdpForward_proofs --------------------------
(***************************************************************************)
(* Theorems about UdpForward, for every number of clients, questions,      *)
(* forwarders, ids and transactions.                                       *)
(***************************************************************************)
EXTENDS UdpForward, FiniteSetTheorems, WellFoundedInduction, TLAPS

USE UdpForwardAssumption

-------------------------------------------------------------------------------
(***************************************************************************)
(* Facts about the operators the actions are built from.                   *)
(***************************************************************************)

\* A non-empty set of naturals has a least element.
LEMMA LeastNat ==
  ASSUME NEW S \in SUBSET Nat, S # {}
  PROVE  \E m \in S : \A n \in S : m <= n
<1> DEFINE R == OpToRel(<, Nat)
<1>1. IsWellFoundedOn(R, Nat)
  BY NatLessThanWellFounded
<1> HIDE DEF R
<1>2. PICK m \in S : \A n \in S : ~(<<n, m>> \in R)
  BY <1>1, WFMin
<1>3. \A x, y \in Nat : x < y => <<x, y>> \in R
  BY DEF R, OpToRel
<1>4. ASSUME NEW n \in S PROVE m <= n
  <2>1. ~(n < m)
    BY <1>2, <1>3
  <2>2. QED
    BY <2>1
<1>5. QED
  BY <1>4

\* There are finitely many upstream queries, so the loads of sockets are numbers.
LEMMA QueryIdsFinite == IsFiniteSet(QueryIds)
<1>1. IsFiniteSet(Ltids)
  BY FS_Interval DEF Ltids
<1>2. QED
  BY <1>1, FS_Product DEF QueryIds

\* The number of queries of a set that satisfy anything is a number.
LEMMA LoadIsNat ==
  ASSUME NEW Q \in SUBSET QueryIds, NEW c
  PROVE  Cardinality({q \in Q : ChannelOf(q) = c}) \in Nat
<1>1. {q \in Q : ChannelOf(q) = c} \subseteq QueryIds
  OBVIOUS
<1>2. QED
  BY <1>1, QueryIdsFinite, FS_Subset, FS_CardinalityType

\* The body of a query not yet made is a query body.
LEMMA NullQueryType == NullQuery \in UdpQuery
  BY DEF NullQuery, UdpQuery

\* get_or_create_udp_channel() returns a socket of the forwarder's pool: among
\* its loads there is a least one, and a first socket that has it.
LEMMA ChooseChannelType ==
  ASSUME TypeOK, NEW f \in Forwarders
  PROVE  ChooseChannel(f) \in 1 .. ChannelsPerForwarder
<1> DEFINE Pool == 1 .. ChannelsPerForwarder
           load(k) == active_queries[<<f, k>>]
           Loads == {load(k) : k \in Pool}
           better(k, j) == \/ load(k) < load(j)
                           \/ load(k) = load(j) /\ k <= j
<1>1. \A k \in Pool : load(k) \in Nat
  BY DEF TypeOK, Channels
<1>2. PICK m \in Loads : \A x \in Loads : m <= x
  <2>1. 1 \in Pool
    OBVIOUS
  <2>2. Loads # {} /\ Loads \in SUBSET Nat
    BY <1>1, <2>1
  <2>3. QED
    BY <2>2, LeastNat
<1> DEFINE Least == {k \in Pool : load(k) = m}
<1>3. PICK k \in Least : \A j \in Least : k <= j
  <2>1. Least # {} /\ Least \in SUBSET Nat
    BY <1>2
  <2>2. QED
    BY <2>1, LeastNat
<1>4. \A j \in Pool : better(k, j)
  <2> SUFFICES ASSUME NEW j \in Pool PROVE better(k, j)
    OBVIOUS
  <2>1. CASE j \in Least
    BY <2>1, <1>3
  <2>2. CASE j \notin Least
    <3>1. load(j) # m /\ m <= load(j) /\ load(k) = m
      BY <2>2, <1>2, <1>3
    <3>2. QED
      BY <3>1, <1>1, <1>3
  <2>3. QED
    BY <2>1, <2>2
<1>5. CASE channel_count[f] < ChannelsPerForwarder
  BY <1>5 DEF ChooseChannel, TypeOK
<1>6. CASE ~(channel_count[f] < ChannelsPerForwarder)
  BY <1>4, <1>6, <1>3 DEF ChooseChannel
<1>7. QED
  BY <1>5, <1>6

\* What Send() makes of the reply counts.
LEMMA SendType ==
  ASSUME TypeOK, NEW D, Send(D)
  PROVE  replies' \in [Requests -> Nat]
  BY DEF TypeOK, Send

\* finish_udp_query() keeps the type of everything it touches.
LEMMA FinishType ==
  ASSUME TypeOK, NEW Q \in SUBSET by_local_txid,
         NEW txids \in [Forwarders \X Txids -> {Free} \cup 0 .. Timeout],
         finish_udp_query(Q, txids)
  PROVE  /\ pending_udp' \in [Names -> Ltids \cup {NoTransaction}]
         /\ waiters' \in [Ltids -> SUBSET Requests]
         /\ by_local_txid' \in SUBSET QueryIds
         /\ by_socket_txid' \in SUBSET (Channels \X Txids \X QueryIds)
         /\ query' \in [QueryIds -> UdpQuery]
         /\ channel_count' \in [Forwarders -> 0 .. ChannelsPerForwarder]
         /\ active_queries' \in [Channels -> Nat]
         /\ active_txids' \in [Forwarders \X Txids -> {Free} \cup 0 .. Timeout]
         /\ tcp_tasks' \in 0 .. MaxTcpTasks
         /\ tcp_txids' \in SUBSET (Forwarders \X Txids)
         /\ local_transaction_id' \in 0 .. MaxTransactions
         /\ status' \in [Requests -> {"idle", "waiting", "done"}]
<1> USE DEF finish_udp_query, TypeOK
<1>1. pending_udp' \in [Names -> Ltids \cup {NoTransaction}]
  BY DEF PendingWithout
<1>2. waiters' \in [Ltids -> SUBSET Requests]
  OBVIOUS
<1>3. by_local_txid' \in SUBSET QueryIds
  BY DEF LocalWithout
<1>4. by_socket_txid' \in SUBSET (Channels \X Txids \X QueryIds)
  BY DEF SocketWithout
<1>5. query' \in [QueryIds -> UdpQuery]
  BY NullQueryType
<1>6. active_queries' \in [Channels -> Nat]
  <2>1. Q \in SUBSET QueryIds
    OBVIOUS
  <2>2. \A c \in Channels :
          LET n == Cardinality({q \in Q : ChannelOf(q) = c})
          IN  (IF n <= active_queries[c] THEN active_queries[c] - n ELSE 0) \in Nat
    <3> SUFFICES ASSUME NEW c \in Channels,
                        NEW n, n = Cardinality({q \in Q : ChannelOf(q) = c})
                 PROVE  (IF n <= active_queries[c] THEN active_queries[c] - n
                                                   ELSE 0) \in Nat
      OBVIOUS
    <3>1. n \in Nat /\ active_queries[c] \in Nat
      BY <2>1, LoadIsNat
    <3>2. QED
      BY <3>1
  <2>3. QED
    BY <2>2 DEF ActiveWithout
<1>7. active_txids' \in [Forwarders \X Txids -> {Free} \cup 0 .. Timeout]
  BY DEF TxidsWithout
<1>8. status' \in [Requests -> {"idle", "waiting", "done"}]
  OBVIOUS
<1>9. QED
  BY <1>1, <1>2, <1>3, <1>4, <1>5, <1>6, <1>7, <1>8

\* forward_udp() keeps the type of everything it touches.
LEMMA ForwardType ==
  ASSUME TypeOK, NEW t \in Ltids,
         NEW S \in SUBSET Forwarders, NEW L \in SUBSET Forwarders,
         NEW N \in SUBSET Forwarders, NEW ids \in [S \cup L -> Txids],
         forward_udp(t, S, L, N, ids)
  PROVE  /\ by_local_txid' \in SUBSET QueryIds
         /\ by_socket_txid' \in SUBSET (Channels \X Txids \X QueryIds)
         /\ query' \in [QueryIds -> UdpQuery]
         /\ channel_count' \in [Forwarders -> 0 .. ChannelsPerForwarder]
         /\ active_queries' \in [Channels -> Nat]
         /\ active_txids' \in [Forwarders \X Txids -> {Free} \cup 0 .. Timeout]
<1> USE DEF forward_udp, TypeOK
<1>1. by_local_txid' \in SUBSET QueryIds
  OBVIOUS
<1>2. by_socket_txid' \in SUBSET (Channels \X Txids \X QueryIds)
  <2>1. ASSUME NEW f \in S
        PROVE  <<<<f, ChooseChannel(f)>>, ids[f], <<t, f>>>>
                 \in Channels \X Txids \X QueryIds
    BY ChooseChannelType DEF Channels, QueryIds
  <2>2. QED
    BY <2>1
<1>3. query' \in [QueryIds -> UdpQuery]
  <2>1. ASSUME NEW q \in QueryIds, q[2] \in S
        PROVE  [channel |-> ChooseChannel(q[2]), upstream_id |-> ids[q[2]],
                used_edns |-> TRUE, age |-> 0] \in UdpQuery
    <3>1. q[2] \in Forwarders /\ ids[q[2]] \in Txids
      BY <2>1
    <3>2. ChooseChannel(q[2]) \in 1 .. ChannelsPerForwarder
      BY <3>1, ChooseChannelType
    <3>3. QED
      BY <3>1, <3>2 DEF UdpQuery
  <2>2. QED
    BY <2>1
<1>4. channel_count' \in [Forwarders -> 0 .. ChannelsPerForwarder]
  BY DEF Lesser
<1>5. active_queries' \in [Channels -> Nat]
  OBVIOUS
<1>6. active_txids' \in [Forwarders \X Txids -> {Free} \cup 0 .. Timeout]
  OBVIOUS
<1>7. QED
  BY <1>1, <1>2, <1>3, <1>4, <1>5, <1>6

\* The reservations that a lost retry may leave behind are reservations.
LEMMA LostRetryType ==
  ASSUME TypeOK, NEW q \in QueryIds, NEW txids \in TxidsAfterLostRetry(q)
  PROVE  txids \in [Forwarders \X Txids -> {Free} \cup 0 .. Timeout]
<1>1. active_txids \in [Forwarders \X Txids -> {Free} \cup 0 .. Timeout]
  BY DEF TypeOK
<1>2. 0 \in {Free} \cup 0 .. Timeout
  OBVIOUS
<1>3. CASE txids = active_txids
  BY <1>1, <1>3
<1>4. ASSUME NEW i \in Txids, txids = [active_txids EXCEPT ![<<q[2], i>>] = 0]
      PROVE  txids \in [Forwarders \X Txids -> {Free} \cup 0 .. Timeout]
  BY <1>1, <1>2, <1>4
<1>5. QED
  BY <1>3, <1>4 DEF TxidsAfterLostRetry, FreeTxids

\* Conclude() keeps the type of everything it touches.
LEMMA ConcludeType ==
  ASSUME TypeOK, NEW q \in by_local_txid, NEW D,
         NEW txids \in [Forwarders \X Txids -> {Free} \cup 0 .. Timeout],
         Conclude(q, D, txids),
         cache' \in [Names -> Entries]
  PROVE  TypeOK'
<1>1. PICK Q \in SUBSET by_local_txid : finish_udp_query(Q, txids)
  <2>1. Siblings(q[1]) \in SUBSET by_local_txid /\ {q} \in SUBSET by_local_txid
    BY DEF Siblings
  <2>2. QED
    BY <2>1 DEF Conclude
<1>2. replies' \in [Requests -> Nat]
  BY SendType DEF Conclude
<1>3. clean_state' \in 0 .. 4
  BY DEF Conclude, TypeOK
<1>4. QED
  BY <1>1, <1>2, <1>3, FinishType DEF TypeOK

-------------------------------------------------------------------------------
(***************************************************************************)
(* Type correctness.                                                       *)
(***************************************************************************)

LEMMA InitType == Init => TypeOK
<1> SUFFICES ASSUME Init PROVE TypeOK
  OBVIOUS
<1>1. /\ active_txids \in [Forwarders \X Txids -> {Free} \cup 0 .. Timeout]
      /\ query \in [QueryIds -> UdpQuery]
  BY NullQueryType DEF Init
<1>2. /\ tcp_tasks \in 0 .. MaxTcpTasks
      /\ local_transaction_id \in 0 .. MaxTransactions
      /\ clean_state \in 0 .. 4
      /\ channel_count \in [Forwarders -> 0 .. ChannelsPerForwarder]
      /\ active_queries \in [Channels -> Nat]
  BY DEF Init
<1>3. QED
  BY <1>1, <1>2 DEF Init, TypeOK, Entries

LEMMA NextType == TypeOK /\ [Next]_vars => TypeOK'
<1> SUFFICES ASSUME TypeOK, [Next]_vars PROVE TypeOK'
  OBVIOUS
<1>1. ASSUME NEW r \in Requests, process_local_query(r) PROVE TypeOK'
  BY <1>1, SendType DEF process_local_query, network, TypeOK
<1>2. ASSUME NEW r \in Requests, RefuseQuery(r) PROVE TypeOK'
  BY <1>2, SendType DEF RefuseQuery, network, TypeOK
<1>3. ASSUME NEW r \in Requests, JoinPending(r) PROVE TypeOK'
  BY <1>3 DEF JoinPending, network, TypeOK
<1>4. ASSUME NEW r \in Requests, StartTransaction(r) PROVE TypeOK'
  <2> DEFINE n == NameOf[r]
             t == local_transaction_id
  <2>1. n \in Names /\ t \in Ltids
    BY <1>4 DEF StartTransaction, Ltids, TypeOK
  <2>2. PICK F \in choose_forwarder(n) : \E S, L, N \in SUBSET F :
          /\ \E ids \in [S \cup L -> Txids] : forward_udp(t, S, L, N, ids)
          /\ IF S # {}
             THEN /\ pending_udp' = [pending_udp EXCEPT ![n] = t]
                  /\ waiters' = [waiters EXCEPT ![t] = {r}]
                  /\ status' = [status EXCEPT ![r] = "waiting"]
                  /\ UNCHANGED replies
             ELSE /\ status' = [status EXCEPT ![r] = "done"]
                  /\ \E D \in SUBSET {r} : Send(D)
                  /\ UNCHANGED <<pending_udp, waiters>>
    BY <1>4 DEF StartTransaction
  <2>3. F \in SUBSET Forwarders
    BY <2>1 DEF choose_forwarder
  <2>3a. PICK S \in SUBSET Forwarders, L \in SUBSET Forwarders, N \in SUBSET Forwarders :
          /\ \E ids \in [S \cup L -> Txids] : forward_udp(t, S, L, N, ids)
          /\ IF S # {}
             THEN /\ pending_udp' = [pending_udp EXCEPT ![n] = t]
                  /\ waiters' = [waiters EXCEPT ![t] = {r}]
                  /\ status' = [status EXCEPT ![r] = "waiting"]
                  /\ UNCHANGED replies
             ELSE /\ status' = [status EXCEPT ![r] = "done"]
                  /\ \E D \in SUBSET {r} : Send(D)
                  /\ UNCHANGED <<pending_udp, waiters>>
    BY <2>2, <2>3
  <2>4. /\ by_local_txid' \in SUBSET QueryIds
        /\ by_socket_txid' \in SUBSET (Channels \X Txids \X QueryIds)
        /\ query' \in [QueryIds -> UdpQuery]
        /\ channel_count' \in [Forwarders -> 0 .. ChannelsPerForwarder]
        /\ active_queries' \in [Channels -> Nat]
        /\ active_txids' \in [Forwarders \X Txids -> {Free} \cup 0 .. Timeout]
    BY <2>1, <2>3a, ForwardType
  <2>5. /\ pending_udp' \in [Names -> Ltids \cup {NoTransaction}]
        /\ waiters' \in [Ltids -> SUBSET Requests]
        /\ status' \in [Requests -> {"idle", "waiting", "done"}]
        /\ replies' \in [Requests -> Nat]
    <3>1. CASE S # {}
      <4>1. pending_udp' \in [Names -> Ltids \cup {NoTransaction}]
        BY <2>1, <2>3a, <3>1 DEF TypeOK
      <4>2. waiters' \in [Ltids -> SUBSET Requests]
        BY <2>1, <2>3a, <3>1 DEF TypeOK
      <4>3. status' \in [Requests -> {"idle", "waiting", "done"}]
        BY <2>1, <2>3a, <3>1 DEF TypeOK
      <4>4. QED
        BY <2>3a, <3>1, <4>1, <4>2, <4>3 DEF TypeOK
    <3>2. CASE S = {}
      <4>1. PICK D \in SUBSET {r} : Send(D)
        BY <2>3a, <3>2
      <4>2. replies' \in [Requests -> Nat]
        BY <4>1, SendType
      <4>3. QED
        BY <2>3a, <3>2, <4>2 DEF TypeOK
    <3>3. QED
      BY <3>1, <3>2
  <2>6. /\ local_transaction_id' \in 0 .. MaxTransactions
        /\ UNCHANGED <<cache, tcp_tasks, tcp_txids, clean_state>>
    BY <1>4 DEF StartTransaction, TypeOK
  <2>7. QED
    BY <2>4, <2>5, <2>6 DEF TypeOK
<1>5. ASSUME NEW e \in by_socket_txid, RetryWithoutEdns(e) PROVE TypeOK'
  <2>1. e[3] \in QueryIds /\ e[3][2] \in Forwarders /\ e[1] \in Channels
    BY DEF TypeOK, QueryIds
  <2>2. PICK i \in Txids :
          /\ by_socket_txid' = (by_socket_txid \ {e}) \cup {<<e[1], i, e[3]>>}
          /\ query' = WithoutEdns(e[3], i)
          /\ active_txids' = [active_txids EXCEPT ![<<e[3][2], i>>] = 0]
    BY <1>5 DEF RetryWithoutEdns, FreeTxids
  <2>3. by_socket_txid' \in SUBSET (Channels \X Txids \X QueryIds)
    BY <2>1, <2>2 DEF TypeOK
  <2>4. query' \in [QueryIds -> UdpQuery]
    BY <2>1, <2>2, SMTT(30) DEF WithoutEdns, TypeOK, UdpQuery
  <2>5. active_txids' \in [Forwarders \X Txids -> {Free} \cup 0 .. Timeout]
    BY <2>1, <2>2 DEF TypeOK
  <2>6. QED
    BY <1>5, <2>3, <2>4, <2>5 DEF RetryWithoutEdns, TypeOK
<1>6. ASSUME NEW e \in by_socket_txid, ReceiveAnswer(e) PROVE TypeOK'
  <2>1. PICK D : Conclude(e[3], D, active_txids)
    BY <1>6 DEF ReceiveAnswer
  <2>2. e[3] \in by_local_txid
    BY <1>6 DEF ReceiveAnswer, Found
  <2>3. cache' \in [Names -> Entries]
    BY <1>6 DEF ReceiveAnswer, cache_insert, TypeOK, Entries
  <2>4. QED
    BY <2>1, <2>2, <2>3, ConcludeType DEF TypeOK
<1>7. ASSUME NEW e \in by_socket_txid, ReceiveFailure(e) PROVE TypeOK'
  <2>1. PICK D \in SUBSET waiters[e[3][1]], txids \in TxidsAfterLostRetry(e[3]) :
          Conclude(e[3], D, txids)
    BY <1>7 DEF ReceiveFailure
  <2>2. e[3] \in by_local_txid /\ e[3] \in QueryIds
    BY <1>7 DEF ReceiveFailure, Found, TypeOK
  <2>3. cache' \in [Names -> Entries]
    BY <1>7 DEF ReceiveFailure, insert_failure, TypeOK, Entries
  <2>4. txids \in [Forwarders \X Txids -> {Free} \cup 0 .. Timeout]
    BY <2>1, <2>2, LostRetryType
  <2>5. QED
    BY <2>1, <2>2, <2>3, <2>4, ConcludeType
<1>8. CASE Tick
  <2>1. query' \in [QueryIds -> UdpQuery]
    <3>1. ASSUME NEW q \in QueryIds
          PROVE  [query[q] EXCEPT !.age = Lesser(@ + 1, Timeout)] \in UdpQuery
      <4>1. query[q] \in UdpQuery
        BY DEF TypeOK
      <4>2. Lesser(query[q].age + 1, Timeout) \in 0 .. Timeout
        BY <4>1 DEF UdpQuery, Lesser
      <4>3. QED
        BY <4>1, <4>2 DEF UdpQuery
    <3>2. QED
      BY <1>8, <3>1 DEF Tick, TypeOK
  <2>2. active_txids' \in [Forwarders \X Txids -> {Free} \cup 0 .. Timeout]
    <3>1. ASSUME NEW k \in Forwarders \X Txids
          PROVE  (IF active_txids[k] = Free THEN Free
                  ELSE Lesser(active_txids[k] + 1, Timeout)) \in {Free} \cup 0 .. Timeout
      <4>1. active_txids[k] \in {Free} \cup 0 .. Timeout
        BY DEF TypeOK
      <4>2. QED
        BY <4>1 DEF Lesser, Free
    <3>2. QED
      BY <1>8, <3>1 DEF Tick
  <2>3. QED
    BY <1>8, <2>1, <2>2 DEF Tick, TypeOK
<1>9. CASE CleanOther
  BY <1>9 DEF CleanOther, network, TypeOK
<1>10. CASE CleanExpiredUdp
  <2> DEFINE Q == TimedOutQueries
  <2>1. Q \in SUBSET by_local_txid
    BY DEF TimedOutQueries
  <2>2. finish_udp_query(Q, active_txids) /\ clean_state' = 3
    BY <1>10 DEF CleanExpiredUdp
  <2>3. cache' \in [Names -> Entries]
    BY <1>10 DEF CleanExpiredUdp, insert_failure, TypeOK, Entries
  <2>4. replies' \in [Requests -> Nat]
    BY <1>10, SendType DEF CleanExpiredUdp
  <2>5. active_txids \in [Forwarders \X Txids -> {Free} \cup 0 .. Timeout]
    BY DEF TypeOK
  <2> HIDE DEF Q
  <2>6. clean_state' \in 0 .. 4
    BY <2>2
  <2>7. /\ pending_udp' \in [Names -> Ltids \cup {NoTransaction}]
        /\ waiters' \in [Ltids -> SUBSET Requests]
        /\ by_local_txid' \in SUBSET QueryIds
        /\ by_socket_txid' \in SUBSET (Channels \X Txids \X QueryIds)
        /\ query' \in [QueryIds -> UdpQuery]
        /\ channel_count' \in [Forwarders -> 0 .. ChannelsPerForwarder]
        /\ active_queries' \in [Channels -> Nat]
        /\ active_txids' \in [Forwarders \X Txids -> {Free} \cup 0 .. Timeout]
        /\ tcp_tasks' \in 0 .. MaxTcpTasks
        /\ tcp_txids' \in SUBSET (Forwarders \X Txids)
        /\ local_transaction_id' \in 0 .. MaxTransactions
        /\ status' \in [Requests -> {"idle", "waiting", "done"}]
    BY <2>1, <2>2, <2>5, FinishType
  <2>8. QED
    BY <2>3, <2>4, <2>6, <2>7 DEF TypeOK
<1>11. CASE CleanActiveTxids
  BY <1>11 DEF CleanActiveTxids, UnexpiredTxids, TypeOK
<1>12. CASE TcpTaskStarts
  BY <1>12 DEF TcpTaskStarts, network, TypeOK
<1>13. CASE TcpTaskEnds
  <2>1. tcp_tasks' \in 0 .. MaxTcpTasks /\ tcp_txids' \in SUBSET (Forwarders \X Txids)
    BY <1>13 DEF TcpTaskEnds, TypeOK
  <2>2. active_txids' \in [Forwarders \X Txids -> {Free} \cup 0 .. Timeout]
    BY <1>13 DEF TcpTaskEnds, TypeOK
  <2>3. cache' \in [Names -> Entries]
    BY <1>13 DEF TcpTaskEnds, TypeOK, Entries
  <2>4. QED
    BY <1>13, <2>1, <2>2, <2>3 DEF TcpTaskEnds, TypeOK
<1>13a. CASE TcpReserves
  <2>1. PICK k \in Forwarders \X Txids :
          /\ active_txids' = [active_txids EXCEPT ![k] = 0]
          /\ \/ UNCHANGED tcp_txids
             \/ tcp_txids' = tcp_txids \cup {k}
             \/ \E j \in tcp_txids : tcp_txids' = (tcp_txids \ {j}) \cup {k}
    BY <1>13a DEF TcpReserves
  <2>2. tcp_txids' \in SUBSET (Forwarders \X Txids)
    BY <2>1 DEF TypeOK
  <2>3. active_txids' \in [Forwarders \X Txids -> {Free} \cup 0 .. Timeout]
    BY <2>1 DEF TypeOK
  <2>4. QED
    BY <1>13a, <2>2, <2>3 DEF TcpReserves, TypeOK
<1>14. ASSUME NEW n \in Names, CacheEntryLeaves(n) PROVE TypeOK'
  BY <1>14 DEF CacheEntryLeaves, network, TypeOK, Entries
<1>15. CASE UNCHANGED vars
  BY <1>15 DEF vars, network, TypeOK
<1>16. QED
  BY <1>1, <1>2, <1>3, <1>4, <1>5, <1>6, <1>7, <1>8, <1>9, <1>10, <1>11, <1>12,
     <1>13, <1>13a, <1>14, <1>15 DEF Next, Query, Response, clean

\* Every variable keeps the type that its declaration in the source gives it.
THEOREM TypeCorrect == Spec => []TypeOK
  BY InitType, NextType, PTL DEF Spec

-------------------------------------------------------------------------------
(***************************************************************************)
(* Coalescing: who waits where, and what is registered under which key.    *)
(***************************************************************************)

\* Finishing any registered queries keeps the registries, the pending table and
\* the waiters in agreement, whichever transactions that ends.
LEMMA FinishCoalescing ==
  ASSUME TypeOK, FreshLtids, PendingIffInFlight, WaitersAreReachable,
         IndexesAgree, NEW Q \in SUBSET by_local_txid, NEW txids,
         finish_udp_query(Q, txids)
  PROVE  FreshLtids' /\ PendingIffInFlight' /\ WaitersAreReachable' /\ IndexesAgree'
<1> USE DEF finish_udp_query, LocalWithout
<1>1. /\ by_local_txid' = by_local_txid \ Q
      /\ pending_udp' = PendingWithout(Q)
      /\ local_transaction_id' = local_transaction_id
  OBVIOUS
<1>2. FreshLtids'
  BY <1>1 DEF FreshLtids, PendingWithout, TypeOK, Ltids, NoTransaction
<1>3. PendingIffInFlight'
  <2>1. ASSUME NEW n \in Names, pending_udp'[n] # NoTransaction
        PROVE  \E q \in by_local_txid' : q[1] = pending_udp'[n]
    <3>1. pending_udp'[n] = pending_udp[n]
      BY <2>1 DEF PendingWithout
    <3>2. PICK q \in by_local_txid : q[1] = pending_udp[n]
      BY <2>1, <3>1 DEF PendingIffInFlight
    <3>3. CASE q \notin Q
      BY <3>1, <3>2, <3>3
    <3>4. CASE q \in Q
      BY <2>1, <3>1, <3>2, <3>4 DEF PendingWithout
    <3>5. QED
      BY <3>3, <3>4
  <2>2. ASSUME NEW q \in by_local_txid'
        PROVE  \E n \in Names : pending_udp'[n] = q[1]
    <3>1. PICK n \in Names : pending_udp[n] = q[1]
      BY <2>2 DEF PendingIffInFlight
    <3>2. pending_udp'[n] = q[1]
      BY <2>2, <3>1 DEF PendingWithout
    <3>3. QED
      BY <3>2
  <2>3. QED
    BY <2>1, <2>2 DEF PendingIffInFlight
<1>4. ASSUME NEW t \in Ltids, NEW r \in Requests
      PROVE  r \in waiters'[t] <=> /\ status'[r] = "waiting"
                                   /\ pending_udp'[NameOf[r]] = t
  <2>1. NameOf[r] \in Names /\ t # NoTransaction
    BY DEF Ltids, NoTransaction
  <2>2. r \in waiters[t] <=> status[r] = "waiting" /\ pending_udp[NameOf[r]] = t
    BY DEF WaitersAreReachable
  <2>3. CASE t \in EndedBy(Q)
    <3>1. r \notin waiters'[t]
      BY <2>3
    <3>2. pending_udp'[NameOf[r]] # t
      BY <2>1, <2>3 DEF PendingWithout, EndedBy
    <3>3. QED
      BY <3>1, <3>2
  <2>4. CASE t \notin EndedBy(Q)
    <3>1. waiters'[t] = waiters[t]
      BY <2>4
    <3>2. pending_udp'[NameOf[r]] = t <=> pending_udp[NameOf[r]] = t
      BY <2>1, <2>4 DEF PendingWithout, EndedBy
    <3>3. ASSUME pending_udp[NameOf[r]] = t, NEW u \in EndedBy(Q)
          PROVE  r \notin waiters[u]
      <4>1. u \in Ltids /\ u # t
        BY <2>4, <3>3 DEF EndedBy
      <4>2. QED
        BY <3>3, <4>1 DEF WaitersAreReachable
    <3>4. pending_udp[NameOf[r]] = t => status'[r] = status[r]
      BY <3>3 DEF TypeOK
    <3>5. QED
      BY <2>2, <3>1, <3>2, <3>4
  <2>5. QED
    BY <2>3, <2>4
<1>4a. ASSUME NEW r \in Requests, status'[r] = "waiting"
       PROVE  pending_udp'[NameOf[r]] # NoTransaction
  <2>1. status[r] = "waiting" /\ \A u \in EndedBy(Q) : r \notin waiters[u]
    BY <1>4a DEF TypeOK
  <2>2. NameOf[r] \in Names /\ pending_udp[NameOf[r]] \in Ltids
    BY <2>1 DEF WaitersAreReachable, TypeOK
  <2>3. pending_udp[NameOf[r]] \notin EndedBy(Q)
    BY <2>1, <2>2 DEF WaitersAreReachable
  <2>4. pending_udp'[NameOf[r]] = pending_udp[NameOf[r]]
    BY <2>2, <2>3 DEF PendingWithout, EndedBy
  <2>5. QED
    BY <2>2, <2>4 DEF Ltids, NoTransaction
<1>4b. WaitersAreReachable'
  BY <1>4, <1>4a DEF WaitersAreReachable
<1>5. IndexesAgree'
  <2>1. \A q \in by_local_txid \ Q : query'[q] = query[q]
    BY DEF TypeOK
  <2>2. \A q \in by_local_txid \ Q : SocketKey(q)' = SocketKey(q)
    BY <2>1 DEF SocketKey, ChannelOf
  <2>3. \A p, q \in by_local_txid : SocketKey(p) = SocketKey(q) => p = q
    BY DEF SocketKey
  <2>4. by_socket_txid' = {SocketKey(q) : q \in by_local_txid \ Q}
    BY <2>3 DEF SocketWithout, IndexesAgree
  <2>5. QED
    BY <1>1, <2>2, <2>4 DEF IndexesAgree
<1>6. QED
  BY <1>2, <1>3, <1>4b, <1>5

\* Sending to clients that have had nothing yet and are let go in this step
\* leaves every client with at most one reply.
LEMMA SendOnce ==
  ASSUME TypeOK, TypeOK', AtMostOneReply, NEW D \in SUBSET Requests, Send(D),
         \A r \in D : status[r] # "done" /\ status'[r] = "done",
         \A r \in Requests : status[r] = "done" => status'[r] = "done"
  PROVE  AtMostOneReply'
<1> SUFFICES ASSUME NEW r \in Requests
             PROVE  replies'[r] <= IF status'[r] = "done" THEN 1 ELSE 0
  BY DEF AtMostOneReply
<1>1. replies[r] \in Nat /\ replies[r] <= IF status[r] = "done" THEN 1 ELSE 0
  BY DEF AtMostOneReply, TypeOK
<1>2. CASE r \in D
  BY <1>1, <1>2 DEF Send
<1>3. CASE r \notin D
  <2>1. replies'[r] = replies[r]
    BY <1>3 DEF Send
  <2>2. QED
    BY <1>1, <2>1
<1>4. QED
  BY <1>2, <1>3

\* The same for an upstream verdict: those it reaches were waiting, and they
\* leave with the transaction.
LEMMA ConcludeCoalescing ==
  ASSUME TypeOK, TypeOK', CoalescingInv, NEW q \in by_local_txid,
         NEW D \in SUBSET waiters[q[1]], NEW txids, Conclude(q, D, txids)
  PROVE  CoalescingInv'
<1> DEFINE Q == IF D # {} THEN Siblings(q[1]) ELSE {q}
<1>1. Q \in SUBSET by_local_txid /\ finish_udp_query(Q, txids) /\ Send(D)
  BY DEF Conclude, Siblings
<1>2. q[1] \in Ltids /\ D \in SUBSET Requests
  BY DEF TypeOK, QueryIds
<1> HIDE DEF Q
<1>3. FreshLtids' /\ PendingIffInFlight' /\ WaitersAreReachable' /\ IndexesAgree'
  BY <1>1, FinishCoalescing DEF CoalescingInv
<1>4. ASSUME NEW r \in D PROVE status[r] # "done" /\ status'[r] = "done"
  <2>1. r \in waiters[q[1]] /\ r \in Requests /\ status[r] = "waiting"
    BY <1>2 DEF CoalescingInv, WaitersAreReachable
  <2>2. q[1] \in EndedBy(Q)
    BY <1>2 DEF EndedBy, LocalWithout, Q, Siblings
  <2>3. QED
    BY <1>1, <2>1, <2>2 DEF finish_udp_query
<1>5. \A r \in Requests : status[r] = "done" => status'[r] = "done"
  BY <1>1 DEF finish_udp_query
<1>6. AtMostOneReply'
  BY <1>1, <1>2, <1>4, <1>5, SendOnce DEF CoalescingInv
<1>7. QED
  BY <1>3, <1>6 DEF CoalescingInv

LEMMA InitCoalescing == Init => CoalescingInv
  BY DEF Init, CoalescingInv, FreshLtids, PendingIffInFlight,
         WaitersAreReachable, IndexesAgree, AtMostOneReply, Ltids, NoTransaction

LEMMA NextCoalescing ==
  TypeOK /\ TypeOK' /\ CoalescingInv /\ [Next]_vars => CoalescingInv'
<1> SUFFICES ASSUME TypeOK, TypeOK', CoalescingInv, [Next]_vars
             PROVE  CoalescingInv'
  OBVIOUS
<1> USE DEF CoalescingInv
<1>1. ASSUME UNCHANGED <<pending_udp, waiters, network, local_transaction_id>>,
             NEW r \in Requests, status[r] = "idle",
             status' = [status EXCEPT ![r] = "done"],
             \E D \in SUBSET {r} : Send(D)
      PROVE  CoalescingInv'
  <2>1. \A s \in Requests : status'[s] = IF s = r THEN "done" ELSE status[s]
    BY <1>1 DEF TypeOK
  <2>2. WaitersAreReachable'
    BY <1>1, <2>1 DEF WaitersAreReachable
  <2>3. FreshLtids' /\ PendingIffInFlight' /\ IndexesAgree'
    BY <1>1 DEF network, FreshLtids, PendingIffInFlight, IndexesAgree,
                SocketKey, ChannelOf
  <2>4. AtMostOneReply'
    BY <1>1, <2>1, SendOnce
  <2>5. QED
    BY <2>2, <2>3, <2>4
<1>2. ASSUME NEW r \in Requests, process_local_query(r) PROVE CoalescingInv'
  BY <1>1, <1>2 DEF process_local_query
<1>3. ASSUME NEW r \in Requests, RefuseQuery(r) PROVE CoalescingInv'
  BY <1>1, <1>3 DEF RefuseQuery, Forwardable
<1>4. ASSUME NEW r \in Requests, JoinPending(r) PROVE CoalescingInv'
  <2> DEFINE u == pending_udp[NameOf[r]]
  <2>1. /\ u \in Ltids
        /\ status[r] = "idle"
        /\ status' = [status EXCEPT ![r] = "waiting"]
        /\ waiters' = [waiters EXCEPT ![u] = @ \cup {r}]
        /\ UNCHANGED <<pending_udp, network, local_transaction_id, replies>>
    BY <1>4 DEF JoinPending, Forwardable, TypeOK
  <2>2. WaitersAreReachable'
    <3> SUFFICES ASSUME NEW t \in Ltids, NEW s \in Requests
                 PROVE  /\ s \in waiters'[t] <=> /\ status'[s] = "waiting"
                                                 /\ pending_udp'[NameOf[s]] = t
                        /\ status'[s] = "waiting"
                             => pending_udp'[NameOf[s]] # NoTransaction
      BY <2>1 DEF WaitersAreReachable
    <3>1. s \in waiters[t] <=> status[s] = "waiting" /\ pending_udp[NameOf[s]] = t
      BY DEF WaitersAreReachable
    <3>2. s \in waiters'[t] <=> s \in waiters[t] \/ (s = r /\ t = u)
      BY <2>1 DEF TypeOK
    <3>3. status'[s] = IF s = r THEN "waiting" ELSE status[s]
      BY <2>1 DEF TypeOK
    <3>4. status[s] = "waiting" => pending_udp[NameOf[s]] # NoTransaction
      BY DEF WaitersAreReachable
    <3>5. u # NoTransaction
      BY <2>1 DEF Ltids, NoTransaction
    <3>6. QED
      BY <2>1, <3>1, <3>2, <3>3, <3>4, <3>5
  <2>3. FreshLtids' /\ PendingIffInFlight' /\ IndexesAgree'
    BY <2>1 DEF network, FreshLtids, PendingIffInFlight, IndexesAgree,
                SocketKey, ChannelOf
  <2>4. AtMostOneReply'
    BY <2>1 DEF AtMostOneReply, TypeOK
  <2>5. QED
    BY <2>2, <2>3, <2>4
<1>5. ASSUME NEW r \in Requests, StartTransaction(r) PROVE CoalescingInv'
  <2> DEFINE n == NameOf[r]
             t == local_transaction_id
  <2>1. /\ n \in Names /\ t \in Ltids /\ t # NoTransaction
        /\ status[r] = "idle"
        /\ pending_udp[n] = NoTransaction
        /\ local_transaction_id' = t + 1
    BY <1>5 DEF StartTransaction, Forwardable, Ltids, NoTransaction, TypeOK
  <2>2. PICK F \in choose_forwarder(n) : \E S, L, N \in SUBSET F :
          /\ \E ids \in [S \cup L -> Txids] : forward_udp(t, S, L, N, ids)
          /\ IF S # {}
             THEN /\ pending_udp' = [pending_udp EXCEPT ![n] = t]
                  /\ waiters' = [waiters EXCEPT ![t] = {r}]
                  /\ status' = [status EXCEPT ![r] = "waiting"]
                  /\ UNCHANGED replies
             ELSE /\ status' = [status EXCEPT ![r] = "done"]
                  /\ \E D \in SUBSET {r} : Send(D)
                  /\ UNCHANGED <<pending_udp, waiters>>
    BY <1>5 DEF StartTransaction
  <2>3. PICK S \in SUBSET Forwarders, L \in SUBSET Forwarders,
             N \in SUBSET Forwarders :
          /\ \E ids \in [S \cup L -> Txids] : forward_udp(t, S, L, N, ids)
          /\ IF S # {}
             THEN /\ pending_udp' = [pending_udp EXCEPT ![n] = t]
                  /\ waiters' = [waiters EXCEPT ![t] = {r}]
                  /\ status' = [status EXCEPT ![r] = "waiting"]
                  /\ UNCHANGED replies
             ELSE /\ status' = [status EXCEPT ![r] = "done"]
                  /\ \E D \in SUBSET {r} : Send(D)
                  /\ UNCHANGED <<pending_udp, waiters>>
    BY <2>1, <2>2 DEF choose_forwarder
  <2>4. PICK ids \in [S \cup L -> Txids] : forward_udp(t, S, L, N, ids)
    BY <2>3
  <2> DEFINE sent == {q \in QueryIds : q[1] = t /\ q[2] \in S}
  <2>5. by_local_txid' = by_local_txid \cup sent
    BY <2>4 DEF forward_udp
  <2>6. /\ \A q \in by_local_txid : q[1] # t
        /\ \A m \in Names : pending_udp[m] # t
    BY <2>1 DEF FreshLtids, TypeOK
  <2>7. IndexesAgree'
    <3>1. \A q \in by_local_txid : SocketKey(q)' = SocketKey(q)
      BY <2>4, <2>6 DEF forward_udp, SocketKey, ChannelOf, TypeOK
    <3>2. by_socket_txid' = by_socket_txid \cup
            {<<<<f, ChooseChannel(f)>>, ids[f], <<t, f>>>> : f \in S}
      BY <2>4 DEF forward_udp
    <3>3. ASSUME NEW q \in sent
          PROVE  SocketKey(q)' = <<<<q[2], ChooseChannel(q[2])>>, ids[q[2]], q>>
      <4>1. query'[q] = [channel |-> ChooseChannel(q[2]),
                         upstream_id |-> ids[q[2]],
                         used_edns |-> TRUE, age |-> 0]
        BY <2>4 DEF forward_udp
      <4>2. QED
        BY <4>1 DEF SocketKey, ChannelOf
    <3>4. /\ \A q \in sent : q[2] \in S /\ q = <<t, q[2]>>
          /\ \A f \in S : <<t, f>> \in sent
      BY <2>1 DEF QueryIds
    <3>5. {SocketKey(q)' : q \in sent}
            = {<<<<f, ChooseChannel(f)>>, ids[f], <<t, f>>>> : f \in S}
      <4> HIDE DEF sent, t
      <4>1. QED
        BY <3>3, <3>4
    <3>6. {SocketKey(q)' : q \in by_local_txid} = by_socket_txid
      BY <3>1 DEF IndexesAgree
    <3> HIDE DEF sent
    <3>7. QED
      BY <2>5, <3>2, <3>5, <3>6 DEF IndexesAgree
  <2>8. CASE S = {}
    <3>1. /\ UNCHANGED <<pending_udp, waiters, by_local_txid>>
          /\ status' = [status EXCEPT ![r] = "done"]
      BY <2>3, <2>5, <2>8
    <3>2. FreshLtids' /\ PendingIffInFlight'
      BY <2>1, <3>1 DEF FreshLtids, PendingIffInFlight, Ltids, TypeOK
    <3>3. \A s \in Requests : status'[s] = IF s = r THEN "done" ELSE status[s]
      BY <3>1 DEF TypeOK
    <3>4. WaitersAreReachable'
      BY <2>1, <3>1, <3>3 DEF WaitersAreReachable
    <3>5. PICK D \in SUBSET {r} : Send(D)
      BY <2>3, <2>8
    <3>6. AtMostOneReply'
      BY <2>1, <3>3, <3>5, SendOnce
    <3>7. QED
      BY <2>7, <3>2, <3>4, <3>6
  <2>9. CASE S # {}
    <3>1. /\ pending_udp' = [pending_udp EXCEPT ![n] = t]
          /\ waiters' = [waiters EXCEPT ![t] = {r}]
          /\ status' = [status EXCEPT ![r] = "waiting"]
          /\ UNCHANGED replies
      BY <2>3, <2>9
    <3>2. \A m \in Names : pending_udp'[m] = IF m = n THEN t ELSE pending_udp[m]
      BY <3>1 DEF TypeOK
    <3>3. \A s \in Requests : status'[s] = IF s = r THEN "waiting" ELSE status[s]
      BY <3>1 DEF TypeOK
    <3>4. FreshLtids'
      <4>1. \A q \in by_local_txid' : q \in by_local_txid \/ q[1] = t
        BY <2>5
      <4>2. QED
        BY <2>1, <3>2, <4>1 DEF FreshLtids, Ltids, TypeOK
    <3>5. PendingIffInFlight'
      <4>1. \E q \in by_local_txid' : q[1] = t
        <5>1. PICK f \in S : TRUE
          BY <2>9
        <5>2. <<t, f>> \in sent
          BY <2>1 DEF QueryIds
        <5>3. QED
          BY <2>5, <5>2
      <4>2. ASSUME NEW m \in Names, pending_udp'[m] # NoTransaction
            PROVE  \E q \in by_local_txid' : q[1] = pending_udp'[m]
        BY <2>5, <3>2, <4>1, <4>2 DEF PendingIffInFlight
      <4>3. ASSUME NEW q \in by_local_txid'
            PROVE  \E m \in Names : pending_udp'[m] = q[1]
        <5>1. CASE q[1] = t
          BY <2>1, <3>2, <5>1
        <5>2. CASE q[1] # t
          <6>1. q \in by_local_txid /\ q[1] # NoTransaction
            BY <2>5, <5>2 DEF TypeOK, QueryIds, Ltids, NoTransaction
          <6>2. PICK m \in Names : pending_udp[m] = q[1]
            BY <6>1 DEF PendingIffInFlight
          <6>3. pending_udp'[m] = q[1]
            BY <2>1, <3>2, <6>1, <6>2
          <6>4. QED
            BY <6>3
        <5>3. QED
          BY <5>1, <5>2
      <4>4. QED
        BY <4>2, <4>3 DEF PendingIffInFlight
    <3>6. WaitersAreReachable'
      <4> SUFFICES ASSUME NEW s \in Requests
                   PROVE  /\ \A u \in Ltids :
                               s \in waiters'[u] <=> /\ status'[s] = "waiting"
                                                     /\ pending_udp'[NameOf[s]] = u
                          /\ status'[s] = "waiting"
                               => pending_udp'[NameOf[s]] # NoTransaction
        BY DEF WaitersAreReachable
      <4>1. \A u \in Ltids : waiters'[u] = IF u = t THEN {r} ELSE waiters[u]
        BY <3>1 DEF TypeOK
      <4>2. NameOf[s] \in Names
        OBVIOUS
      <4>3. CASE s = r
        <5>1. status'[s] = "waiting" /\ pending_udp'[NameOf[s]] = t
          BY <2>1, <3>2, <3>3, <4>3
        <5>2. \A u \in Ltids : s \notin waiters[u]
          BY <2>1, <4>3 DEF WaitersAreReachable
        <5>3. QED
          BY <2>1, <4>1, <4>3, <5>1, <5>2
      <4>4. CASE s # r
        <5>1. status'[s] = status[s]
          BY <3>3, <4>4
        <5>2. status[s] = "waiting" => NameOf[s] # n
          BY <2>1 DEF WaitersAreReachable
        <5>3. status[s] = "waiting"
                => /\ pending_udp'[NameOf[s]] = pending_udp[NameOf[s]]
                   /\ pending_udp[NameOf[s]] # NoTransaction
          BY <3>2, <4>2, <5>2 DEF WaitersAreReachable
        <5>4. \A u \in Ltids :
                s \in waiters'[u] <=> s \in waiters[u] /\ u # t
          BY <4>1, <4>4
        <5>5. \A u \in Ltids : s \in waiters[u] <=> /\ status[s] = "waiting"
                                                    /\ pending_udp[NameOf[s]] = u
          BY DEF WaitersAreReachable
        <5>6. pending_udp[NameOf[s]] # t
          BY <2>6, <4>2
        <5>7. QED
          BY <5>1, <5>3, <5>4, <5>5, <5>6
      <4>5. QED
        BY <4>3, <4>4
    <3>7. AtMostOneReply'
      <4>1. ASSUME NEW s \in Requests
            PROVE  replies'[s] <= IF status'[s] = "done" THEN 1 ELSE 0
        <5>1. replies[s] <= IF status[s] = "done" THEN 1 ELSE 0
          BY DEF AtMostOneReply
        <5>2. replies'[s] = replies[s]
          BY <3>1
        <5>3. status[s] = "done" <=> status'[s] = "done"
          BY <2>1, <3>3
        <5>4. QED
          BY <5>1, <5>2, <5>3
      <4>2. QED
        BY <4>1 DEF AtMostOneReply
    <3>8. QED
      BY <2>7, <3>4, <3>5, <3>6, <3>7
  <2>10. QED
    BY <2>8, <2>9
<1>6. ASSUME NEW e \in by_socket_txid, RetryWithoutEdns(e) PROVE CoalescingInv'
  <2> DEFINE q == e[3]
  <2>1. /\ q \in by_local_txid
        /\ e = SocketKey(q)
        /\ UNCHANGED <<pending_udp, waiters, by_local_txid,
                       local_transaction_id, status, replies>>
    BY <1>6 DEF RetryWithoutEdns, Found
  <2>2. PICK i \in Txids :
          /\ by_socket_txid' = (by_socket_txid \ {e}) \cup {<<e[1], i, q>>}
          /\ query' = WithoutEdns(q, i)
    BY <1>6 DEF RetryWithoutEdns, FreeTxids
  <2>3. IndexesAgree'
    <3>1. \A p \in by_local_txid : p # q => SocketKey(p)' = SocketKey(p)
      BY <2>2 DEF WithoutEdns, TypeOK, SocketKey, ChannelOf
    <3>2. SocketKey(q)' = <<e[1], i, q>>
      BY <2>1, <2>2 DEF WithoutEdns, TypeOK, SocketKey, ChannelOf, UdpQuery
    <3>3. \A p \in by_local_txid : SocketKey(p) = e <=> p = q
      BY <2>1 DEF SocketKey
    <3>4. by_socket_txid \ {e} = {SocketKey(p) : p \in by_local_txid \ {q}}
      BY <3>3 DEF IndexesAgree
    <3>5. QED
      BY <2>1, <2>2, <3>1, <3>2, <3>4 DEF IndexesAgree
  <2>4. QED
    BY <2>1, <2>3 DEF FreshLtids, PendingIffInFlight, WaitersAreReachable,
                      AtMostOneReply
<1>7. ASSUME NEW e \in by_socket_txid, ReceiveAnswer(e) PROVE CoalescingInv'
  <2>1. e[3] \in by_local_txid
    BY <1>7 DEF ReceiveAnswer, Found
  <2>2. PICK D \in SUBSET waiters[e[3][1]] : Conclude(e[3], D, active_txids)
    BY <1>7 DEF ReceiveAnswer
  <2>3. QED
    BY <2>1, <2>2, ConcludeCoalescing
<1>8. ASSUME NEW e \in by_socket_txid, ReceiveFailure(e) PROVE CoalescingInv'
  <2>1. e[3] \in by_local_txid
    BY <1>8 DEF ReceiveFailure, Found
  <2>2. PICK D \in SUBSET waiters[e[3][1]], txids \in TxidsAfterLostRetry(e[3]) :
          Conclude(e[3], D, txids)
    BY <1>8 DEF ReceiveFailure
  <2>3. QED
    BY <2>1, <2>2, ConcludeCoalescing
<1>9. CASE Tick
  <2>1. \A q \in by_local_txid : SocketKey(q)' = SocketKey(q)
    BY <1>9 DEF Tick, TypeOK, SocketKey, ChannelOf, UdpQuery
  <2>2. QED
    BY <1>9, <2>1 DEF Tick, FreshLtids, PendingIffInFlight,
                      WaitersAreReachable, IndexesAgree, AtMostOneReply
<1>10. CASE CleanExpiredUdp
  <2> DEFINE Q == TimedOutQueries
  <2>1. Q \in SUBSET by_local_txid /\ finish_udp_query(Q, active_txids)
    BY <1>10 DEF CleanExpiredUdp, TimedOutQueries
  <2>2. PICK D \in SUBSET UNION {waiters[t] : t \in TimedOut} : Send(D)
    BY <1>10 DEF CleanExpiredUdp
  <2>3. \A t \in TimedOut : t \in Ltids /\ t \in EndedBy(Q)
    BY DEF TimedOutQueries, TimedOut, Expired, EndedBy, LocalWithout, TypeOK,
           QueryIds
  <2> HIDE DEF Q
  <2>4. FreshLtids' /\ PendingIffInFlight' /\ WaitersAreReachable' /\ IndexesAgree'
    BY <2>1, FinishCoalescing
  <2>5. ASSUME NEW r \in D
        PROVE  r \in Requests /\ status[r] # "done" /\ status'[r] = "done"
    <3>1. PICK t \in TimedOut : r \in waiters[t]
      BY <2>2
    <3>2. r \in Requests
      BY <2>3, <3>1 DEF TypeOK
    <3>3. status[r] = "waiting"
      BY <2>3, <3>1, <3>2 DEF WaitersAreReachable
    <3>4. status'[r] = "done"
      BY <2>1, <2>3, <3>1, <3>2 DEF finish_udp_query
    <3>5. QED
      BY <3>2, <3>3, <3>4
  <2>6. \A r \in Requests : status[r] = "done" => status'[r] = "done"
    BY <2>1 DEF finish_udp_query
  <2>7. AtMostOneReply'
    BY <2>2, <2>5, <2>6, SendOnce
  <2>8. QED
    BY <2>4, <2>7
<1>11. ASSUME UNCHANGED <<pending_udp, waiters, by_local_txid, by_socket_txid,
                          query, local_transaction_id, status, replies>>
       PROVE  CoalescingInv'
  BY <1>11 DEF FreshLtids, PendingIffInFlight, WaitersAreReachable,
               IndexesAgree, AtMostOneReply, SocketKey, ChannelOf
<1>12. CASE CleanOther \/ CleanActiveTxids \/ TcpTaskStarts \/ TcpReserves \/ TcpTaskEnds
  BY <1>11, <1>12 DEF CleanOther, CleanActiveTxids, TcpTaskStarts, TcpReserves,
                      TcpTaskEnds, network
<1>13. ASSUME NEW n \in Names, CacheEntryLeaves(n) PROVE CoalescingInv'
  BY <1>11, <1>13 DEF CacheEntryLeaves, network
<1>14. CASE UNCHANGED vars
  BY <1>11, <1>14 DEF vars, network
<1>15. QED
  BY <1>2, <1>3, <1>4, <1>5, <1>6, <1>7, <1>8, <1>9, <1>10, <1>12, <1>13, <1>14
     DEF Next, Query, Response, clean

\* The coalescing table, the two query registries and the set of waiting clients
\* agree in every reachable state: CoalescingInv is inductive relative to the
\* types.
THEOREM CoalescingCorrect == Spec => []CoalescingInv
<1>1. Init => TypeOK /\ CoalescingInv
  BY InitType, InitCoalescing
<1>2. TypeOK /\ CoalescingInv /\ [Next]_vars => (TypeOK /\ CoalescingInv)'
  BY NextType, NextCoalescing
<1>3. QED
  BY <1>1, <1>2, PTL DEF Spec

\* pending_udp (Private, Behind.cpp) holds a question exactly while an upstream
\* query of its transaction is registered.
THEOREM PendingCorrect == Spec => []PendingIffInFlight
<1>1. CoalescingInv => PendingIffInFlight
  BY DEF CoalescingInv
<1>2. QED
  BY <1>1, CoalescingCorrect, PTL

\* Every waiting client is in the PendingQuery of its question, and that
\* PendingQuery is the one in the table.
THEOREM WaitersCorrect == Spec => []WaitersAreReachable
<1>1. CoalescingInv => WaitersAreReachable
  BY DEF CoalescingInv
<1>2. QED
  BY <1>1, CoalescingCorrect, PTL

\* The two indexes of UdpQuery objects, by local id and by socket, hold the same
\* queries, whatever finish_udp_query() and the EDNS retry do to them.
THEOREM IndexesCorrect == Spec => []IndexesAgree
<1>1. CoalescingInv => IndexesAgree
  BY DEF CoalescingInv
<1>2. QED
  BY <1>1, CoalescingCorrect, PTL

\* No client gets two replies from reply_to_client_udp(), however many upstream
\* datagrams arrive and whenever the deadline scan runs.
THEOREM RepliesCorrect == Spec => []AtMostOneReply
<1>1. CoalescingInv => AtMostOneReply
  BY DEF CoalescingInv
<1>2. QED
  BY <1>1, CoalescingCorrect, PTL
===============================================================================
