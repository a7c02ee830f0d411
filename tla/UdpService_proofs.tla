--------------------------- MODULE UdpService_proofs ---------------------------
(***************************************************************************)
(* What UdpForward promises beyond the agreement of its tables, for every  *)
(* value of the constants: it implements UdpService, never stores a        *)
(* failure of its own over an answer of its own, and counts sockets and    *)
(* tasks exactly.                                                          *)
(***************************************************************************)
EXTENDS UdpForward_proofs

USE UdpForwardAssumption

-------------------------------------------------------------------------------
(***************************************************************************)
(* Questions and transactions.                                             *)
(***************************************************************************)

\* Two questions never share a transaction.
OneQuestionEach ==
  \A n, m \in Names :
    pending_udp[n] = pending_udp[m] /\ pending_udp[n] # NoTransaction => n = m

\* While the cache holds an answer of the UDP path, nobody is asked.
AnswerClosesQuestion ==
  \A n \in Names \ RootNames : cache[n] = "answer" => pending_udp[n] = NoTransaction

QuestionInv == OneQuestionEach /\ AnswerClosesQuestion

\* Finishing queries leaves a question its transaction or takes it away.
LEMMA FinishPending ==
  ASSUME TypeOK, NEW Q, NEW txids, finish_udp_query(Q, txids), NEW n \in Names
  PROVE  pending_udp'[n] \in {pending_udp[n], NoTransaction}
  BY DEF finish_udp_query, PendingWithout

LEMMA FinishOneQuestion ==
  ASSUME TypeOK, OneQuestionEach, NEW Q, NEW txids, finish_udp_query(Q, txids)
  PROVE  OneQuestionEach'
  BY FinishPending DEF OneQuestionEach

\* The question of a registered query.
LEMMA KeyOfRegistered ==
  ASSUME TypeOK, PendingIffInFlight, NEW q \in by_local_txid
  PROVE  /\ KeyOf(q[1]) \in Names
         /\ pending_udp[KeyOf(q[1])] = q[1]
         /\ q[1] \in Ltids /\ q[1] # NoTransaction
<1>1. q[1] \in Ltids /\ q[1] # NoTransaction
  BY DEF TypeOK, QueryIds, Ltids, NoTransaction
<1>2. \E n \in Names : pending_udp[n] = q[1]
  BY DEF PendingIffInFlight
<1>3. QED
  BY <1>1, <1>2 DEF KeyOf

LEMMA InitQuestion == Init => QuestionInv
  BY DEF Init, QuestionInv, OneQuestionEach, AnswerClosesQuestion

\* A verdict that reached clients closes its question.
LEMMA ConcludeClosed ==
  ASSUME TypeOK, PendingIffInFlight, NEW q \in by_local_txid, NEW D, D # {},
         NEW txids, Conclude(q, D, txids)
  PROVE  pending_udp'[KeyOf(q[1])] = NoTransaction
<1>1. /\ KeyOf(q[1]) \in Names /\ pending_udp[KeyOf(q[1])] = q[1]
  BY KeyOfRegistered
<1>2. finish_udp_query(Siblings(q[1]), txids)
  BY DEF Conclude
<1>3. /\ \E s \in Siblings(q[1]) : s[1] = q[1]
      /\ \A s \in LocalWithout(Siblings(q[1])) : s[1] # q[1]
  BY DEF Siblings, LocalWithout
<1>4. QED
  BY <1>1, <1>2, <1>3 DEF finish_udp_query, PendingWithout

LEMMA NextQuestion ==
  TypeOK /\ CoalescingInv /\ QuestionInv /\ [Next]_vars => QuestionInv'
<1> SUFFICES ASSUME TypeOK, CoalescingInv, QuestionInv, [Next]_vars
             PROVE  QuestionInv'
  OBVIOUS
<1> USE DEF QuestionInv
<1>1. PendingIffInFlight /\ FreshLtids
  BY DEF CoalescingInv
<1>2. ASSUME UNCHANGED <<pending_udp, cache>>
      PROVE  QuestionInv'
  BY <1>2 DEF OneQuestionEach, AnswerClosesQuestion
<1>3. ASSUME NEW r \in Requests,
             process_local_query(r) \/ RefuseQuery(r) \/ JoinPending(r)
      PROVE  QuestionInv'
  BY <1>2, <1>3 DEF process_local_query, RefuseQuery, JoinPending
<1>4. ASSUME NEW r \in Requests, StartTransaction(r)
      PROVE  QuestionInv'
  <2> DEFINE n == NameOf[r]
             t == local_transaction_id
  <2>1. /\ UNCHANGED cache
        /\ n \in RootNames \/ cache[n] = "none"
        /\ t \in Ltids
        /\ \/ UNCHANGED pending_udp
           \/ pending_udp' = [pending_udp EXCEPT ![n] = t]
    BY <1>4 DEF StartTransaction, Forwardable, Ltids, TypeOK
  <2>2. \A m \in Names : pending_udp[m] # t
    BY <1>1, <2>1 DEF FreshLtids, Ltids, TypeOK
  <2>3. n \in Names
    OBVIOUS
  <2>4. CASE pending_udp' = [pending_udp EXCEPT ![n] = t]
    <3>1. \A m \in Names : pending_udp'[m] = IF m = n THEN t ELSE pending_udp[m]
      BY <2>3, <2>4 DEF TypeOK
    <3>2. OneQuestionEach'
      BY <2>2, <3>1 DEF OneQuestionEach
    <3>3. AnswerClosesQuestion'
      BY <2>1, <3>1 DEF AnswerClosesQuestion
    <3>4. QED
      BY <3>2, <3>3
  <2>5. QED
    BY <1>2, <2>1, <2>4
<1>5. ASSUME NEW e \in by_socket_txid, RetryWithoutEdns(e)
      PROVE  QuestionInv'
  BY <1>2, <1>5 DEF RetryWithoutEdns
<1>6. ASSUME NEW e \in by_socket_txid, ReceiveAnswer(e)
      PROVE  QuestionInv'
  <2> DEFINE q == e[3]
             n == KeyOf(q[1])
  <2>1. q \in by_local_txid
    BY <1>6 DEF ReceiveAnswer, Found
  <2>2. PICK D \in SUBSET waiters[q[1]] :
          /\ Conclude(q, D, active_txids)
          /\ IF D # {} THEN cache_insert(n) ELSE UNCHANGED cache
    BY <1>6 DEF ReceiveAnswer
  <2>3. PICK Q : finish_udp_query(Q, active_txids)
    BY <2>2 DEF Conclude
  <2>4. OneQuestionEach'
    BY <2>3, FinishOneQuestion
  <2>5. CASE UNCHANGED cache
    BY <2>3, <2>4, <2>5, FinishPending DEF AnswerClosesQuestion
  <2>6. CASE D # {} /\ cache_insert(n)
    <3>1. pending_udp'[n] = NoTransaction
      BY <1>1, <2>1, <2>2, <2>6, ConcludeClosed
    <3>2. \A m \in Names : cache'[m] = cache[m] \/ m = n
      BY <2>6 DEF cache_insert, TypeOK
    <3>3. QED
      BY <2>3, <2>4, <3>1, <3>2, FinishPending DEF AnswerClosesQuestion
  <2>7. QED
    BY <2>2, <2>5, <2>6
<1>7. ASSUME NEW N, insert_failure(N), NEW Q, NEW txids, finish_udp_query(Q, txids)
      PROVE  QuestionInv'
  <2>1. \A m \in Names : cache'[m] \in {cache[m], "failure"}
    BY <1>7 DEF insert_failure
  <2>2. OneQuestionEach'
    BY <1>7, FinishOneQuestion
  <2>3. QED
    BY <1>7, <2>1, <2>2, FinishPending DEF AnswerClosesQuestion
<1>8. ASSUME NEW e \in by_socket_txid, ReceiveFailure(e)
      PROVE  QuestionInv'
  BY <1>7, <1>8 DEF ReceiveFailure, Conclude
<1>9. CASE CleanExpiredUdp
  BY <1>7, <1>9 DEF CleanExpiredUdp
<1>10. CASE Tick \/ CleanOther \/ CleanActiveTxids \/ UNCHANGED vars
  BY <1>2, <1>10 DEF Tick, CleanOther, CleanActiveTxids, vars
<1>11. CASE TcpTaskStarts \/ TcpReserves
  BY <1>2, <1>11 DEF TcpTaskStarts, TcpReserves
<1>14. CASE TcpTaskEnds
  <2>1. \A n \in Names : cache'[n] = "answer" => cache[n] = "answer"
    BY <1>14 DEF TcpTaskEnds, FromTcp, TypeOK
  <2>2. UNCHANGED pending_udp
    BY <1>14 DEF TcpTaskEnds
  <2>3. QED
    BY <2>1, <2>2 DEF OneQuestionEach, AnswerClosesQuestion
<1>12. ASSUME NEW n \in Names, CacheEntryLeaves(n)
       PROVE  QuestionInv'
  BY <1>12 DEF CacheEntryLeaves, OneQuestionEach, AnswerClosesQuestion, TypeOK
<1>13. QED
  BY <1>3, <1>4, <1>5, <1>6, <1>8, <1>9, <1>10, <1>11, <1>12, <1>14
     DEF Next, Query, Response, clean

LEMMA QuestionCorrect == Spec => [](TypeOK /\ CoalescingInv /\ QuestionInv)
  BY TypeCorrect, CoalescingCorrect, InitQuestion, NextQuestion, PTL DEF Spec

\* The UDP path stores a failure only for questions that are in flight, or for the
\* question of a query that is: none of them has an answer of this path in the cache.
LEMMA StepKeepsAnswers ==
  TypeOK /\ CoalescingInv /\ QuestionInv /\ [Next]_vars
  => \A n \in Names \ RootNames : cache[n] = "answer" => cache'[n] # "failure"
<1> SUFFICES ASSUME TypeOK, CoalescingInv, QuestionInv, [Next]_vars,
                    NEW n \in Names \ RootNames, cache[n] = "answer"
             PROVE  cache'[n] # "failure"
  OBVIOUS
<1>1. PendingIffInFlight /\ pending_udp[n] = NoTransaction
  BY DEF CoalescingInv, QuestionInv, AnswerClosesQuestion
<1>2. ASSUME NEW N, insert_failure(N), n \notin N
      PROVE  cache'[n] # "failure"
  BY <1>2 DEF insert_failure
<1>3. ASSUME NEW e \in by_socket_txid, ReceiveFailure(e)
      PROVE  cache'[n] # "failure"
  <2>1. e[3] \in by_local_txid /\ insert_failure({KeyOf(e[3][1])})
    BY <1>3 DEF ReceiveFailure, Found
  <2>2. n # KeyOf(e[3][1])
    BY <1>1, <2>1, KeyOfRegistered
  <2>3. QED
    BY <1>2, <2>1, <2>2
<1>4. CASE CleanExpiredUdp
  <2>1. NoTransaction \notin TimedOut
    BY DEF TimedOut, Expired, TypeOK, QueryIds, Ltids, NoTransaction
  <2>2. QED
    BY <1>1, <1>2, <1>4, <2>1 DEF CleanExpiredUdp
<1>5. ASSUME NEW e \in by_socket_txid, ReceiveAnswer(e)
      PROVE  cache'[n] # "failure"
  BY <1>5 DEF ReceiveAnswer, cache_insert, TypeOK
<1>6. ASSUME NEW m \in Names, CacheEntryLeaves(m)
      PROVE  cache'[n] # "failure"
  BY <1>6 DEF CacheEntryLeaves, TypeOK
<1>7. ASSUME UNCHANGED cache PROVE cache'[n] # "failure"
  BY <1>7
<1>8. ASSUME NEW r \in Requests, Query(r) PROVE cache'[n] # "failure"
  BY <1>7, <1>8 DEF Query, process_local_query, RefuseQuery, JoinPending,
                    StartTransaction
<1>9. ASSUME NEW e \in by_socket_txid, RetryWithoutEdns(e)
      PROVE  cache'[n] # "failure"
  BY <1>7, <1>9 DEF RetryWithoutEdns
<1>10. CASE Tick \/ CleanOther \/ CleanActiveTxids \/ UNCHANGED vars
  BY <1>7, <1>10 DEF Tick, CleanOther, CleanActiveTxids, vars
<1>11. CASE TcpTaskStarts \/ TcpReserves
  BY <1>7, <1>11 DEF TcpTaskStarts, TcpReserves
<1>12. CASE TcpTaskEnds
  BY <1>12 DEF TcpTaskEnds, FromTcp, TypeOK
<1>13. QED
  BY <1>3, <1>4, <1>5, <1>6, <1>8, <1>9, <1>10, <1>11, <1>12 DEF Next, Response, clean

\* insert_failure() (Behind.cpp) stores without looking at what is there, and still
\* no failure the UDP path learns replaces an answer it has stored, with the TCP path
\* storing answers and failures of its own in the same cache at any moment.
THEOREM OwnFailureMasksNothing == Spec => OwnFailureNeverMasksAnswer
<1>1. TypeOK /\ CoalescingInv /\ QuestionInv /\ [Next]_vars
      => [\A n \in Names \ RootNames :
            cache[n] = "answer" => cache'[n] # "failure"]_vars
  BY StepKeepsAnswers
<1>2. QED
  BY <1>1, QuestionCorrect, PTL DEF Spec, OwnFailureNeverMasksAnswer

-------------------------------------------------------------------------------
(***************************************************************************)
(* The refinement.                                                         *)
(***************************************************************************)

\* Those who wait on a question are those who asked it and have not left.
Waiting(n) == {r \in Requests : NameOf[r] = n /\ status[r] = "waiting"}

Abstract == [n \in Names |-> OpenFor(n)]

LEMMA OpenForIsWaiting ==
  ASSUME TypeOK, WaitersAreReachable, OneQuestionEach, NEW n \in Names
  PROVE  OpenFor(n) = Waiting(n)
<1>1. CASE pending_udp[n] = NoTransaction
  <2>1. \A r \in Requests : status[r] = "waiting" => NameOf[r] # n
    BY <1>1 DEF WaitersAreReachable
  <2>2. QED
    BY <1>1, <2>1 DEF OpenFor, Waiting
<1>2. CASE pending_udp[n] # NoTransaction
  <2>1. pending_udp[n] \in Ltids /\ waiters[pending_udp[n]] \in SUBSET Requests
    BY <1>2 DEF TypeOK
  <2>2. ASSUME NEW r \in Requests
        PROVE  r \in waiters[pending_udp[n]] <=> NameOf[r] = n /\ status[r] = "waiting"
    BY <1>2, <2>1 DEF WaitersAreReachable, OneQuestionEach
  <2>3. QED
    BY <1>2, <2>1, <2>2 DEF OpenFor, Waiting
<1>3. QED
  BY <1>1, <1>2

LEMMA AbstractIsWaiting ==
  TypeOK /\ CoalescingInv /\ QuestionInv => Abstract = [n \in Names |-> Waiting(n)]
  BY OpenForIsWaiting DEF CoalescingInv, QuestionInv, Abstract

LEMMA InitService == Init => Service!Init
<1> SUFFICES ASSUME Init PROVE Service!Init
  OBVIOUS
<1>1. \A n \in Names : OpenFor(n) = {}
  BY DEF Init, OpenFor
<1>2. QED
  BY <1>1 DEF Init, Service!Init

\* A client that is answered at once, and one that starts to wait.
LEMMA AnswerStep ==
  ASSUME TypeOK, NEW r \in Requests, status[r] = "idle",
         status' = [status EXCEPT ![r] = "done"],
         \E D \in SUBSET {r} : Send(D),
         Abstract = [n \in Names |-> Waiting(n)],
         Abstract' = [n \in Names |-> Waiting(n)']
  PROVE  Service!AnswerAtOnce(r)
<1>1. \A n \in Names : Waiting(n)' = Waiting(n)
  BY DEF Waiting, TypeOK
<1>2. Abstract' = Abstract
  BY <1>1
<1>3. PICK D \in SUBSET {r} : Send(D)
  OBVIOUS
<1>4. Service!Leave({r}, D)
  BY <1>3 DEF Send, Service!Leave, TypeOK
<1>5. QED
  BY <1>2, <1>4 DEF Service!AnswerAtOnce, Abstract

LEMMA AskStep ==
  ASSUME TypeOK, NEW r \in Requests, status[r] = "idle",
         status' = [status EXCEPT ![r] = "waiting"], UNCHANGED replies,
         Abstract = [n \in Names |-> Waiting(n)],
         Abstract' = [n \in Names |-> Waiting(n)']
  PROVE  Service!Ask(r)
<1>1. \A n \in Names : Waiting(n)' = IF n = NameOf[r] THEN Waiting(n) \cup {r}
                                                     ELSE Waiting(n)
  BY DEF Waiting, TypeOK
<1>2. Abstract' = [Abstract EXCEPT ![NameOf[r]] = @ \cup {r}]
  BY <1>1
<1>3. QED
  BY <1>2 DEF Service!Ask, Abstract

\* Finishing queries closes the questions whose transactions end.
LEMMA CloseStep ==
  ASSUME TypeOK, CoalescingInv, NEW Q \in SUBSET by_local_txid, NEW txids,
         finish_udp_query(Q, txids), NEW D, Send(D),
         D \subseteq UNION {waiters[t] : t \in EndedBy(Q)},
         Abstract = [n \in Names |-> Waiting(n)],
         Abstract' = [n \in Names |-> Waiting(n)']
  PROVE  \E N \in SUBSET Names : Service!Close(N)
<1> DEFINE N    == {n \in Names : pending_udp[n] \in EndedBy(Q)}
           S    == UNION {Abstract[n] : n \in N}
           Gone == UNION {waiters[t] : t \in EndedBy(Q)}
<1>1. EndedBy(Q) \subseteq Ltids /\ NoTransaction \notin Ltids
  BY DEF EndedBy, Ltids, NoTransaction
<1>2. \A n \in N : Abstract[n] = waiters[pending_udp[n]]
  BY <1>1 DEF Abstract, OpenFor
<1>3. \A t \in EndedBy(Q) : \E n \in N : pending_udp[n] = t
  BY DEF EndedBy, CoalescingInv, PendingIffInFlight
<1>4. S = Gone
  BY <1>2, <1>3
<1>5. Gone \in SUBSET Requests
  BY <1>1 DEF TypeOK
<1>6. \A r \in Requests : status'[r] = IF r \in Gone THEN "done" ELSE status[r]
  BY DEF finish_udp_query
<1>7. Service!Leave(S, D)
  <2>1. status' = [r \in Requests |-> IF r \in Gone THEN "done" ELSE status[r]]
    BY DEF finish_udp_query
  <2>2. QED
    BY <1>4, <2>1 DEF Send, Service!Leave
<1>8. \A r \in Gone : status[r] = "waiting" /\ NameOf[r] \in N
  BY <1>1, <1>5 DEF CoalescingInv, WaitersAreReachable
<1>9. ASSUME NEW n \in Names
      PROVE  Waiting(n)' = IF n \in N THEN {} ELSE Waiting(n)
  <2>1. CASE n \in N
    <3>1. Waiting(n) \subseteq Gone
      BY <1>2, <2>1
    <3>2. QED
      BY <1>6, <2>1, <3>1 DEF Waiting
  <2>2. CASE n \notin N
    <3>1. \A r \in Requests : NameOf[r] = n => r \notin Gone
      BY <1>8, <2>2
    <3>2. QED
      BY <1>6, <2>2, <3>1 DEF Waiting
  <2>3. QED
    BY <2>1, <2>2
<1>10. Abstract' = [n \in Names |-> IF n \in N THEN {} ELSE Abstract[n]]
  BY <1>9
<1>11. D \in SUBSET S
  BY <1>4
<1> HIDE DEF N, Gone
<1>12. Service!Close(N)
  BY <1>7, <1>10, <1>11 DEF Service!Close, Abstract
<1>13. N \in SUBSET Names
  BY DEF N
<1>14. QED
  BY <1>12, <1>13

LEMMA NextService ==
  /\ TypeOK /\ CoalescingInv /\ QuestionInv
  /\ TypeOK' /\ CoalescingInv' /\ QuestionInv'
  /\ [Next]_vars
  => [Service!Next]_(Service!svars)
<1> SUFFICES ASSUME TypeOK, CoalescingInv, QuestionInv,
                    TypeOK', CoalescingInv', QuestionInv', [Next]_vars
             PROVE  Service!Next \/ UNCHANGED Service!svars
  OBVIOUS
<1>1. Abstract = [n \in Names |-> Waiting(n)]
  BY AbstractIsWaiting
<1>2. (Abstract = [n \in Names |-> Waiting(n)])'
  BY AbstractIsWaiting, PTL
<1>3. ASSUME UNCHANGED <<status, replies>>
      PROVE  UNCHANGED Service!svars
  <2>1. \A n \in Names : Waiting(n)' = Waiting(n)
    BY <1>3 DEF Waiting
  <2>2. Abstract' = Abstract
    BY <1>1, <1>2, <2>1
  <2>3. QED
    BY <1>3, <2>2 DEF Service!svars, Abstract
<1>4. ASSUME NEW r \in Requests, process_local_query(r) \/ RefuseQuery(r)
      PROVE  Service!Next
  <2>1. Service!AnswerAtOnce(r)
    BY <1>1, <1>2, <1>4, AnswerStep DEF process_local_query, RefuseQuery, Forwardable
  <2>2. QED
    BY <2>1 DEF Service!Next
<1>5. ASSUME NEW r \in Requests, JoinPending(r)
      PROVE  Service!Next
  <2>1. Service!Ask(r)
    BY <1>1, <1>2, <1>5, AskStep DEF JoinPending, Forwardable
  <2>2. QED
    BY <2>1 DEF Service!Next
<1>6. ASSUME NEW r \in Requests, StartTransaction(r)
      PROVE  Service!Next
  <2>1. /\ status[r] = "idle"
        /\ \/ /\ status' = [status EXCEPT ![r] = "waiting"]
              /\ UNCHANGED replies
           \/ /\ status' = [status EXCEPT ![r] = "done"]
              /\ \E D \in SUBSET {r} : Send(D)
    BY <1>6 DEF StartTransaction, Forwardable
  <2>2. Service!Ask(r) \/ Service!AnswerAtOnce(r)
    BY <1>1, <1>2, <2>1, AskStep, AnswerStep
  <2>3. QED
    BY <2>2 DEF Service!Next
<1>7. ASSUME NEW e \in by_socket_txid, ReceiveAnswer(e) \/ ReceiveFailure(e)
      PROVE  Service!Next
  <2> DEFINE q == e[3]
  <2>1. q \in by_local_txid
    BY <1>7 DEF ReceiveAnswer, ReceiveFailure, Found
  <2>2. PICK D \in SUBSET waiters[q[1]] : \E txids : Conclude(q, D, txids)
    BY <1>7 DEF ReceiveAnswer, ReceiveFailure
  <2>3. PICK txids : Conclude(q, D, txids)
    BY <2>2
  <2> DEFINE Q == IF D # {} THEN Siblings(q[1]) ELSE {q}
  <2>4. Q \in SUBSET by_local_txid /\ finish_udp_query(Q, txids) /\ Send(D)
    BY <2>1, <2>3 DEF Conclude, Siblings
  <2>5. D \subseteq UNION {waiters[t] : t \in EndedBy(Q)}
    <3>1. CASE D # {}
      <4>1. q[1] \in EndedBy(Q)
        BY <2>1, <3>1 DEF EndedBy, Siblings, LocalWithout, TypeOK, QueryIds
      <4>2. QED
        BY <2>2, <4>1
    <3>2. QED
      BY <3>1
  <2> HIDE DEF Q
  <2>6. \E N \in SUBSET Names : Service!Close(N)
    BY <1>1, <1>2, <2>4, <2>5, CloseStep
  <2>7. QED
    BY <2>6 DEF Service!Next
<1>8. CASE CleanExpiredUdp
  <2> DEFINE Q == TimedOutQueries
  <2>1. Q \in SUBSET by_local_txid /\ finish_udp_query(Q, active_txids)
    BY <1>8 DEF TimedOutQueries, CleanExpiredUdp
  <2>2. PICK D \in SUBSET UNION {waiters[t] : t \in TimedOut} : Send(D)
    BY <1>8 DEF CleanExpiredUdp
  <2>3. TimedOut \subseteq EndedBy(Q)
    BY DEF TimedOut, TimedOutQueries, Expired, EndedBy, LocalWithout, TypeOK, QueryIds
  <2>4. D \subseteq UNION {waiters[t] : t \in EndedBy(Q)}
    BY <2>2, <2>3
  <2> HIDE DEF Q
  <2>5. \E N \in SUBSET Names : Service!Close(N)
    BY <1>1, <1>2, <2>1, <2>2, <2>4, CloseStep
  <2>6. QED
    BY <2>5 DEF Service!Next
<1>9. ASSUME NEW e \in by_socket_txid, RetryWithoutEdns(e)
      PROVE  UNCHANGED Service!svars
  BY <1>3, <1>9 DEF RetryWithoutEdns
<1>10. CASE Tick \/ CleanOther \/ CleanActiveTxids \/ UNCHANGED vars
  BY <1>3, <1>10 DEF Tick, CleanOther, CleanActiveTxids, vars
<1>11. CASE TcpTaskStarts \/ TcpReserves \/ TcpTaskEnds
  BY <1>3, <1>11 DEF TcpTaskStarts, TcpReserves, TcpTaskEnds
<1>12. ASSUME NEW n \in Names, CacheEntryLeaves(n)
       PROVE  UNCHANGED Service!svars
  BY <1>3, <1>12 DEF CacheEntryLeaves
<1>13. QED
  BY <1>4, <1>5, <1>6, <1>7, <1>8, <1>9, <1>10, <1>11, <1>12
     DEF Next, Query, Response, clean

\* process_query_udp(), process_upstream_udp_channel() and the deadline scan together
\* keep the promise of UdpService: all clients of a question wait together, leave
\* together, and only those who leave get a reply, one each.
THEOREM ServiceCorrect == Spec => ImplementsService
<1>1. Init => Service!Init
  BY InitService
<1>2. Spec => [](TypeOK /\ CoalescingInv /\ QuestionInv)
  BY QuestionCorrect
<1>3. QED
  BY <1>1, <1>2, NextService, PTL DEF Spec, ImplementsService, Service!Spec

-------------------------------------------------------------------------------
(***************************************************************************)
(* The counted resources: the load of each socket and the number of tasks. *)
(***************************************************************************)

\* The registered queries are finitely many, and so is every part of them.
LEMMA RegisteredFinite ==
  ASSUME TypeOK, NEW Q \in SUBSET by_local_txid
  PROVE  IsFiniteSet(Q) /\ Cardinality(Q) \in Nat
<1>1. Q \in SUBSET QueryIds
  BY DEF TypeOK
<1>2. QED
  BY <1>1, QueryIdsFinite, FS_Subset, FS_CardinalityType

\* Finishing queries takes from the load of a socket the number of those that
\* were on it: no decrement is cut off at zero.
LEMMA FinishLoad ==
  ASSUME TypeOK, ChannelLoadExact, NEW Q \in SUBSET by_local_txid, NEW txids,
         finish_udp_query(Q, txids)
  PROVE  ChannelLoadExact'
<1> SUFFICES ASSUME NEW c \in Channels
             PROVE  active_queries'[c]
                      = Cardinality({q \in by_local_txid' : (ChannelOf(q) = c)'})
  BY DEF ChannelLoadExact
<1> DEFINE On    == {q \in by_local_txid : ChannelOf(q) = c}
           Gone  == {q \in Q : ChannelOf(q) = c}
           n     == Cardinality(Gone)
           load  == active_queries[c]
<1>1. load = Cardinality(On)
  BY DEF ChannelLoadExact
<1>2. IsFiniteSet(On) /\ IsFiniteSet(Gone) /\ load \in Nat /\ n \in Nat
  BY <1>1, RegisteredFinite
<1>3. Gone \in SUBSET On /\ On \cap Gone = Gone
  OBVIOUS
<1>4. n <= load
  BY <1>1, <1>2, <1>3, FS_Subset
<1>5. active_queries'[c] = load - n
  BY <1>4 DEF finish_udp_query, ActiveWithout
<1>6. {q \in by_local_txid' : (ChannelOf(q) = c)'} = On \ Gone
  BY DEF finish_udp_query, LocalWithout, ChannelOf, TypeOK
<1>7. Cardinality(On \ Gone) = Cardinality(On) - Cardinality(On \cap Gone)
  BY <1>2, FS_Difference
<1> HIDE DEF On, Gone
<1>8. QED
  BY <1>1, <1>3, <1>5, <1>6, <1>7

\* A fan-out adds one query to the chosen socket of each forwarder it reached.
LEMMA ForwardLoad ==
  ASSUME TypeOK, FreshLtids, ChannelLoadExact,
         NEW t \in Ltids, t = local_transaction_id,
         NEW S \in SUBSET Forwarders, NEW L, NEW N, NEW ids,
         forward_udp(t, S, L, N, ids)
  PROVE  ChannelLoadExact'
<1> SUFFICES ASSUME NEW c \in Channels
             PROVE  active_queries'[c]
                      = Cardinality({q \in by_local_txid' : (ChannelOf(q) = c)'})
  BY DEF ChannelLoadExact
<1> DEFINE On   == {q \in by_local_txid : ChannelOf(q) = c}
           sent == {q \in QueryIds : q[1] = t /\ q[2] \in S}
           new  == <<t, c[1]>>
           hit  == c[1] \in S /\ c[2] = ChooseChannel(c[1])
<1>1. active_queries[c] = Cardinality(On) /\ IsFiniteSet(On)
  BY RegisteredFinite DEF ChannelLoadExact
<1>2. \A q \in by_local_txid : q[1] # t
  BY DEF FreshLtids, TypeOK
<1>3. by_local_txid' = by_local_txid \cup sent
  BY DEF forward_udp
<1>4. \A q \in by_local_txid : q \in QueryIds /\ (ChannelOf(q) = ChannelOf(q)')
  BY <1>2 DEF forward_udp, ChannelOf, TypeOK
<1>5. ASSUME NEW q \in sent
      PROVE  ChannelOf(q)' = <<q[2], ChooseChannel(q[2])>>
  <2>1. query'[q] = [channel |-> ChooseChannel(q[2]), upstream_id |-> ids[q[2]],
                     used_edns |-> TRUE, age |-> 0]
    BY DEF forward_udp
  <2>2. QED
    BY <2>1 DEF ChannelOf
<1>6. /\ c = <<c[1], c[2]>> /\ c[1] \in Forwarders
      /\ \A q \in sent : q = <<t, q[2]>> /\ q[2] \in S
      /\ c[1] \in S => new \in sent
  BY DEF Channels, QueryIds
<1>7. active_queries'[c] = IF hit THEN active_queries[c] + 1 ELSE active_queries[c]
  BY DEF forward_udp, TypeOK
<1> HIDE DEF sent
<1>8. CASE hit
  <2>1. {q \in by_local_txid' : (ChannelOf(q) = c)'} = On \cup {new}
    <3>1. new \in by_local_txid' /\ ChannelOf(new)' = c
      BY <1>3, <1>5, <1>6, <1>8
    <3>2. \A q \in sent : ChannelOf(q)' = c => q = new
      BY <1>5, <1>6
    <3>3. QED
      BY <1>3, <1>4, <3>1, <3>2
  <2>2. new \notin On
    BY <1>2
  <2>3. Cardinality(On \cup {new}) = Cardinality(On) + 1
    BY <1>1, <2>2, FS_AddElement
  <2>4. QED
    BY <1>1, <1>7, <1>8, <2>1, <2>3
<1>9. CASE ~hit
  <2>1. \A q \in sent : ChannelOf(q)' # c
    BY <1>5, <1>6, <1>9
  <2>2. {q \in by_local_txid' : (ChannelOf(q) = c)'} = On
    BY <1>3, <1>4, <2>1
  <2>3. QED
    BY <1>1, <1>7, <1>9, <2>2
<1>10. QED
  BY <1>8, <1>9

\* Finishing queries frees their tasks.
LEMMA FinishCapacity ==
  ASSUME TypeOK, WithinCapacity, NEW Q \in SUBSET by_local_txid, NEW txids,
         finish_udp_query(Q, txids)
  PROVE  WithinCapacity'
<1>1. by_local_txid' \in SUBSET by_local_txid /\ tcp_tasks' = tcp_tasks
  BY DEF finish_udp_query, LocalWithout
<1>2. /\ Cardinality(by_local_txid') <= Cardinality(by_local_txid)
      /\ Cardinality(by_local_txid') \in Nat /\ Cardinality(by_local_txid) \in Nat
  BY <1>1, RegisteredFinite, FS_Subset
<1>3. QED
  BY <1>1, <1>2 DEF WithinCapacity, active_task_count, TypeOK

\* A fan-out takes at most the tasks that were left, one for each forwarder that it
\* reached.
LEMMA ForwardCapacity ==
  ASSUME TypeOK, WithinCapacity, NEW t \in Ltids, NEW F \in SUBSET Forwarders,
         NEW S \in SUBSET F, NEW L, NEW N, NEW ids,
         ForwardOutcome(F, S, L, N), forward_udp(t, S, L, N, ids),
         tcp_tasks' = tcp_tasks
  PROVE  WithinCapacity'
<1> DEFINE sent == {q \in QueryIds : q[1] = t /\ q[2] \in S}
           room == MaxTasks - active_task_count
<1>1. by_local_txid' = by_local_txid \cup sent /\ Cardinality(S) <= room
  BY DEF forward_udp, ForwardOutcome
<1>2. sent = {t} \X S
  BY DEF QueryIds
<1> HIDE DEF sent
<1>3. IsFiniteSet(S) /\ IsFiniteSet({t}) /\ Cardinality({t}) = 1
  BY FS_Subset, FS_Singleton
<1>4. IsFiniteSet(sent) /\ Cardinality(sent) = Cardinality(S)
  <2>1. /\ IsFiniteSet({t} \X S)
        /\ Cardinality({t} \X S) = Cardinality({t}) * Cardinality(S)
    BY <1>3, FS_Product
  <2>2. Cardinality(S) \in Nat
    BY <1>3, FS_CardinalityType
  <2>3. Cardinality({t} \X S) = 1 * Cardinality(S)
    BY <1>3, <2>1
  <2>4. QED
    BY <1>2, <2>1, <2>2, <2>3
<1>5. IsFiniteSet(by_local_txid) /\ Cardinality(by_local_txid) \in Nat
  BY RegisteredFinite
<1>6. /\ Cardinality(by_local_txid \cup sent)
           = Cardinality(by_local_txid) + Cardinality(sent)
               - Cardinality(by_local_txid \cap sent)
      /\ Cardinality(by_local_txid \cap sent) \in Nat
      /\ Cardinality(sent) \in Nat
  BY <1>4, <1>5, FS_Union, FS_Intersection, FS_CardinalityType
<1>7. tcp_tasks \in Nat
  BY DEF TypeOK
<1>8. QED
  BY <1>1, <1>4, <1>5, <1>6, <1>7 DEF WithinCapacity, active_task_count

LEMMA InitLoad == Init => ChannelLoadExact /\ WithinCapacity
<1> SUFFICES ASSUME Init PROVE ChannelLoadExact /\ WithinCapacity
  OBVIOUS
<1>1. \A c : {q \in by_local_txid : ChannelOf(q) = c} = {}
  BY DEF Init
<1>2. ChannelLoadExact
  BY <1>1, FS_EmptySet DEF Init, ChannelLoadExact
<1>3. WithinCapacity
  BY FS_EmptySet DEF Init, WithinCapacity, active_task_count
<1>4. QED
  BY <1>2, <1>3

LEMMA NextLoad ==
  /\ TypeOK /\ TypeOK' /\ FreshLtids /\ ChannelLoadExact /\ WithinCapacity
  /\ [Next]_vars
  => ChannelLoadExact' /\ WithinCapacity'
<1> SUFFICES ASSUME TypeOK, TypeOK', FreshLtids, ChannelLoadExact, WithinCapacity,
                    [Next]_vars
             PROVE  ChannelLoadExact' /\ WithinCapacity'
  OBVIOUS
<1>1. ASSUME UNCHANGED <<by_local_txid, query, active_queries>>
      PROVE  ChannelLoadExact'
  BY <1>1 DEF ChannelLoadExact, ChannelOf
<1>2. ASSUME UNCHANGED <<by_local_txid, tcp_tasks>>
      PROVE  WithinCapacity'
  BY <1>2 DEF WithinCapacity, active_task_count
<1>3. ASSUME NEW r \in Requests,
             process_local_query(r) \/ RefuseQuery(r) \/ JoinPending(r)
      PROVE  ChannelLoadExact' /\ WithinCapacity'
  BY <1>1, <1>2, <1>3 DEF process_local_query, RefuseQuery, JoinPending, network
<1>4. ASSUME NEW r \in Requests, StartTransaction(r)
      PROVE  ChannelLoadExact' /\ WithinCapacity'
  <2> DEFINE n == NameOf[r]
             t == local_transaction_id
  <2>1. t \in Ltids /\ n \in Names /\ tcp_tasks' = tcp_tasks
    BY <1>4 DEF StartTransaction, Ltids, TypeOK
  <2>2. PICK F \in choose_forwarder(n) : \E S, L, N \in SUBSET F :
          /\ ForwardOutcome(F, S, L, N)
          /\ \E ids \in [S \cup L -> Txids] : forward_udp(t, S, L, N, ids)
    BY <1>4 DEF StartTransaction
  <2>3. F \in SUBSET Forwarders
    BY <2>1 DEF choose_forwarder
  <2>4. PICK S \in SUBSET F, L \in SUBSET F, N \in SUBSET F :
          /\ ForwardOutcome(F, S, L, N)
          /\ \E ids \in [S \cup L -> Txids] : forward_udp(t, S, L, N, ids)
    BY <2>2
  <2>5. PICK ids \in [S \cup L -> Txids] : forward_udp(t, S, L, N, ids)
    BY <2>4
  <2>6. ChannelLoadExact'
    BY <2>1, <2>3, <2>5, ForwardLoad
  <2>7. WithinCapacity'
    BY <2>1, <2>3, <2>4, <2>5, ForwardCapacity
  <2>8. QED
    BY <2>6, <2>7
<1>5. ASSUME NEW e \in by_socket_txid, RetryWithoutEdns(e)
      PROVE  ChannelLoadExact' /\ WithinCapacity'
  <2>1. PICK i \in Txids : query' = WithoutEdns(e[3], i)
    BY <1>5 DEF RetryWithoutEdns, FreeTxids
  <2>2. \A q \in by_local_txid : ChannelOf(q)' = ChannelOf(q)
    BY <2>1 DEF WithoutEdns, ChannelOf, TypeOK, UdpQuery
  <2>3. UNCHANGED <<by_local_txid, active_queries, tcp_tasks>>
    BY <1>5 DEF RetryWithoutEdns
  <2>4. QED
    BY <1>2, <2>2, <2>3 DEF ChannelLoadExact
<1>6. ASSUME NEW q \in by_local_txid, NEW D, NEW txids, Conclude(q, D, txids)
      PROVE  ChannelLoadExact' /\ WithinCapacity'
  <2>1. PICK Q \in SUBSET by_local_txid : finish_udp_query(Q, txids)
    BY <1>6 DEF Conclude, Siblings
  <2>2. QED
    BY <2>1, FinishLoad, FinishCapacity
<1>7. ASSUME NEW e \in by_socket_txid, ReceiveAnswer(e) \/ ReceiveFailure(e)
      PROVE  ChannelLoadExact' /\ WithinCapacity'
  <2>1. e[3] \in by_local_txid
    BY <1>7 DEF ReceiveAnswer, ReceiveFailure, Found
  <2>2. \E D, txids : Conclude(e[3], D, txids)
    BY <1>7 DEF ReceiveAnswer, ReceiveFailure
  <2>3. QED
    BY <1>6, <2>1, <2>2
<1>8. CASE Tick
  <2>1. \A q \in by_local_txid : ChannelOf(q)' = ChannelOf(q)
    BY <1>8 DEF Tick, ChannelOf, TypeOK, UdpQuery
  <2>2. UNCHANGED <<by_local_txid, active_queries, tcp_tasks>>
    BY <1>8 DEF Tick
  <2>3. QED
    BY <1>2, <2>1, <2>2 DEF ChannelLoadExact
<1>9. CASE CleanExpiredUdp
  <2>1. TimedOutQueries \in SUBSET by_local_txid
    BY DEF TimedOutQueries
  <2>2. finish_udp_query(TimedOutQueries, active_txids)
    BY <1>9 DEF CleanExpiredUdp
  <2>3. QED
    BY <2>1, <2>2, FinishLoad, FinishCapacity
<1>10. CASE CleanOther \/ CleanActiveTxids \/ TcpReserves \/ UNCHANGED vars
  BY <1>1, <1>2, <1>10 DEF CleanOther, CleanActiveTxids, TcpReserves, vars, network
<1>11. ASSUME NEW n \in Names, CacheEntryLeaves(n)
       PROVE  ChannelLoadExact' /\ WithinCapacity'
  BY <1>1, <1>2, <1>11 DEF CacheEntryLeaves, network
<1>12. CASE TcpTaskStarts \/ TcpTaskEnds
  <2>1. ChannelLoadExact'
    BY <1>1, <1>12 DEF TcpTaskStarts, TcpTaskEnds, network
  <2>2. Cardinality(by_local_txid) \in Nat /\ tcp_tasks \in Nat
    BY RegisteredFinite DEF TypeOK
  <2>3. by_local_txid' = by_local_txid
    BY <1>12 DEF TcpTaskStarts, TcpTaskEnds, network
  <2>4. WithinCapacity'
    BY <1>12, <2>2, <2>3 DEF TcpTaskStarts, TcpTaskEnds, WithinCapacity,
                             active_task_count
  <2>5. QED
    BY <2>1, <2>4
<1>13. QED
  BY <1>3, <1>4, <1>5, <1>7, <1>8, <1>9, <1>10, <1>11, <1>12
     DEF Next, Query, Response, clean

\* The counts are right in every reachable state, relative to the types and to
\* FreshLtids: that a new query is not yet registered makes it count once.
LEMMA LoadInductive ==
  Spec => [](TypeOK /\ FreshLtids /\ ChannelLoadExact /\ WithinCapacity)
<1>1. CoalescingInv => FreshLtids
  BY DEF CoalescingInv
<1>2. Spec => [](TypeOK /\ FreshLtids)
  BY <1>1, TypeCorrect, CoalescingCorrect, PTL
<1>3. QED
  BY <1>2, InitLoad, NextLoad, PTL DEF Spec

\* UdpChannel::active_queries (Behind.cpp) is the number of registered queries on
\* its socket, through fan-out, retry, answer and deadline: the decrement in
\* finish_udp_query() never stops at zero, and the least busy socket is the one
\* get_or_create_udp_channel() takes.
THEOREM LoadCorrect == Spec => []ChannelLoadExact
  BY LoadInductive, PTL

\* active_task_count() never exceeds max_tasks, however many forwarders a query
\* is sent to and however many TCP tasks start meanwhile.
THEOREM CapacityCorrect == Spec => []WithinCapacity
  BY LoadInductive, PTL
===============================================================================
