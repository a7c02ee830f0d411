------------------------------ MODULE UdpService ------------------------------
(***************************************************************************)
(* What the UDP forwarding path promises its clients, without upstreams,   *)
(* sockets, ids or clocks: clients that ask the same question while it is  *)
(* open wait together; when the question closes they all leave at once and *)
(* some of them (those the datagram reaches) get one reply.                *)
(***************************************************************************)
EXTENDS Integers

CONSTANTS Requests,  \* client datagrams
          Names,     \* questions
          NameOf     \* the question of a request

VARIABLES open,      \* question -> the requests that wait for its answer
          status,    \* request -> "idle", "waiting" or "done"
          replies    \* request -> replies sent

svars == <<open, status, replies>>

Init == /\ open = [n \in Names |-> {}]
        /\ status = [r \in Requests |-> "idle"]
        /\ replies = [r \in Requests |-> 0]

\* The requests of S leave; those of D are reached by a reply.
Leave(S, D) ==
  /\ D \subseteq S
  /\ status' = [r \in Requests |-> IF r \in S THEN "done" ELSE status[r]]
  /\ replies' = [r \in Requests |-> IF r \in D THEN replies[r] + 1 ELSE replies[r]]

\* Answered or refused on the spot.
AnswerAtOnce(r) == /\ status[r] = "idle"
                   /\ \E D \in SUBSET {r} : Leave({r}, D)
                   /\ UNCHANGED open

\* Opens the question or joins those who wait for it.
Ask(r) == /\ status[r] = "idle"
          /\ open' = [open EXCEPT ![NameOf[r]] = @ \cup {r}]
          /\ status' = [status EXCEPT ![r] = "waiting"]
          /\ UNCHANGED replies

\* The questions of N close.
Close(N) == /\ open' = [n \in Names |-> IF n \in N THEN {} ELSE open[n]]
            /\ LET S == UNION {open[n] : n \in N}
               IN  \E D \in SUBSET S : Leave(S, D)

Next == \/ \E r \in Requests : AnswerAtOnce(r) \/ Ask(r)
        \/ \E N \in SUBSET Names : Close(N)

Spec == Init /\ [][Next]_svars

\* A request waits for its own question only, and the set of those who wait is
\* the set of those not yet let go.
OpenIsWaiting ==
  \A n \in Names : open[n] = {r \in Requests : NameOf[r] = n /\ status[r] = "waiting"}

\* At most one reply per request, and none before it leaves.
AtMostOneReply ==
  \A r \in Requests : replies[r] <= IF status[r] = "done" THEN 1 ELSE 0
===============================================================================
