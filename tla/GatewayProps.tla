---------------------------- MODULE GatewayProps ----------------------------
(***************************************************************************)
(* What the API process promises its wallets.                              *)
(***************************************************************************)
EXTENDS Gateway

Waiting == Range(requests)

\* Every request that has arrived is in one place: in the queue, waiting for the
\* core with a timer of its own, waiting for the database, or answered, once.
\* Answers, late answers, timers, lost connections and wallets that go never
\* answer one twice, leave one without a timer, or a timer without a request
\* (emitToCore, emitAndClear, buildRequestCleaner).
Accounted ==
    /\ ToSet(cleaners) = Waiting /\ IsInjective(cleaners)
    /\ \A i \in DOMAIN requests : requests[i].id = i
    /\ \A r \in Requests :
         /\ Len(answers[r]) <= 1
         /\ LET places == { p \in {"queue", "core", "database", "answered", "broken"} :
                    \/ p = "queue"    /\ r \in ToSet(requestsQueue)
                    \/ p = "core"     /\ r \in Waiting
                    \/ p = "database" /\ r \in reading
                    \/ p = "answered" /\ answers[r] # <<>>
                    \/ p = "broken"   /\ r \in broken }
            IN  /\ Cardinality(places) <= 1
                /\ r \in sent /\ r.client \in online => places # {}

\* Requests reach the core in the order in which they came, whether they had to
\* wait for the next second or not, and none waits while there is quota left
\* (emitToCore, processQueue).
NoOvertaking ==
    /\ arrived = emitted \o Reverse(requestsQueue)
    /\ requestsQueue # <<>> => requestsPerSecond >= Limit
    /\ requestsPerSecond <= Limit

\* A wallet that was told "timeout" while the core was away can send again: its
\* first request is not executed when the core is back, because the timer has
\* made the message that waits in the socket a response (buildRequestCleaner).
WithdrawnNotExecuted == withdrawn \cap executed = {}

-----------------------------------------------------------------------------
\* The interval, the timers and the database are served.  Nothing is assumed of
\* the core and of the connection to it.
Fairness ==
    /\ WF_vars(Tick) /\ WF_vars(Cleaner)
    /\ WF_vars(\E r \in Requests : Read(r))

FairSpec == Spec /\ Fairness

\* Every request of a wallet that stays is answered, whatever the core does,
\* unless the database rejects its query.
EveryRequestAnswered ==
    []<>(\A r \in sent : answers[r] # <<>> \/ r.client \notin online \/ r \in broken)
=============================================================================
