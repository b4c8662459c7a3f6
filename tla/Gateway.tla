------------------------------ MODULE Gateway ------------------------------
(***************************************************************************)
(* The API process between wallets and the core: it answers some requests  *)
(* itself, reads the database for others, and passes the rest on to the    *)
(* core, so many of them per second, under the id the wallet gave them.    *)
(* An answer of the core is matched with its request by that id alone, and *)
(* a timer answers for a core that is silent.                              *)
(***************************************************************************)
EXTENDS Naturals, Sequences, SequencesExt, FiniteSets, Functions

CONSTANTS Clients,   \* the wallets
          Requests,  \* what they send: records [id, client, kind]
          Limit,     \* REQUESTS_PER_SECOND_LIMIT
          MaxFaults  \* how often, in all, a wallet goes, a handler throws, the
                     \* connection is lost or the core emits an event

\* A request is of the wrong type or code or fails its schema ("refused"),
\* reads the database ("query") or is passed on ("proxy").  Ids are uuids.
Kinds == {"refused", "query", "proxy"}
ASSUME RequestsAssumption ==
    /\ \A r \in Requests : r.client \in Clients /\ r.kind \in Kinds
    /\ \A r, s \in Requests : r.id = s.id => r = s
ASSUME LimitAssumption == Limit \in Nat \ {0}

VARIABLES
    online,            \* the wallets that are connected
    sent,              \* the requests that have arrived
    requests,          \* Map of id to request, for the answers of the core
    requestsPerSecond, \* passed on since the last tick
    requestsQueue,     \* beyond the limit; new ones at the front
    cleaners,          \* running timers, the oldest first
    timedOut,          \* requests whose message a timer made a response
    reading,           \* requests that wait for the database
    broken,            \* requests whose query was rejected
    answers,           \* what each request was answered
    link,              \* whether the socket to the core is connected
    sendBuffer,        \* what the disconnected socket keeps: references
    toCore, fromCore,  \* the connection: encoded messages
    executed,          \* requests whose method ran in the core
    faults,            \* how often one of these has happened
    arrived, emitted,  \* history: requests for the core in the order they
                       \* came and in the order they were passed on
    withdrawn          \* history: timed out before they left the process

wallet == <<online, sent, answers>>
gateway == <<requests, requestsPerSecond, requestsQueue, cleaners, timedOut, reading, broken>>
wire == <<link, sendBuffer, toCore, fromCore>>
history == <<arrived, emitted, withdrawn>>
vars == <<wallet, gateway, wire, executed, faults, history>>

Init ==
    /\ online = Clients /\ sent = {} /\ answers = [r \in Requests |-> <<>>]
    /\ requests = <<>> /\ requestsPerSecond = 0 /\ requestsQueue = <<>>
    /\ cleaners = <<>> /\ timedOut = {} /\ reading = {} /\ broken = {}
    /\ link = FALSE /\ sendBuffer = <<>> /\ toCore = <<>> /\ fromCore = <<>>
    /\ executed = {}
    /\ faults = 0
    /\ arrived = <<>> /\ emitted = <<>> /\ withdrawn = {}

Fault == faults < MaxFaults /\ faults' = faults + 1

-----------------------------------------------------------------------------
(* Messages.                                                               *)

\* socket.emit to a wallet; nothing reaches one that is gone.
Answer(r, reply) ==
    answers' = IF r.client \in online
               THEN [answers EXCEPT ![r] = Append(@, reply)]
               ELSE answers

\* A message is encoded when it goes on the wire, and its type is read then: the
\* timer of a request changes the very object that the socket may still hold.
\* Mutant: the timer works on a copy of the message.
Encode_Copied(r) == [id |-> r.id, request |-> r, type |-> "request"]
Encode(r) ==
    [id |-> r.id, request |-> r, type |-> IF r \in timedOut THEN "response" ELSE "request"]

\* coreSocketClient.emit, one message after the other.
SendToCore(rs) ==
    IF link
    THEN /\ toCore' = toCore \o [i \in DOMAIN rs |-> Encode(rs[i])]
         /\ UNCHANGED <<link, sendBuffer, fromCore>>
    ELSE /\ sendBuffer' = sendBuffer \o rs
         /\ UNCHANGED <<link, toCore, fromCore>>

\* What emitToCore does below the limit: a timer, an entry, a message.
PassOn(rs) ==
    /\ cleaners' = cleaners \o rs
    /\ requests' = [i \in DOMAIN requests \cup {r.id : r \in ToSet(rs)} |->
                        IF \E r \in ToSet(rs) : r.id = i
                        THEN CHOOSE r \in ToSet(rs) : r.id = i
                        ELSE requests[i]]
    /\ emitted' = emitted \o rs
    /\ SendToCore(rs)

-----------------------------------------------------------------------------
(* Wallets.                                                                *)

Receive(r) ==
    /\ r \in Requests \ sent /\ r.client \in online
    /\ sent' = sent \cup {r}
    /\ UNCHANGED <<online, executed, faults>>

\* processMessage knows the method, and its arguments pass validate.
Accepted(r) == r.kind # "refused"

Refuse(r) ==
    /\ ~Accepted(r) /\ Receive(r)
    /\ Answer(r, "refused")
    /\ UNCHANGED <<gateway, wire, history>>

\* The controllers of blocks, transactions and rewards ask the database.
Query(r) ==
    /\ r.kind = "query" /\ Receive(r)
    /\ reading' = reading \cup {r}
    /\ UNCHANGED <<answers, requests, requestsPerSecond, requestsQueue, cleaners, timedOut,
                   broken, wire, history>>

\* requestsQueue.unshift.
\* Mutant: push, so that the next pop takes the newest.
Queued_Pushes(r) == Append(requestsQueue, r)
Queued(r) == <<r>> \o requestsQueue

\* The others call emitToCore, which counts or queues the request.
EmitToCore(r) ==
    IF requestsPerSecond >= Limit
    THEN /\ requestsQueue' = Queued(r)
         /\ UNCHANGED <<requestsPerSecond, requests, cleaners, emitted, wire>>
    ELSE /\ requestsPerSecond' = requestsPerSecond + 1
         /\ PassOn(<<r>>)
         /\ UNCHANGED requestsQueue

Proxy(r) ==
    /\ r.kind = "proxy" /\ Receive(r)
    /\ arrived' = Append(arrived, r)
    /\ EmitToCore(r)
    /\ UNCHANGED <<answers, timedOut, reading, broken, withdrawn>>

Leave(c) ==
    /\ c \in online /\ Fault
    /\ online' = online \ {c}
    /\ UNCHANGED <<sent, answers, gateway, wire, executed, history>>

-----------------------------------------------------------------------------
(* Timers and the database.                                                *)

\* How many requests processQueue pops before the limit stops it.
\* Mutant: the interval only resets the count.
Popped_None == 0
Popped == IF Len(requestsQueue) < Limit THEN Len(requestsQueue) ELSE Limit

Oldest(n) == [i \in 1..n |-> requestsQueue[Len(requestsQueue) + 1 - i]]
Remaining(n) == SubSeq(requestsQueue, 1, Len(requestsQueue) - n)

\* Each second: the count starts again, and processQueue passes on the oldest
\* requests of the queue.
Tick ==
    /\ requestsPerSecond > 0
    /\ requestsPerSecond' = Popped
    /\ requestsQueue' = Remaining(Popped)
    /\ PassOn(Oldest(Popped))
    /\ UNCHANGED <<wallet, timedOut, reading, broken, executed, faults, arrived, withdrawn>>

\* Takes entry i out of the Map.
Forget(i) == requests' = [j \in DOMAIN requests \ {i} |-> requests[j]]

\* buildRequestCleaner: no answer of the core within SOCKET_TIMEOUT_MS.
Cleaner ==
    /\ cleaners # <<>>
    /\ LET r == Head(cleaners) IN
         /\ timedOut' = timedOut \cup {r}
         /\ withdrawn' = IF r \in ToSet(sendBuffer) THEN withdrawn \cup {r} ELSE withdrawn
         /\ Forget(r.id)
         /\ Answer(r, "timeout")
    /\ cleaners' = Tail(cleaners)
    /\ UNCHANGED <<online, sent, requestsPerSecond, requestsQueue, reading, broken, wire,
                   executed, faults, arrived, emitted>>

Read(r) ==
    /\ r \in reading
    /\ reading' = reading \ {r}
    /\ Answer(r, "data")
    /\ UNCHANGED <<online, sent, requests, requestsPerSecond, requestsQueue, cleaners, timedOut,
                   broken, wire, executed, faults, history>>

\* A rejected query ends in the listener for unhandledRejection.
ReadFails(r) ==
    /\ r \in reading /\ Fault
    /\ reading' = reading \ {r} /\ broken' = broken \cup {r}
    /\ UNCHANGED <<wallet, requests, requestsPerSecond, requestsQueue, cleaners, timedOut,
                   wire, executed, history>>

-----------------------------------------------------------------------------
(* The core and the connection to it.                                      *)

\* onMessage: a request is executed and answered, synchronously; what is not a
\* request is refused.
Execute(m) ==
    /\ executed' = IF m.type = "request" THEN executed \cup {m.request} ELSE executed
    /\ toCore' = Tail(toCore)

OnMessage ==
    /\ toCore # <<>> /\ Execute(Head(toCore))
    /\ fromCore' = Append(fromCore, [id |-> Head(toCore).id,
                                     reply |-> IF Head(toCore).type = "request"
                                               THEN "data" ELSE "refused"])
    /\ UNCHANGED <<wallet, gateway, link, sendBuffer, faults, history>>

\* A method that throws leaves the request without an answer.
OnMessageThrows ==
    /\ toCore # <<>> /\ Head(toCore).type = "request" /\ Fault
    /\ Execute(Head(toCore))
    /\ UNCHANGED <<wallet, gateway, link, sendBuffer, fromCore, history>>

\* An event has an id of its own; id 0 stands for those of all events.
EmitEvent ==
    /\ link /\ Fault
    /\ fromCore' = Append(fromCore, [id |-> 0, reply |-> "event"])
    /\ UNCHANGED <<wallet, gateway, link, sendBuffer, toCore, executed, history>>

\* Mutant: the timer keeps running.
ClearTimeout_Not(r) == UNCHANGED cleaners
ClearTimeout(r) == cleaners' = RemoveFirst(cleaners, r)

\* onCoreMessage, emitToClient, emitAndClear: whoever waits under this id gets
\* the answer; an event (shown to all wallets) or a late answer finds nobody.
OnCoreMessage ==
    /\ fromCore # <<>> /\ fromCore' = Tail(fromCore)
    /\ LET m == Head(fromCore) IN
         IF m.id \in DOMAIN requests
         THEN /\ Answer(requests[m.id], m.reply)
              /\ ClearTimeout(requests[m.id])
              /\ Forget(m.id)
         ELSE UNCHANGED <<answers, cleaners, requests>>
    /\ UNCHANGED <<online, sent, requestsPerSecond, requestsQueue, timedOut, reading, broken,
                   link, sendBuffer, toCore, executed, faults, history>>

\* socket.io-client connects again by itself and then sends what it kept; what
\* was on the wire of the lost connection is lost with it.
Connect ==
    /\ ~link /\ link' = TRUE
    /\ toCore' = [i \in DOMAIN sendBuffer |-> Encode(sendBuffer[i])]
    /\ sendBuffer' = <<>>
    /\ UNCHANGED <<wallet, gateway, fromCore, executed, faults, history>>

Disconnect ==
    /\ link /\ link' = FALSE /\ Fault
    /\ toCore' = <<>> /\ fromCore' = <<>>
    /\ UNCHANGED <<wallet, gateway, sendBuffer, executed, history>>

-----------------------------------------------------------------------------
Next ==
    \/ \E r \in Requests : Refuse(r) \/ Query(r) \/ Proxy(r) \/ Read(r) \/ ReadFails(r)
    \/ \E c \in Clients : Leave(c)
    \/ Tick \/ Cleaner
    \/ OnMessage \/ OnMessageThrows \/ EmitEvent \/ OnCoreMessage
    \/ Connect \/ Disconnect

Spec == Init /\ [][Next]_vars
=============================================================================
