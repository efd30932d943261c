------------------------- MODULE RequestDispatcher -------------------------
(***************************************************************************)
(* MQTT 5 request/response: client.request(), the dispatcher that matches  *)
(* responses to requests (request_response.py) and the response observers  *)
(* of a connection (protocol.py), which keep the response topic subscribed *)
(* while a request waits, next to an application that may own the same     *)
(* topic.  A step runs one task from one suspension to the next.           *)
(*                                                                         *)
(* An interest object is named by the request that made it.  The state of  *)
(* its ready task is told to whoever awaits it when it ends, so that task  *)
(* can forget what nobody will read.  The broker answers                   *)
(* SUBSCRIBE and UNSUBSCRIBE, may reject a filter it does not have yet,    *)
(* and sends responses on the topics it has.                               *)
(***************************************************************************)
EXTENDS Naturals, SequencesExt, FiniteSets

CONSTANTS
    Requests,       \* calls of client.request()
    TopicOf,        \* [Requests -> response topics]
    CorrelationOf,  \* [Requests -> correlation data]
    AppTopics,      \* the topics the application subscribes to by itself
    MaxPending,     \* max_pending_requests
    MaxConns,       \* bound: connections of the client
    MaxCancels,     \* bound: cancellations of request() calls
    None

ASSUME CapacityAssumption == MaxPending \in Nat \ {0}
ASSUME ConnsAssumption == MaxConns \in Nat \ {0}
ASSUME NoneAssumption == None \notin Requests

Topics == {TopicOf[r] : r \in Requests}
ASSUME AppAssumption == AppTopics \subseteq Topics

Key(r) == <<TopicOf[r], CorrelationOf[r]>>
Keys == {Key(r) : r \in Requests}
Finished == {"ok", "rejected", "disconnected", "cancelled"}

VARIABLES
    capacity, pending, topics,  \* of the dispatcher
    refcount, task,         \* of the interest objects; task: their ready task
    pc, awaiting,           \* of a call; awaiting: an interest and its verdict
    future, claimed,        \* of its _PendingRequest
    claims,                 \* claimed responses under way: <<request, generation>>
    client, conn,           \* the run loop's view and the connection number
    restore,                \* restore(): phase, interests left, interest awaited
    observers, appsub,      \* the index of the connection
    queue,                  \* the guard of each topic: its holder and waiters
    app,                    \* the application's own call: kind, topic, stage
    broker,                 \* the topics the broker has for the connection
    unmatched,              \* an UNSUBACK is on its way that nobody awaits
    cancels,                \* calls cancelled by their callers
    abandoned               \* topics whose cleanup was cut short

interests == <<refcount, task>>
waiters == <<future, claimed, claims>>
link == <<client, conn, unmatched>>
index == <<observers, appsub>>
dispatcher == <<capacity, pending, topics>>
vars == <<dispatcher, interests, pc, awaiting, waiters, link, restore, index, queue, app,
          broker, cancels, abandoned>>

Alive == client = "up"
Registered(r) == pending[Key(r)] = r

(* _protocol is None once cancel_pending() has run, and before that the    *)
(* last connection, dead or alive; _generation counts bind() and it.       *)
Bound == client \notin {"stopping", "stopped"}
Generation == IF Bound THEN conn ELSE conn + 1

Known == {topics[t] : t \in Topics} \ {None}
Nothing == <<None, "none">>
NoApp == [kind |-> "none", topic |-> None, stage |-> "none"]
NoRestore == [phase |-> "off", todo |-> {}, at |-> None]

Init ==
    /\ capacity = MaxPending /\ pending = [k \in Keys |-> None]
    /\ topics = [t \in Topics |-> None]
    /\ refcount = [r \in Requests |-> 0] /\ task = [r \in Requests |-> "none"]
    /\ pc = [r \in Requests |-> "calling"] /\ awaiting = [r \in Requests |-> Nothing]
    /\ future = [r \in Requests |-> "none"] /\ claimed = [r \in Requests |-> FALSE]
    /\ claims = {} /\ client = "up" /\ conn = 1 /\ unmatched = FALSE
    /\ restore = NoRestore
    /\ observers = {} /\ appsub = {} /\ queue = [t \in Topics |-> <<>>]
    /\ app = NoApp /\ broker = {} /\ cancels = 0 /\ abandoned = {}

Waits(r, where, for) ==
    /\ pc' = [pc EXCEPT ![r] = where]
    /\ awaiting' = [awaiting EXCEPT ![r] = for]

(* The call returns or raises.                                             *)
Ends(r) == Waits(r, "done", Nothing)

-----------------------------------------------------------------------------
(* register() when the semaphore lets it through.  A duplicate key and a   *)
(* missing connection give the place back at once.                         *)
Refuse(r) ==
    /\ pc[r] = "calling" /\ capacity > 0
    /\ pending[Key(r)] # None \/ ~ Bound
    /\ Ends(r)
    /\ UNCHANGED <<dispatcher, interests, waiters, link, restore, index, queue, app, broker,
                   cancels, abandoned>>

(* A ready task that has failed already fails the registration at once;    *)
(* the interest goes unless it has other requests.                         *)
RegisterFails(r) ==
    LET t == TopicOf[r]
        i == topics[t]
    IN  /\ pc[r] = "calling" /\ capacity > 0
        /\ pending[Key(r)] = None /\ Bound
        /\ i # None /\ task[i] \in Finished \ {"ok"}
        /\ topics' = IF refcount[i] = 0 THEN [topics EXCEPT ![t] = None] ELSE topics
        /\ task' = IF refcount[i] = 0 THEN [task EXCEPT ![i] = "none"] ELSE task
        /\ Ends(r)
        /\ UNCHANGED <<capacity, pending, refcount, waiters, link, restore, index, queue, app,
                       broker, cancels, abandoned>>

(* The rest of register() up to the wait for the ready task, which         *)
(* _ensure_topic_ready creates for the first request of the connection.    *)
Register(r) ==
    LET t == TopicOf[r]
        i == IF topics[t] = None THEN r ELSE topics[t]
    IN  /\ pc[r] = "calling" /\ capacity > 0
        /\ pending[Key(r)] = None /\ Bound
        /\ task[i] \notin Finished \ {"ok"}
        /\ capacity' = capacity - 1
        /\ pending' = [pending EXCEPT ![Key(r)] = r]
        /\ topics' = [topics EXCEPT ![t] = i]
        /\ refcount' = [refcount EXCEPT ![i] = @ + 1]
        /\ task' = [task EXCEPT ![i] = IF @ = "none" THEN "created" ELSE @]
        /\ future' = [future EXCEPT ![r] = "waiting"]
        /\ pc' = [pc EXCEPT ![r] = IF task[i] = "ok" THEN "reply" ELSE "ready"]
        /\ awaiting' = [awaiting EXCEPT ![r] = IF task[i] = "ok" THEN Nothing ELSE <<i, "none">>]
        /\ UNCHANGED <<claimed, claims, link, restore, index, queue, app, broker, cancels,
                       abandoned>>

-----------------------------------------------------------------------------
\* Mutant: the place is given back only when the broker was asked.
RemoveBodyKeepsPlace(r, q) ==
    LET t == TopicOf[r]
        asks == t \in observers /\ t \notin appsub /\ Alive
    IN  /\ observers' = observers \ {t} /\ UNCHANGED capacity
        /\ queue' = [queue EXCEPT ![t] = IF asks THEN q ELSE Tail(q)]
        /\ IF asks THEN Waits(r, "unsuback", Nothing) ELSE Ends(r)

\* Mutant: an early return keeps the guard.
RemoveBodyKeepsGuard(r, q) ==
    LET t == TopicOf[r]
        asks == t \in observers /\ t \notin appsub /\ Alive
    IN  /\ observers' = observers \ {t} /\ queue' = [queue EXCEPT ![t] = q]
        /\ IF asks THEN Waits(r, "unsuback", Nothing) /\ capacity' = capacity
                   ELSE Ends(r) /\ capacity' = capacity + 1

(* remove_response_observer() at the head of the guard's queue q: what it  *)
(* does until it ends, and the call with it, or waits for the UNSUBACK.    *)
RemoveBody(r, q) ==
    LET t == TopicOf[r]
        asks == t \in observers /\ t \notin appsub /\ Alive
    IN  /\ observers' = observers \ {t}
        /\ queue' = [queue EXCEPT ![t] = IF asks THEN q ELSE Tail(q)]
        /\ IF asks THEN Waits(r, "unsuback", Nothing) /\ capacity' = capacity
                   ELSE Ends(r) /\ capacity' = capacity + 1

\* Mutant: the observer is removed only if the topic was rejected.
RemovesNever(status) == status = "rejected"

(* observer_active and protocol is not None                                *)
Removes(status) == status = "ok" /\ Bound

(* The end of unregister(): the interest goes, and the observer with it    *)
(* when the ready task had made one.                                       *)
DropInterest(r, i, status) ==
    LET t == TopicOf[r]
    IN  /\ topics' = [topics EXCEPT ![t] = None]
        /\ task' = [task EXCEPT ![i] = IF @ \in Finished THEN "none" ELSE @]
        /\ IF ~ Removes(status)
           THEN Ends(r) /\ capacity' = capacity + 1 /\ UNCHANGED <<observers, queue>>
           ELSE IF queue[t] = <<>>
           THEN RemoveBody(r, << <<"remove", r>> >>)
           ELSE /\ queue' = [queue EXCEPT ![t] = Append(@, <<"remove", r>>)]
                /\ Waits(r, "removing", Nothing)
                /\ UNCHANGED <<capacity, observers>>

(* unregister() of a request that is leaving, up to its first wait.  A     *)
(* response claimed for it is dropped by complete(): it is forgotten here. *)
Leave(r) ==
    LET i == topics[TopicOf[r]]
        last == refcount[i] = 1
    IN  /\ \/ /\ ~ Registered(r)
              /\ Ends(r)
              /\ UNCHANGED <<dispatcher, interests, observers, queue>>
           \/ /\ Registered(r)
              /\ pending' = [pending EXCEPT ![Key(r)] = None]
              /\ refcount' = [refcount EXCEPT ![i] = @ - 1]
              /\ \/ /\ ~ last
                    /\ Ends(r) /\ capacity' = capacity + 1
                    /\ UNCHANGED <<topics, task, observers, queue>>
                 \/ /\ last /\ task[i] \in Finished \cup {"none"}
                    /\ DropInterest(r, i, task[i])
                 \/ /\ last /\ task[i] \notin Finished \cup {"none"}
                    /\ Waits(r, "cleanup", <<i, "none">>)
                    /\ UNCHANGED <<capacity, topics, task, observers, queue>>
        /\ future' = [future EXCEPT ![r] = "none"]
        /\ claimed' = [claimed EXCEPT ![r] = FALSE]
        /\ claims' = {response \in claims : response[1] # r}
        /\ UNCHANGED <<link, restore, appsub, app, broker, abandoned>>

(* The ready task has ended: the request is published, or registration     *)
(* fails with the task's exception.                                        *)
ReadyDone(r) ==
    /\ pc[r] = "ready" /\ awaiting[r][2] = "ok"
    /\ Waits(r, "reply", Nothing)
    /\ UNCHANGED <<dispatcher, interests, waiters, link, restore, index, queue, app, broker,
                   cancels, abandoned>>

ReadyFails(r) ==
    /\ pc[r] = "ready" /\ awaiting[r][2] \in Finished \ {"ok"}
    /\ Leave(r)
    /\ UNCHANGED cancels

(* publish() raises, or it returns and the wait for the reply ends: with   *)
(* the result, the exception cancel_pending() set, or the timeout.         *)
ReplyEnds(r) == pc[r] = "reply" /\ Leave(r) /\ UNCHANGED cancels

\* Mutant: whoever joined meanwhile is overlooked.
UnusedIgnoresJoiners(i) == topics[TopicOf[i]] = i

(* interest.refcount == 0 and the dictionary still has this interest       *)
Unused(i) == refcount[i] = 0 /\ topics[TopicOf[i]] = i

(* unregister() after its wait for the ready task: a request that joined   *)
(* meanwhile inherits the interest.                                        *)
CleanupDone(r) ==
    LET i == awaiting[r][1]
        status == awaiting[r][2]
    IN  /\ pc[r] = "cleanup" /\ status \in Finished
        /\ \/ Unused(i) /\ DropInterest(r, i, status)
           \/ /\ ~ Unused(i)
              /\ Ends(r) /\ capacity' = capacity + 1
              /\ UNCHANGED <<topics, task, observers, queue>>
        /\ UNCHANGED <<pending, refcount, waiters, link, restore, appsub, app, broker, cancels,
                       abandoned>>

RemoveTurn(r) ==
    /\ pc[r] = "removing" /\ Head(queue[TopicOf[r]]) = <<"remove", r>>
    /\ RemoveBody(r, queue[TopicOf[r]])
    /\ UNCHANGED <<pending, topics, interests, waiters, link, restore, appsub, app, broker,
                   cancels, abandoned>>

RemoveAck(r) ==
    LET t == TopicOf[r]
    IN  /\ pc[r] = "unsuback" /\ client \in {"up", "stopping"}
        /\ broker' = broker \ {t}
        /\ queue' = [queue EXCEPT ![t] = Tail(@)]
        /\ Ends(r) /\ capacity' = capacity + 1
        /\ UNCHANGED <<pending, topics, interests, waiters, link, restore, index, app, cancels,
                       abandoned>>

-----------------------------------------------------------------------------
(* The ready tasks of interests I end with a verdict: the calls and the    *)
(* restore() that await them learn of it.                                  *)
Informed(I, verdict) ==
    awaiting' = [r \in Requests |->
                    IF awaiting[r][1] \in I /\ awaiting[r][2] = "none"
                    THEN <<awaiting[r][1], verdict>> ELSE awaiting[r]]

TasksEnd(I, verdict) ==
    /\ task' = [i \in Requests |-> IF i \notin I THEN task[i]
                                   ELSE IF i \in Known THEN verdict ELSE "none"]
    /\ Informed(I, verdict)

TaskEnds(i, verdict) ==
    /\ TasksEnd({i}, verdict)
    /\ restore' = IF restore.phase = "wait" /\ restore.at = i
                  THEN [restore EXCEPT !.phase = verdict] ELSE restore

(* add_response_observer() of interest i at the head of queue q.           *)
AddBody(i, q) ==
    LET t == TopicOf[i]
        asks == Alive /\ t \notin observers /\ t \notin appsub
    IN  /\ observers' = IF Alive THEN observers \cup {t} ELSE observers
        /\ queue' = [queue EXCEPT ![t] = IF asks THEN q ELSE Tail(q)]
        /\ IF asks THEN /\ task' = [task EXCEPT ![i] = "suback"]
                        /\ UNCHANGED <<awaiting, restore>>
                   ELSE TaskEnds(i, IF Alive THEN "ok" ELSE "disconnected")
        /\ UNCHANGED <<dispatcher, refcount, pc, waiters, link, appsub, app, broker, cancels,
                       abandoned>>

AddStart(i) ==
    LET t == TopicOf[i]
    IN  /\ task[i] = "created"
        /\ \/ queue[t] = <<>> /\ AddBody(i, << <<"add", i>> >>)
           \/ /\ queue[t] # <<>>
              /\ queue' = [queue EXCEPT ![t] = Append(@, <<"add", i>>)]
              /\ task' = [task EXCEPT ![i] = "queued"]
              /\ UNCHANGED <<dispatcher, refcount, pc, awaiting, waiters, link, restore, index,
                             app, broker, cancels, abandoned>>

AddTurn(i) ==
    /\ task[i] = "queued" /\ Head(queue[TopicOf[i]]) = <<"add", i>>
    /\ AddBody(i, queue[TopicOf[i]])

(* The SUBACK; a rejection takes the observer back.                        *)
AddAck(i) ==
    LET t == TopicOf[i]
    IN  /\ task[i] = "suback" /\ Alive
        /\ \/ /\ broker' = broker \cup {t}
              /\ TaskEnds(i, "ok")
              /\ UNCHANGED observers
           \/ /\ t \notin broker
              /\ TaskEnds(i, "rejected")
              /\ observers' = observers \ {t}
              /\ UNCHANGED broker
        /\ queue' = [queue EXCEPT ![t] = Tail(@)]
        /\ UNCHANGED <<dispatcher, refcount, pc, waiters, link, appsub, app, cancels,
                       abandoned>>

-----------------------------------------------------------------------------
\* Mutant: the application's unsubscribe() does not ask for observers.
HasResponseObserverNever(t) == FALSE

HasResponseObserver(t) == t \in observers

(* The application's subscribe() and unsubscribe() of a response topic.    *)
(* unsubscribe() of a topic with an observer subscribes it again instead.  *)
AppBody(kind, t, q) ==
    /\ appsub' = IF kind = "subscribe" THEN appsub \cup {t} ELSE appsub \ {t}
    /\ app' = [kind |-> kind, topic |-> t,
               stage |-> IF kind = "subscribe" \/ HasResponseObserver(t)
                         THEN "suback" ELSE "unsuback"]
    /\ queue' = [queue EXCEPT ![t] = q]

AppCall(kind, t) ==
    /\ app = NoApp /\ Alive
    /\ kind = "subscribe" <=> t \notin appsub
    /\ \/ queue[t] = <<>> /\ AppBody(kind, t, << <<"app", None>> >>)
       \/ /\ queue[t] # <<>>
          /\ queue' = [queue EXCEPT ![t] = Append(@, <<"app", None>>)]
          /\ app' = [kind |-> kind, topic |-> t, stage |-> "queued"]
          /\ UNCHANGED appsub
    /\ UNCHANGED <<dispatcher, interests, pc, awaiting, waiters, link, restore, observers,
                   broker, cancels, abandoned>>

AppTurn ==
    /\ app.stage = "queued" /\ Head(queue[app.topic]) = <<"app", None>>
    /\ AppBody(app.kind, app.topic, queue[app.topic])
    /\ UNCHANGED <<dispatcher, interests, pc, awaiting, waiters, link, restore, observers,
                   broker, cancels, abandoned>>

AppAck ==
    LET t == app.topic
    IN  /\ app.stage \in {"suback", "unsuback"} /\ Alive
        /\ \/ /\ broker' = IF app.stage = "suback" THEN broker \cup {t} ELSE broker \ {t}
              /\ UNCHANGED appsub
           \/ /\ app.stage = "suback" /\ t \notin broker
              /\ appsub' = appsub \ {t}
              /\ UNCHANGED broker
        /\ queue' = [queue EXCEPT ![t] = Tail(@)]
        /\ app' = NoApp
        /\ UNCHANGED <<dispatcher, interests, pc, awaiting, waiters, link, restore, observers,
                       cancels, abandoned>>

-----------------------------------------------------------------------------
(* claim(): an incoming PUBLISH finds its request.  complete(): the flight *)
(* of the PUBLISH delivers it, at once or, for QoS 2, at PUBREL.           *)
Claim(r) ==
    /\ Alive /\ TopicOf[r] \in broker
    /\ Registered(r) /\ ~ claimed[r] /\ future[r] = "waiting"
    /\ claimed' = [claimed EXCEPT ![r] = TRUE]
    /\ claims' = claims \cup {<<r, Generation>>}
    /\ UNCHANGED <<dispatcher, interests, pc, awaiting, future, link, restore, index, queue, app,
                   broker, cancels, abandoned>>

Complete(r, g) ==
    /\ <<r, g>> \in claims
    /\ claims' = claims \ {<<r, g>>}
    /\ future' = IF g = Generation /\ Registered(r) /\ future[r] = "waiting"
                 THEN [future EXCEPT ![r] = "result"] ELSE future
    /\ UNCHANGED <<dispatcher, interests, pc, awaiting, claimed, link, restore, index, queue, app,
                   broker, cancels, abandoned>>

-----------------------------------------------------------------------------
(* The connection ends, and with it every operation on it: run() fails     *)
(* what waits for an answer, what waits for a guard finds the engine dead. *)
Teardown(next) ==
    LET leaving == {r \in Requests : pc[r] \in {"removing", "unsuback"}}
        live == {i \in Requests : task[i] \in {"created", "queued", "suback"}}
    IN  /\ client' = next /\ unmatched' = FALSE
        /\ TasksEnd(live, "disconnected")
        /\ pc' = [r \in Requests |-> IF r \in leaving THEN "done" ELSE pc[r]]
        /\ capacity' = capacity + Cardinality(leaving)
        /\ queue' = [t \in Topics |-> <<>>] /\ app' = NoApp /\ restore' = NoRestore
        /\ observers' = {} /\ appsub' = {} /\ broker' = {}
        /\ UNCHANGED <<pending, topics, refcount, waiters, conn, cancels, abandoned>>

(* The connection is lost: the run loop reconnects, or it has no more      *)
(* attempts or met another error and ends.                                 *)
Lose(next) == Alive /\ Teardown(next)
UnmatchedUnsuback == Alive /\ unmatched /\ Teardown("failed")

\* Mutant: bind() leaves the claims of the old connection in force.
BoundClaimsKept == claimed

(* bind() makes the pending requests claimable again.                      *)
BoundClaims == [r \in Requests |-> claimed[r] /\ ~ Registered(r)]

(* _connect() with the bind() it ends in.  It takes many turns of the      *)
(* loop: tasks that were created or woken before it have run.              *)
Bind ==
    /\ client = "lost" /\ conn < MaxConns
    /\ \A r \in Requests : task[r] # "created" /\ awaiting[r][2] = "none"
    /\ conn' = conn + 1 /\ client' = "up"
    /\ claimed' = BoundClaims
    /\ task' = [i \in Requests |-> IF i \in Known THEN "none" ELSE task[i]]
    /\ restore' = [NoRestore EXCEPT !.phase = "due"]
    /\ UNCHANGED <<dispatcher, refcount, pc, awaiting, future, claims, unmatched, index, queue,
                   app, broker, cancels, abandoned>>

(* restore() goes through a snapshot of the interests.                     *)
RestoreStart ==
    /\ restore.phase = "due" /\ Alive
    /\ restore' = [phase |-> "next", at |-> None, todo |-> Known]
    /\ UNCHANGED <<dispatcher, interests, pc, awaiting, waiters, link, index, queue, app, broker,
                   cancels, abandoned>>

RestoreNext ==
    /\ restore.phase \in {"next", "ok"} /\ Alive
    /\ \/ restore.todo = {} /\ restore' = NoRestore /\ UNCHANGED task
       \/ \E i \in restore.todo :
             /\ restore' = [phase |-> IF refcount[i] = 0 THEN "next"
                                      ELSE IF task[i] \in Finished THEN task[i] ELSE "wait",
                            todo |-> restore.todo \ {i}, at |-> i]
             /\ task' = IF refcount[i] > 0 /\ task[i] = "none"
                        THEN [task EXCEPT ![i] = "created"] ELSE task
    /\ UNCHANGED <<dispatcher, refcount, pc, awaiting, waiters, link, index, queue, app, broker,
                   cancels, abandoned>>

(* A response topic the broker rejects now ends the run loop.              *)
RestoreFails == restore.phase = "rejected" /\ Alive /\ Teardown("failed")

(* disconnect(): cancel_pending() fails the waiters and cancels the ready  *)
(* tasks, then the run loop ends and the connection is closed.             *)
Stop ==
    LET halted == {i \in Known : task[i] \in {"created", "queued", "suback"}}
        forgotten(o) == o[1] = "add" /\ o[2] \in halted
    IN  /\ client \in {"up", "lost", "failed"}
        /\ client' = "stopping" /\ UNCHANGED <<conn, unmatched>>
        /\ future' = [r \in Requests |->
                         IF Registered(r) /\ future[r] = "waiting" THEN "failed" ELSE future[r]]
        /\ claims' = {}
        /\ capacity' = capacity + Cardinality({k \in Keys : pending[k] # None})
        /\ pending' = [k \in Keys |-> None] /\ topics' = [t \in Topics |-> None]
        /\ refcount' = [i \in Requests |-> 0]
        /\ task' = [i \in Requests |-> IF i \in Known THEN "none" ELSE task[i]]
        /\ Informed(halted, "cancelled")
        /\ observers' = observers \ {TopicOf[i] : i \in {j \in halted : task[j] = "suback"}}
        /\ queue' = [t \in Topics |-> SelectSeq(queue[t], LAMBDA o : ~ forgotten(o))]
        /\ restore' = NoRestore
        /\ UNCHANGED <<pc, claimed, appsub, app, broker, cancels, abandoned>>

Close == client = "stopping" /\ Teardown("stopped")

-----------------------------------------------------------------------------
(* The task that runs request() is cancelled in one of its waits.          *)
CancelEarly(r) ==
    /\ pc[r] = "calling" /\ Ends(r)
    /\ UNCHANGED <<dispatcher, interests, waiters, link, restore, index, queue, app, broker,
                   abandoned>>

CancelWait(r) == pc[r] \in {"ready", "reply"} /\ Leave(r)

(* In unregister() the observer, made or about to be made, is left behind. *)
CancelCleanup(r) ==
    LET t == TopicOf[r]
        i == awaiting[r][1]
    IN  /\ pc[r] = "cleanup"
        /\ topics' = IF Unused(i) THEN [topics EXCEPT ![t] = None] ELSE topics
        /\ task' = IF Unused(i) /\ task[i] \in Finished THEN [task EXCEPT ![i] = "none"] ELSE task
        /\ Ends(r) /\ capacity' = capacity + 1
        /\ abandoned' = abandoned \cup {t}
        /\ UNCHANGED <<pending, refcount, waiters, link, restore, index, queue, app, broker>>

CancelRemove(r) ==
    LET t == TopicOf[r]
    IN  /\ pc[r] = "removing"
        /\ \E k \in DOMAIN queue[t] :
              queue[t][k] = <<"remove", r>> /\ queue' = [queue EXCEPT ![t] = RemoveAt(@, k)]
        /\ Ends(r) /\ capacity' = capacity + 1
        /\ abandoned' = abandoned \cup {t}
        /\ UNCHANGED <<pending, topics, interests, waiters, link, restore, index, app, broker>>

(* The UNSUBACK will find no entry, and _handle_unsuback then ends the     *)
(* connection.                                                             *)
CancelUnsuback(r) ==
    LET t == TopicOf[r]
    IN  /\ pc[r] = "unsuback" /\ Alive
        /\ unmatched' = TRUE /\ broker' = broker \ {t}
        /\ queue' = [queue EXCEPT ![t] = Tail(@)]
        /\ Ends(r) /\ capacity' = capacity + 1
        /\ UNCHANGED <<pending, topics, interests, waiters, client, conn, restore, index, app,
                       abandoned>>

Cancel(r) ==
    /\ cancels < MaxCancels /\ cancels' = cancels + 1
    /\ CancelEarly(r) \/ CancelWait(r) \/ CancelCleanup(r) \/ CancelRemove(r)
          \/ CancelUnsuback(r)

-----------------------------------------------------------------------------
CallStep(r) ==
    \/ Refuse(r) \/ RegisterFails(r) \/ Register(r) \/ ReadyDone(r) \/ ReadyFails(r) \/ ReplyEnds(r)
    \/ CleanupDone(r) \/ RemoveTurn(r) \/ RemoveAck(r)

TaskStep(i) == AddStart(i) \/ AddTurn(i) \/ AddAck(i)

Next ==
    \/ \E r \in Requests : CallStep(r) \/ TaskStep(r) \/ Claim(r) \/ Cancel(r)
    \/ \E r \in Requests, g \in 1 .. MaxConns : Complete(r, g)
    \/ \E t \in AppTopics, kind \in {"subscribe", "unsubscribe"} : AppCall(kind, t)
    \/ AppTurn \/ AppAck
    \/ Lose("lost") \/ Lose("failed") \/ UnmatchedUnsuback \/ Bind
    \/ RestoreStart \/ RestoreNext \/ RestoreFails
    \/ Stop \/ Close

Spec == Init /\ [][Next]_vars

(* asyncio runs every ready task; the timeout of request() fires; a broker *)
(* that stays connected answers; disconnect() goes on to close.            *)
Fairness ==
    /\ \A r \in Requests : WF_vars(CallStep(r)) /\ WF_vars(TaskStep(r))
    /\ WF_vars(AppTurn) /\ WF_vars(AppAck) /\ WF_vars(Close)

FairSpec == Spec /\ Fairness

-----------------------------------------------------------------------------
TypeOK ==
    /\ capacity \in 0 .. MaxPending
    /\ pending \in [Keys -> Requests \cup {None}] /\ topics \in [Topics -> Requests \cup {None}]
    /\ task \in [Requests -> Finished \cup {"none", "created", "queued", "suback"}]
    /\ pc \in [Requests -> {"calling", "ready", "reply", "cleanup", "removing", "unsuback", "done"}]
    /\ future \in [Requests -> {"none", "waiting", "result", "failed"}]
    /\ client \in {"up", "lost", "failed", "stopping", "stopped"} /\ conn \in 1 .. MaxConns

(* Every place of the semaphore is held by a registered request or by one  *)
(* that is still cleaning up, and is given back once, however the request  *)
(* ends (register()'s and unregister()'s finally blocks, cancel_pending()). *)
CapacityConserved ==
    /\ TypeOK
    /\ capacity + Cardinality({k \in Keys : pending[k] # None})
                + Cardinality({r \in Requests : pc[r] \in {"cleanup", "removing", "unsuback"}})
          = MaxPending

(* An interest counts the pending requests of its topic; a topic without   *)
(* an interest has none; one that nobody uses has a request in unregister()*)
(* that will drop it.                                                      *)
InterestCounts ==
    \A t \in Topics :
        LET users == {r \in Requests : TopicOf[r] = t /\ Registered(r)}
        IN  IF topics[t] = None THEN users = {}
            ELSE /\ refcount[topics[t]] = Cardinality(users)
                 /\ users = {} => \E r \in Requests : pc[r] = "cleanup" /\ awaiting[r][1] = topics[t]

(* A request that waits for its reply on a connection on which its topic   *)
(* was made ready is heard: the broker has the topic and the index routes  *)
(* it, whatever other requests and the application do with the same topic. *)
WaitersAreHeard ==
    \A r \in Requests :
        Alive /\ Registered(r) /\ pc[r] = "reply" /\ task[topics[TopicOf[r]]] = "ok"
            => TopicOf[r] \in observers /\ TopicOf[r] \in broker

(* An observer that no request needs is being removed, or its cleanup was  *)
(* cancelled.                                                              *)
NoOrphanObserver ==
    \A t \in observers :
        \/ topics[t] # None \/ t \in abandoned \/ ~ Bound
        \/ \E r \in Requests : pc[r] = "removing" /\ TopicOf[r] = t

(* The same without the exception, as the documentation has it ("The       *)
(* client stops listening for the matching response after return, timeout, *)
(* or cancellation."): once no request and no call of the application is   *)
(* under way, the broker has only the topics the application asked for.    *)
StopsListening ==
    Alive /\ app = NoApp /\ (\A r \in Requests : pc[r] = "done" /\ task[r] = "none")
        => broker \subseteq appsub

(* A request whose response was claimed will get it: a reconnection makes  *)
(* it claimable again instead of waiting for a response that is lost.      *)
ClaimedIsOwed ==
    \A r \in Requests :
        Registered(r) /\ claimed[r] /\ future[r] = "waiting" /\ Alive
            => <<r, Generation>> \in claims

(* Every call of request() returns or raises.                              *)
RequestsEnd == <>(\A r \in Requests : pc[r] = "done")
=============================================================================
