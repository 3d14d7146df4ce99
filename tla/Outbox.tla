------------------------------- MODULE Outbox -------------------------------
(***************************************************************************)
(* The domain events of the server with Postgres and an event bus: the     *)
(* outbox rows (store.ts), their publication after a commit (runtime.ts,   *)
(* awsEvents.ts), EventBridge with its dead-letter queue, the Lambda that  *)
(* projects them into DynamoDB (operations-projector/handler.py), and the  *)
(* two replay routes of Platform Health (app.ts).                          *)
(*                                                                         *)
(* A request loads the rows, runs its handler, saves, publishes, and saves *)
(* the outcome; RowStore has the steps inside a load or a save.  The image *)
(* worker takes the same steps.  An event is named by its place in the     *)
(* order of createdAt.  The 30 days of the timeline are left out.          *)
(***************************************************************************)
EXTENDS Integers, FiniteSets

CONSTANTS
  Requests,         \* bound: API requests and worker runs, each made once
  MaxEvents,        \* bound: events ever emitted
  BatchSize,        \* entries of one PutEvents call (10)
  MaxCopies,        \* bound: copies of an event on the bus
  MaxDead,          \* bound: messages of an event in the dead-letter queue
  MaxProjections    \* bound: idempotency items expire only below this count

ASSUME OutboxAssumption ==
  /\ MaxEvents \in Nat /\ BatchSize \in Nat \ {0}
  /\ MaxCopies \in Nat \ {0} /\ MaxDead \in Nat /\ MaxProjections \in Nat

Events == 1 .. MaxEvents
Status == {"none", "pending", "failed", "delivered"}

Outboxes == [Events -> Status]
EmptyOutbox == [e \in Events |-> "none"]

VARIABLES
  emitted,       \* events created so far, also by requests that never commit
  db,            \* the committed domain_events rows
  request,       \* per request: where it is, the rows it holds and those it last loaded or saved,
                 \* those it has still to publish, and those it has tried since
  bus,           \* copies of each event that EventBridge has accepted and still delivers
  dlq,           \* messages of each event in the dead-letter queue
  replay,        \* a replay of the dead-letter queue: messages held, those put on the bus again
  lost,          \* events whose projector failed on every attempt of Lambda
  items,         \* EVENT#id idempotency items
  timeline,      \* events in the timeline of their inspection
  latest,        \* latestEventId of the STATE item
  projectedCount

deliveryVars   == << bus, dlq, replay, lost >>
projectionVars == << items, timeline, latest, projectedCount >>
vars == << emitted, db, request, deliveryVars, projectionVars >>

Idle == [pc |-> "idle", view |-> EmptyOutbox, base |-> EmptyOutbox, todo |-> {}, tried |-> {},
         saved |-> FALSE]
NoReplay == [pc |-> "idle", held |-> {}, put |-> {}]

Init ==
  /\ emitted = 0
  /\ db = EmptyOutbox
  /\ request = [q \in Requests |-> Idle]
  /\ bus = [e \in Events |-> 0]
  /\ dlq = [e \in Events |-> 0]
  /\ replay = NoReplay
  /\ lost = {}
  /\ items = {} /\ timeline = {} /\ latest = 0 /\ projectedCount = 0

-----------------------------------------------------------------------------
(* Requests.                                                               *)

pendingDomainEvents(rows) == { e \in Events : rows[e] \in {"pending", "failed"} }

\* Where a request is once todo is left to publish: a flush of a replay is followed by its
\* first save, that of a saved mutation by its second one.
Flushing(todo, saved) ==
  IF todo # {} THEN "flushing" ELSE IF saved THEN "settling" ELSE "saving"

\* beforeRequest.
load(q) ==
  /\ request[q].pc = "idle"
  /\ request' = [request EXCEPT ![q].pc = "loaded", ![q].view = db, ![q].base = db]
  /\ UNCHANGED << emitted, db, deliveryVars, projectionVars >>

\* A handler with n calls of emitDomainEvent.
emitDomainEvents(q, n) ==
  /\ request[q].pc = "loaded" /\ emitted + n <= MaxEvents
  /\ emitted' = emitted + n
  /\ request' = [request EXCEPT
                   ![q].pc = "saving",
                   ![q].view = [e \in Events |-> IF e \in emitted + 1 .. emitted + n
                                                   THEN "pending" ELSE @[e]]]
  /\ UNCHANGED << db, deliveryVars, projectionVars >>

\* POST platform-health/replay-domain-events: all pending events, or those asked for, are
\* published before the request's own save.  Nothing asked for exists: a validation error.
replayDomainEvents(q, ids) ==
  /\ request[q].pc = "loaded"
  /\ \E e \in ids : request[q].view[e] # "none"
  /\ LET todo == ids \cap pendingDomainEvents(request[q].view) IN
       request' = [request EXCEPT ![q].pc = Flushing(todo, FALSE), ![q].todo = todo]
  /\ UNCHANGED << emitted, db, deliveryVars, projectionVars >>

\* The rows that differ from what was loaded or saved last replace the committed ones: those
\* of another status, and those tried since, whose deliveryAttempts has grown.
Merged(q) == [e \in Events |-> IF request[q].view[e] # request[q].base[e] \/ e \in request[q].tried
                                 THEN request[q].view[e] ELSE db[e]]

\* Variant: publication starts while the rows are still being saved.
savePublishing(q) ==
  /\ request[q].pc = "saving"
  /\ request' = [request EXCEPT ![q].pc = "flushing",
                                ![q].todo = pendingDomainEvents(request[q].view)]
  /\ UNCHANGED << emitted, db, deliveryVars, projectionVars >>

\* savePostgresRows, before publication.
save(q) ==
  /\ request[q].pc = "saving"
  /\ db' = Merged(q)
  /\ LET todo == pendingDomainEvents(request[q].view) IN
       request' = [request EXCEPT ![q].pc = Flushing(todo, TRUE), ![q].saved = TRUE,
                                  ![q].base = request[q].view, ![q].todo = todo,
                                  ![q].tried = {}]
  /\ UNCHANGED << emitted, deliveryVars, projectionVars >>

\* The next entries of flushPendingDomainEvents, oldest first.
Batch(todo) == { e \in todo : Cardinality({ d \in todo : d <= e }) <= BatchSize }

Put(E) == bus' = [e \in Events |-> IF e \in E THEN bus[e] + 1 ELSE bus[e]]

\* Variant: the per-entry ErrorCode is not looked at.
putEventsUnread(q, sent, answered) ==
  LET batch == Batch(request[q].todo) IN
  /\ request[q].pc = "flushing" /\ batch # {}
  /\ sent \subseteq batch /\ \A e \in sent : bus[e] < MaxCopies
  /\ Put(sent)
  /\ request' = [request EXCEPT
                   ![q].pc = Flushing(request[q].todo \ batch, request[q].saved),
                   ![q].todo = @ \ batch, ![q].tried = @ \cup batch,
                   ![q].view = [e \in Events |-> IF e \notin batch THEN @[e]
                                                 ELSE IF answered THEN "delivered"
                                                 ELSE "failed"]]
  /\ UNCHANGED << emitted, db, dlq, replay, lost, projectionVars >>

\* One PutEvents call: the bus accepts some entries and says which; or the call throws, with
\* the answer lost or nothing sent, and the whole batch counts as failed.
putEvents(q, sent, answered) ==
  LET batch == Batch(request[q].todo) IN
  /\ request[q].pc = "flushing" /\ batch # {}
  /\ sent \subseteq batch /\ \A e \in sent : bus[e] < MaxCopies
  /\ Put(sent)
  /\ request' = [request EXCEPT
                   ![q].pc = Flushing(request[q].todo \ batch, request[q].saved),
                   ![q].todo = @ \ batch, ![q].tried = @ \cup batch,
                   ![q].view = [e \in Events |-> IF e \notin batch THEN @[e]
                                                 ELSE IF answered /\ e \in sent THEN "delivered"
                                                 ELSE "failed"]]
  /\ UNCHANGED << emitted, db, dlq, replay, lost, projectionVars >>

\* savePostgresRows, after publication.
saveOutcome(q) ==
  /\ request[q].pc = "settling"
  /\ db' = Merged(q)
  /\ request' = [request EXCEPT ![q] = [Idle EXCEPT !.pc = "done"]]
  /\ UNCHANGED << emitted, deliveryVars, projectionVars >>

\* The process dies, the handler refuses, or a save fails: nothing it holds is written.
giveUp(q) ==
  /\ request[q].pc \notin {"idle", "done"}
  /\ request' = [request EXCEPT ![q] = [Idle EXCEPT !.pc = "done"]]
  /\ UNCHANGED << emitted, db, deliveryVars, projectionVars >>

-----------------------------------------------------------------------------
(* EventBridge, and the projector.                                         *)

Consumed(e) == bus' = [bus EXCEPT ![e] = @ - 1]

\* The transaction of project_event takes effect.
Transact(e) ==
  /\ e \notin items
  /\ items' = items \cup {e}
  /\ timeline' = timeline \cup {e}
  /\ latest' = e
  /\ projectedCount' = projectedCount + 1

\* The bus is done with a copy, or delivers it once more.
Delivered(e) == Consumed(e) \/ UNCHANGED bus

\* The transaction takes effect; or it throws, for its condition, for a conflict over the
\* PROJECTOR#HEALTH item or because its answer is lost, and _is_duplicate finds the idempotency
\* item.  An exception without that item fails the Lambda, and changes nothing here.
project_event(e) ==
  /\ bus[e] > 0
  /\ Transact(e) \/ (e \in items /\ UNCHANGED projectionVars)
  /\ Delivered(e)
  /\ UNCHANGED << emitted, db, request, dlq, replay, lost >>

\* retry_policy: EventBridge gives up handing the event to Lambda.
deadLetter(e) ==
  /\ bus[e] > 0 /\ dlq[e] < MaxDead
  /\ Consumed(e) /\ dlq' = [dlq EXCEPT ![e] = @ + 1]
  /\ UNCHANGED << emitted, db, request, replay, lost, projectionVars >>

\* Lambda has run the projector to an error on each of its attempts; nothing in main.tf gives
\* its asynchronous invocations a destination.
lambdaGivesUp(e) ==
  /\ bus[e] > 0
  /\ Consumed(e) /\ lost' = lost \cup {e}
  /\ UNCHANGED << emitted, db, request, dlq, replay, projectionVars >>

\* expiresAt of the idempotency item: seven days are over.
expire(e) ==
  /\ e \in items /\ projectedCount < MaxProjections
  /\ items' = items \ {e}
  /\ UNCHANGED << emitted, db, request, deliveryVars, timeline, latest, projectedCount >>

-----------------------------------------------------------------------------
(* POST platform-health/replay-domain-event-dlq.  Messages stay in the     *)
(* queue, hidden for 60 s, until they are deleted; a call takes less.      *)

replayReceive(E) ==
  /\ replay.pc = "idle" /\ E # {} /\ \A e \in E : dlq[e] > 0
  /\ replay' = [pc |-> "putting", held |-> E, put |-> {}]
  /\ UNCHANGED << emitted, db, request, bus, dlq, lost, projectionVars >>

\* One message: it is put on the bus and will be deleted, or it is counted as failed, though
\* the bus may have it.
replayPut(e, sent, answered) ==
  /\ replay.pc = "putting" /\ e \in replay.held
  /\ answered => sent
  /\ IF sent THEN bus[e] < MaxCopies /\ Put({e}) ELSE UNCHANGED bus
  /\ replay' = [replay EXCEPT !.held = @ \ {e},
                              !.put = IF answered THEN @ \cup {e} ELSE @]
  /\ UNCHANGED << emitted, db, request, dlq, lost, projectionVars >>

\* Variant: a batch that was deleted is deleted again.
replayDeleteTwice(E) ==
  /\ replay.pc = "putting" /\ replay.held = {} /\ E \subseteq replay.put
  /\ dlq' = [e \in Events |-> IF e \in E THEN dlq[e] - 1 ELSE dlq[e]]
  /\ UNCHANGED << emitted, db, request, bus, replay, lost, projectionVars >>

\* DeleteMessageBatch after the loop, which may not delete every one.
replayDelete(E) ==
  /\ replay.pc = "putting" /\ replay.held = {} /\ E \subseteq replay.put
  /\ dlq' = [e \in Events |-> IF e \in E THEN dlq[e] - 1 ELSE dlq[e]]
  /\ replay' = NoReplay
  /\ UNCHANGED << emitted, db, request, bus, lost, projectionVars >>

\* The call dies; its messages become visible again.
replayDies ==
  /\ replay.pc = "putting"
  /\ replay' = NoReplay
  /\ UNCHANGED << emitted, db, request, bus, dlq, lost, projectionVars >>

-----------------------------------------------------------------------------
requestStep(q) ==
  \/ load(q) \/ save(q) \/ saveOutcome(q) \/ giveUp(q)
  \/ \E n \in 1 .. 2 : emitDomainEvents(q, n)
  \/ \E ids \in SUBSET Events : replayDomainEvents(q, ids)
  \/ \E sent \in SUBSET Events, answered \in BOOLEAN : putEvents(q, sent, answered)

deliveryStep(e) ==
  \/ project_event(e) \/ deadLetter(e) \/ lambdaGivesUp(e) \/ expire(e)

replayStep ==
  \/ \E E \in SUBSET Events : replayReceive(E) \/ replayDelete(E)
  \/ \E e \in Events, sent, answered \in BOOLEAN : replayPut(e, sent, answered)
  \/ replayDies

Next ==
  \/ \E q \in Requests : requestStep(q)
  \/ \E e \in Events : deliveryStep(e)
  \/ replayStep

Spec == Init /\ [][Next]_vars

-----------------------------------------------------------------------------
(* Properties.                                                             *)

Committed == { e \in Events : db[e] # "none" }

\* Every variable has its type; copies and messages are counted within their bounds.
TypeOK ==
  /\ emitted \in 0 .. MaxEvents
  /\ db \in Outboxes
  /\ request \in [Requests -> [pc : {"idle", "loaded", "saving", "flushing", "settling", "done"},
                               view : Outboxes, base : Outboxes, todo : SUBSET Events,
                               tried : SUBSET Events, saved : BOOLEAN]]
  /\ bus \in [Events -> 0 .. MaxCopies]
  /\ dlq \in [Events -> 0 .. MaxDead]
  /\ replay \in [pc : {"idle", "putting"}, held : SUBSET Events, put : SUBSET Events]
  /\ lost \subseteq Events
  /\ items \subseteq Events /\ timeline \subseteq Events
  /\ latest \in {0} \cup Events
  /\ projectedCount \in Nat

\* docs/aws-deployment-plan.md: "Publication happens after commit and failed rows remain
\* replayable"; docs/architecture-notes.md: "duplicate delivery is harmless".  Whatever is
\* sent twice, reordered, replayed or interrupted, the projection holds committed events only
\* and counts none again while its idempotency item lives.
EventLogOf == INSTANCE EventLog WITH log <- Committed, projected <- timeline,
                                     remembered <- items, count <- projectedCount
ImplementsEventLog == EventLogOf!LogSpec

Reached(e) == bus[e] > 0 \/ dlq[e] > 0 \/ e \in timeline \cup lost

\* An outbox row says delivered only when the event is on its way, waits in the dead-letter
\* queue, is projected, or was given up by Lambda: no partial batch, lost answer, stale row of
\* another request or interrupted replay lets an event vanish that nothing will send again.
DeliveredReached == \A e \in Events : db[e] = "delivered" => Reached(e)

\* docs/observability.md: "confirm the DynamoDB projection converges without duplicate counts
\* changing business state".  With nothing left to send, deliver or replay, the latest state
\* is the newest event's and every event was counted once.
Converges ==
  (/\ \A e \in Events : db[e] = "delivered" /\ bus[e] = 0 /\ dlq[e] = 0
   /\ timeline = Events)
  => latest = MaxEvents /\ projectedCount = MaxEvents
=============================================================================
