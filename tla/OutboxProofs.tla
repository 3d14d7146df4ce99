---------------------------- MODULE OutboxProofs ----------------------------
(***************************************************************************)
(* Theorems about Outbox, for any number of requests, events, copies and   *)
(* replays: its types, that no delivered row belies an event that nothing  *)
(* will send again, and that it implements EventLog.                       *)
(*                                                                         *)
(* The inductive invariant says what a request holds in memory (Held),     *)
(* that only committed events are on their way (OnTheWay), that a message  *)
(* of the dead-letter queue is deleted only when its event is on the bus   *)
(* again, has arrived, or has come back to the queue (Replaying), and that *)
(* what the projector remembers it has projected.                          *)
(***************************************************************************)
EXTENDS Outbox, TLAPS

Held ==
  \A q \in Requests, e \in Events :
    /\ request[q].base[e] # "none" => db[e] # "none" /\ request[q].view[e] # "none"
    /\ e \in request[q].todo => db[e] # "none"
    /\ request[q].view[e] = "delivered" => Reached(e)
    /\ request[q].pc = "loaded" => request[q].view[e] = request[q].base[e]
    /\ e \in request[q].tried => request[q].pc # "idle" /\ request[q].view[e] # "none"

OnTheWay == \A e \in Events : bus[e] > 0 \/ dlq[e] > 0 => db[e] # "none"

Replaying ==
  /\ \A e \in replay.held \cup replay.put : dlq[e] > 0
  /\ \A e \in replay.put : bus[e] > 0 \/ dlq[e] > 1 \/ e \in timeline \cup lost

Remembered == items \subseteq timeline

OutboxInv == TypeOK /\ Replaying /\ Held /\ OnTheWay /\ Remembered /\ DeliveredReached

Record ==
  [pc : {"idle", "loaded", "saving", "flushing", "settling", "done"},
   view : Outboxes, base : Outboxes, todo : SUBSET Events, tried : SUBSET Events,
   saved : BOOLEAN]

Done == [Idle EXCEPT !.pc = "done"]

LEMMA IdleFacts ==
  /\ EmptyOutbox \in Outboxes /\ \A e \in Events : EmptyOutbox[e] = "none"
  /\ Idle \in Record /\ Done \in Record
  /\ Done.pc = "done" /\ Done.view = EmptyOutbox /\ Done.base = EmptyOutbox
  /\ Done.todo = {} /\ Done.tried = {}
<1>1. EmptyOutbox \in Outboxes /\ \A e \in Events : EmptyOutbox[e] = "none"
  BY DEF EmptyOutbox, Outboxes, Status
<1>2. Idle \in Record BY <1>1 DEF Idle, Record
<1>3. Idle.view = EmptyOutbox /\ Idle.base = EmptyOutbox /\ Idle.todo = {} /\ Idle.tried = {}
  BY DEF Idle
<1>4. /\ Done \in Record /\ Done.pc = "done" /\ Done.view = Idle.view
      /\ Done.base = Idle.base /\ Done.todo = Idle.todo /\ Done.tried = Idle.tried
  BY <1>2 DEF Done, Record
<1> QED BY <1>1, <1>2, <1>3, <1>4

LEMMA InitInv == Init => OutboxInv
<1> SUFFICES ASSUME Init PROVE OutboxInv OBVIOUS
<1> USE OutboxAssumption DEF Init
<1>1. TypeOK
  <2>1. request \in [Requests -> Record] BY IdleFacts
  <2> QED BY <2>1, IdleFacts DEF TypeOK, Record, NoReplay, Events
<1>2. Replaying /\ Remembered BY DEF Replaying, NoReplay, Remembered
<1>3. Held BY IdleFacts DEF Held, Idle
<1>4. OnTheWay BY DEF OnTheWay
<1>5. DeliveredReached BY IdleFacts DEF DeliveredReached
<1> QED BY <1>1, <1>2, <1>3, <1>4, <1>5 DEF OutboxInv

-----------------------------------------------------------------------------
(* What a step of a request does to its record, the other records stay.    *)

LEMMA Puts ==
  ASSUME TypeOK, NEW E \in SUBSET Events, Put(E), \A e \in E : bus[e] < MaxCopies
  PROVE  /\ bus' \in [Events -> 0 .. MaxCopies]
         /\ \A e \in Events : bus'[e] = IF e \in E THEN bus[e] + 1 ELSE bus[e]
BY OutboxAssumption DEF TypeOK, Put

LEMMA Consumes ==
  ASSUME TypeOK, NEW e \in Events, Consumed(e), bus[e] > 0
  PROVE  /\ bus' \in [Events -> 0 .. MaxCopies]
         /\ \A d \in Events : bus'[d] = IF d = e THEN bus[d] - 1 ELSE bus[d]
BY OutboxAssumption DEF TypeOK, Consumed

LEMMA MergedType ==
  ASSUME TypeOK, NEW q \in Requests
  PROVE  /\ Merged(q) \in Outboxes
         /\ \A e \in Events : Merged(q)[e] = request[q].view[e] \/ Merged(q)[e] = db[e]
<1>1. request[q].view \in Outboxes /\ db \in Outboxes BY DEF TypeOK
<1> QED BY <1>1 DEF Merged, Outboxes

\* The new record of a request that publishes a batch.
LEMMA PublishType ==
  ASSUME TypeOK, NEW q \in Requests, NEW sent, NEW answered, putEvents(q, sent, answered)
  PROVE  /\ request'[q] \in Record
         /\ request'[q].base = request[q].base
         /\ request'[q].pc \notin {"idle", "loaded"}
         /\ request'[q].todo \subseteq request[q].todo
         /\ \A e \in request'[q].tried :
              e \in request[q].tried \/ request'[q].view[e] \in {"failed", "delivered"}
         /\ \A e \in Events :
              \/ request'[q].view[e] = request[q].view[e]
              \/ request'[q].view[e] = "failed"
              \/ request'[q].view[e] = "delivered" /\ e \in sent
         /\ \A p \in Requests \ {q} : request'[p] = request[p]
<1> DEFINE batch == Batch(request[q].todo)
           view == [e \in Events |-> IF e \notin batch THEN request[q].view[e]
                                     ELSE IF answered /\ e \in sent THEN "delivered"
                                     ELSE "failed"]
           todo == request[q].todo \ batch
           tried == request[q].tried \cup batch
<1>1. request \in [Requests -> Record] BY DEF TypeOK, Record
<1>2. request[q] \in Record BY <1>1
<1>3. request' = [request EXCEPT ![q].pc = Flushing(todo, request[q].saved),
                                 ![q].todo = todo, ![q].tried = tried, ![q].view = view]
  BY DEF putEvents
<1>t. batch \subseteq Events BY <1>2 DEF Batch, Record
<1>4. view \in Outboxes BY <1>2 DEF Record, Outboxes, Status
<1>5. Flushing(todo, request[q].saved) \in {"flushing", "settling", "saving"} BY DEF Flushing
<1>6. request'[q] = [request[q] EXCEPT !.pc = Flushing(todo, request[q].saved),
                                       !.todo = todo, !.tried = tried, !.view = view]
  BY <1>1, <1>3
<1> HIDE DEF view, todo, tried
<1>7. /\ request'[q].pc = Flushing(todo, request[q].saved) /\ request'[q].todo = todo
      /\ request'[q].view = view /\ request'[q].base = request[q].base
      /\ request'[q].tried = tried /\ request'[q] \in Record
  BY <1>2, <1>4, <1>5, <1>6, <1>t DEF Record, todo, tried
<1>8. \A e \in tried : e \in request[q].tried \/ view[e] \in {"failed", "delivered"}
  BY <1>t DEF tried, view
<1> QED BY <1>1, <1>3, <1>5, <1>7, <1>8 DEF view, todo

LEMMA TypeStep == TypeOK /\ Replaying /\ [Next]_vars => TypeOK'
<1> SUFFICES ASSUME TypeOK, Replaying, [Next]_vars PROVE TypeOK' OBVIOUS
<1> USE OutboxAssumption
<1>r. request \in [Requests -> Record] BY DEF TypeOK, Record
<1>1. CASE UNCHANGED vars
  BY <1>1 DEF TypeOK, vars, deliveryVars, projectionVars
<1>2. ASSUME NEW q \in Requests, requestStep(q) PROVE TypeOK'
  <2>1. request[q] \in Record /\ db \in Outboxes BY <1>r DEF TypeOK
  <2>2. ASSUME request' \in [Requests -> Record], db' \in Outboxes, emitted' \in 0 .. MaxEvents,
               bus' \in [Events -> 0 .. MaxCopies],
               UNCHANGED << dlq, replay, lost, projectionVars >>
        PROVE  TypeOK'
    BY <2>2 DEF TypeOK, Record, projectionVars
  <2>3. CASE load(q)
    <3>1. request' \in [Requests -> Record] BY <1>r, <2>1, <2>3 DEF load, Record
    <3> QED BY <2>2, <2>3, <3>1 DEF load, TypeOK, deliveryVars
  <2>4. CASE save(q)
    <3> DEFINE todo == pendingDomainEvents(request[q].view)
    <3>1. todo \subseteq Events BY DEF pendingDomainEvents
    <3>2. Flushing(todo, TRUE) \in {"flushing", "settling"} BY DEF Flushing
    <3> HIDE DEF todo
    <3>3. request' \in [Requests -> Record]
      BY <1>r, <2>1, <2>4, <3>1, <3>2 DEF save, Record, todo
    <3> QED BY <2>2, <2>4, <3>3, MergedType DEF save, TypeOK, deliveryVars
  <2>5. CASE saveOutcome(q)
    <3>1. request' \in [Requests -> Record] BY <1>r, <2>5, IdleFacts DEF saveOutcome, Done
    <3> QED BY <2>2, <2>5, <3>1, MergedType DEF saveOutcome, TypeOK, deliveryVars
  <2>6. CASE giveUp(q)
    <3>1. request' \in [Requests -> Record] BY <1>r, <2>6, IdleFacts DEF giveUp, Done
    <3> QED BY <2>2, <2>6, <3>1 DEF giveUp, TypeOK, deliveryVars
  <2>7. ASSUME NEW n \in 1 .. 2, emitDomainEvents(q, n) PROVE TypeOK'
    <3> DEFINE view == [e \in Events |-> IF e \in emitted + 1 .. emitted + n
                                           THEN "pending" ELSE request[q].view[e]]
    <3>1. view \in Outboxes BY <2>1 DEF Record, Outboxes, Status
    <3>2. request' = [request EXCEPT ![q].pc = "saving", ![q].view = view]
      BY <2>7 DEF emitDomainEvents
    <3> HIDE DEF view
    <3>3. request' \in [Requests -> Record] BY <1>r, <2>1, <3>1, <3>2 DEF Record
    <3>4. emitted' \in 0 .. MaxEvents BY <2>7 DEF emitDomainEvents, TypeOK
    <3> QED BY <2>2, <2>7, <3>3, <3>4 DEF emitDomainEvents, TypeOK, deliveryVars
  <2>8. ASSUME NEW ids \in SUBSET Events, replayDomainEvents(q, ids) PROVE TypeOK'
    <3> DEFINE todo == ids \cap pendingDomainEvents(request[q].view)
    <3>1. todo \subseteq Events OBVIOUS
    <3>2. Flushing(todo, FALSE) \in {"flushing", "saving"} BY DEF Flushing
    <3>3. request' = [request EXCEPT ![q].pc = Flushing(todo, FALSE), ![q].todo = todo]
      BY <2>8 DEF replayDomainEvents
    <3> HIDE DEF todo
    <3>4. request' \in [Requests -> Record] BY <1>r, <2>1, <3>1, <3>2, <3>3 DEF Record
    <3> QED BY <2>2, <2>8, <3>4 DEF replayDomainEvents, TypeOK, deliveryVars
  <2>9. ASSUME NEW sent \in SUBSET Events, NEW answered \in BOOLEAN, putEvents(q, sent, answered)
        PROVE  TypeOK'
    <3>1. request' \in [Requests -> Record]
      <4>1. request'[q] \in Record /\ \A p \in Requests \ {q} : request'[p] = request[p]
        BY <2>9, PublishType
      <4>2. request' = [p \in Requests |-> request'[p]] BY <1>r, <2>9 DEF putEvents
      <4> QED BY <1>r, <4>1, <4>2
    <3>2. Put(sent) /\ \A e \in sent : bus[e] < MaxCopies BY <2>9 DEF putEvents
    <3> QED BY <2>2, <2>9, <3>1, <3>2, Puts DEF putEvents, TypeOK
  <2> QED BY <1>2, <2>3, <2>4, <2>5, <2>6, <2>7, <2>8, <2>9 DEF requestStep
<1>3. ASSUME NEW e \in Events, deliveryStep(e) PROVE TypeOK'
  <2>1. CASE project_event(e)
    <3>1. bus' \in [Events -> 0 .. MaxCopies]
      BY <2>1, Consumes DEF project_event, Delivered, TypeOK
    <3>2. /\ items' \subseteq Events /\ timeline' \subseteq Events
          /\ latest' \in {0} \cup Events /\ projectedCount' \in Nat
      BY <2>1 DEF project_event, Transact, TypeOK, projectionVars
    <3> QED BY <2>1, <3>1, <3>2 DEF project_event, TypeOK
  <2>2. CASE deadLetter(e)
    <3>1. dlq' \in [Events -> 0 .. MaxDead] BY <2>2 DEF deadLetter, TypeOK
    <3> QED BY <2>2, <3>1, Consumes DEF deadLetter, TypeOK, projectionVars
  <2>3. CASE lambdaGivesUp(e) BY <2>3, Consumes DEF lambdaGivesUp, TypeOK, projectionVars
  <2>4. CASE expire(e) BY <2>4 DEF expire, TypeOK, deliveryVars
  <2> QED BY <1>3, <2>1, <2>2, <2>3, <2>4 DEF deliveryStep
<1>4. CASE replayStep
  <2>1. ASSUME NEW E \in SUBSET Events, replayReceive(E) PROVE TypeOK'
    BY <2>1 DEF replayReceive, TypeOK, projectionVars
  <2>2. ASSUME NEW E \in SUBSET Events, replayDelete(E) PROVE TypeOK'
    <3>1. \A e \in E : dlq[e] > 0 BY <2>2 DEF replayDelete, Replaying
    <3>2. dlq' \in [Events -> 0 .. MaxDead] BY <2>2, <3>1 DEF replayDelete, TypeOK
    <3> QED BY <2>2, <3>2 DEF replayDelete, TypeOK, projectionVars, NoReplay
  <2>3. ASSUME NEW e \in Events, NEW sent \in BOOLEAN, NEW answered \in BOOLEAN,
               replayPut(e, sent, answered)
        PROVE  TypeOK'
    <3>1. bus' \in [Events -> 0 .. MaxCopies]
      <4>1. CASE sent
        <5>1. Put({e}) /\ \A d \in {e} : bus[d] < MaxCopies BY <2>3, <4>1 DEF replayPut
        <5> QED BY <5>1, Puts
      <4>2. CASE ~sent BY <2>3, <4>2 DEF replayPut, TypeOK
      <4> QED BY <4>1, <4>2
    <3>2. replay' \in [pc : {"idle", "putting"}, held : SUBSET Events, put : SUBSET Events]
      BY <2>3 DEF replayPut, TypeOK
    <3> QED BY <2>3, <3>1, <3>2 DEF replayPut, TypeOK, projectionVars
  <2>4. CASE replayDies BY <2>4 DEF replayDies, TypeOK, NoReplay, projectionVars
  <2> QED BY <1>4, <2>1, <2>2, <2>3, <2>4 DEF replayStep
<1> QED BY <1>1, <1>2, <1>3, <1>4 DEF Next

-----------------------------------------------------------------------------
(* What no step undoes.                                                    *)

\* An event that has got somewhere stays somewhere.
LEMMA ReachedStays ==
  ASSUME TypeOK, Replaying, Remembered, Next, NEW e \in Events, Reached(e)
  PROVE  Reached(e)'
<1> USE OutboxAssumption
<1>1. ASSUME NEW q \in Requests, requestStep(q) PROVE Reached(e)'
  <2>1. CASE UNCHANGED << deliveryVars, projectionVars >>
    BY <2>1 DEF deliveryVars, projectionVars, Reached
  <2>2. ASSUME NEW sent \in SUBSET Events, NEW answered \in BOOLEAN, putEvents(q, sent, answered)
        PROVE  Reached(e)'
    <3>1. Put(sent) /\ \A d \in sent : bus[d] < MaxCopies BY <2>2 DEF putEvents
    <3>2. bus'[e] = IF e \in sent THEN bus[e] + 1 ELSE bus[e] BY <3>1, Puts
    <3>3. bus[e] \in Nat BY DEF TypeOK
    <3> QED BY <2>2, <3>2, <3>3 DEF putEvents, projectionVars, Reached
  <2> QED BY <1>1, <2>1, <2>2 DEF requestStep, load, save, saveOutcome, giveUp,
             emitDomainEvents, replayDomainEvents
<1>2. ASSUME NEW d \in Events, deliveryStep(d) PROVE Reached(e)'
  <2>0. bus[d] \in Nat /\ dlq[d] \in Nat /\ bus[e] \in Nat /\ dlq[e] \in Nat BY DEF TypeOK
  <2>1. CASE project_event(d)
    <3>1. d \in timeline' /\ timeline \subseteq timeline' /\ UNCHANGED << dlq, lost >>
      BY <2>1 DEF project_event, Transact, projectionVars, Remembered
    <3>2. e = d \/ bus'[e] = bus[e] BY <2>1, Consumes DEF project_event, Delivered
    <3> QED BY <3>1, <3>2 DEF Reached
  <2>2. CASE deadLetter(d)
    <3>1. dlq' = [dlq EXCEPT ![d] = @ + 1] /\ UNCHANGED << lost, timeline >>
      BY <2>2 DEF deadLetter, projectionVars
    <3>2. dlq'[d] > 0 /\ dlq'[e] >= dlq[e] BY <2>0, <3>1 DEF TypeOK
    <3>3. e = d \/ bus'[e] = bus[e] BY <2>2, Consumes DEF deadLetter
    <3> QED BY <2>0, <3>1, <3>2, <3>3 DEF Reached, TypeOK
  <2>3. CASE lambdaGivesUp(d)
    <3>1. e = d \/ bus'[e] = bus[e] BY <2>3, Consumes DEF lambdaGivesUp
    <3> QED BY <2>3, <3>1 DEF Reached, lambdaGivesUp, projectionVars
  <2>4. CASE expire(d) BY <2>4 DEF expire, Reached, deliveryVars
  <2> QED BY <1>2, <2>1, <2>2, <2>3, <2>4 DEF deliveryStep
<1>3. CASE replayStep
  <2>1. CASE UNCHANGED << bus, dlq, lost, projectionVars >>
    BY <2>1 DEF projectionVars, Reached
  <2>2. ASSUME NEW E \in SUBSET Events, replayDelete(E) PROVE Reached(e)'
    <3>1. dlq'[e] = IF e \in E THEN dlq[e] - 1 ELSE dlq[e] BY <2>2 DEF replayDelete
    <3>2. e \in E => bus[e] > 0 \/ dlq[e] > 1 \/ e \in timeline \cup lost
      BY <2>2 DEF replayDelete, Replaying
    <3>3. dlq[e] \in Nat BY DEF TypeOK
    <3> QED BY <2>2, <3>1, <3>2, <3>3 DEF replayDelete, projectionVars, Reached
  <2>3. ASSUME NEW d \in Events, NEW sent \in BOOLEAN, NEW answered \in BOOLEAN,
               replayPut(d, sent, answered)
        PROVE  Reached(e)'
    <3>1. bus'[e] >= bus[e]
      <4>1. CASE sent
        <5>1. Put({d}) /\ \A c \in {d} : bus[c] < MaxCopies BY <2>3, <4>1 DEF replayPut
        <5>2. bus'[e] = IF e \in {d} THEN bus[e] + 1 ELSE bus[e] BY <5>1, Puts
        <5> QED BY <5>2 DEF TypeOK
      <4>2. CASE ~sent BY <2>3, <4>2 DEF replayPut, TypeOK
      <4> QED BY <4>1, <4>2
    <3>2. bus[e] \in Nat /\ bus' \in [Events -> 0 .. MaxCopies]
      BY <2>3, TypeStep DEF TypeOK, Next, replayStep
    <3>3. bus'[e] \in Nat BY <3>2
    <3> QED BY <2>3, <3>1, <3>2, <3>3 DEF replayPut, projectionVars, Reached
  <2> QED BY <1>3, <2>1, <2>2, <2>3 DEF replayStep, replayReceive, replayDies
<1> QED BY <1>1, <1>2, <1>3 DEF Next

\* A committed row is never taken back, whatever stale rows are saved over it.
LEMMA CommittedStays ==
  ASSUME TypeOK, Held, Next, NEW e \in Events, db[e] # "none"
  PROVE  db'[e] # "none"
<1>1. ASSUME NEW q \in Requests, db' = Merged(q) PROVE db'[e] # "none"
  <2>1. Merged(q)[e] = IF request[q].view[e] # request[q].base[e] \/ e \in request[q].tried
                         THEN request[q].view[e] ELSE db[e]
    BY DEF Merged
  <2>2. request[q].base[e] # "none" => request[q].view[e] # "none" BY DEF Held
  <2>3. e \in request[q].tried => request[q].view[e] # "none" BY DEF Held
  <2> QED BY <1>1, <2>1, <2>2, <2>3
<1>2. db' = db \/ \E q \in Requests : db' = Merged(q)
  BY DEF Next, requestStep, load, save, saveOutcome, giveUp, emitDomainEvents,
         replayDomainEvents, putEvents, deliveryStep, project_event, deadLetter, lambdaGivesUp,
         expire, replayStep, replayReceive, replayPut, replayDelete, replayDies
<1> QED BY <1>1, <1>2

-----------------------------------------------------------------------------
(* The invariant is inductive.                                             *)

HeldBy(q) ==
  \A e \in Events :
    /\ request[q].base[e] # "none" => db[e] # "none" /\ request[q].view[e] # "none"
    /\ e \in request[q].todo => db[e] # "none"
    /\ request[q].view[e] = "delivered" => Reached(e)
    /\ request[q].pc = "loaded" => request[q].view[e] = request[q].base[e]
    /\ e \in request[q].tried => request[q].pc # "idle" /\ request[q].view[e] # "none"

LEMMA HeldStays ==
  ASSUME OutboxInv, Next, NEW q \in Requests, request'[q] = request[q]
  PROVE  HeldBy(q)'
<1>1. HeldBy(q) BY DEF OutboxInv, Held, HeldBy
<1>2. \A e \in Events : (db[e] # "none" => db'[e] # "none") /\ (Reached(e) => Reached(e)')
  BY CommittedStays, ReachedStays DEF OutboxInv
<1> QED BY <1>1, <1>2 DEF HeldBy

LEMMA HeldStep ==
  ASSUME OutboxInv, Next, NEW q \in Requests, requestStep(q)
  PROVE  HeldBy(q)'
<1> USE OutboxAssumption
<1>1. request \in [Requests -> Record] /\ request[q] \in Record /\ db \in Outboxes
  BY DEF OutboxInv, TypeOK, Record
<1>2. HeldBy(q) BY DEF OutboxInv, Held, HeldBy
<1>3. \A e \in Events : (db[e] # "none" => db'[e] # "none") /\ (Reached(e) => Reached(e)')
  BY CommittedStays, ReachedStays DEF OutboxInv
<1>4. CASE load(q)
  <2>1. /\ request'[q].pc = "loaded" /\ request'[q].view = db /\ request'[q].base = db
        /\ request'[q].todo = request[q].todo /\ request'[q].tried = request[q].tried
        /\ request[q].pc = "idle"
    BY <1>1, <1>4 DEF load, Record
  <2>2. \A e \in Events : db[e] = "delivered" => Reached(e) BY DEF OutboxInv, DeliveredReached
  <2>3. db' = db BY <1>4 DEF load
  <2> QED BY <1>2, <1>3, <2>1, <2>2, <2>3 DEF HeldBy
<1>5. CASE save(q)
  <2>1. /\ request'[q].view = request[q].view /\ request'[q].base = request[q].view
        /\ request'[q].todo = pendingDomainEvents(request[q].view)
        /\ request'[q].tried = {} /\ request'[q].pc # "loaded"
    BY <1>1, <1>5 DEF save, Record, Flushing
  <2>2. \A e \in Events : request[q].view[e] # "none" => db'[e] # "none"
    <3>1. db' = Merged(q) BY <1>5 DEF save
    <3>2. \A e \in Events : db'[e] = IF \/ request[q].view[e] # request[q].base[e]
                                         \/ e \in request[q].tried
                                      THEN request[q].view[e] ELSE db[e]
      BY <3>1 DEF Merged
    <3> QED BY <1>2, <3>2 DEF HeldBy
  <2>3. \A e \in request'[q].todo : request[q].view[e] # "none"
    BY <2>1 DEF pendingDomainEvents
  <2> QED BY <1>2, <1>3, <2>1, <2>2, <2>3 DEF HeldBy
<1>6. CASE saveOutcome(q) \/ giveUp(q)
  <2>1. request'[q] = Done BY <1>1, <1>6 DEF saveOutcome, giveUp, Done
  <2> QED BY <2>1, IdleFacts DEF HeldBy
<1>7. ASSUME NEW n \in 1 .. 2, emitDomainEvents(q, n) PROVE HeldBy(q)'
  <2> DEFINE view == [e \in Events |-> IF e \in emitted + 1 .. emitted + n
                                         THEN "pending" ELSE request[q].view[e]]
  <2>1. request' = [request EXCEPT ![q].pc = "saving", ![q].view = view]
    BY <1>7 DEF emitDomainEvents
  <2>2. \A e \in Events : view[e] = "pending" \/ view[e] = request[q].view[e] OBVIOUS
  <2> HIDE DEF view
  <2>3. /\ request'[q].pc = "saving" /\ request'[q].view = view
        /\ request'[q].base = request[q].base /\ request'[q].todo = request[q].todo
        /\ request'[q].tried = request[q].tried
    BY <1>1, <2>1 DEF Record
  <2> QED BY <1>2, <1>3, <2>2, <2>3 DEF HeldBy
<1>8. ASSUME NEW ids \in SUBSET Events, replayDomainEvents(q, ids) PROVE HeldBy(q)'
  <2> DEFINE todo == ids \cap pendingDomainEvents(request[q].view)
  <2>1. request' = [request EXCEPT ![q].pc = Flushing(todo, FALSE), ![q].todo = todo]
    BY <1>8 DEF replayDomainEvents
  <2>2. Flushing(todo, FALSE) \in {"flushing", "saving"} BY DEF Flushing
  <2>3. \A e \in todo : request[q].view[e] # "none" BY DEF pendingDomainEvents
  <2> HIDE DEF todo
  <2>4. /\ request'[q].pc = Flushing(todo, FALSE) /\ request'[q].view = request[q].view
        /\ request'[q].base = request[q].base /\ request'[q].todo = todo
        /\ request'[q].tried = request[q].tried
    BY <1>1, <2>1 DEF Record
  <2>5. request[q].pc = "loaded" /\ db' = db BY <1>8 DEF replayDomainEvents
  <2>6. \A e \in Events : e \in todo => db[e] # "none"
    BY <1>2, <2>3, <2>5 DEF HeldBy
  <2> QED BY <1>2, <1>3, <2>2, <2>4, <2>5, <2>6 DEF HeldBy
<1>9. ASSUME NEW sent \in SUBSET Events, NEW answered \in BOOLEAN, putEvents(q, sent, answered)
      PROVE  HeldBy(q)'
  <2>1. TypeOK BY DEF OutboxInv
  <2>2. /\ request'[q].base = request[q].base /\ request'[q].pc \notin {"idle", "loaded"}
        /\ request'[q].todo \subseteq request[q].todo
        /\ \A e \in request'[q].tried :
             e \in request[q].tried \/ request'[q].view[e] \in {"failed", "delivered"}
        /\ \A e \in Events :
             \/ request'[q].view[e] = request[q].view[e]
             \/ request'[q].view[e] = "failed"
             \/ request'[q].view[e] = "delivered" /\ e \in sent
    BY <1>9, <2>1, PublishType
  <2>3. \A e \in sent : Reached(e)'
    <3>1. Put(sent) /\ \A d \in sent : bus[d] < MaxCopies BY <1>9 DEF putEvents
    <3>2. \A e \in sent : bus'[e] = bus[e] + 1 BY <2>1, <3>1, Puts
    <3>3. \A e \in sent : bus[e] \in Nat BY <2>1 DEF TypeOK
    <3> QED BY <3>2, <3>3 DEF Reached
  <2> QED BY <1>2, <1>3, <2>2, <2>3 DEF HeldBy
<1> QED BY <1>4, <1>5, <1>6, <1>7, <1>8, <1>9 DEF requestStep

\* A step of one request leaves the records of the others alone.
LEMMA OthersStay ==
  ASSUME TypeOK, Next, NEW p \in Requests, request'[p] # request[p]
  PROVE  requestStep(p)
<1>1. request \in [Requests -> Record] BY DEF TypeOK, Record
<1>2. ASSUME NEW q \in Requests, requestStep(q), q # p PROVE FALSE
  <2>1. ASSUME NEW r, request' = [request EXCEPT ![q] = r] PROVE FALSE
    BY <1>1, <1>2, <2>1
  <2>2. \E r : request' = [request EXCEPT ![q] = r]
    <3>1. CASE load(q) BY <3>1 DEF load
    <3>2. CASE save(q) BY <3>2 DEF save
    <3>3. CASE saveOutcome(q) \/ giveUp(q) BY <3>3 DEF saveOutcome, giveUp
    <3>4. CASE \E n \in 1 .. 2 : emitDomainEvents(q, n) BY <3>4 DEF emitDomainEvents
    <3>5. CASE \E ids \in SUBSET Events : replayDomainEvents(q, ids)
      BY <3>5 DEF replayDomainEvents
    <3>6. CASE \E sent \in SUBSET Events, answered \in BOOLEAN : putEvents(q, sent, answered)
      BY <3>6 DEF putEvents
    <3> QED BY <1>2, <3>1, <3>2, <3>3, <3>4, <3>5, <3>6 DEF requestStep
  <2> QED BY <2>1, <2>2
<1>3. CASE \E e \in Events : deliveryStep(e)
  BY <1>3 DEF deliveryStep, project_event, deadLetter, lambdaGivesUp, expire
<1>4. CASE replayStep
  BY <1>4 DEF replayStep, replayReceive, replayPut, replayDelete, replayDies
<1> QED BY <1>2, <1>3, <1>4 DEF Next

LEMMA ReplayingStep ==
  ASSUME OutboxInv, Next
  PROVE  Replaying'
<1> USE OutboxAssumption
<1>0. /\ bus \in [Events -> Nat] /\ dlq \in [Events -> Nat]
      /\ replay \in [pc : {"idle", "putting"}, held : SUBSET Events, put : SUBSET Events]
  BY DEF OutboxInv, TypeOK
<1>1. CASE UNCHANGED << dlq, replay >> /\ \A e \in Events :
             /\ e \in timeline \cup lost => e \in timeline' \cup lost'
             /\ bus[e] > 0 => bus'[e] > 0 \/ e \in timeline' \cup lost'
  BY <1>0, <1>1 DEF OutboxInv, Replaying
<1>2. ASSUME NEW q \in Requests, requestStep(q) PROVE Replaying'
  <2>1. CASE UNCHANGED << deliveryVars, projectionVars >>
    BY <2>1, <1>1 DEF deliveryVars, projectionVars
  <2>2. ASSUME NEW sent \in SUBSET Events, NEW answered \in BOOLEAN, putEvents(q, sent, answered)
        PROVE  Replaying'
    <3>1. Put(sent) /\ \A d \in sent : bus[d] < MaxCopies BY <2>2 DEF putEvents
    <3>2. \A e \in Events : bus'[e] = IF e \in sent THEN bus[e] + 1 ELSE bus[e]
      BY <3>1, Puts DEF OutboxInv
    <3>3. \A e \in Events : bus[e] > 0 => bus'[e] > 0 BY <1>0, <3>2
    <3> QED BY <1>1, <2>2, <3>3 DEF putEvents, projectionVars
  <2> QED BY <1>2, <2>1, <2>2 DEF requestStep, load, save, saveOutcome, giveUp,
             emitDomainEvents, replayDomainEvents
<1>3. ASSUME NEW d \in Events, deliveryStep(d) PROVE Replaying'
  <2>0. Remembered /\ TypeOK BY DEF OutboxInv
  <2>1. CASE project_event(d)
    <3>1. d \in timeline' /\ timeline \subseteq timeline' /\ UNCHANGED << dlq, lost, replay >>
      BY <2>0, <2>1 DEF project_event, Transact, projectionVars, Remembered
    <3>2. \A e \in Events : e = d \/ bus'[e] = bus[e]
      BY <2>0, <2>1, Consumes DEF project_event, Delivered
    <3> QED BY <1>1, <3>1, <3>2
  <2>2. CASE deadLetter(d)
    <3>1. dlq' = [dlq EXCEPT ![d] = @ + 1] /\ UNCHANGED << lost, timeline, replay >>
      BY <2>2 DEF deadLetter, projectionVars
    <3>2. \A e \in Events : IF e = d THEN dlq'[e] = dlq[e] + 1
                             ELSE dlq'[e] = dlq[e] /\ bus'[e] = bus[e]
      BY <1>0, <2>0, <2>2, <3>1, Consumes DEF deadLetter
    <3>3. \A e \in replay.held \cup replay.put : e \in Events /\ dlq[e] > 0
      BY <1>0 DEF OutboxInv, Replaying
    <3>4. \A e \in replay.put : bus[e] > 0 \/ dlq[e] > 1 \/ e \in timeline \cup lost
      BY DEF OutboxInv, Replaying
    <3> QED BY <1>0, <3>1, <3>2, <3>3, <3>4 DEF Replaying
  <2>3. CASE lambdaGivesUp(d)
    <3>1. \A e \in Events : e = d \/ bus'[e] = bus[e]
      BY <2>0, <2>3, Consumes DEF lambdaGivesUp
    <3> QED BY <1>1, <2>3, <3>1 DEF lambdaGivesUp, projectionVars
  <2>4. CASE expire(d) BY <1>1, <2>4 DEF expire, deliveryVars
  <2> QED BY <1>3, <2>1, <2>2, <2>3, <2>4 DEF deliveryStep
<1>4. CASE replayStep
  <2>1. ASSUME NEW E \in SUBSET Events, replayReceive(E) PROVE Replaying'
    <3>1. replay'.held = E /\ replay'.put = {} /\ dlq' = dlq BY <2>1 DEF replayReceive
    <3>2. \A e \in E : dlq[e] > 0 BY <2>1 DEF replayReceive
    <3> QED BY <3>1, <3>2 DEF Replaying
  <2>2. CASE replayDies \/ \E E \in SUBSET Events : replayDelete(E)
    <3>1. replay' = NoReplay BY <2>2 DEF replayDies, replayDelete
    <3> QED BY <3>1 DEF NoReplay, Replaying
  <2>3. ASSUME NEW d \in Events, NEW sent \in BOOLEAN, NEW answered \in BOOLEAN,
               replayPut(d, sent, answered)
        PROVE  Replaying'
    <3>1. \A e \in Events : bus'[e] = IF sent /\ e = d THEN bus[e] + 1 ELSE bus[e]
      <4>1. CASE sent
        <5>1. Put({d}) /\ \A c \in {d} : bus[c] < MaxCopies BY <2>3, <4>1 DEF replayPut
        <5>2. \A e \in Events : bus'[e] = IF e \in {d} THEN bus[e] + 1 ELSE bus[e]
          BY <5>1, Puts DEF OutboxInv
        <5> QED BY <4>1, <5>2
      <4>2. CASE ~sent BY <2>3, <4>2 DEF replayPut
      <4> QED BY <4>1, <4>2
    <3>2. /\ replay'.held = replay.held \ {d}
          /\ replay'.put = IF answered THEN replay.put \cup {d} ELSE replay.put
      BY <1>0, <2>3 DEF replayPut
    <3>3. UNCHANGED << dlq, lost, timeline >> /\ d \in replay.held /\ (answered => sent)
      BY <2>3 DEF replayPut, projectionVars
    <3>4. \A e \in replay.held \cup replay.put : e \in Events /\ dlq[e] > 0
      BY <1>0 DEF OutboxInv, Replaying
    <3>5. \A e \in replay.put : bus[e] > 0 \/ dlq[e] > 1 \/ e \in timeline \cup lost
      BY DEF OutboxInv, Replaying
    <3>6. \A e \in Events : bus'[e] >= bus[e] /\ bus[e] \in Nat /\ bus'[e] \in Nat
      BY <1>0, <3>1
    <3>7. answered => bus'[d] > 0 BY <1>0, <3>1, <3>3
    <3>8. \A e \in replay'.held \cup replay'.put : dlq'[e] > 0 BY <3>2, <3>3, <3>4
    <3>9. \A e \in replay'.put : (e = d /\ answered) \/ e \in replay.put BY <3>2
    <3>10. \A e \in replay'.put : bus'[e] > 0 \/ dlq'[e] > 1 \/ e \in timeline' \cup lost'
      BY <3>3, <3>4, <3>5, <3>6, <3>7, <3>9
    <3> QED BY <3>8, <3>10 DEF Replaying
  <2> QED BY <1>4, <2>1, <2>2, <2>3 DEF replayStep
<1> QED BY <1>2, <1>3, <1>4 DEF Next

\* Nothing is put on the bus or into the queue that was not committed before.
LEMMA OnlyCommitted ==
  ASSUME OutboxInv, Next, NEW e \in Events, bus'[e] > 0 \/ dlq'[e] > 0
  PROVE  db[e] # "none"
<1> USE OutboxAssumption
<1>0. bus[e] \in Nat /\ dlq[e] \in Nat /\ TypeOK BY DEF OutboxInv, TypeOK
<1>1. bus[e] > 0 \/ dlq[e] > 0 => db[e] # "none" BY DEF OutboxInv, OnTheWay
<1>2. ASSUME NEW q \in Requests, requestStep(q) PROVE db[e] # "none"
  <2>1. CASE UNCHANGED << deliveryVars, projectionVars >> BY <1>1, <2>1 DEF deliveryVars
  <2>2. ASSUME NEW sent \in SUBSET Events, NEW answered \in BOOLEAN, putEvents(q, sent, answered)
        PROVE  db[e] # "none"
    <3>1. Put(sent) /\ \A d \in sent : bus[d] < MaxCopies BY <2>2 DEF putEvents
    <3>2. bus'[e] = IF e \in sent THEN bus[e] + 1 ELSE bus[e] BY <1>0, <3>1, Puts
    <3>3. dlq' = dlq /\ sent \subseteq request[q].todo BY <2>2 DEF putEvents, Batch
    <3>4. e \in request[q].todo => db[e] # "none" BY DEF OutboxInv, Held
    <3> QED BY <1>1, <3>2, <3>3, <3>4
  <2> QED BY <1>2, <2>1, <2>2 DEF requestStep, load, save, saveOutcome, giveUp,
             emitDomainEvents, replayDomainEvents
<1>3. ASSUME NEW d \in Events, deliveryStep(d) PROVE db[e] # "none"
  <2>1. CASE UNCHANGED << bus, dlq >> BY <1>1, <2>1
  <2>2. CASE bus[d] > 0 /\ Consumed(d)
             /\ (dlq' = dlq \/ dlq' = [dlq EXCEPT ![d] = @ + 1])
    <3>1. bus'[e] = IF e = d THEN bus[e] - 1 ELSE bus[e] BY <1>0, <2>2, Consumes
    <3>2. e = d \/ dlq'[e] = dlq[e] BY <1>0, <2>2 DEF TypeOK
    <3> QED BY <1>0, <1>1, <2>2, <3>1, <3>2
  <2> QED BY <1>3, <2>1, <2>2 DEF deliveryStep, project_event, Delivered, deadLetter,
             lambdaGivesUp, expire, deliveryVars
<1>4. CASE replayStep
  <2>1. CASE UNCHANGED << bus, dlq >> BY <1>1, <2>1
  <2>2. ASSUME NEW E \in SUBSET Events, replayDelete(E) PROVE db[e] # "none"
    <3>1. dlq'[e] = IF e \in E THEN dlq[e] - 1 ELSE dlq[e] BY <2>2 DEF replayDelete
    <3>2. bus' = bus BY <2>2 DEF replayDelete
    <3> QED BY <1>0, <1>1, <3>1, <3>2
  <2>3. ASSUME NEW d \in Events, NEW sent \in BOOLEAN, NEW answered \in BOOLEAN,
               replayPut(d, sent, answered)
        PROVE  db[e] # "none"
    <3>1. e = d \/ bus'[e] = bus[e]
      <4>1. CASE sent BY <2>3, <4>1 DEF replayPut, Put
      <4>2. CASE ~sent BY <2>3, <4>2 DEF replayPut
      <4> QED BY <4>1, <4>2
    <3>2. dlq' = dlq /\ d \in replay.held BY <2>3 DEF replayPut
    <3>3. dlq[d] > 0 BY <3>2 DEF OutboxInv, Replaying
    <3> QED BY <1>1, <3>1, <3>2, <3>3
  <2> QED BY <1>4, <2>1, <2>2, <2>3 DEF replayStep, replayReceive, replayDies
<1> QED BY <1>2, <1>3, <1>4 DEF Next

\* A row that says delivered said so before, or in a request that saves it.
LEMMA DeliveredBefore ==
  ASSUME OutboxInv, Next, NEW e \in Events, db'[e] = "delivered"
  PROVE  Reached(e)
<1>1. ASSUME NEW q \in Requests, db' = Merged(q) PROVE Reached(e)
  <2>1. db'[e] = request[q].view[e] \/ db'[e] = db[e]
    BY <1>1, MergedType DEF OutboxInv
  <2>2. request[q].view[e] = "delivered" => Reached(e) BY DEF OutboxInv, Held
  <2>3. db[e] = "delivered" => Reached(e) BY DEF OutboxInv, DeliveredReached
  <2> QED BY <2>1, <2>2, <2>3
<1>2. CASE db' = db BY <1>2 DEF OutboxInv, DeliveredReached
<1>3. db' = db \/ \E q \in Requests : db' = Merged(q)
  BY DEF Next, requestStep, load, save, saveOutcome, giveUp, emitDomainEvents,
         replayDomainEvents, putEvents, deliveryStep, project_event, deadLetter, lambdaGivesUp,
         expire, replayStep, replayReceive, replayPut, replayDelete, replayDies
<1> QED BY <1>1, <1>2, <1>3

LEMMA RememberedStep ==
  ASSUME Remembered, Next
  PROVE  Remembered'
<1>1. UNCHANGED projectionVars
      \/ \E e \in Events : project_event(e) \/ expire(e)
  BY DEF Next, requestStep, load, save, saveOutcome, giveUp, emitDomainEvents,
         replayDomainEvents, putEvents, deliveryStep, deadLetter, lambdaGivesUp,
         replayStep, replayReceive, replayPut, replayDelete, replayDies
<1>2. CASE UNCHANGED projectionVars BY <1>2 DEF projectionVars, Remembered
<1>3. ASSUME NEW e \in Events, project_event(e) PROVE Remembered'
  BY <1>3 DEF project_event, Transact, projectionVars, Remembered
<1>4. ASSUME NEW e \in Events, expire(e) PROVE Remembered'
  BY <1>4 DEF expire, Remembered
<1> QED BY <1>1, <1>2, <1>3, <1>4

LEMMA InvStep == OutboxInv /\ [Next]_vars => OutboxInv'
<1> SUFFICES ASSUME OutboxInv, [Next]_vars PROVE OutboxInv' OBVIOUS
<1>1. CASE UNCHANGED vars
  BY <1>1 DEF vars, deliveryVars, projectionVars, OutboxInv, TypeOK, Replaying, Held, OnTheWay,
         Remembered, DeliveredReached, Reached
<1>2. CASE Next
  <2>0. TypeOK /\ Replaying /\ Held /\ Remembered BY DEF OutboxInv
  <2>1. TypeOK' BY <1>2, <2>0, TypeStep
  <2>2. Replaying' BY <1>2, ReplayingStep
  <2>3. Held'
    <3>1. ASSUME NEW q \in Requests PROVE HeldBy(q)'
      BY <1>2, <2>0, HeldStays, HeldStep, OthersStay
    <3> QED BY <3>1 DEF Held, HeldBy
  <2>4. OnTheWay' BY <1>2, <2>0, OnlyCommitted, CommittedStays DEF OnTheWay
  <2>5. DeliveredReached' BY <1>2, <2>0, DeliveredBefore, ReachedStays DEF DeliveredReached
  <2>6. Remembered' BY <1>2, <2>0, RememberedStep
  <2> QED BY <2>1, <2>2, <2>3, <2>4, <2>5, <2>6 DEF OutboxInv
<1> QED BY <1>1, <1>2

\* The invariant, of every number of requests, events, copies and replays.
THEOREM OutboxInvariant == Spec => []OutboxInv
BY InitInv, InvStep, PTL DEF Spec

\* Every variable has its type, and copies and messages stay within their bounds.
THEOREM OutboxTypes == Spec => []TypeOK
<1>1. OutboxInv => TypeOK BY DEF OutboxInv
<1> QED BY <1>1, OutboxInvariant, PTL

\* No partial batch, lost answer, stale row of another request or interrupted replay (runtime.ts,
\* awsEvents.ts, app.ts) lets a row say delivered of an event that is nowhere and that nothing
\* will send again.
THEOREM DeliveredIsReached == Spec => []DeliveredReached
<1>1. OutboxInv => DeliveredReached BY DEF OutboxInv
<1> QED BY <1>1, OutboxInvariant, PTL

-----------------------------------------------------------------------------
(* The outbox, the bus and the projector implement the log.                *)

LEMMA LogInits == Init => EventLogOf!LogInit
BY IdleFacts DEF Init, EventLogOf!LogInit, Committed

\* A save commits all its new events, or none.
LEMMA CommitIsAppend ==
  ASSUME OutboxInv, Next, UNCHANGED projectionVars
  PROVE  EventLogOf!LogNext \/ UNCHANGED EventLogOf!logVars
<1> DEFINE E == Committed' \ Committed
<1>1. Committed \subseteq Committed'
  BY CommittedStays DEF OutboxInv, Committed
<1>2. E \in SUBSET Events BY DEF Committed, Events
<1>3. CASE E = {}
  <2>1. Committed' = Committed BY <1>1, <1>3
  <2> QED BY <2>1 DEF EventLogOf!logVars, projectionVars
<1>4. CASE E # {}
  <2>1. EventLogOf!Append(E) BY <1>1, <1>4 DEF EventLogOf!Append, projectionVars
  <2> QED BY <1>2, <2>1 DEF EventLogOf!LogNext
<1> QED BY <1>3, <1>4

LEMMA LogStep == OutboxInv /\ [Next]_vars => [EventLogOf!LogNext]_(EventLogOf!logVars)
<1> SUFFICES ASSUME OutboxInv, [Next]_vars
             PROVE  EventLogOf!LogNext \/ UNCHANGED EventLogOf!logVars
  OBVIOUS
<1>1. CASE UNCHANGED vars
  BY <1>1 DEF vars, projectionVars, EventLogOf!logVars, Committed
<1>2. CASE Next /\ UNCHANGED projectionVars BY <1>2, CommitIsAppend
<1>3. ASSUME NEW e \in Events, project_event(e), Transact(e) PROVE EventLogOf!LogNext
  <2>1. db[e] # "none" BY <1>3 DEF project_event, OutboxInv, OnTheWay
  <2>2. Committed' = Committed BY <1>3 DEF project_event, Committed
  <2>3. EventLogOf!Project(e)
    BY <1>3, <2>1, <2>2 DEF Transact, EventLogOf!Project, Committed
  <2> QED BY <2>3 DEF EventLogOf!LogNext
<1>4. ASSUME NEW e \in Events, expire(e) PROVE EventLogOf!LogNext
  <2>1. Committed' = Committed BY <1>4 DEF expire, Committed
  <2>2. EventLogOf!Forget(e) BY <1>4, <2>1 DEF expire, EventLogOf!Forget
  <2> QED BY <2>2 DEF EventLogOf!LogNext
<1>5. Next => UNCHANGED projectionVars
      \/ \E e \in Events : (project_event(e) /\ Transact(e)) \/ expire(e)
  BY DEF Next, requestStep, load, save, saveOutcome, giveUp, emitDomainEvents,
         replayDomainEvents, putEvents, deliveryStep, project_event, deadLetter, lambdaGivesUp,
         replayStep, replayReceive, replayPut, replayDelete, replayDies
<1> QED BY <1>1, <1>2, <1>3, <1>4, <1>5

\* Whatever is sent twice, reordered, replayed or interrupted between emitDomainEvent (store.ts)
\* and project_event (handler.py), the projection holds committed events only and counts none
\* again while its idempotency item lives.
THEOREM OutboxImplementsLog == Spec => ImplementsEventLog
<1> QED
  BY LogInits, LogStep, InvStep, InitInv, PTL DEF Spec, ImplementsEventLog, EventLogOf!LogSpec
=============================================================================
