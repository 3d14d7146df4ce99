# InspectIQ in TLA+

A specification of InspectIQ beside its code: what happens to a vehicle inspection from capture
to the release of its condition report, on the server (`apps/api`), its queue and its event bus
(`services`), the phone, the reviewer's page and the edge function; which steps can interleave,
and what must hold whatever the interleaving. The modules are translated from the TypeScript and
Python source; TLC checks them on small instances and TLAPS proves the main results for every
instance.

## 1. The system

| Component | State it keeps | Operations | What is hard |
| --- | --- | --- | --- |
| Inspection state machine (`stateMachine.ts`, `store.ts`) | `inspection.status` | `transition`, manual `PATCH`, mutability check | a refused transition after other writes; a manual patch under a running draft |
| Photo evidence (`store.ts`) | photos, analyses, suggestions, damage items, cached completeness | upload, sample, analyse, save or fail an analysis, accept, edit, reject, damage routes, `recover-failed-jobs` | caches that go stale; analyses that arrive late; readiness derived from many rows |
| Suggestion review (`store.ts`, `SuggestionsPage.tsx`, the phone's cache) | versions of findings, the verified identity, the copies that clients show | accept, reject, edit, bulk assignment, bulk retake, reload | a decision on a copy that is no longer true; an answer that is lost |
| Grading (`gradingClient.ts`, `services/grading-python`) | one grade per grading version | `POST grade` (awaits the service), `saveGrade` | evidence read before the await, grade written after it; two implementations of one formula |
| Report drafting, approval, finalization (`store.ts`, `app.ts`) | report jobs, the report, its versions | `ai-report`, retry, patch, approve, finalize | two awaits in one handler; approval of an exact version; release is final |
| Image analysis jobs, queue, worker (`imageAnalysisRunner.ts`, `imageWorker.ts`, `awsQueue.ts`) | jobs, attempts, SQS messages | enqueue, send, receive, run, complete, dead-letter, requeue | duplicate delivery, crash between commit and send |
| Vision provider (`visionProvider.ts`) | none | what becomes of a model's answer | answers that contradict themselves |
| Row store (`postgresPersistence.ts`, `runtime.ts`) | each process's copy of the rows, what it loaded, the database | load per request, save of the difference, worker transaction | several processes; versions on three tables only; retry with stale rows |
| Cost guard (`operationsStore.ts`) | monthly counters and reservations | reserve | concurrent reservations at the limit, retries |
| Outbox and replay (`awsEvents.ts`, `runtime.ts`) | domain events with a delivery status | emit, publish after the commit, replay of rows and of the dead-letter queue | partial batches, lost answers, crashes between commit and publication |
| Operations projector (`services/operations-projector`) | idempotency items, timeline, latest state, counters | project one event | duplicates after expiry, late events |
| Mobile upload queue (`apps/mobile/src/offline`) | upload operations on the device | capture, synchronise, retry, block, remove | app killed in mid-upload, overlapping synchronisations |
| Seed data and reference evidence (`seedData.ts`) | sample photos and what the manifest says of them | seed, reconcile after every load, repair of legacy claims | writes on every load, without a version and whatever the status |
| Edge function (`functions/api/[[path]].ts`) | a snapshot of the whole store in a key-value namespace | read, handle, write back | stale reads, lost writes, tables a snapshot leaves out |
| Authorization (`auth.ts`, `packages/shared`, both clients) | none on the server; sessions in the clients | actor of a request, permission, access | three readings of one token, two kinds of session |
| Web page (`marketplaceReadiness.ts`, `InspectionDetailPage.tsx`, `workflowMetrics.ts`) | none of its own | readiness, guidance, queues, offered actions | a second derivation of what the server decides |
| File snapshot, rendering, infrastructure | | | not modelled, see section 7 |

The server's components share one `MemoryStore` per process. A handler runs to completion between
two awaits; a request that awaits (the cost guard, the report provider, the grading service, the
vision provider) is several atomic steps, and every other request may run in between. With
Postgres, each process loads the rows before a request and saves the difference after it, then
publishes the events of the outbox and saves their outcome.

## 2. Modules

| Module | Models | Used by |
| --- | --- | --- |
| `StateMachine` | the statuses, the transition table, `transition` (a step that needs the transition to be allowed), `tryTransition` (a refused transition leaves the earlier writes in place) | `Evidence`, `Report` |
| `Evidence` | photos, analyses, suggestions, decisions, damage, completeness, the evidence part of `readinessIssues` | `Release` |
| `Report` | the grade, draft requests with their awaits, report jobs, the report and its versions | `Release` |
| `Release` | one inspection in one API process (memory or file store, or one Lambda instance), with the manual status patch | `MCRelease`, `ReleaseProofs`, `Reference` |
| `Reference` | `Release` with photos of the manifest: seeding, sample photos, reconciliation at any moment | `MCReference`, `Edge` |
| `Edge` | the edge server: the routes it has, around a snapshot it reads before and writes after each request | `EdgeProofs` |
| `RowStore` | the row store under several processes: load table by table, handler, save with conditional versions under the advisory lock, retries, the worker's transaction. A request is only its footprint on rows | `MCRowStore`, `RowStoreProofs` |
| `Tables` | the statements of one save, against the foreign keys | `RulesProofs` |
| `CostGuard` | reservations and the counter of one kind of model call in one month | `ImageAnalysis` |
| `ImageAnalysis` | the jobs of one inspection from the request that creates them, over the queue, to the worker's transaction | `MCImageAnalysis`, `ImageAnalysisProofs` |
| `EventLog` | abstract: what outbox, bus and projector promise together | `Outbox` |
| `Outbox` | events from the commit over EventBridge to the projector, and both replay routes; implements `EventLog` | `MCOutbox`, `OutboxProofs` |
| `MobileSync` | the phone's upload operations, its session, its synchronisations, and the server's part of an upload | itself, `MobileSyncProofs` |
| `Review` | findings with versions, the identity they verify, and the clients that decide on copies | itself, `ReviewProofs` |
| `Grading` | the score and letter of the Python service and of the TypeScript fallback, repair estimates | `RulesProofs` |
| `Vision` | what the answer of a vision model becomes | `RulesProofs` |
| `Access` | the actor of a request, its permissions, the sessions of page and phone | `RulesProofs`, `Workspace` |
| `Workspace` | what the page derives from a bundle, beside the server's own functions | `RulesProofs` |

`MCRelease`, `MCImageAnalysis` and `MCOutbox` add symmetry, `MCReference` a manifest and
`MCRowStore` five routes as footprints. `Edge` is a state machine whose invariants are proved and
not run: TLC would repeat `release_reference` times every history of snapshots. `Tables`,
`Grading`, `Vision`, `Access` and `Workspace` are operators over data, quantified in their
theorems over every input; a run would only enumerate a part of it.

### How state corresponds to code

`Release`:

| Variable | In the code |
| --- | --- |
| `status` | `inspection.status` |
| `analysis`, `clean`, `declared`, `detected` | `photo.analysisStatus`, `qualityStatus = "ok"`, `declaredAngle`, `detectedAngle` |
| `failedJob` | photos with an `imageAnalysisJob` in `failed` or `dead_letter` |
| `suggestion`, `value` | `suggestion.status`; `suggestedValueJson.photoAngle` |
| `confirmed` | `completenessPercentage`, kept as the set of angles it counts (the code only compares it with 100) |
| `damage` | the damage list, kept as the number of changes made to it |
| `grading`, `grade` | requests waiting for the grading service; the damage list the stored grade was computed from, and its grading version |
| `pc`, `key`, `job` | where each draft request is, its idempotency key, the job it drives |
| `jobStatus` | `reportJobs[...].status`, each job named after the request that created it |
| `version`, `body`, `approvalStatus`, `finalizedAt`, `versions` | the report; `body` is named by the version that wrote the text |

`Reference` and `Edge` add:

| Variable | In the code |
| --- | --- |
| `reference` | photos whose image is one of the manifest |
| `modelled` | photos with an analysis of a provider (`hasModelAnalysis`) |
| `kv` | every snapshot written so far; a read may find any of them |

`RowStore`:

| Variable | In the code |
| --- | --- |
| `db` | the committed rows; a row is its version and the set of requests whose change it shows |
| `mem`, `snap` | the `MemoryStore` of a process and its entry in `postgresSnapshots` |
| `pc`, `table`, `attempt` | where a request is: tables its load has read, attempts of its save |
| `view` | the snapshot of its repeatable-read transaction, fixed by the query that asks for the lock |
| `delta` | what it has written and not committed |
| `lock` | the holder of `pg_advisory_xact_lock` |

`ImageAnalysis` and `CostGuard`:

| Variable | In the code |
| --- | --- |
| `db` | the committed rows: `analysisStatus` of each photo, the jobs, the number of completed results each job has stored, whether the inspection is finalized |
| `api` | per request, the rows it has loaded, and whether it has still to send its message |
| `messages` | the SQS messages: their jobs, their receive count, and whether they are visible, in flight, deleted or in the dead-letter queue |
| `worker` | the Lambda workers: the snapshot of the transaction (`view`), what its jobs have changed (`image`), the jobs that have passed the cost guard |
| `dirty` | rows committed since a worker's snapshot: writing one of them is a serialization failure |
| `lock` | the holder of `pg_advisory_xact_lock` |
| `reservations`, `usage` | the items `USAGE#...` and the counter `COST#month` in DynamoDB |

`Outbox`:

| Variable | In the code |
| --- | --- |
| `emitted`, `db` | events created, also by requests that never commit; `domain_events.deliveryStatus` of the committed ones |
| `request` | per request, where it is, the rows it holds (`view`), those it loaded or saved last (`base`), the events it has still to publish |
| `bus`, `dlq` | copies EventBridge still delivers; messages of its dead-letter queue |
| `replay` | a call of `replay-domain-event-dlq`: the messages it holds and those it has put on the bus |
| `lost` | events the projector failed on at every attempt of Lambda, which has no destination for failures |
| `items`, `timeline`, `latest`, `projectedCount` | the items `EVENT#`, timeline and `STATE` of the projection table |

`MobileSync`:

| Variable | In the code |
| --- | --- |
| `session` | whether a token is held and whether it must be refreshed |
| `row`, `files`, `captured` | `upload_operations`, the files on the device, the operation ids ever used |
| `sync` | per `syncUploadQueue` under way, its step and the operations it has read |
| `objects`, `photos`, `finalized` | the bucket, the photo rows with the id of an operation, the inspection |
| `abandoned` | history: operations whose fifth attempt ended with the app |

`Review`:

| Variable | In the code |
| --- | --- |
| `suggestion` | status, `version` and value of each finding |
| `identity`, `finalized` | the identity verification and its source; the inspection |
| `view` | the findings as each client shows them |
| `pc`, `op` | the request each client waits for, with what it showed at the click |
| `unread` | phones whose cursor is behind `inspection.updatedAt` |
| `changes` | edits, assignments, retakes and updates so far, a bound |

### Abstractions

*Release.* Several warnings or candidates of one analysis are one suggestion; only angle
suggestions carry a value; uploads happen in distinct milliseconds, so that "later photo" is the
order of upload; a draft request is a slot used once; where `createReportJob` takes the first
active job of the map, the model takes any; operations that leave everything the model keeps
unchanged (a rejected suggestion rejected again) are stutters. With a local report provider
(`Bedrock = FALSE`) the model still lets other steps run between the start of a draft and its
completion, which is more than the synchronous template provider allows.

*Reference and Edge.* Reconciliation follows every load; the model lets it happen at any moment.
`LegacyClaims`, what earlier seeds accepted without support, is a constant; the decisions its
removal takes back are exempt from `DecisionsOutliveReloads`. The model does not follow which damage
item belongs to a legacy claim: once the list has been changed, the item may still be there or not,
and only if it is does the repair remove it and rewrite the report.

*RowStore.* The audit row of a request stands for all the rows it adds to the audit and outbox
tables. A serialization failure is the database's only error, and comes with a statement, never with
the commit: what a process remembers as saved when it has written is saved unless it dies. The save
of delivered outbox events that follows the first save is in `Outbox`.

*ImageAnalysis.* A job is named after the request that creates it and its photo; that is the
identity `enqueueImageAnalysis` gives it, because a request creates at most one job of a photo.
Keys that begin with `force:` carry a random UUID and are one constant, as no two jobs share one.
A worker's view of the rows, its lock and its rollback are those of `RowStore`, without the steps
inside a load or a save.

*Outbox.* An event is named by its place in the order of `createdAt`. The image worker takes the
same steps as an API request. Loads and saves are single steps: what may happen inside them is
`RowStore`'s subject. `deliveryAttempts` and `lastError` are left out, but for making the row of an
event that was tried differ from the saved one (`tried`).

*MobileSync.* One inspection, uploads to presigned URLs. An update of a row is one step, though
the app reads the row first: each update sets status and attempts whatever it has read.

*Review.* All findings are of one inspection; owner, due date and explanation are left out:
assigning or asking for a retake raises the version and no more. `Blank` are the values without a
VIN or an odometer reading: no identity comes of them. The page's fallback to an empty bundle is
left out: it shows nothing that could be decided. The server's handlers for
decisions do not await, so each is one step between the click and the answer.

## 3. Properties and runs

| Run | Instance | Checks |
| --- | --- | --- |
| `release_drafts` | 1 photo, 2 angles, a damage candidate, 2 draft requests, 4 versions, both graders, Bedrock, manual patches | `TypeOK`, `CompletenessIsCurrent`, `GradeRestsOnEvidence`, `ReleasedIsReviewed`, `HistoryNamesTexts`, `ReleasedTextWasApproved` |
| `release_local` | 1 photo, 2 analyses, 2 draft requests, 1 key, 1 damage change, 4 versions, local provider; fairness | `OneDraftAtATime`, `FinalizedReportImmutable`, `FinalizedFactsImmutable`, `DraftSettles` |
| `release_reference` | 2 photos of the manifest's front view, the seeded one with a warning and a text an earlier seed accepted, 1 draft request, 3 versions, reconciliation at any moment | `ReleasedRetakesReplaced`, `CompletenessIsCurrent`, `DecisionsOutliveReloads` |
| `release_overwritten` | 2 draft requests, Bedrock | `FinalizedReportImmutable` is violated (section 5) |
| `rowstore` | accept and reject of one suggestion in two API processes, the worker's analysis in a third; 2 attempts; fairness | `TypeOK`, `VersionedUpdatesKept`, `VersionsCountUpdates`, `CoCommitted`, `ExclusionsHold`, `RowsSurvive`, `RequestsEnd` |
| `rowstore_lost_update` | two accepts of angle suggestions in two processes | `UpdatesKept` is violated |
| `image_jobs` | 1 photo, 2 requests (plain, keyed or forced, analysis or recovery), 2 workers, 2 deliveries, limit 2 | `PlainAnalysedOnce`, `SpentOnce`, `DeletedWasRun`, `CommittedStays` |
| `image_settles` | 1 request, 2 photos, 2 workers, 3 deliveries, limit 1; fairness | `TypeOK`, `CompletedHasAnalysis`, `MessagesSettle` |
| `outbox` | 2 requests, 2 events, batches of 2, 1 copy and 1 dead letter per event, 2 projections | `TypeOK`, `DeliveredReached`, `ImplementsEventLog` |
| `outbox_converges` | 1 request, 2 events | `Converges` is violated |
| `mobile_sync` | 1 capture, 2 overlapping synchronisations, 5 attempts; fairness | `TypeOK`, `PhotoOnce`, `UploadedIsStored`, `UploadsSettle` |
| `review` | an angle and a VIN finding, 1 page, 1 phone with a cache, callers without versions, 1 change; fairness | `TypeOK`, `VersionNamesContent`, `VerifiedIsAccepted`, `DecidedAsSeen`, `ReviewsSettle` |

What they show, beside each module's `TypeOK`:

* *The release.* `ReleasedIsReviewed` and `ReleasedTextWasApproved`: whatever was in flight, what is
  released was graded, complete, without open findings, and its text approved by the version before.
  `GradeRestsOnEvidence` is about the await of the grading service, `CompletenessIsCurrent` about
  the cache that finalization compares with 100, `ReleasedRetakesReplaced` about the condition an
  accepted warning leaves behind, `OneDraftAtATime` and `DraftSettles` about the status as a lock.
* *Reference evidence.* `DecisionsOutliveReloads`: a correction that runs at every load, without a
  version and in every status, takes back no decision.
* *Rows.* `VersionedUpdatesKept`, `ExclusionsHold`: what optimistic versions guarantee between
  processes; `CoCommitted`, `RowsSurvive`: what a crash or an overtaken save leaves.
* *Jobs.* `PlainAnalysedOnce`, `SpentOnce`: one analysis and one payment in spite of duplicate
  deliveries, rollbacks and requeueing; `CommittedStays`: no save made from older rows takes back
  a job, a run or an analysis; `DeletedWasRun`, `CompletedHasAnalysis`, `MessagesSettle`: no
  message forgotten, none held for ever.
* *Events.* `ImplementsEventLog` is a refinement: the projection shows committed events only, and
  counts none again while it is remembered. `DeliveredReached`: no row says delivered of an event
  that is nowhere and that nothing will send again.
* *The phone.* `PhotoOnce`, `UploadedIsStored`: the operation id makes retries harmless, and the
  order of put, confirm and update survives them.
* *Review.* `DecidedAsSeen`: a decision is carried out on what its client showed, or refused;
  `VersionNamesContent` is why; `VerifiedIsAccepted` is about an edit or rejection after the
  verification; `ReviewsSettle` about a reviewer who keeps meeting conflicts.

### Bounds

Two draft requests are enough for one to complete around another's approval and finalization, and
for one to adopt the other's job; four versions allow generate, edit, approve, finalize, and
generate, approve, generate again, approve. With two analyses of a photo one can still be under way
when a release has used the other; two photos are the fewest for a retake. `NumPhotos`, `NumRuns`,
`MaxDamage`, `Calls` and `MaxVersion` are the only bounds of `Release`. `release_local` has one
grader, because a grade of the other grading version may replace that of a finalized inspection
(section 5). In `release_reference` `LegacyClaims` is the text of the seeded photo, so that the
removal of such texts happens; with legacy damage as well the run takes too long, and only the
theorems have it. The second photo is there to answer the warning, and its analysis raises no
warning and reads no text (`SecondPhotoClear`).

In `RowStore` each request is made once; three requests are enough for a save to be overtaken
twice, which exhausts the two attempts the run allows (the code allows three), and for each pair
to conflict on a versioned row, on an unversioned one, or on none. The tables are loaded in two
groups.

In `ImageAnalysis` two requests are the fewest that can find each other's job, share a photo or a
key; with two workers and two deliveries each message can meet its own duplicate and the other
message. Two photos make a message of two jobs, of which a limit of 1 lets one pass. `Requests`,
`Photos`, `MaxReceive` (3 in the infrastructure) and `Limit` are the bounds, and the month does
not change.

In `Outbox` two requests let a stale row of one meet the outcome saved by the other, and a batch of
two be accepted in part; each event can be on the bus, in the dead-letter queue and in the
projection at once, and is forgotten once by the projector. A copy more than the bound is not put
on the bus: such a `PutEvents` is left out, not refused.

In `MobileSync` captures interact only through the loop of a synchronisation, so one capture under
two synchronisations meets every overlap of two uploads; five attempts are the code's own number.

In `Review` a page, a phone and callers without a version are one of each kind of client. One
change beside the decisions makes a copy stale; two findings are needed for the bulk operations
and for the identity, which only a VIN finding verifies. The theorems have any number of both.

Deadlock is not checked: an inspection stops for good when it is finalized, a request when it has
its answer, an upload when it is stored, and every model when its bounds are used up.

### Fairness

* `Release`: a draft request in flight eventually gets an answer from the cost guard and from the
  provider, or fails: both are calls with a timeout, and the handler catches what they throw. No
  user is ever forced to act. `DraftSettles` needs nothing else.
* `RowStore`: a request that has begun goes on until it ends, or its process dies: Postgres grants
  the lock of a holder that has ended, and rolls back the transaction of a connection that is gone.
* `ImageAnalysis`: each worker goes on (Lambda invokes it while the queue has visible messages, and
  ends it after 120 s), and SQS makes an undeleted message visible again after its timeout. That a
  worker never crashes is not assumed, and no client has to act.
* `MobileSync`: requests are answered or time out, the backoff ends, and something keeps starting a
  synchronisation (the app starting, the network coming back, a capture, the inspector). Strong
  fairness of the beginning of an upload says that the app is not killed each time before it.
* `Review`: the one assumption about people: a reviewer at a page keeps deciding what the page shows
  as open. It is strong, because a request or an answer may be lost again and again, but not for
  ever, and the inspector's own changes may come between.

## 4. Proofs

`TypeCorrect`, `RowTypes`, `OutboxTypes` and `ReviewTypes` are proved action by action; below is
what carries the rest. Every assumption on constants is a named `ASSUME` of the module that
declares them, evaluated by the runs of the same module. Every safety invariant and every action
property of a passing run is stated by a theorem.

*ReleaseProofs* proves every safety property of `Release` that the runs check.

* `CompletenessCurrent`: only `acceptSuggestion` changes which angle suggestions are accepted
  or the value of one (`AcceptedStep`), and it recomputes the cache.
* `GradeOnEvidence` strengthens the property with the requests in flight (`GradeInv`): evidence
  that was complete when a grade was asked for stays complete.
* `ReleasedReviewed`: `OnlyFinalize` (nothing else reaches FINALIZED) and `FinalizedStep` (after
  it only the recovery of failed jobs touches the evidence). `FinalizedFacts`, which assumes a
  single grading version, and `RetakesReplaced` (`RetakesStep`) follow from the same two lemmas.
* `HistoryNames`, `ReleasedText`: `TextStep` lists what a step can do to the report;
  `ApprovalInv` (an approved report's last entry is an approval) is what a finalization needs.
* `OneDraft`, `FinalizedReport` assume a local provider and no manual patches; `DraftInv` says
  that whoever generates owns the one active job and the status says so. Without the assumptions
  the run `release_overwritten` is a counterexample.

*EdgeProofs* is about `Reference` and `Edge`. `SeedsAreReviewed`: seeds satisfy the invariants of
`Release`. `ReferenceInv` (types; a photo that only the manifest speaks for has no open angle, and
its accepted one is the manifest's, and no text but an earlier seed's; completeness) is inductive
under reconciliation, and `DecisionsOutlive` follows. `ReferenceRetakes`: reconciliation changes
declared and detected angles also after the release, but not the angle a photo is taken to show
(`ReconcileKeepsConfirmed`), because until an angle is accepted the declared one already is the
manifest's (`DeclaredInv`); an open warning it raises does not count as an accepted one.
`ReferenceTexts`: the repair of a report gives all its versions one text, so that what was approved
still is what was released. `ReleasedIsReviewed` is *not* claimed of `Reference`: a warning may be
raised after the release (section 5). `ReconcileReaches` and `ReconcileSettles`: one reconciliation
reaches the manifest's state, and another changes nothing. At the edge, `NothingReleasedAtTheEdge`
and `SeededReleaseStays` have the invariant that the store and *every* snapshot are unreleased, or
are the released seed: that is why neither stale reads nor overlapping writes matter.

*RowStoreProofs* proves the safety properties of the run `rowstore` for any requests, rows,
processes and footprints, provided a process takes one request at a time (`~Shared`). The inductive
invariant `IInv` says what a loaded row tells about the database now (`Older`): it shows committed
changes only, and as long as its version is the current one it shows every change that raised it.
What a save has written is its handler's change of some such image (`Fits`); the process's snapshot
cannot tell which, being by then what the save hopes to leave. `CommitImage` is the heart: a save
laid over the database keeps all this for whoever else has loaded rows, because its conditional
updates passed. `Exclusions` then says how far optimistic versions replace a lock: requests that
must not follow each other do not, *provided both raise the version of a common row*.

*OutboxProofs* proves the run `outbox` for any requests, events, batches and replays. `OutboxInv`:
what a request holds as delivered has been reached although the database does not say so yet
(`Held`; this is why `DeliveredReached` alone is not inductive), what is on the bus or dead is
committed (`OnTheWay`), a message of the dead-letter queue is deleted only when its event is on
the bus again, has arrived or has come back to the queue (`Replaying`), and what is remembered is
in the timeline (`Remembered`). `OutboxImplementsLog` maps a save to `Append`, the
projector's transaction to `Project`, the expiry of an item to `Forget`, and all else to a stutter.

*ReviewProofs* proves the safety properties of the run `review` for any findings, pages and
phones. `ReviewInv`: every copy (in a view, or in the request of a client) has a version no later
than the server's, and is the server's finding if the versions are equal (`Copies`); a request
decides one finding that its client showed as open (`Requested`); the verified identity rests on
an identity finding (`Rests`), which once accepted nothing edits or rejects. `DecisionsAsSeen` is
then a fact about one step.

*ImageAnalysisProofs* proves the safety properties of `image_jobs` and `image_settles` for any
photos, requests, keys, workers and deliveries. The type invariant has content: a message is
received at most `MaxReceive` times, and the worker that runs jobs is the one that holds the lock.
`TypeInv` adds what that needs: a visible message has a delivery left, a message that was never
sent has none behind it, carries at most one job of a photo, and a run only adds analyses.
`ImageInv` adds what the other properties need:

* what a request or a worker has loaded is an earlier state of the rows (`ViewsInv`): the database
  has all its jobs, under their keys, and all its analyses (`Outlives`), and in itself a completed
  job or photo has an analysis (`Coherent`);
* a request that has not saved has no job (`FreshInv`), so that what it adds is new to everyone;
* a run (`RunInv`) touches the jobs of its message only; an analysis it has added is one, was
  reserved, is the first of its photo in the run's view unless the job is forced, and the photo's
  row says completed;
* a transaction whose view lacks the first analysis of a photo has the photo's row among those
  that others have committed since (`DirtyInv`);
* a committed or deleted message has run its jobs (`RanInv`).

`OneAnalysis` is then an argument about two workers. Both have run a plain job of one photo; the
second one's view lacks the analysis that the first has committed, so the photo's row is dirty for
it (`DirtyInv`); its own analysis set that row from something else to completed, so the row is
written (`RunInv`), and `commit` is refused (`CommitOnce`). `PlainAnalysedOnce` is not inductive
without the row: job rows alone never conflict. `MergeCoherent` is the lemma about a save: laid
over rows it has not seen, it keeps `Coherent` and takes nothing back (`Kept`), from which
`CompletedIsAnalysed` and `NothingTakenBack` follow; `MergeSpent` does the same for
`NothingUnreserved`. One assumption on constants, that jobs and photos are different things, says
that the rows of two tables differ.

*MobileSyncProofs* proves the safety properties of `mobile_sync` for any number of captures,
synchronisations and attempts. `MobileInv` adds to them what a synchronisation knows between two of
its steps (`SyncInv`): past the put the object is in the bucket, past the confirmation the
photo is on the server. Nothing deletes either, so another synchronisation, a crash or a sign-out in
between cannot make it false, and only then is a row set to uploaded (`UploadIsBacked`).
`UploadIsIdempotent` needs no more than the server's own look-up of the operation id.

*RulesProofs* is about pure rules, for every input. *Grading*: score in range, monotone, which
damage excludes grade A, and that the service and the fallback agree in spite of their different
rounding. *Vision*: what is kept of a model's answer is bounded, valid and priced; a kept warning
means quality fail, and `SilentRetake` shows that the converse fails. *Access*: nothing is
permitted to the read-only workspace, in JWT mode only a verified token acts and an inspector acts
only on inspections of his own, page, phone and API agree on a role claim, what the page offers is
permitted, unless a workspace session is left over. *Tables*: with the order of `storeMapNames` no
statement of a save violates a foreign key (`KeysPointBack`), and writing only the differing rows
writes the store. *Workspace*: page and server on the same stored inspection: `PageNeverAhead`,
`PageAgrees` and, for the one case in which they differ, `ReplacedPhotoHoldsPage`; which release
the button offers, that the queues cover every inspection, and what the guidance guarantees.

Only model-checked: the liveness properties `DraftSettles`, `RequestsEnd`, `MessagesSettle`,
`UploadsSettle` and `ReviewsSettle`, because liveness under fairness is out of the prover's reach.
What the runs expect to be violated (section 5) has TLC's counterexamples.

## 5. Findings

Each of these has a run whose counterexample shows it.

* A finalized report can be overwritten (`release_overwritten`): two `ai-report` requests pass
  the status check before the await of `reserveBedrockUsage`; after the first draft is approved
  and finalized, `completeReportJob` of the second replaces the text and resets the approval.
  `docs/implementation-boundary.md:10` promises "post-finalization immutability".
* Completeness can be lost between processes (`rowstore_lost_update`): accepting an angle
  suggestion rewrites the inspection row without raising its version, so the conditional update of
  a process that loaded it earlier passes. `docs/aws-deployment-plan.md:57` says that stale writes
  of inspections are rejected.
* The projection need not converge (`outbox_converges`): the latest state is that of whichever event
  arrives last, and an event delivered after its idempotency item has expired is counted twice.
  `docs/observability.md:44` expects that the projection "converges".

What else became visible, stated by a theorem, by a constant of a module, or in the model's actions:

* The worker can add an analysis to a finalized inspection: the snapshot of its transaction is
  taken before it waits for the lock that the finalization holds, and the two raise no common
  version. `Exclusions` needs that proviso; with a finalization and an analysis as the requests of
  `MCRowStore`, TLC finds `ExclusionsHold` violated.
* An Express server on Postgres can acknowledge what it never wrote: the load of one request resets
  the store another has changed and not yet saved. `Shared = TRUE` lets the requests of a process
  overlap; with all API requests of `MCRowStore` in one process TLC then finds `CoCommitted` and
  `RowsSurvive` violated (`docs/production-readiness.md:11`: "business/audit/outbox co-commit"). The
  runs have `Shared = FALSE`, and the theorems of `RowStoreProofs` assume it.
* A redelivered message spoils an analysed photo: running a job sets its photo to pending, and a
  duplicate result completes the job without setting it back; a forced job stores a second analysis.
  At the edge, where the result of a forced job is a duplicate too, it does the same without a
  redelivery (`analyzeAgain`). `docs/ai-governance.md:9` says "Image-analysis jobs are idempotent";
  what holds is `PlainAnalysedOnce` and `CompletedHasAnalysis`.
* The attempts of a job can go back: `recover-failed-jobs` saves the job rows it has loaded, over a
  run that was committed meanwhile, so `failAnalysis` may find fewer than three attempts after the
  third. `CommittedStays` therefore keeps only *that* a job has run.
* A grade of the other grading version that arrives after the release replaces the released grade:
  `saveGrade` looks at no status. `docs/resume-bullets.md` says "finalized inspections reject
  further material changes". `FinalizedFacts` assumes one grader; with both graders in
  `release_local` TLC finds `FinalizedFactsImmutable` violated.
* Reconciliation writes in every status and without a version: it completes sample photos whose
  analysis was never run, resets a declared angle, may raise an open warning on a finalized
  inspection that had none, and the repair of legacy claims rewrites released reports under the
  numbers of their versions.
* `recover-failed-jobs` resets photos of finalized inspections, and in queue mode sets jobs to
  queued without sending a message; so does a process that dies between commit and send. Such a job
  waits for the next request about its photo. No document denies either.
* "Retry draft" and a second "Draft report" of the page always send one key per inspection; once
  its job has ended, `createReportJob` makes another under the same key, which the unique index of
  `schema.sql:287` refuses. The retry endpoint makes a key of its own.
* A model's answer may demand a retake without a warning that a reviewer could decide
  (`SilentRetake`), and a retaken photo keeps the page's readiness back for ever
  (`ReplacedPhotoHoldsPage`): the page calls a report blocked that the server has released. The
  test "does not block a finalized CR for already-reviewed quality warnings"
  (`marketplaceReadiness.test.ts`) promises the opposite with photos of quality ok.
* A workspace session left in another tab refuses everything a signed-in user is offered
  (`LeftoverSessionRefuses`).
* At the edge there is no approval route, so nothing can be released there that was not seeded so;
  snapshots leave the history of reports out; a grade may land on an older snapshot.
* An upload whose fifth attempt ends with the app is neither retried nor shown as blocked
  (`UploadsSettle` has to except it).
* An event that fails on every attempt of Lambda is in no queue (`lost` in `Outbox`).

## 6. What comes next

1. The job modes other than `queue`, as a second way of running a job in `ImageAnalysis`.
2. A refinement between `ImageAnalysis` and the worker's route of `RowStore`: its load, lock and
   commit are the same steps on fewer rows, which so far is an argument in prose.
3. For `Edge`, which invariants of `Release` survive stale snapshots, beside the two that are proved.

## 7. Not modelled

* *File snapshot store.* One process and one file: a save serialises the whole store and renames it
  into place. Its one hazard, a request that saves between another's await and save, is that of
  the shared Express process above.
* *Rendering, navigation and wording* of page and phone; the requests they make are the actions of
  the API models, and what the page computes from a bundle is in `Workspace`.
* *Infrastructure.* Declarative; its retry counts and timeouts are constants and fault steps of
  `ImageAnalysis` and `Outbox`.
* *Row store*: migrations and the first save of an empty database, which precede every request;
  errors of the database other than serialization failures.
* *Image analysis*: jobs run inside the request, simulated failures, redriving the dead-letter queue
  by hand. *Cost guard*: the change of month, the expiry of reservations after 45 days, the
  in-memory guard of a process without a table.
* *Providers*: prompts, image bytes and their storage; report providers write text, of which
  `Report` knows only that it may fail. *Review*: assignees and the content of damage items.
* *Outbox*: the expiry of timeline items after 30 days.
* *Authorization* in the state machines: their actions are those an authorised caller can take.
