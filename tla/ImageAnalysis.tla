--------------------------- MODULE ImageAnalysis ----------------------------
(***************************************************************************)
(* Image-analysis jobs with IMAGE_ANALYSIS_MODE=queue: the routes that     *)
(* create and requeue them (app.ts), the SQS queue that carries them       *)
(* (awsQueue.ts), and the Lambda worker (imageWorker.ts,                   *)
(* imageAnalysisRunner.ts), which runs all jobs of a message in one        *)
(* transaction on the row store while it holds the advisory lock.          *)
(*                                                                         *)
(* One inspection.  A request is its load, the handler with its save, and  *)
(* the send of its message; RowStore has the steps inside load and save.   *)
(* The queue delivers at least once; a message is the request that sent    *)
(* it.  A job is named after the request that creates it and its photo.    *)
(***************************************************************************)
EXTENDS CostGuard

CONSTANTS
  Photos,
  Requests,         \* bound: requests to analyze or to recover, each made once
  Keys,             \* idempotency keys of clients
  NoKey, Forced,    \* no idempotency key; the fresh "force:" key of a forced request
  Workers,          \* concurrent workers (maximum_concurrency)
  MaxReceive,       \* maxReceiveCount of the queue
  None

Jobs == Requests \X Photos
PhotoOf(j) == j[2]

ASSUME ImageAssumption ==
  /\ MaxReceive \in Nat \ {0}
  /\ None \notin Workers \cup Requests
  /\ NoKey # Forced
  /\ {NoKey, Forced} \cap (Keys \cup (Keys \X Photos)) = {}
  /\ Jobs \cap (Keys \cup (Keys \X Photos)) = {}
  /\ Jobs \cap Photos = {}

AnalysisStatus == {"not_analyzed", "pending", "completed", "failed"}
JobStatus      == {"none", "queued", "running", "completed", "failed", "dead_letter"}
JobKey         == {NoKey, Forced} \cup Keys \cup (Keys \X Photos)

NoJob == [status |-> "none", attempts |-> 0, key |-> NoKey]

JobRows == [status : JobStatus, attempts : Nat, key : JobKey]

\* The rows of the inspection; analyses counts the completed results of each job.
Images ==
  [photos : [Photos -> AnalysisStatus],
   jobs : [Jobs -> JobRows],
   analyses : [Jobs -> Nat],
   finalized : BOOLEAN]

VARIABLES
  db,         \* the committed rows
  api,        \* per request: where it is and the rows it has loaded
  messages,   \* per request: the message it sends
  worker,     \* per worker: its message, the rows it sees and has changed, jobs reserved
  dirty,      \* per worker: rows committed by others since its transaction began
  lock        \* the worker that holds the advisory lock

vars == << db, api, messages, worker, dirty, lock, reservations, usage >>

NoRows == [photos |-> [p \in Photos |-> "not_analyzed"], jobs |-> [j \in Jobs |-> NoJob],
           analyses |-> [j \in Jobs |-> 0], finalized |-> FALSE]
NoWork == [pc |-> "idle", msg |-> None, view |-> NoRows, image |-> NoRows, reserved |-> {}]

Init ==
  /\ db = NoRows
  /\ api = [q \in Requests |-> [pc |-> "idle", view |-> NoRows]]
  /\ messages = [q \in Requests |-> [state |-> "none", jobs |-> {}, receives |-> 0]]
  /\ worker = [w \in Workers |-> NoWork]
  /\ dirty = [w \in Workers |-> {}]
  /\ lock = None
  /\ GuardInit

-----------------------------------------------------------------------------
(* The row store.                                                          *)

Written(image, view) ==
  { p \in Photos : image.photos[p] # view.photos[p] }
    \cup { j \in Jobs : image.jobs[j] # view.jobs[j] }

\* Variant: rows that others have committed since view was loaded are rows to delete.
MergedWhole(image, view) ==
  [db EXCEPT !.photos = image.photos, !.jobs = image.jobs, !.analyses = image.analyses]

\* The committed rows after image, made from view, is saved: changed rows replace what is
\* there, new analyses are added.
Merged(image, view) ==
  [db EXCEPT
     !.photos = [p \in Photos |->
                   IF p \in Written(image, view) THEN image.photos[p] ELSE db.photos[p]],
     !.jobs = [j \in Jobs |->
                 IF j \in Written(image, view) THEN image.jobs[j] ELSE db.jobs[j]],
     !.analyses = [j \in Jobs |-> db.analyses[j] + (image.analyses[j] - view.analyses[j])]]

\* What the transactions of the workers in S have not seen.
Overtake(rows, S) ==
  dirty' = [w \in Workers |-> IF w \in S THEN dirty[w] \cup rows ELSE {}]

Waiting == { w \in Workers : worker[w].pc \in {"waiting", "running"} }

-----------------------------------------------------------------------------
(* Handlers on the rows of a process.                                      *)

\* Jobs enqueueImageAnalysis returns instead of a new one.  A "force:" key is always new.
Reusable(rows, p, key) ==
  { j \in Jobs :
      /\ PhotoOf(j) = p
      /\ rows.jobs[j].status \notin {"none", "failed", "dead_letter"}
      /\ key = NoKey \/ (key # Forced /\ rows.jobs[j].key = key) }

\* New jobs: a function from the new jobs to their keys.
Enqueued(rows, new) ==
  [rows EXCEPT
     !.jobs = [j \in Jobs |-> IF j \in DOMAIN new
                                THEN [status |-> "queued", attempts |-> 0, key |-> new[j]]
                                ELSE rows.jobs[j]],
     !.photos = [p \in Photos |-> IF \E j \in DOMAIN new : PhotoOf(j) = p
                                    THEN "pending" ELSE rows.photos[p]]]

\* startImageAnalysisJob, for all jobs of a message; JobMovesOn is its condition.
JobMovesOn(rows, jobs) == ~rows.finalized /\ \A j \in jobs : rows.jobs[j].status # "none"

Started(rows, jobs) ==
  [rows EXCEPT
     !.jobs = [j \in Jobs |-> IF j \in jobs
                 THEN [status |-> "running", attempts |-> rows.jobs[j].attempts + 1,
                       key |-> rows.jobs[j].key]
                 ELSE rows.jobs[j]],
     !.photos = [p \in Photos |-> IF \E j \in jobs : PhotoOf(j) = p
                                    THEN "pending" ELSE rows.photos[p]]]

\* The photo has a completed analysis of this provider and prompt.
Analyzed(rows, p) == \E j \in Jobs : PhotoOf(j) = p /\ rows.analyses[j] > 0

\* Variant: a job that runs again is taken for done.
SavedAnalysisUnlessRetried(rows, j) ==
  IF rows.jobs[j].attempts > 1
    THEN [rows EXCEPT !.jobs[j].status = "completed"]
    ELSE [rows EXCEPT !.jobs[j].status = "completed",
                      !.photos[PhotoOf(j)] = "completed",
                      !.analyses[j] = @ + 1]

\* saveAnalysis: for a plain job the result of an analyzed photo is dropped, and only the
\* job is completed.
SavedAnalysis(rows, j) ==
  IF Analyzed(rows, PhotoOf(j)) /\ rows.jobs[j].key # Forced
    THEN [rows EXCEPT !.jobs[j].status = "completed"]
    ELSE [rows EXCEPT !.jobs[j].status = "completed",
                      !.photos[PhotoOf(j)] = "completed",
                      !.analyses[j] = @ + 1]

\* failAnalysis.
Failed(rows, j) ==
  [rows EXCEPT
     !.photos[PhotoOf(j)] = "failed",
     !.jobs[j].status = IF rows.jobs[j].attempts >= 3 THEN "dead_letter" ELSE "failed"]

-----------------------------------------------------------------------------
(* The API.                                                                *)

load(q) ==
  /\ api[q].pc = "idle"
  /\ api' = [api EXCEPT ![q] = [pc |-> "loaded", view |-> db]]
  /\ UNCHANGED << db, messages, worker, dirty, lock, guardVars >>

\* The request is answered or gives up: 200, 409, 500, or its process dies.
Done(q) == api' = [api EXCEPT ![q] = [pc |-> "done", view |-> NoRows]]

\* savePostgresRows waits for the lock; a serialization failure is retried with the same rows.
Save(q, image) ==
  /\ lock = None
  /\ db' = Merged(image, api[q].view)
  /\ Overtake(Written(image, api[q].view), Waiting)
  /\ UNCHANGED << worker, lock, guardVars >>

\* The jobs of some photos, found or new, are saved; then those that have to run are sent.
\* key gives the idempotency key of each photo's job.
Enqueue(q, key, sendAll) ==
  \E job \in { f \in [DOMAIN key -> Jobs] :
                 \A p \in DOMAIN key : LET found == Reusable(api[q].view, p, key[p]) IN
                   f[p] \in IF found = {} THEN {<<q, p>>} ELSE found } :
    LET all    == { job[p] : p \in DOMAIN key }
        new    == { j \in all : api[q].view.jobs[j].status = "none" }
        image  == Enqueued(api[q].view, [j \in new |-> key[PhotoOf(j)]])
        toSend == { j \in all : sendAll \/ image.jobs[j].status = "queued" }
    IN /\ Save(q, image)
       /\ IF toSend = {}
            THEN Done(q) /\ UNCHANGED messages
            ELSE /\ api' = [api EXCEPT ![q] = [pc |-> "send", view |-> NoRows]]
                 /\ messages' = [messages EXCEPT ![q].jobs = toSend]

\* POST inspections/:id/photos/analyze: all photos, or those without a completed analysis.
\* Only queued jobs are sent.
analyzePhotos(q, k) ==
  LET ps == { p \in Photos : k = Forced \/ api[q].view.photos[p] # "completed" }
  IN /\ api[q].pc = "loaded" /\ (ps # {} => ~api[q].view.finalized)
     /\ Enqueue(q, [p \in ps |-> IF k \in Keys THEN <<k, p>> ELSE k], FALSE)

\* POST photos/:photoId/analyze: its job is sent whatever its status.
analyzePhoto(q, p, k) ==
  /\ api[q].pc = "loaded" /\ ~api[q].view.finalized
  /\ k = Forced \/ api[q].view.photos[p] # "completed"
  /\ Enqueue(q, [x \in {p} |-> k], TRUE)

\* POST platform-health/recover-failed-jobs: the jobs are queued; nothing is sent.
recoverFailedJobs(q) ==
  LET rows        == api[q].view
      recoverable == { j \in Jobs : rows.jobs[j].status \in {"failed", "dead_letter"} }
      image == [rows EXCEPT
                  !.jobs = [j \in Jobs |-> IF j \in recoverable
                              THEN [rows.jobs[j] EXCEPT !.status = "queued"] ELSE rows.jobs[j]],
                  !.photos = [p \in Photos |-> IF \E j \in recoverable : PhotoOf(j) = p
                                                 THEN "pending" ELSE rows.photos[p]]]
  IN /\ api[q].pc = "loaded" /\ recoverable # {}
     /\ Save(q, image) /\ Done(q) /\ UNCHANGED messages

\* sendImageAnalysisMessage.
sendMessage(q) ==
  /\ api[q].pc = "send"
  /\ messages' = [messages EXCEPT ![q].state = "visible"]
  /\ Done(q)
  /\ UNCHANGED << db, worker, dirty, lock, guardVars >>

\* Refused, nothing to do, or an error or crash on the way, also between save and send.
giveUp(q) ==
  /\ api[q].pc \in {"loaded", "send"}
  /\ Done(q)
  /\ UNCHANGED << db, messages, worker, dirty, lock, guardVars >>

\* Another request finalizes the inspection; Report has its conditions.
finalizeReport ==
  /\ ~db.finalized /\ lock = None
  /\ db' = [db EXCEPT !.finalized = TRUE]
  /\ UNCHANGED << api, messages, worker, dirty, lock, guardVars >>

-----------------------------------------------------------------------------
(* The worker: handler of imageWorker.ts with runImageAnalysisJob.         *)

\* Lambda delivers a message; the transaction begins and waits for the advisory lock, with
\* its view of the rows already fixed.
receive(w, m) ==
  /\ worker[w].pc = "idle" /\ messages[m].state = "visible"
  /\ messages' = [messages EXCEPT ![m].state = "inflight", ![m].receives = @ + 1]
  /\ worker' = [worker EXCEPT ![w] = [pc |-> "waiting", msg |-> m, view |-> db,
                                      image |-> NoRows, reserved |-> {}]]
  /\ dirty' = [dirty EXCEPT ![w] = {}]
  /\ UNCHANGED << db, api, lock, guardVars >>

JobsOf(w) == messages[worker[w].msg].jobs

\* The worker is done with the message, whose fate the queue decides unless it is deleted.
Idle(w) ==
  /\ worker' = [worker EXCEPT ![w] = NoWork]
  /\ lock' = IF lock = w THEN None ELSE lock

\* The lock is granted, the rows are loaded, and all jobs start.
startJobs(w) ==
  /\ worker[w].pc = "waiting" /\ lock = None
  /\ JobMovesOn(worker[w].view, JobsOf(w))
  /\ lock' = w
  /\ worker' = [worker EXCEPT ![w].pc = "running",
                              ![w].image = Started(worker[w].view, JobsOf(w))]
  /\ UNCHANGED << db, api, messages, dirty, guardVars >>

\* assertMutableInspection throws: rollback, and the message is reported as failed.
startRefused(w) ==
  /\ worker[w].pc = "waiting" /\ lock = None
  /\ ~JobMovesOn(worker[w].view, JobsOf(w))
  /\ Idle(w)
  /\ dirty' = [dirty EXCEPT ![w] = {}]
  /\ UNCHANGED << db, api, messages, guardVars >>

\* job.idempotencyKey ?? job.id; a "force:" key belongs to one job.
ReservationKey(rows, j) == IF rows.jobs[j].key \in {NoKey, Forced} THEN j ELSE rows.jobs[j].key

Running(w) == { j \in JobsOf(w) : worker[w].image.jobs[j].status = "running" }

\* reserveBedrockUsage of one of the jobs, which run side by side.
reserveUsage(w, j) ==
  /\ worker[w].pc = "running" /\ j \in Running(w) \ worker[w].reserved
  /\ \/ /\ reserve(ReservationKey(worker[w].image, j))
        /\ worker' = [worker EXCEPT ![w].reserved = @ \cup {j}]
     \/ /\ \/ costGuardReached(ReservationKey(worker[w].image, j))
           \/ reserveFails(ReservationKey(worker[w].image, j))
        /\ worker' = [worker EXCEPT ![w].image = Failed(@, j)]
  /\ UNCHANGED << db, api, messages, dirty, lock >>

\* The provider answers with a valid result, or fails.
analyze(w, j) ==
  /\ worker[w].pc = "running" /\ j \in Running(w) \cap worker[w].reserved
  /\ \/ worker' = [worker EXCEPT ![w].image = SavedAnalysis(@, j)]
     \/ worker' = [worker EXCEPT ![w].image = Failed(@, j)]
  /\ UNCHANGED << db, api, messages, dirty, lock, guardVars >>

\* Variant: the advisory lock outlives a transaction that is rolled back.
commitLockKept(w) ==
  /\ worker[w].pc = "running" /\ Running(w) = {}
  /\ LET rows == Written(worker[w].image, worker[w].view) IN
     IF rows \cap dirty[w] # {}
       THEN /\ worker' = [worker EXCEPT ![w] = NoWork]
            /\ dirty' = [dirty EXCEPT ![w] = {}] /\ UNCHANGED << db, lock >>
       ELSE /\ db' = Merged(worker[w].image, worker[w].view)
            /\ worker' = [worker EXCEPT ![w] = [NoWork EXCEPT !.pc = "committed",
                                                              !.msg = worker[w].msg]]
            /\ lock' = None
            /\ Overtake(rows, Waiting \ {w})
  /\ UNCHANGED << api, messages, guardVars >>

\* Variant: what others committed since the transaction began is overwritten.
commitAnyway(w) ==
  /\ worker[w].pc = "running" /\ Running(w) = {}
  /\ db' = Merged(worker[w].image, worker[w].view)
  /\ worker' = [worker EXCEPT ![w] = [NoWork EXCEPT !.pc = "committed", !.msg = worker[w].msg]]
  /\ lock' = None
  /\ Overtake(Written(worker[w].image, worker[w].view), Waiting \ {w})
  /\ UNCHANGED << api, messages, guardVars >>

\* Variant: a failed transaction does not fail the message.
commitSwallowed(w) ==
  /\ worker[w].pc = "running" /\ Running(w) = {}
  /\ LET rows == Written(worker[w].image, worker[w].view) IN
     IF rows \cap dirty[w] # {}
       THEN /\ Overtake({}, Waiting \ {w}) /\ UNCHANGED db
       ELSE /\ db' = Merged(worker[w].image, worker[w].view)
            /\ Overtake(rows, Waiting \ {w})
  /\ worker' = [worker EXCEPT ![w] = [NoWork EXCEPT !.pc = "committed", !.msg = worker[w].msg]]
  /\ lock' = None
  /\ UNCHANGED << api, messages, guardVars >>

\* All jobs have ended.  A row written here was changed since the transaction began: rollback.
\* Otherwise everything becomes visible at once.
commit(w) ==
  /\ worker[w].pc = "running" /\ Running(w) = {}
  /\ LET rows == Written(worker[w].image, worker[w].view) IN
     IF rows \cap dirty[w] # {}
       THEN /\ Idle(w)
            /\ dirty' = [dirty EXCEPT ![w] = {}] /\ UNCHANGED db
       ELSE /\ db' = Merged(worker[w].image, worker[w].view)
            /\ worker' = [worker EXCEPT ![w] = [NoWork EXCEPT !.pc = "committed",
                                                              !.msg = worker[w].msg]]
            /\ lock' = None
            /\ Overtake(rows, Waiting \ {w})
  /\ UNCHANGED << api, messages, guardVars >>

\* The events are flushed and saved, the handler returns, the message is deleted.
finish(w) ==
  /\ worker[w].pc = "committed"
  /\ messages' = [messages EXCEPT ![worker[w].msg].state = "deleted"]
  /\ Idle(w)
  /\ UNCHANGED << db, api, dirty, guardVars >>

\* The worker dies or times out, the database fails it, or the save after the commit does:
\* its transaction is rolled back, its message is not deleted.
workerFails(w) ==
  /\ worker[w].pc # "idle"
  /\ Idle(w)
  /\ dirty' = [dirty EXCEPT ![w] = {}]
  /\ UNCHANGED << db, api, messages, guardVars >>

-----------------------------------------------------------------------------
(* The queue.                                                              *)

Held(m) == \E w \in Workers : worker[w].msg = m

\* Variant: one delivery too many.
visibilityTimeoutOnceMore(m) ==
  /\ messages[m].state = "inflight" /\ ~Held(m)
  /\ messages' = [messages EXCEPT ![m].state =
                    IF messages[m].receives <= MaxReceive THEN "visible" ELSE "dead"]
  /\ UNCHANGED << db, api, worker, dirty, lock, guardVars >>

\* visibility_timeout_seconds is over (180 s; a worker has 120 s): the message is delivered
\* again, or goes to the dead-letter queue.
visibilityTimeout(m) ==
  /\ messages[m].state = "inflight" /\ ~Held(m)
  /\ messages' = [messages EXCEPT ![m].state =
                    IF messages[m].receives < MaxReceive THEN "visible" ELSE "dead"]
  /\ UNCHANGED << db, api, worker, dirty, lock, guardVars >>

\* A standard queue may deliver a message twice.
duplicateDelivery(m) ==
  /\ messages[m].state = "inflight" /\ Held(m) /\ messages[m].receives < MaxReceive
  /\ messages' = [messages EXCEPT ![m].state = "visible"]
  /\ UNCHANGED << db, api, worker, dirty, lock, guardVars >>

-----------------------------------------------------------------------------
apiStep(q) ==
  \/ load(q)
  \/ \E k \in Keys \cup {NoKey, Forced} :
       analyzePhotos(q, k) \/ \E p \in Photos : analyzePhoto(q, p, k)
  \/ recoverFailedJobs(q)
  \/ sendMessage(q)
  \/ giveUp(q)

workerStep(w) ==
  \/ \E m \in Requests : receive(w, m)
  \/ startJobs(w) \/ startRefused(w)
  \/ \E j \in Jobs : worker[w].pc = "running" /\ (reserveUsage(w, j) \/ analyze(w, j))
  \/ commit(w) \/ finish(w)

Next ==
  \/ \E q \in Requests : apiStep(q)
  \/ finalizeReport
  \/ \E w \in Workers : workerStep(w) \/ workerFails(w)
  \/ \E m \in Requests : visibilityTimeout(m) \/ duplicateDelivery(m)

Spec == Init /\ [][Next]_vars

\* Workers run and the queue delivers; clients need not do anything.
FairSpec ==
  /\ Spec
  /\ \A w \in Workers : WF_vars(workerStep(w))
  /\ \A m \in Requests : WF_vars(visibilityTimeout(m))

-----------------------------------------------------------------------------
(* Properties.                                                             *)

\* Requests, workers and messages hold rows of the schema; a worker that runs holds the lock.
TypeOK ==
  /\ db \in Images
  /\ api \in [Requests -> [pc : {"idle", "loaded", "send", "done"}, view : Images]]
  /\ messages \in [Requests -> [state : {"none", "visible", "inflight", "deleted", "dead"},
                                jobs : SUBSET Jobs, receives : 0 .. MaxReceive]]
  /\ worker \in [Workers -> [pc : {"idle", "waiting", "running", "committed"},
                             msg : Requests \cup {None}, view : Images, image : Images,
                             reserved : SUBSET Jobs]]
  /\ dirty \in [Workers -> SUBSET (Photos \cup Jobs)]
  /\ lock \in Workers \cup {None}
  /\ \A w \in Workers : worker[w].pc = "running" <=> lock = w
  /\ reservations \subseteq Jobs \cup JobKey /\ usage \in Nat

Plain == { j \in Jobs : db.jobs[j].key # Forced }

\* docs/failure-modes.md: "Duplicate analysis: return existing completed analysis unless
\* forced."  The plain jobs of a photo store one completed analysis together, whatever is
\* delivered twice, requeued, or run by two workers at once.
PlainAnalysedOnce ==
  \A p \in Photos :
    LET js == { j \in Plain : PhotoOf(j) = p /\ db.analyses[j] > 0 } IN
      \A i, j \in js : i = j /\ db.analyses[j] = 1

\* A job the database calls completed has left its photo analyzed, by itself or by another
\* job of the photo: no rollback or overlapping save separates the two.
CompletedHasAnalysis ==
  \A j \in Jobs : db.jobs[j].status = "completed" =>
    \E i \in Jobs : PhotoOf(i) = PhotoOf(j) /\ db.analyses[i] > 0

\* docs/cost-model.md: "Each model operation is conditionally reserved ...; duplicate
\* idempotency keys do not consume another reservation."  Every stored analysis was reserved,
\* and redelivery, rollback and requeueing spend nothing on top of one reservation per key.
SpentOnce ==
  LET existing == { j \in Jobs : db.jobs[j].status # "none" } IN
  /\ Balanced
  /\ \A j \in Jobs : db.analyses[j] > 0 => ReservationKey(db, j) \in reservations
  /\ reservations \subseteq { ReservationKey(db, j) : j \in existing }

\* The queue forgets a message only when the outcome of all its jobs is committed.
DeletedWasRun ==
  \A m \in Requests : messages[m].state = "deleted" =>
    \A j \in messages[m].jobs : db.jobs[j].attempts > 0

\* What is committed stays, whoever saves rows he loaded before it was: a job under its key,
\* that it has run, and every stored analysis.  (Its status and attempts may go back.)
CommittedStays ==
  [][\A j \in Jobs :
       /\ db.jobs[j].status # "none" =>
            db'.jobs[j].status # "none" /\ db'.jobs[j].key = db.jobs[j].key
       /\ db.jobs[j].attempts > 0 => db'.jobs[j].attempts > 0
       /\ db.analyses[j] <= db'.analyses[j]]_vars

\* A message that was sent is worked off, or ends in the dead-letter queue where the alarm
\* sees it; no job holds the lock or the queue for ever.
MessagesSettle ==
  \A m \in Requests : messages[m].state = "visible" ~> messages[m].state \in {"deleted", "dead"}
=============================================================================
