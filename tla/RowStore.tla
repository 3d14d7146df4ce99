------------------------------ MODULE RowStore ------------------------------
(***************************************************************************)
(* The Postgres row store (apps/api/src/postgresPersistence.ts) and the    *)
(* middleware that drives it (runtime.ts, app.ts): every process keeps a   *)
(* copy of all rows, loads it before a request and saves the difference    *)
(* after it; the image worker does both in one transaction.                *)
(*                                                                         *)
(* A request is abstracted to its footprint: the rows its handler writes,  *)
(* the rows whose version it raises and the requests whose effects make    *)
(* its handler refuse.  The content of a row is the set of requests whose  *)
(* change it includes, which is what an update can lose.                   *)
(*                                                                         *)
(* With Shared = FALSE a process has one request at a time (Lambda); with  *)
(* Shared = TRUE requests of one process overlap at their awaits (Express, *)
(* docs/runbook.md).                                                       *)
(***************************************************************************)
EXTENDS Integers, FiniteSets, Sequences

CONSTANTS
  Requests,           \* bound: requests, each made once
  WorkerRequests,     \* those the image worker handles (mutatePostgresRows)
  Hosts, HostOf,      \* processes, and the one each request runs in
  Rows, Versioned,    \* versionedTables: inspections, vision_suggestions, final_reports
  LoadOrder,          \* the rows of each table, in the order of storeMapNames
  Initial,            \* rows that exist from the start
  Writes, Bumps,      \* per request: rows written, rows whose version is raised
  Excludes,           \* per request: requests whose effects its handler refuses
  AuditRow,           \* per request: the audit row it adds
  MaxAttempts,        \* maxAttempts of savePostgresRows
  Shared,             \* do requests overlap in one process?
  None

ASSUME RowStoreAssumption ==
  /\ WorkerRequests \subseteq Requests
  /\ IsFiniteSet(Requests)
  /\ HostOf \in [Requests -> Hosts]
  /\ Versioned \subseteq Initial /\ Initial \subseteq Rows
  /\ LoadOrder \in Seq(SUBSET Rows)
  /\ \A r \in Rows : \E t \in 1 .. Len(LoadOrder) : r \in LoadOrder[t]
  /\ Writes \in [Requests -> SUBSET Rows]
  /\ Bumps \in [Requests -> SUBSET Versioned]
  /\ \A q \in Requests : Bumps[q] \subseteq Writes[q]
  /\ Excludes \in [Requests -> SUBSET Requests]
  /\ AuditRow \in [Requests -> Rows \ Initial]
  /\ \A q, p \in Requests : AuditRow[q] \in Writes[p] <=> p = q
  /\ MaxAttempts \in Nat \ {0}
  /\ Shared \in BOOLEAN
  /\ None \notin Requests

RowValue == [version : Nat, effects : SUBSET Requests]
Absent   == [version |-> 0, effects |-> {}]
Fresh    == [version |-> 1, effects |-> {}]
Images   == [Rows -> RowValue]

\* "refused": the handler said no.  "rejected": 409 VERSION_CONFLICT.  "failed": the
\* database gave up.  "lost": the process died.
Ended  == {"acked", "refused", "rejected", "failed", "lost"}
Active == {"loading", "loaded", "handled", "waiting", "writing", "committed"}

VARIABLES
  db,         \* the committed rows
  mem,        \* MemoryStore of each process
  snap,       \* postgresSnapshots: the rows as they were last loaded or saved
  pc,         \* where each request is
  table,      \* next table its load reads
  view,       \* what its repeatable-read transaction sees
  attempt,    \* attempts of its save
  delta,      \* rows it has written and not yet committed
  lock        \* holder of the advisory lock

vars == << db, mem, snap, pc, table, view, attempt, delta, lock >>

Init ==
  /\ db = [r \in Rows |-> IF r \in Initial THEN Fresh ELSE Absent]
  /\ mem = [h \in Hosts |-> db]
  /\ snap = [h \in Hosts |-> db]
  /\ pc = [q \in Requests |-> "idle"]
  /\ table = [q \in Requests |-> 1]
  /\ view = [q \in Requests |-> db]
  /\ attempt = [q \in Requests |-> 1]
  /\ delta = [q \in Requests |-> db]
  /\ lock = None

-----------------------------------------------------------------------------
Mem(q)  == mem[HostOf[q]]
Snap(q) == snap[HostOf[q]]

\* Rows whose in-memory form differs from what was loaded: changed, added or gone.
Changed(q) == { r \in Rows : Mem(q)[r] # Snap(q)[r] }

\* A conditional update finds another version than the one loaded.
StaleVersion(q) ==
  \E r \in Changed(q) \cap Versioned :
    /\ Snap(q)[r] # Absent /\ Mem(q)[r] # Absent
    /\ view[q][r].version # Snap(q)[r].version

\* Repeatable read: a row to be written was changed since the transaction's snapshot.
Overtaken(q) == \E r \in Changed(q) : db[r] # view[q][r]

Overlay(image, rows, q) == [r \in Rows |-> IF r \in rows THEN Mem(q)[r] ELSE image[r]]

HostFree(q) == Shared \/ \A p \in Requests : HostOf[p] = HostOf[q] => pc[p] \notin Active

-----------------------------------------------------------------------------
(* beforeRequest: loadPostgresRows, one query per table, no transaction.   *)

loadStart(q) ==
  /\ pc[q] = "idle" /\ q \notin WorkerRequests /\ HostFree(q)
  /\ mem' = [mem EXCEPT ![HostOf[q]] = [r \in Rows |-> Absent]]
  /\ pc' = [pc EXCEPT ![q] = "loading"]
  /\ UNCHANGED << db, snap, table, view, attempt, delta, lock >>

loadTable(q) ==
  /\ pc[q] = "loading" /\ q \notin WorkerRequests /\ table[q] <= Len(LoadOrder)
  /\ mem' = [mem EXCEPT ![HostOf[q]] =
               [r \in Rows |-> IF r \in LoadOrder[table[q]] THEN db[r] ELSE Mem(q)[r]]]
  /\ table' = [table EXCEPT ![q] = table[q] + 1]
  /\ UNCHANGED << db, snap, pc, view, attempt, delta, lock >>

\* Variant: the snapshot is what the database holds by then.
loadEndFromDatabase(q) ==
  /\ pc[q] = "loading" /\ q \notin WorkerRequests /\ table[q] > Len(LoadOrder)
  /\ snap' = [snap EXCEPT ![HostOf[q]] = db]
  /\ pc' = [pc EXCEPT ![q] = "loaded"]
  /\ UNCHANGED << db, mem, table, view, attempt, delta, lock >>

\* rememberSnapshot takes whatever the store then holds.
loadEnd(q) ==
  /\ pc[q] = "loading" /\ q \notin WorkerRequests /\ table[q] > Len(LoadOrder)
  /\ snap' = [snap EXCEPT ![HostOf[q]] = Mem(q)]
  /\ pc' = [pc EXCEPT ![q] = "loaded"]
  /\ UNCHANGED << db, mem, table, view, attempt, delta, lock >>

-----------------------------------------------------------------------------
(* The handler, on the process's copy.                                     *)

\* It finds the rows it works on, and none of them says that it must not.
Admissible(q) ==
  /\ \A r \in Writes[q] \cap Initial : Mem(q)[r] # Absent
  /\ \A r \in Rows : Mem(q)[r].effects \cap Excludes[q] = {}

\* The rows of image once q's handler has run; Raised are those whose version it raises.
Handled(image, q, Raised) ==
  [r \in Rows |->
     IF r \in Writes[q]
       THEN [version |-> image[r].version + (IF r \in Raised \/ image[r] = Absent THEN 1 ELSE 0),
             effects |-> image[r].effects \cup {q}]
       ELSE image[r]]

\* Variant: no version is raised.
handleVersionsKept(q) ==
  /\ pc[q] = "loaded" /\ Admissible(q)
  /\ mem' = [mem EXCEPT ![HostOf[q]] = Handled(Mem(q), q, {})]
  /\ pc' = [pc EXCEPT ![q] = "handled"]
  /\ UNCHANGED << db, snap, table, view, attempt, delta, lock >>

handle(q) ==
  /\ pc[q] = "loaded" /\ Admissible(q)
  /\ mem' = [mem EXCEPT ![HostOf[q]] = Handled(Mem(q), q, Bumps[q])]
  /\ pc' = [pc EXCEPT ![q] = "handled"]
  /\ UNCHANGED << db, snap, table, view, attempt, delta, lock >>

\* 404 or 409; the worker's transaction is rolled back.
refuse(q) ==
  /\ pc[q] = "loaded" /\ ~Admissible(q)
  /\ pc' = [pc EXCEPT ![q] = "refused"]
  /\ lock' = IF lock = q THEN None ELSE lock
  /\ UNCHANGED << db, mem, snap, table, view, attempt, delta >>

-----------------------------------------------------------------------------
(* afterMutation: savePostgresRows.                                        *)

\* Variant: the audit row is written before the transaction.
saveBeginAuditFirst(q) ==
  /\ pc[q] = "handled" /\ q \notin WorkerRequests
  /\ db' = Overlay(db, {AuditRow[q]}, q)
  /\ view' = [view EXCEPT ![q] = db']
  /\ pc' = [pc EXCEPT ![q] = "waiting"]
  /\ UNCHANGED << mem, snap, table, attempt, delta, lock >>

\* begin, repeatable read, and the query for the advisory lock, which fixes what the
\* transaction sees before the lock is granted.
saveBegin(q) ==
  /\ pc[q] = "handled" /\ q \notin WorkerRequests
  /\ view' = [view EXCEPT ![q] = db]
  /\ pc' = [pc EXCEPT ![q] = "waiting"]
  /\ UNCHANGED << db, mem, snap, table, attempt, delta, lock >>

\* Variant: the update of a changed row is not conditional on its version.
saveWriteUnconditional(q) ==
  /\ pc[q] = "waiting" /\ lock = None /\ ~Overtaken(q)
  /\ delta' = [delta EXCEPT ![q] = Overlay(db, Changed(q), q)]
  /\ snap' = [snap EXCEPT ![HostOf[q]] = Mem(q)]
  /\ lock' = q
  /\ pc' = [pc EXCEPT ![q] = "writing"]
  /\ UNCHANGED << db, mem, table, view, attempt >>

\* The lock is granted: writeChangedPostgresRowsFromStore, after which the process's copy
\* counts as saved.
saveWrite(q) ==
  /\ pc[q] = "waiting" /\ lock = None /\ ~StaleVersion(q) /\ ~Overtaken(q)
  /\ delta' = [delta EXCEPT ![q] = Overlay(db, Changed(q), q)]
  /\ snap' = [snap EXCEPT ![HostOf[q]] = Mem(q)]
  /\ lock' = q
  /\ pc' = [pc EXCEPT ![q] = "writing"]
  /\ UNCHANGED << db, mem, table, view, attempt >>

saveRejected(q) ==
  /\ pc[q] = "waiting" /\ lock = None /\ StaleVersion(q)
  /\ pc' = [pc EXCEPT ![q] = "rejected"]
  /\ UNCHANGED << db, mem, snap, table, view, attempt, delta, lock >>

\* Variant: one attempt too many.
saveRetryOnceMore(q) ==
  /\ pc[q] = "waiting" /\ lock = None /\ Overtaken(q)
  /\ IF attempt[q] <= MaxAttempts
       THEN /\ attempt' = [attempt EXCEPT ![q] = attempt[q] + 1]
            /\ pc' = [pc EXCEPT ![q] = "handled"]
       ELSE pc' = [pc EXCEPT ![q] = "failed"] /\ UNCHANGED attempt
  /\ UNCHANGED << db, mem, snap, table, view, delta, lock >>

\* A serialization failure: the same rows again, in a new transaction.
saveRetry(q) ==
  /\ pc[q] = "waiting" /\ lock = None /\ Overtaken(q)
  /\ IF attempt[q] < MaxAttempts
       THEN /\ attempt' = [attempt EXCEPT ![q] = attempt[q] + 1]
            /\ pc' = [pc EXCEPT ![q] = "handled"]
       ELSE pc' = [pc EXCEPT ![q] = "failed"] /\ UNCHANGED attempt
  /\ UNCHANGED << db, mem, snap, table, view, delta, lock >>

\* The written rows become visible.
saveCommit(q) ==
  /\ pc[q] = "writing"
  /\ db' = delta[q]
  /\ lock' = None
  /\ pc' = [pc EXCEPT ![q] = "committed"]
  /\ UNCHANGED << mem, snap, table, view, attempt, delta >>

\* The delivered outbox events are saved the same way (not modelled here), then the
\* request is answered.
answer(q) ==
  /\ pc[q] = "committed"
  /\ pc' = [pc EXCEPT ![q] = "acked"]
  /\ UNCHANGED << db, mem, snap, table, view, attempt, delta, lock >>

-----------------------------------------------------------------------------
(* The image worker: mutatePostgresRows.                                   *)

workerBegin(q) ==
  /\ pc[q] = "idle" /\ q \in WorkerRequests /\ HostFree(q)
  /\ view' = [view EXCEPT ![q] = db]
  /\ pc' = [pc EXCEPT ![q] = "loading"]
  /\ UNCHANGED << db, mem, snap, table, attempt, delta, lock >>

\* The lock is granted, and the rows are loaded as the transaction sees them.
workerLoad(q) ==
  /\ pc[q] = "loading" /\ q \in WorkerRequests /\ lock = None
  /\ lock' = q
  /\ mem' = [mem EXCEPT ![HostOf[q]] = view[q]]
  /\ snap' = [snap EXCEPT ![HostOf[q]] = view[q]]
  /\ pc' = [pc EXCEPT ![q] = "loaded"]
  /\ UNCHANGED << db, table, view, attempt, delta >>

\* Variant: a failed transaction is not rolled back.
workerCommitLockKept(q) ==
  /\ pc[q] = "handled" /\ q \in WorkerRequests
  /\ IF Overtaken(q)
       THEN pc' = [pc EXCEPT ![q] = "failed"] /\ UNCHANGED << db, snap, lock >>
       ELSE /\ db' = Overlay(db, Changed(q), q)
            /\ snap' = [snap EXCEPT ![HostOf[q]] = Mem(q)]
            /\ pc' = [pc EXCEPT ![q] = "committed"]
            /\ lock' = None
  /\ UNCHANGED << mem, table, view, attempt, delta >>

\* A serialization failure is not retried here; the queue delivers the message again.
workerCommit(q) ==
  /\ pc[q] = "handled" /\ q \in WorkerRequests
  /\ IF Overtaken(q)
       THEN pc' = [pc EXCEPT ![q] = "failed"] /\ UNCHANGED << db, snap >>
       ELSE /\ db' = Overlay(db, Changed(q), q)
            /\ snap' = [snap EXCEPT ![HostOf[q]] = Mem(q)]
            /\ pc' = [pc EXCEPT ![q] = "committed"]
  /\ lock' = None
  /\ UNCHANGED << mem, table, view, attempt, delta >>

\* A Lambda instance dies: its transaction is rolled back, its request gets no answer.
crash(q) ==
  /\ ~Shared
  /\ pc[q] \in Active
  /\ pc' = [pc EXCEPT ![q] = "lost"]
  /\ lock' = IF lock = q THEN None ELSE lock
  /\ UNCHANGED << db, mem, snap, table, view, attempt, delta >>

step(q) ==
  \/ loadTable(q) \/ loadEnd(q)
  \/ handle(q) \/ refuse(q)
  \/ saveBegin(q) \/ saveWrite(q) \/ saveRejected(q) \/ saveRetry(q) \/ saveCommit(q)
  \/ workerLoad(q) \/ workerCommit(q)
  \/ answer(q)

Next == \E q \in Requests : loadStart(q) \/ workerBegin(q) \/ step(q) \/ crash(q)

Spec == Init /\ [][Next]_vars

\* A request that has begun goes on: its process runs and the database answers.
FairSpec == Spec /\ \A q \in Requests : WF_vars(step(q))

-----------------------------------------------------------------------------
(* Properties.                                                             *)

\* Every process's copy, snapshot and transaction hold whole rows of the schema.
TypeOK ==
  /\ db \in Images
  /\ mem \in [Hosts -> Images] /\ snap \in [Hosts -> Images]
  /\ pc \in [Requests -> {"idle"} \cup Active \cup Ended]
  /\ table \in [Requests -> 1 .. Len(LoadOrder) + 1]
  /\ view \in [Requests -> Images] /\ delta \in [Requests -> Images]
  /\ attempt \in [Requests -> 1 .. MaxAttempts]
  /\ lock \in Requests \cup {None}

\* The change of q is in the database.
Committed(q) == q \in db[AuditRow[q]].effects

\* A committed update that raised the version of a row is never overwritten, whatever other
\* processes had loaded before it ("conditional versions reject stale writes",
\* docs/aws-deployment-plan.md).
VersionedUpdatesKept ==
  \A q \in Requests : Committed(q) => \A r \in Bumps[q] : q \in db[r].effects

\* The same of every row the request wrote, raised or not.
UpdatesKept ==
  \A q \in Requests : Committed(q) => \A r \in Writes[q] : q \in db[r].effects

\* A version number stands for one state of the row's versioned updates: no two requests
\* get the same one.
VersionsCountUpdates ==
  \A r \in Versioned :
    db[r].version = 1 + Cardinality({ q \in Requests : r \in Bumps[q] /\ q \in db[r].effects })

\* docs/production-readiness.md: "business/audit/outbox co-commit".  No row shows a change
\* whose audit row is missing, an acknowledged request has its audit row, and one that was
\* told no has left nothing.
CoCommitted ==
  \A q \in Requests :
    /\ pc[q] = "acked" => Committed(q)
    /\ \A r \in Rows : q \in db[r].effects =>
         Committed(q) /\ pc[q] \notin {"refused", "rejected", "failed"}

\* A change that must be refused after another is not committed after it, whatever the
\* handler had loaded (a decided suggestion stays decided; nothing is added to a finalized
\* inspection).
ExclusionsHold ==
  [][\A q \in Requests : \A p \in Excludes[q] :
       Committed(p) /\ ~Committed(q) => ~Committed(q)']_vars

\* Rows that exist stay: no request of these deletes any.
RowsSurvive == [][\A r \in Rows : db[r] # Absent => db'[r] # Absent]_vars

\* Every request gets its answer, and the advisory lock is not kept.
RequestsEnd ==
  /\ \A q \in Requests : pc[q] \in Active ~> pc[q] \in Ended
  /\ []<>(lock = None)
=============================================================================
