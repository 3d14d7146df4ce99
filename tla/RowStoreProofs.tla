--------------------------- MODULE RowStoreProofs ---------------------------
(***************************************************************************)
(* Proofs about RowStore, for every set of requests, rows and processes:   *)
(* what the database keeps when every process has one request at a time.   *)
(***************************************************************************)
EXTENDS RowStore, FiniteSetTheorems, TLAPS

-----------------------------------------------------------------------------
(* Type correctness.                                                       *)

\* The rows of a row store are rows of the schema, and so are they once a handler has run.
LEMMA HandledType ==
  ASSUME NEW m \in Images, NEW q \in Requests, NEW R
  PROVE  Handled(m, q, R) \in Images
<1> SUFFICES ASSUME NEW r \in Rows
             PROVE  Handled(m, q, R)[r] \in RowValue
  BY DEF Handled, Images
<1>1. m[r] \in RowValue
  BY DEF Images
<1>2. m[r].version \in Nat /\ m[r].effects \subseteq Requests
  BY <1>1 DEF RowValue
<1>3. m[r].version + (IF r \in R \/ m[r] = Absent THEN 1 ELSE 0) \in Nat
  BY <1>2
<1>4. m[r].effects \cup {q} \in SUBSET Requests
  BY <1>2
<1> QED
  BY <1>1, <1>3, <1>4 DEF Handled, RowValue

\* Rows of one image laid over another.
LEMMA OverlayType ==
  ASSUME TypeOK, NEW d \in Images, NEW C, NEW q \in Requests
  PROVE  Overlay(d, C, q) \in Images
<1>1. HostOf[q] \in Hosts
  BY RowStoreAssumption DEF RowStoreAssumption
<1>2. Mem(q) \in Images
  BY <1>1 DEF TypeOK, Mem
<1> QED
  BY <1>2 DEF Overlay, Images

\* The initial rows.
LEMMA InitType == Init => TypeOK
<1> SUFFICES ASSUME Init
             PROVE  TypeOK
  OBVIOUS
<1>1. Absent \in RowValue /\ Fresh \in RowValue
  BY DEF Absent, Fresh, RowValue
<1>2. db \in Images
  BY <1>1 DEF Init, Images
<1>3. LoadOrder \in Seq(SUBSET Rows) /\ MaxAttempts \in Nat \ {0}
  BY RowStoreAssumption DEF RowStoreAssumption
<1>4. Len(LoadOrder) \in Nat
  BY <1>3
<1>5. 1 \in 1 .. Len(LoadOrder) + 1 /\ 1 \in 1 .. MaxAttempts
  BY <1>3, <1>4
<1> QED
  BY <1>2, <1>5 DEF Init, TypeOK, Active

\* One step per action.
LEMMA TypeStep == TypeOK /\ [Next]_vars => TypeOK'
<1> SUFFICES ASSUME TypeOK, [Next]_vars
             PROVE  TypeOK'
  OBVIOUS
<1>0. Absent \in RowValue
  BY DEF Absent, RowValue
<1>a. HostOf \in [Requests -> Hosts]
  BY RowStoreAssumption DEF RowStoreAssumption
<1>l. LoadOrder \in Seq(SUBSET Rows) /\ Len(LoadOrder) \in Nat
  BY RowStoreAssumption DEF RowStoreAssumption
<1>m. \A q \in Requests : Mem(q) \in Images
  BY <1>a DEF TypeOK, Mem
<1> USE DEF TypeOK, Active, Ended
<1>1. ASSUME NEW q \in Requests, loadStart(q)
      PROVE  TypeOK'
  <2>1. [r \in Rows |-> Absent] \in Images
    BY <1>0 DEF Images
  <2> QED
    BY <1>1, <2>1 DEF loadStart
<1>2. ASSUME NEW q \in Requests, loadTable(q)
      PROVE  TypeOK'
  <2>1. [r \in Rows |-> IF r \in LoadOrder[table[q]] THEN db[r] ELSE Mem(q)[r]] \in Images
    BY <1>m DEF Images
  <2>2. table[q] + 1 \in 1 .. Len(LoadOrder) + 1
    BY <1>2, <1>l DEF loadTable
  <2> QED
    BY <1>2, <2>1, <2>2 DEF loadTable
<1>3. ASSUME NEW q \in Requests, loadEnd(q)
      PROVE  TypeOK'
  BY <1>3, <1>m DEF loadEnd
<1>4. ASSUME NEW q \in Requests, handle(q)
      PROVE  TypeOK'
  <2>1. Handled(Mem(q), q, Bumps[q]) \in Images
    BY <1>m, HandledType
  <2> QED
    BY <1>4, <2>1 DEF handle
<1>5. ASSUME NEW q \in Requests, refuse(q)
      PROVE  TypeOK'
  BY <1>5 DEF refuse
<1>6. ASSUME NEW q \in Requests, saveBegin(q)
      PROVE  TypeOK'
  BY <1>6 DEF saveBegin
<1>7. ASSUME NEW q \in Requests, saveWrite(q)
      PROVE  TypeOK'
  <2>1. Overlay(db, Changed(q), q) \in Images
    BY OverlayType
  <2> QED
    BY <1>7, <1>m, <2>1 DEF saveWrite
<1>8. ASSUME NEW q \in Requests, saveRejected(q)
      PROVE  TypeOK'
  BY <1>8 DEF saveRejected
<1>9. ASSUME NEW q \in Requests, saveRetry(q)
      PROVE  TypeOK'
  <2>1. MaxAttempts \in Nat
    BY RowStoreAssumption DEF RowStoreAssumption
  <2>2. CASE attempt[q] < MaxAttempts
    <3>1. attempt[q] + 1 \in 1 .. MaxAttempts
      BY <2>1, <2>2
    <3> QED
      BY <1>9, <2>2, <3>1 DEF saveRetry
  <2>3. CASE ~(attempt[q] < MaxAttempts)
    BY <1>9, <2>3 DEF saveRetry
  <2> QED
    BY <2>2, <2>3
<1>10. ASSUME NEW q \in Requests, saveCommit(q)
       PROVE  TypeOK'
  BY <1>10 DEF saveCommit
<1>11. ASSUME NEW q \in Requests, answer(q)
       PROVE  TypeOK'
  BY <1>11 DEF answer
<1>12. ASSUME NEW q \in Requests, workerBegin(q)
       PROVE  TypeOK'
  BY <1>12 DEF workerBegin
<1>13. ASSUME NEW q \in Requests, workerLoad(q)
       PROVE  TypeOK'
  BY <1>13 DEF workerLoad
<1>14. ASSUME NEW q \in Requests, workerCommit(q)
       PROVE  TypeOK'
  <2>1. Overlay(db, Changed(q), q) \in Images
    BY OverlayType
  <2>2. CASE Overtaken(q)
    BY <1>14, <2>2 DEF workerCommit
  <2>3. CASE ~Overtaken(q)
    BY <1>14, <2>1, <2>3, <1>m DEF workerCommit
  <2> QED
    BY <2>2, <2>3
<1>15. ASSUME NEW q \in Requests, crash(q)
       PROVE  TypeOK'
  BY <1>15 DEF crash
<1>16. CASE UNCHANGED vars
  BY <1>16 DEF vars
<1> QED
  BY <1>1, <1>2, <1>3, <1>4, <1>5, <1>6, <1>7, <1>8, <1>9, <1>10, <1>11, <1>12, <1>13,
     <1>14, <1>15, <1>16 DEF Next, step

\* Every process's copy and every transaction hold whole rows of the schema.
THEOREM RowTypes == Spec => []TypeOK
  BY InitType, TypeStep, PTL DEF Spec

-----------------------------------------------------------------------------
(* What a loaded row says about the database.  The database is a parameter *)
(* here, so that it can be the one before or after a commit.               *)

CommittedIn(d, q) == q \in d[AuditRow[q]].effects

\* v is a form row r has had in d: it shows committed changes only, and while its version is
\* the current one it shows every change that raised it.
Older(v, d, r) ==
  /\ \A p \in v.effects : CommittedIn(d, p)
  /\ r \in Initial => v # Absent
  /\ v # Absent => d[r] # Absent
  /\ r \in Versioned =>
       /\ v.version <= d[r].version
       /\ v.version = d[r].version =>
            \A p \in Requests : r \in Bumps[p] => (p \in v.effects <=> p \in d[r].effects)

\* Committed changes that raised a version are there.
KeptIn(d) == \A p \in Requests : CommittedIn(d, p) => \A r \in Bumps[p] : p \in d[r].effects

\* What q's save leaves of d, if q had loaded s.
After(d, s, q) ==
  [r \in Rows |-> IF r \in Writes[q] THEN Handled(s, q, Bumps[q])[r] ELSE d[r]]

\* The assumptions on footprints, as the proofs use them.
LEMMA Footprints ==
  /\ \A q \in Requests : AuditRow[q] \in Rows \ Initial /\ AuditRow[q] \in Writes[q]
  /\ \A q, p \in Requests : AuditRow[q] \in Writes[p] => p = q
  /\ \A q \in Requests : Writes[q] \subseteq Rows /\ Bumps[q] \subseteq Writes[q]
  /\ \A q \in Requests : Bumps[q] \subseteq Versioned
  /\ Versioned \subseteq Initial /\ Initial \subseteq Rows
  /\ \A q \in Requests : HostOf[q] \in Hosts
  /\ None \notin Requests
  BY RowStoreAssumption DEF RowStoreAssumption

\* The save of q on top of d: q becomes committed and nobody else, what was a form of a row
\* stays one, the rows exist, and the changes that raised a version are kept.
LEMMA CommitImage ==
  ASSUME NEW d \in Images, NEW s \in Images, NEW q \in Requests,
         \A r \in Rows : Older(d[r], d, r),
         \A r \in Rows : Older(s[r], d, r),
         KeptIn(d),
         ~CommittedIn(d, q),
         \A r \in Writes[q] \cap Versioned : s[r].version = d[r].version
  PROVE  /\ \A p \in Requests : CommittedIn(After(d, s, q), p) <=> CommittedIn(d, p) \/ p = q
         /\ \A r \in Rows : d[r] # Absent => After(d, s, q)[r] # Absent
         /\ \A r \in Rows : \A v \in RowValue : Older(v, d, r) => Older(v, After(d, s, q), r)
         /\ \A r \in Rows : Older(After(d, s, q)[r], After(d, s, q), r)
         /\ KeptIn(After(d, s, q))
         /\ \A r \in Versioned :
              /\ After(d, s, q)[r].version = d[r].version + (IF r \in Bumps[q] THEN 1 ELSE 0)
              /\ \A p \in Requests : r \in Bumps[p] =>
                   (p \in After(d, s, q)[r].effects <=> p \in d[r].effects \/ p = q)
<1> DEFINE e == After(d, s, q)
<1>w. \A r \in Writes[q] : /\ r \in Rows
                           /\ e[r].effects = s[r].effects \cup {q}
                           /\ e[r].version = s[r].version
                                + (IF r \in Bumps[q] \/ s[r] = Absent THEN 1 ELSE 0)
  BY Footprints DEF After, Handled
<1>n. \A r \in Rows : r \notin Writes[q] => e[r] = d[r]
  BY DEF After
<1>t. \A r \in Rows : /\ d[r].version \in Nat /\ d[r].effects \subseteq Requests
                      /\ s[r].version \in Nat /\ s[r].effects \subseteq Requests
  BY DEF Images, RowValue
<1>p. \A r \in Writes[q] : e[r] # Absent
  BY <1>w DEF Absent
<1>1. \A p \in Requests : CommittedIn(e, p) <=> CommittedIn(d, p) \/ p = q
  <2> TAKE p \in Requests
  <2>1. CASE p = q
    BY <2>1, <1>w, Footprints DEF CommittedIn
  <2>2. CASE p # q
    <3>1. AuditRow[p] \in Rows /\ AuditRow[p] \notin Writes[q]
      BY <2>2, Footprints
    <3> QED
      BY <2>2, <3>1, <1>n DEF CommittedIn
  <2> QED
    BY <2>1, <2>2
<1>2. \A r \in Rows : d[r] # Absent => e[r] # Absent
  BY <1>n, <1>p
\* The version of a row that q writes, before and after.
<1>v. ASSUME NEW r \in Writes[q], r \in Versioned
      PROVE  /\ e[r].version \in Nat /\ d[r].version \in Nat
             /\ r \in Bumps[q] => e[r].version = d[r].version + 1
             /\ r \notin Bumps[q] => e[r].version = d[r].version
             /\ \A p \in Requests : p # q /\ r \in Bumps[p] =>
                  (p \in e[r].effects <=> p \in d[r].effects)
  <2>1. r \in Rows /\ s[r].version = d[r].version /\ s[r] # Absent
    BY <1>v, Footprints DEF Older
  <2>2. \A p \in Requests : r \in Bumps[p] => (p \in s[r].effects <=> p \in d[r].effects)
    BY <2>1, <1>v DEF Older
  <2> QED
    BY <2>1, <2>2, <1>w, <1>t
<1>3. ASSUME NEW r \in Rows, NEW v \in RowValue, Older(v, d, r)
      PROVE  Older(v, e, r)
  <2>1. \A p \in v.effects : CommittedIn(e, p)
    BY <1>1, <1>3 DEF Older, RowValue
  <2>2. v.version \in Nat
    BY DEF RowValue
  <2>3. CASE r \in Writes[q] /\ r \in Versioned
    <3>1. v.version <= d[r].version /\ d[r].version <= e[r].version
      BY <2>2, <2>3, <1>3, <1>v DEF Older
    <3>2. v.version <= e[r].version
      BY <2>2, <2>3, <3>1, <1>v
    <3>3. ASSUME v.version = e[r].version, NEW p \in Requests, r \in Bumps[p]
          PROVE  p \in v.effects <=> p \in e[r].effects
      <4>1. r \notin Bumps[q] /\ v.version = d[r].version
        BY <2>2, <2>3, <3>1, <3>3, <1>v
      <4>2. p # q
        BY <4>1, <3>3
      <4> QED
        BY <4>1, <4>2, <3>3, <2>3, <1>3, <1>v DEF Older
    <3> QED
      BY <2>1, <3>2, <3>3, <1>2, <1>3 DEF Older
  <2>4. CASE ~(r \in Writes[q] /\ r \in Versioned)
    <3>1. r \in Versioned => e[r] = d[r]
      BY <2>4, <1>n
    <3> QED
      BY <2>1, <3>1, <1>2, <1>3 DEF Older
  <2> QED
    BY <2>3, <2>4
<1>4. ASSUME NEW r \in Rows
      PROVE  Older(e[r], e, r)
  <2>1. \A p \in e[r].effects : CommittedIn(e, p)
    <3>1. CASE r \in Writes[q]
      BY <3>1, <1>w, <1>t, <1>1 DEF Older
    <3>2. CASE r \notin Writes[q]
      BY <3>2, <1>n, <1>t, <1>1 DEF Older
    <3> QED
      BY <3>1, <3>2
  <2>2. r \in Initial => e[r] # Absent
    BY <1>2 DEF Older
  <2>3. e[r].version \in Nat
    BY <1>w, <1>n, <1>t
  <2> QED
    BY <2>1, <2>2, <2>3 DEF Older
<1>5. KeptIn(e)
  <2> SUFFICES ASSUME NEW p \in Requests, CommittedIn(e, p), NEW r \in Bumps[p]
               PROVE  p \in e[r].effects
    BY DEF KeptIn
  <2>0. r \in Rows /\ r \in Versioned
    BY Footprints
  <2>1. CASE p = q
    BY <2>1, <1>w, Footprints
  <2>2. CASE p # q
    <3>1. p \in d[r].effects
      BY <2>2, <1>1 DEF KeptIn
    <3>2. CASE r \in Writes[q]
      BY <2>0, <2>2, <3>1, <3>2, <1>v
    <3>3. CASE r \notin Writes[q]
      BY <2>0, <3>1, <3>3, <1>n
    <3> QED
      BY <3>2, <3>3
  <2> QED
    BY <2>1, <2>2
<1>6. ASSUME NEW r \in Versioned
      PROVE  /\ e[r].version = d[r].version + (IF r \in Bumps[q] THEN 1 ELSE 0)
             /\ \A p \in Requests : r \in Bumps[p] =>
                  (p \in e[r].effects <=> p \in d[r].effects \/ p = q)
  <2>1. CASE r \in Writes[q]
    BY <2>1, <1>v, <1>w
  <2>2. CASE r \notin Writes[q]
    BY <2>2, <1>n, <1>t, Footprints
  <2> QED
    BY <2>1, <2>2
<1> QED
  BY <1>1, <1>2, <1>3, <1>4, <1>5, <1>6

-----------------------------------------------------------------------------
(* The inductive invariant, for processes with one request at a time.      *)

\* Requests of one process do not overlap.
Alone ==
  \A q, p \in Requests :
    q # p /\ HostOf[q] = HostOf[p] => ~(pc[q] \in Active /\ pc[p] \in Active)

\* The database shows committed changes only, and every one that raised a version.
RowsInv == (\A r \in Rows : Older(db[r], db, r)) /\ KeptIn(db)

\* Who is committed.
CommittedInv ==
  \A q \in Requests :
    /\ pc[q] \in {"committed", "acked"} => CommittedIn(db, q)
    /\ CommittedIn(db, q) => pc[q] \in {"committed", "acked", "lost"}

\* Where a request has a snapshot it will save against.
Saving == {"handled", "waiting"}

\* What q changes, it may change in s, and in the database as well.
Fits(q, s) ==
  /\ \A r \in Rows : s[r].effects \cap Excludes[q] = {} /\ Older(s[r], db, r)
  /\ \A r \in Writes[q] \cap Versioned : s[r].version = db[r].version

\* What a request has loaded are forms of the rows; what it has in memory is that, changed by
\* its handler; the worker and a save in progress hold the lock.  What a save has written is its
\* handler's change of some image that fits the database, the process's snapshot by then being
\* what it hopes to have saved.
CopyInv(q) ==
  /\ pc[q] = "idle" => table[q] = 1
  /\ pc[q] = "loading" /\ q \notin WorkerRequests =>
       \A t \in 1 .. Len(LoadOrder) : t < table[q] =>
         \A r \in LoadOrder[t] : Older(Mem(q)[r], db, r)
  /\ pc[q] = "loading" /\ q \in WorkerRequests => \A r \in Rows : Older(view[q][r], db, r)
  /\ pc[q] \in Saving \cup {"loaded"} => \A r \in Rows : Older(Snap(q)[r], db, r)
  /\ pc[q] = "loaded" => Mem(q) = Snap(q)
  /\ pc[q] \in Saving => /\ Mem(q) = Handled(Snap(q), q, Bumps[q])
                         /\ \A r \in Rows : Snap(q)[r].effects \cap Excludes[q] = {}
  /\ q \in WorkerRequests =>
       /\ pc[q] \notin {"waiting", "writing"}
       /\ pc[q] \in {"loaded", "handled"} => lock = q /\ Snap(q) = view[q]
  /\ pc[q] = "writing" => /\ lock = q
                          /\ \E s \in Images : Fits(q, s) /\ delta[q] = After(db, s, q)

IInv == TypeOK /\ Alone /\ RowsInv /\ CommittedInv /\ \A q \in Requests : CopyInv(q)

LEMMA InitIInv == Init => IInv
<1> SUFFICES ASSUME Init
             PROVE  IInv
  OBVIOUS
<1>1. TypeOK
  BY InitType
<1>2. \A r \in Rows : db[r] = IF r \in Initial THEN Fresh ELSE Absent
  BY DEF Init
<1>3. \A r \in Rows : db[r].effects = {} /\ db[r].version \in Nat
  BY <1>2 DEF Fresh, Absent
<1>4. \A q \in Requests : ~CommittedIn(db, q)
  BY <1>3, Footprints DEF CommittedIn
<1>5. Fresh # Absent
  BY DEF Fresh, Absent
<1>6. RowsInv
  <2>1. \A r \in Rows : Older(db[r], db, r)
    BY <1>2, <1>3, <1>5 DEF Older
  <2> QED
    BY <2>1, <1>4 DEF RowsInv, KeptIn
<1>7. \A q \in Requests : pc[q] = "idle"
  BY DEF Init
<1>8. Alone /\ CommittedInv
  BY <1>4, <1>7 DEF Alone, CommittedInv, Active
<1>9. \A q \in Requests : CopyInv(q)
  BY <1>7 DEF Init, CopyInv, Saving
<1> QED
  BY <1>1, <1>6, <1>8, <1>9 DEF IInv

\* A process's requests take turns.
LEMMA AloneStep ==
  ASSUME ~Shared, TypeOK, Alone, [Next]_vars
  PROVE  Alone'
<1>1. ASSUME NEW q \in Requests, loadStart(q) \/ workerBegin(q)
      PROVE  Alone'
  <2>1. /\ \A p \in Requests : HostOf[p] = HostOf[q] => pc[p] \notin Active
        /\ \A p \in Requests : p # q => pc'[p] = pc[p]
    BY <1>1 DEF loadStart, workerBegin, HostFree, TypeOK
  <2> QED
    BY <2>1 DEF Alone
<1>2. ASSUME NEW q \in Requests, step(q) \/ crash(q)
      PROVE  Alone'
  <2>1. pc[q] \in Active /\ \A p \in Requests : p # q => pc'[p] = pc[p]
    BY <1>2 DEF step, crash, loadTable, loadEnd, handle, refuse, saveBegin, saveWrite,
                saveRejected, saveRetry, saveCommit, answer, workerLoad, workerCommit,
                Active, TypeOK
  <2> QED
    BY <2>1 DEF Alone
<1>3. CASE UNCHANGED vars
  BY <1>3 DEF vars, Alone
<1> QED
  BY <1>1, <1>2, <1>3 DEF Next

\* A request that does not take the step keeps what it has loaded: its process is its own, the
\* lock is not taken from it, and a commit leaves forms of rows what they were.
LEMMA CopyFrame ==
  ASSUME TypeOK, NEW p \in Requests, CopyInv(p),
         pc'[p] = pc[p], table'[p] = table[p], view'[p] = view[p], delta'[p] = delta[p],
         pc[p] \in Active => /\ mem'[HostOf[p]] = mem[HostOf[p]]
                             /\ snap'[HostOf[p]] = snap[HostOf[p]],
         lock = p => lock' = p,
         \/ db' = db
         \/ /\ pc[p] # "writing"
            /\ \A r \in Rows : \A v \in RowValue : Older(v, db, r) => Older(v, db', r)
  PROVE  CopyInv(p)'
<1>h. HostOf[p] \in Hosts
  BY Footprints
<1>1. \A r \in Rows : \A v \in RowValue : Older(v, db, r) => Older(v, db', r)
  OBVIOUS
<1>2. CASE pc[p] \notin Active
  BY <1>2 DEF CopyInv, Active, Saving
<1>3. CASE pc[p] \in Active
  <2>1. mem'[HostOf[p]] = mem[HostOf[p]] /\ snap'[HostOf[p]] = snap[HostOf[p]]
    BY <1>3
  <2>2. \A r \in Rows : Mem(p)[r] \in RowValue /\ Snap(p)[r] \in RowValue /\ view[p][r] \in RowValue
    BY <1>h DEF TypeOK, Images, Mem, Snap
  <2>l. \A t \in 1 .. Len(LoadOrder) : LoadOrder[t] \subseteq Rows
    BY RowStoreAssumption DEF RowStoreAssumption
  <2>3. Mem(p)' = Mem(p) /\ Snap(p)' = Snap(p)
    BY <2>1 DEF Mem, Snap
  <2>5. pc[p] = "writing" =>
          /\ lock' = p
          /\ \E s \in Images : Fits(p, s)' /\ delta'[p] = After(db', s, p)
    BY DEF CopyInv, Fits
  <2>6. pc[p] = "loading" /\ p \notin WorkerRequests =>
          \A t \in 1 .. Len(LoadOrder) : t < table'[p] =>
            \A r \in LoadOrder[t] : Older(Mem(p)'[r], db', r)
    BY <1>1, <2>2, <2>3, <2>l DEF CopyInv
  <2>7. pc[p] = "loading" /\ p \in WorkerRequests => \A r \in Rows : Older(view'[p][r], db', r)
    BY <1>1, <2>2 DEF CopyInv
  <2>8. pc[p] \in Saving \cup {"loaded"} => \A r \in Rows : Older(Snap(p)'[r], db', r)
    BY <1>1, <2>2, <2>3 DEF CopyInv
  <2>9. /\ pc[p] = "loaded" => Mem(p)' = Snap(p)'
        /\ pc[p] \in Saving => /\ Mem(p)' = Handled(Snap(p)', p, Bumps[p])
                               /\ \A r \in Rows : Snap(p)'[r].effects \cap Excludes[p] = {}
    BY <2>3 DEF CopyInv
  <2>10. p \in WorkerRequests =>
           /\ pc[p] \notin {"waiting", "writing"}
           /\ pc[p] \in {"loaded", "handled"} => lock' = p /\ Snap(p)' = view'[p]
    BY <2>3 DEF CopyInv
  <2> QED
    BY <2>5, <2>6, <2>7, <2>8, <2>9, <2>10 DEF CopyInv
<1> QED
  BY <1>2, <1>3

\* A step of q leaves alone what other requests have of their own.
LEMMA Elsewhere ==
  ASSUME ~Shared, IInv, NEW q \in Requests, NEW p \in Requests, p # q,
         loadStart(q) \/ workerBegin(q) \/ step(q) \/ crash(q)
  PROVE  /\ pc'[p] = pc[p] /\ table'[p] = table[p] /\ view'[p] = view[p] /\ delta'[p] = delta[p]
         /\ pc[p] \in Active => /\ mem'[HostOf[p]] = mem[HostOf[p]]
                                /\ snap'[HostOf[p]] = snap[HostOf[p]]
         /\ lock = p => lock' = p
<1> USE DEF IInv, TypeOK
<1>h. HostOf[p] \in Hosts /\ HostOf[q] \in Hosts
  BY Footprints
<1>1. CASE loadStart(q) \/ workerBegin(q)
  <2>1. HostOf[p] = HostOf[q] => pc[p] \notin Active
    BY <1>1 DEF loadStart, workerBegin, HostFree
  <2> QED
    BY <1>1, <1>h, <2>1 DEF loadStart, workerBegin
<1>2. ASSUME pc[q] \in Active, pc[p] \in Active
      PROVE  HostOf[p] # HostOf[q]
  BY <1>2 DEF Alone
<1>3. CASE loadTable(q) \/ loadEnd(q)
  BY <1>2, <1>3, <1>h DEF loadTable, loadEnd, Active
<1>4. CASE handle(q) \/ refuse(q)
  BY <1>2, <1>4, <1>h DEF handle, refuse, Active
<1>5. CASE saveBegin(q) \/ saveRejected(q) \/ answer(q) \/ crash(q)
  BY <1>5 DEF saveBegin, saveRejected, answer, crash
<1>6. CASE saveWrite(q) \/ saveRetry(q)
  <2>1. lock = None /\ lock # p /\ pc[q] \in Active
    BY <1>6, Footprints DEF saveWrite, saveRetry, Active
  <2> QED
    BY <1>2, <1>6, <1>h, <2>1 DEF saveWrite, saveRetry
<1>7. CASE saveCommit(q)
  <2>1. lock = q
    BY <1>7 DEF saveCommit, CopyInv
  <2> QED
    BY <1>2, <1>7, <1>h, <2>1 DEF saveCommit, Active
<1>8. CASE workerLoad(q)
  <2>1. lock # p
    BY <1>8, Footprints DEF workerLoad
  <2> QED
    BY <1>2, <1>8, <1>h, <2>1 DEF workerLoad, Active
<1>9. CASE workerCommit(q)
  <2>1. lock = q
    BY <1>9 DEF workerCommit, CopyInv
  <2> QED
    BY <1>2, <1>9, <1>h, <2>1 DEF workerCommit, Active
<1> QED
  BY <1>1, <1>3, <1>4, <1>5, <1>6, <1>7, <1>8, <1>9 DEF step

\* A commit of q, by a save or by the worker.
Commits(q) == saveCommit(q) \/ (workerCommit(q) /\ ~Overtaken(q))

\* What is written when nothing changed is stale or overtaken: the handler's change of the
\* snapshot q had loaded, which fits the database.
LEMMA WrittenFits ==
  ASSUME IInv, NEW q \in Requests, pc[q] \in Saving,
         ~Overtaken(q), ~StaleVersion(q) \/ Snap(q) = view[q]
  PROVE  /\ Snap(q) \in Images /\ Fits(q, Snap(q))
         /\ Overlay(db, Changed(q), q) = After(db, Snap(q), q)
<1> DEFINE s == Snap(q)
<1>h. HostOf[q] \in Hosts
  BY Footprints
<1>0. TypeOK /\ CopyInv(q) /\ s \in Images /\ db \in Images
  BY <1>h DEF IInv, TypeOK, Snap
<1>1. /\ Mem(q) = Handled(s, q, Bumps[q])
      /\ \A r \in Rows : s[r].effects \cap Excludes[q] = {}
      /\ \A r \in Rows : Older(s[r], db, r)
  BY <1>0 DEF CopyInv
<1>2. ~CommittedIn(db, q)
  BY <1>0 DEF IInv, CommittedInv, Saving
<1>3. \A r \in Rows : q \notin s[r].effects
  BY <1>1, <1>2 DEF Older
<1>4. Changed(q) = Writes[q]
  <2>1. \A r \in Writes[q] : r \in Rows /\ Mem(q)[r].effects = s[r].effects \cup {q}
    BY <1>1, Footprints DEF Handled
  <2>2. \A r \in Rows : r \notin Writes[q] => Mem(q)[r] = s[r]
    BY <1>1 DEF Handled
  <2> QED
    BY <2>1, <2>2, <1>3 DEF Changed
<1>5. Overlay(db, Changed(q), q) = After(db, s, q)
  BY <1>1, <1>4 DEF Overlay, After
<1>6. \A r \in Writes[q] \cap Versioned : s[r].version = db[r].version
  <2> TAKE r \in Writes[q] \cap Versioned
  <2>1. r \in Rows /\ r \in Changed(q) /\ s[r] # Absent
    BY <1>1, <1>4, Footprints DEF Older
  <2>2. Mem(q)[r] # Absent
    <3>1. Mem(q)[r].effects = s[r].effects \cup {q}
      BY <1>1, <2>1 DEF Handled
    <3> QED
      BY <3>1 DEF Absent
  <2>3. db[r] = view[q][r]
    BY <2>1 DEF Overtaken
  <2> QED
    BY <2>1, <2>2, <2>3 DEF StaleVersion
<1> QED
  BY <1>0, <1>1, <1>5, <1>6 DEF Fits

\* What a commit does to the database: CommitImage, on an image that fits.
LEMMA CommitStep ==
  ASSUME IInv, NEW q \in Requests, Commits(q)
  PROVE  /\ lock = q
         /\ ~CommittedIn(db, q)
         /\ \E s \in Images : Fits(q, s)
         /\ \A p \in Requests : CommittedIn(db', p) <=> CommittedIn(db, p) \/ p = q
         /\ \A r \in Rows : db[r] # Absent => db'[r] # Absent
         /\ \A r \in Rows : \A v \in RowValue : Older(v, db, r) => Older(v, db', r)
         /\ \A r \in Rows : Older(db'[r], db', r)
         /\ KeptIn(db')
         /\ \A r \in Versioned :
              /\ db'[r].version = db[r].version + (IF r \in Bumps[q] THEN 1 ELSE 0)
              /\ \A p \in Requests : r \in Bumps[p] =>
                   (p \in db'[r].effects <=> p \in db[r].effects \/ p = q)
<1>0. /\ TypeOK /\ CopyInv(q) /\ db \in Images
      /\ (saveCommit(q) /\ pc[q] = "writing")
         \/ (workerCommit(q) /\ ~Overtaken(q) /\ q \in WorkerRequests /\ pc[q] = "handled")
  BY DEF IInv, TypeOK, Commits, saveCommit, workerCommit
<1>1. lock = q
  BY <1>0 DEF CopyInv
<1>2. ~CommittedIn(db, q)
  BY <1>0 DEF IInv, CommittedInv
<1>3. PICK s \in Images : Fits(q, s) /\ db' = After(db, s, q)
  <2>1. CASE saveCommit(q)
    BY <1>0, <2>1 DEF saveCommit, workerCommit, CopyInv
  <2>2. CASE workerCommit(q) /\ ~Overtaken(q)
    <3>1. pc[q] = "handled" /\ Snap(q) = view[q] /\ db' = Overlay(db, Changed(q), q)
      BY <1>0, <2>2 DEF workerCommit, CopyInv
    <3> QED
      BY <2>2, <3>1, WrittenFits DEF Saving
  <2> QED
    BY <1>0, <2>1, <2>2
<1>8. (\A r \in Rows : Older(db[r], db, r)) /\ KeptIn(db)
  BY DEF IInv, RowsInv
<1>9. /\ \A p \in Requests : CommittedIn(After(db, s, q), p) <=> CommittedIn(db, p) \/ p = q
      /\ \A r \in Rows : db[r] # Absent => After(db, s, q)[r] # Absent
      /\ \A r \in Rows : \A v \in RowValue : Older(v, db, r) => Older(v, After(db, s, q), r)
      /\ \A r \in Rows : Older(After(db, s, q)[r], After(db, s, q), r)
      /\ KeptIn(After(db, s, q))
      /\ \A r \in Versioned :
           /\ After(db, s, q)[r].version = db[r].version + (IF r \in Bumps[q] THEN 1 ELSE 0)
           /\ \A p \in Requests : r \in Bumps[p] =>
                (p \in After(db, s, q)[r].effects <=> p \in db[r].effects \/ p = q)
  BY <1>0, <1>2, <1>3, <1>8, CommitImage DEF Fits
<1> QED
  BY <1>1, <1>2, <1>3, <1>9

\* A step that does not commit leaves the database alone, and who is committed with it.
LEMMA DatabaseStep ==
  ASSUME ~Shared, IInv, NEW q \in Requests,
         loadStart(q) \/ workerBegin(q) \/ step(q) \/ crash(q)
  PROVE  RowsInv' /\ CommittedInv' /\ (~Commits(q) => db' = db)
<1>0. TypeOK /\ pc \in [Requests -> {"idle"} \cup Active \cup Ended]
  BY DEF IInv, TypeOK
<1>1. \A p \in Requests : p # q => pc'[p] = pc[p]
  BY Elsewhere
<1>2. CASE Commits(q)
  <2>1. pc'[q] = "committed"
    BY <1>0, <1>2 DEF Commits, saveCommit, workerCommit
  <2>2. RowsInv'
    <3>1. (\A r \in Rows : Older(db'[r], db', r)) /\ KeptIn(db')
      BY <1>2, CommitStep
    <3> QED
      BY <3>1 DEF RowsInv
  <2>3. \A p \in Requests : CommittedIn(db', p) <=> CommittedIn(db, p) \/ p = q
    BY <1>2, CommitStep
  <2>4. CommittedInv'
    BY <1>1, <2>1, <2>3 DEF IInv, CommittedInv
  <2> QED
    BY <1>2, <2>2, <2>4
<1>3. CASE ~Commits(q)
  <2>1. db' = db
    BY <1>3 DEF Commits, step, loadStart, loadTable, loadEnd, handle, refuse, saveBegin,
                saveWrite, saveRejected, saveRetry, saveCommit, answer, workerBegin,
                workerLoad, workerCommit, crash
  <2>2. \/ pc'[q] = "lost"
        \/ pc[q] = "committed" /\ pc'[q] = "acked"
        \/ pc[q] \notin {"committed", "acked", "lost"} /\ pc'[q] \notin {"committed", "acked"}
    BY <1>0, <1>3 DEF Commits, step, loadStart, loadTable, loadEnd, handle, refuse, saveBegin,
                      saveWrite, saveRejected, saveRetry, saveCommit, answer, workerBegin,
                      workerLoad, workerCommit, crash
  <2>3. CommittedInv'
    BY <1>1, <2>1, <2>2 DEF IInv, CommittedInv
  <2>4. RowsInv'
    BY <2>1 DEF IInv, RowsInv
  <2> QED
    BY <2>1, <2>3, <2>4
<1> QED
  BY <1>2, <1>3

\* The request that takes the step has what CopyInv says of its next stage.
LEMMA CopyStep ==
  ASSUME ~Shared, IInv, NEW q \in Requests,
         loadStart(q) \/ workerBegin(q) \/ step(q) \/ crash(q)
  PROVE  CopyInv(q)'
<1>h. HostOf[q] \in Hosts
  BY Footprints
<1>0. TypeOK /\ CopyInv(q) /\ \A r \in Rows : Older(db[r], db, r)
  BY DEF IInv, RowsInv
<1>l. LoadOrder \in Seq(SUBSET Rows) /\ Len(LoadOrder) \in Nat
      /\ \A r \in Rows : \E t \in 1 .. Len(LoadOrder) : r \in LoadOrder[t]
  BY RowStoreAssumption DEF RowStoreAssumption
<1>t. /\ pc \in [Requests -> {"idle"} \cup Active \cup Ended]
      /\ table \in [Requests -> 1 .. Len(LoadOrder) + 1]
      /\ view \in [Requests -> Images] /\ delta \in [Requests -> Images]
      /\ mem \in [Hosts -> Images] /\ snap \in [Hosts -> Images]
  BY <1>0 DEF TypeOK
<1> USE DEF Saving, Active, Ended
<1>1. CASE loadStart(q)
  <2>1. pc'[q] = "loading" /\ q \notin WorkerRequests /\ table'[q] = 1
    BY <1>0, <1>1, <1>t DEF loadStart, CopyInv
  <2>2. \A t \in 1 .. Len(LoadOrder) : ~(t < 1)
    BY <1>l
  <2> QED
    BY <2>1, <2>2 DEF CopyInv
<1>2. CASE loadTable(q)
  <2>1. /\ pc'[q] = "loading" /\ q \notin WorkerRequests /\ db' = db
        /\ table'[q] = table[q] + 1
        /\ Mem(q)' = [r \in Rows |-> IF r \in LoadOrder[table[q]] THEN db[r] ELSE Mem(q)[r]]
    BY <1>2, <1>t, <1>h DEF loadTable, Mem
  <2>2. \A t \in 1 .. Len(LoadOrder) : t < table[q] =>
          \A r \in LoadOrder[t] : Older(Mem(q)[r], db, r)
    BY <1>0, <1>2 DEF loadTable, CopyInv
  <2>3. ASSUME NEW t \in 1 .. Len(LoadOrder), t < table[q] + 1, NEW r \in LoadOrder[t]
        PROVE  Older(Mem(q)'[r], db, r)
    <3>1. r \in Rows
      BY <1>l
    <3>2. CASE r \in LoadOrder[table[q]]
      BY <1>0, <2>1, <3>1, <3>2
    <3>3. CASE r \notin LoadOrder[table[q]]
      <4>1. t < table[q]
        BY <1>l, <1>t, <2>3, <3>3
      <4> QED
        BY <2>1, <2>2, <3>1, <3>3, <4>1
    <3> QED
      BY <3>2, <3>3
  <2> QED
    BY <2>1, <2>3 DEF CopyInv
<1>3. CASE loadEnd(q)
  <2>1. /\ pc'[q] = "loaded" /\ q \notin WorkerRequests /\ db' = db
        /\ Mem(q)' = Mem(q) /\ Snap(q)' = Mem(q)
    BY <1>3, <1>t, <1>h DEF loadEnd, Mem, Snap
  <2>2. \A r \in Rows : Older(Mem(q)[r], db, r)
    <3> TAKE r \in Rows
    <3>1. PICK t \in 1 .. Len(LoadOrder) : r \in LoadOrder[t]
      BY <1>l
    <3>2. t < table[q]
      BY <1>3, <1>l, <1>t DEF loadEnd
    <3> QED
      BY <1>0, <1>3, <3>1, <3>2 DEF loadEnd, CopyInv
  <2> QED
    BY <2>1, <2>2 DEF CopyInv
<1>4. CASE handle(q)
  <2>1. /\ pc[q] = "loaded" /\ pc'[q] = "handled" /\ db' = db /\ lock' = lock /\ view' = view
        /\ Snap(q)' = Snap(q) /\ Mem(q)' = Handled(Mem(q), q, Bumps[q])
        /\ \A r \in Rows : Mem(q)[r].effects \cap Excludes[q] = {}
    BY <1>4, <1>t, <1>h DEF handle, Mem, Snap, Admissible
  <2>2. Mem(q) = Snap(q) /\ \A r \in Rows : Older(Snap(q)[r], db, r)
    BY <1>0, <2>1 DEF CopyInv
  <2>3. q \in WorkerRequests => lock = q /\ Snap(q) = view[q]
    BY <1>0, <2>1 DEF CopyInv
  <2> QED
    BY <2>1, <2>2, <2>3 DEF CopyInv
<1>5. CASE refuse(q) \/ saveRejected(q) \/ crash(q) \/ answer(q)
  <2>1. pc'[q] \in Ended
    BY <1>5, <1>t DEF refuse, saveRejected, crash, answer
  <2> QED
    BY <2>1 DEF CopyInv
<1>6. CASE saveBegin(q)
  <2>1. /\ pc[q] = "handled" /\ pc'[q] = "waiting" /\ q \notin WorkerRequests
        /\ db' = db /\ Mem(q)' = Mem(q) /\ Snap(q)' = Snap(q)
    BY <1>6, <1>t DEF saveBegin, Mem, Snap
  <2> QED
    BY <1>0, <2>1 DEF CopyInv
<1>7. CASE saveWrite(q)
  <2>1. /\ pc[q] = "waiting" /\ pc'[q] = "writing" /\ lock' = q /\ db' = db
        /\ delta'[q] = Overlay(db, Changed(q), q)
        /\ ~StaleVersion(q) /\ ~Overtaken(q)
    BY <1>7, <1>t DEF saveWrite
  <2>2. PICK s \in Images : Fits(q, s) /\ delta'[q] = After(db, s, q)
    BY <2>1, WrittenFits
  <2>3. Fits(q, s)' /\ delta'[q] = After(db', s, q)
    BY <2>1, <2>2 DEF Fits
  <2>4. q \notin WorkerRequests
    BY <1>0, <2>1 DEF CopyInv
  <2> QED
    BY <2>1, <2>3, <2>4 DEF CopyInv
<1>8. CASE saveRetry(q)
  <2>1. /\ pc[q] = "waiting" /\ pc'[q] \in {"handled", "failed"}
        /\ db' = db /\ Mem(q)' = Mem(q) /\ Snap(q)' = Snap(q)
    BY <1>8, <1>t DEF saveRetry, Mem, Snap
  <2> QED
    BY <1>0, <2>1 DEF CopyInv
<1>9. CASE saveCommit(q)
  <2>1. pc'[q] = "committed"
    BY <1>9, <1>t DEF saveCommit
  <2> QED
    BY <2>1 DEF CopyInv
<1>10. CASE workerBegin(q)
  <2>1. pc'[q] = "loading" /\ q \in WorkerRequests /\ db' = db /\ view'[q] = db
    BY <1>10, <1>t DEF workerBegin
  <2> QED
    BY <1>0, <2>1 DEF CopyInv
<1>11. CASE workerLoad(q)
  <2>1. /\ pc[q] = "loading" /\ pc'[q] = "loaded" /\ q \in WorkerRequests
        /\ db' = db /\ view' = view /\ lock' = q
        /\ Mem(q)' = view[q] /\ Snap(q)' = view[q]
    BY <1>11, <1>t, <1>h DEF workerLoad, Mem, Snap
  <2> QED
    BY <1>0, <2>1 DEF CopyInv
<1>12. CASE workerCommit(q)
  <2>1. pc'[q] \in {"failed", "committed"}
    BY <1>12, <1>t DEF workerCommit
  <2> QED
    BY <2>1 DEF CopyInv
<1> QED
  BY <1>1, <1>2, <1>3, <1>4, <1>5, <1>6, <1>7, <1>8, <1>9, <1>10, <1>11, <1>12 DEF step

\* IInv is inductive.
LEMMA StepIInv ==
  ASSUME ~Shared, IInv, [Next]_vars
  PROVE  IInv'
<1>1. TypeOK' /\ Alone'
  BY TypeStep, AloneStep DEF IInv
<1>2. ASSUME NEW q \in Requests, loadStart(q) \/ workerBegin(q) \/ step(q) \/ crash(q)
      PROVE  IInv'
  <2>1. RowsInv' /\ CommittedInv' /\ (~Commits(q) => db' = db)
    BY <1>2, DatabaseStep
  <2>2. CopyInv(q)'
    BY <1>2, CopyStep
  <2>3. ASSUME NEW p \in Requests, p # q
        PROVE  CopyInv(p)'
    <3>1. /\ pc'[p] = pc[p] /\ table'[p] = table[p] /\ view'[p] = view[p]
          /\ delta'[p] = delta[p]
          /\ pc[p] \in Active => /\ mem'[HostOf[p]] = mem[HostOf[p]]
                                 /\ snap'[HostOf[p]] = snap[HostOf[p]]
          /\ lock = p => lock' = p
      BY <1>2, <2>3, Elsewhere
    <3>2. TypeOK /\ CopyInv(p)
      BY DEF IInv
    <3>3. CASE Commits(q)
      <4>1. lock = q /\ \A r \in Rows : \A v \in RowValue : Older(v, db, r) => Older(v, db', r)
        BY <3>3, CommitStep
      <4>2. pc[p] # "writing"
        BY <2>3, <3>2, <4>1 DEF CopyInv
      <4> QED
        BY <3>1, <3>2, <4>1, <4>2, CopyFrame
    <3>4. CASE ~Commits(q)
      BY <2>1, <3>1, <3>2, <3>4, CopyFrame
    <3> QED
      BY <3>3, <3>4
  <2> QED
    BY <1>1, <2>1, <2>2, <2>3 DEF IInv
<1>3. CASE UNCHANGED vars
  <2>1. RowsInv' /\ CommittedInv'
    BY <1>3 DEF vars, IInv, RowsInv, CommittedInv
  <2>2. ASSUME NEW p \in Requests
        PROVE  CopyInv(p)'
    BY <1>3, CopyFrame DEF vars, IInv
  <2> QED
    BY <1>1, <2>1, <2>2 DEF IInv
<1> QED
  BY <1>2, <1>3 DEF Next

\* The invariant of a server whose processes take one request at a time.
THEOREM RowStoreInvariant ==
  ASSUME ~Shared
  PROVE  Spec => []IInv
<1>1. IInv /\ [Next]_vars => IInv'
  BY StepIInv
<1> QED
  BY InitIInv, <1>1, PTL DEF Spec

-----------------------------------------------------------------------------
(* What follows from it.                                                   *)

\* A committed update that raised the version of a row is never overwritten.
THEOREM VersionedUpdates ==
  ASSUME ~Shared
  PROVE  Spec => []VersionedUpdatesKept
<1>1. IInv => VersionedUpdatesKept
  BY DEF IInv, RowsInv, KeptIn, CommittedIn, VersionedUpdatesKept, Committed
<1> QED
  BY RowStoreInvariant, <1>1, PTL

\* A version number counts the updates that raised it.
THEOREM VersionNumbers ==
  ASSUME ~Shared
  PROVE  Spec => []VersionsCountUpdates
<1> DEFINE Raised(r) == { p \in Requests : r \in Bumps[p] /\ p \in db[r].effects }
<1>f. \A S \in SUBSET Requests : IsFiniteSet(S)
  BY RowStoreAssumption, FS_Subset DEF RowStoreAssumption
<1>1. Init => VersionsCountUpdates
  <2> SUFFICES ASSUME Init, NEW r \in Versioned
               PROVE  db[r].version = 1 + Cardinality(Raised(r))
    BY DEF VersionsCountUpdates
  <2>1. db[r] = Fresh
    BY Footprints DEF Init
  <2>2. Raised(r) = {}
    BY <2>1 DEF Fresh
  <2> QED
    BY <2>1, <2>2, FS_EmptySet DEF Fresh
<1>2. IInv /\ VersionsCountUpdates /\ [Next]_vars => VersionsCountUpdates'
  <2> SUFFICES ASSUME IInv, VersionsCountUpdates, [Next]_vars, NEW r \in Versioned
               PROVE  db'[r].version = 1 + Cardinality(Raised(r)')
    BY DEF VersionsCountUpdates
  <2>1. db[r].version = 1 + Cardinality(Raised(r)) /\ Cardinality(Raised(r)) \in Nat
    BY <1>f, FS_CardinalityType DEF VersionsCountUpdates
  <2>2. ASSUME NEW q \in Requests, Commits(q)
        PROVE  db'[r].version = 1 + Cardinality(Raised(r)')
    <3>1. /\ db'[r].version = db[r].version + (IF r \in Bumps[q] THEN 1 ELSE 0)
          /\ \A p \in Requests : r \in Bumps[p] =>
               (p \in db'[r].effects <=> p \in db[r].effects \/ p = q)
      BY <2>2, CommitStep
    <3>2. q \notin Raised(r)
      <4>1. r \in Rows /\ ~CommittedIn(db, q)
        BY <2>2, CommitStep, Footprints
      <4> QED
        BY <4>1 DEF IInv, RowsInv, Older
    <3>3. CASE r \in Bumps[q]
      <4>1. Raised(r)' = Raised(r) \cup {q}
        BY <3>1, <3>3
      <4>2. Cardinality(Raised(r) \cup {q}) = Cardinality(Raised(r)) + 1
        BY <1>f, <3>2, FS_AddElement
      <4>3. Cardinality(Raised(r)') = Cardinality(Raised(r)) + 1
        BY <4>1, <4>2, Zenon
      <4> HIDE DEF Raised
      <4> QED
        BY <2>1, <3>1, <3>3, <4>3
    <3>4. CASE r \notin Bumps[q]
      <4>1. Raised(r)' = Raised(r)
        BY <3>1, <3>4
      <4> HIDE DEF Raised
      <4> QED
        BY <2>1, <3>1, <3>4, <4>1
    <3> QED
      BY <3>3, <3>4
  <2>3. CASE db' = db
    <3>1. Raised(r)' = Raised(r)
      BY <2>3
    <3> QED
      BY <2>1, <2>3, <3>1
  <2>4. (\E q \in Requests : Commits(q)) \/ db' = db
    BY DatabaseStep DEF Next, vars
  <2> QED
    BY <2>2, <2>3, <2>4
<1>3. Spec => []IInv
  BY RowStoreInvariant
<1> QED
  BY <1>1, <1>2, <1>3, PTL DEF Spec

\* Changes are committed with their audit row, and a refused request leaves none.
THEOREM CoCommit ==
  ASSUME ~Shared
  PROVE  Spec => []CoCommitted
<1>1. IInv => CoCommitted
  BY DEF IInv, RowsInv, CommittedInv, Older, CommittedIn, CoCommitted, Committed
<1> QED
  BY RowStoreInvariant, <1>1, PTL

\* Rows that exist stay: the delta of a save never deletes what was not loaded.
THEOREM RowsStay ==
  ASSUME ~Shared
  PROVE  Spec => RowsSurvive
<1>1. IInv /\ [Next]_vars => \A r \in Rows : db[r] # Absent => db'[r] # Absent
  <2> SUFFICES ASSUME IInv, [Next]_vars
               PROVE  \A r \in Rows : db[r] # Absent => db'[r] # Absent
    OBVIOUS
  <2>1. ASSUME NEW q \in Requests, loadStart(q) \/ workerBegin(q) \/ step(q) \/ crash(q)
        PROVE  \A r \in Rows : db[r] # Absent => db'[r] # Absent
    <3>1. CASE Commits(q)
      BY <3>1, CommitStep
    <3>2. CASE ~Commits(q)
      BY <2>1, <3>2, DatabaseStep
    <3> QED
      BY <3>1, <3>2
  <2>2. CASE UNCHANGED vars
    BY <2>2 DEF vars
  <2> QED
    BY <2>1, <2>2 DEF Next
<1>2. Spec => []IInv
  BY RowStoreInvariant
<1> QED
  BY <1>1, <1>2, PTL DEF Spec, RowsSurvive

\* Requests that raise the version of a common row and exclude each other do not follow each
\* other: the conditional update stands in for the lock the load does not take.
THEOREM Exclusions ==
  ASSUME ~Shared,
         \A q \in Requests : \A p \in Excludes[q] : Bumps[q] \cap Bumps[p] # {}
  PROVE  Spec => ExclusionsHold
<1>1. IInv /\ [Next]_vars =>
        \A q \in Requests : \A p \in Excludes[q] :
          Committed(p) /\ ~Committed(q) => ~Committed(q)'
  <2> SUFFICES ASSUME IInv, [Next]_vars, NEW q \in Requests, NEW p \in Excludes[q],
                      Committed(p), ~Committed(q), Committed(q)'
               PROVE  FALSE
    OBVIOUS
  <2>0. p \in Requests
    BY RowStoreAssumption DEF RowStoreAssumption
  <2>1. Commits(q)
    <3>1. db' # db
      BY DEF Committed
    <3>2. PICK c \in Requests : loadStart(c) \/ workerBegin(c) \/ step(c) \/ crash(c)
      BY <3>1 DEF Next, vars
    <3>3. Commits(c)
      BY <3>1, <3>2, DatabaseStep
    <3>4. CommittedIn(db', q) <=> CommittedIn(db, q) \/ q = c
      BY <3>3, CommitStep
    <3> QED
      BY <3>3, <3>4 DEF Committed, CommittedIn
  <2>2. PICK r \in Bumps[q] : r \in Bumps[p]
    BY <2>0
  <2>3. r \in Rows /\ r \in Versioned /\ r \in Writes[q]
    BY Footprints
  <2>4. p \in db[r].effects
    BY <2>0, <2>2 DEF IInv, RowsInv, KeptIn, Committed, CommittedIn
  <2>5. PICK s \in Images : Fits(q, s)
    BY <2>1, CommitStep
  <2>6. s[r].version = db[r].version /\ Older(s[r], db, r) /\ p \notin s[r].effects
    BY <2>0, <2>3, <2>5 DEF Fits
  <2> QED
    BY <2>0, <2>2, <2>3, <2>4, <2>6 DEF Older
<1>2. Spec => []IInv
  BY RowStoreInvariant
<1> QED
  BY <1>1, <1>2, PTL DEF Spec, ExclusionsHold
=============================================================================
