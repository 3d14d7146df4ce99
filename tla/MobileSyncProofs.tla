-------------------------- MODULE MobileSyncProofs ---------------------------
(***************************************************************************)
(* Proofs about MobileSync, for any number of captures, synchronisations   *)
(* and attempts.                                                           *)
(***************************************************************************)
EXTENDS MobileSync, WellFoundedInduction, TLAPS

RowType  == [status : RowStatus, attempts : 0 .. MaxAttempts, waiting : BOOLEAN]
SyncType == [pc : {"idle", "begin", "intent", "put", "confirm", "analyze"},
             todo : SUBSET Operations, read : [Operations -> 0 .. MaxAttempts]]

\* What a synchronisation has read and done when it takes its next step.  Its operations were
\* all to be attempted when it read them, whatever has become of their rows; past the PUT the
\* object of the current one is stored, and past the confirmation its photo is there.  Objects
\* and photos stay, so no other synchronisation can take that back.
SyncInv ==
  \A s \in Syncs : sync[s].pc # "idle" =>
    /\ \A o \in sync[s].todo : sync[s].read[o] < MaxAttempts
    /\ sync[s].pc \in {"confirm", "analyze"} => Current(s) \in objects
    /\ sync[s].pc = "analyze" => photos[Current(s)] > 0

MobileInv == TypeOK /\ PhotoOnce /\ UploadedIsStored /\ SyncInv

-----------------------------------------------------------------------------
(* The operation at hand.                                                  *)

\* A synchronisation with operations left has an oldest one among them.
LEMMA CurrentIsLeft ==
  ASSUME NEW s \in Syncs, sync[s].todo \subseteq Operations, sync[s].todo # {}
  PROVE  Current(s) \in sync[s].todo
<1> DEFINE T == sync[s].todo
<1>1. T \subseteq Nat BY DEF Operations
<1>2. PICK o \in T : \A p \in T : ~ (<<p, o>> \in OpToRel(<, Nat))
  <2>1. IsWellFoundedOn(OpToRel(<, Nat), Nat) BY NatLessThanWellFounded
  <2> HIDE DEF T
  <2>2. T # {} BY DEF T
  <2> QED BY <1>1, <2>1, <2>2, WFMin
<1>3. \A p \in T : o <= p
  <2> SUFFICES ASSUME NEW p \in T PROVE o <= p OBVIOUS
  <2>1. ~(p < o) BY <1>1, <1>2 DEF OpToRel
  <2> QED BY <1>1, <2>1
<1> QED BY <1>3 DEF Current

\* What is known of it while the synchronisation is under way.
LEMMA CurrentAttempt ==
  ASSUME MobileInv, NEW s \in Syncs, sync[s].pc # "idle"
  PROVE  /\ Current(s) \in sync[s].todo /\ Current(s) \in Operations
         /\ Attempt(s) \in 1 .. MaxAttempts
<1>1. sync[s] \in SyncType BY DEF MobileInv, TypeOK, SyncType
<1>2. sync[s].todo \subseteq Operations /\ sync[s].todo # {}
  BY <1>1 DEF MobileInv, TypeOK, SyncType
<1>3. Current(s) \in sync[s].todo BY <1>2, CurrentIsLeft
<1>4. sync[s].read[Current(s)] \in 0 .. MaxAttempts /\ sync[s].read[Current(s)] < MaxAttempts
  BY <1>1, <1>2, <1>3 DEF MobileInv, SyncInv, SyncType
<1>5. Attempt(s) \in 1 .. MaxAttempts BY <1>4, MobileAssumption DEF Attempt
<1> QED BY <1>2, <1>3, <1>5

\* An update changes one row, and calls it uploaded only if it says so.
LEMMA UpdatedType ==
  ASSUME row \in [Operations -> RowType], NEW o \in Operations, NEW status \in RowStatus,
         NEW attempts \in 0 .. MaxAttempts, NEW waiting \in BOOLEAN,
         Updated(o, status, attempts, waiting)
  PROVE  /\ row' \in [Operations -> RowType]
         /\ \A p \in Operations : row'[p].status = "uploaded" =>
              row[p].status = "uploaded" \/ (p = o /\ status = "uploaded")
<1> DEFINE new == [status |-> status, attempts |-> attempts, waiting |-> waiting]
<1>1. row' = row \/ row' = [row EXCEPT ![o] = new] BY DEF Updated
<1>2. new \in RowType /\ new.status = status BY DEF RowType
<1> HIDE DEF new
<1> QED BY <1>1, <1>2

\* The catch clause calls nothing uploaded, and goes on with the next operation.
LEMMA FailedType ==
  ASSUME MobileInv, NEW s \in Syncs, sync[s].pc # "idle", NEW conflict \in BOOLEAN,
         uploadFails(s, conflict)
  PROVE  /\ row' \in [Operations -> RowType]
         /\ \A p \in Operations : row'[p].status = "uploaded" => row[p].status = "uploaded"
         /\ NextOperation(s)
<1> DEFINE status == IF conflict \/ Attempt(s) >= MaxAttempts THEN "blocked" ELSE "failed"
<1>1. status \in RowStatus /\ status # "uploaded" BY DEF RowStatus
<1>2. Updated(Current(s), status, Attempt(s), status = "failed") /\ NextOperation(s)
  BY DEF uploadFails
<1>3. Current(s) \in Operations /\ Attempt(s) \in 0 .. MaxAttempts BY CurrentAttempt
<1>4. row \in [Operations -> RowType] BY DEF MobileInv, TypeOK, RowType
<1> HIDE DEF status
<1>5. (status = "failed") \in BOOLEAN OBVIOUS
<1> QED BY <1>1, <1>2, <1>3, <1>4, <1>5, UpdatedType

-----------------------------------------------------------------------------
(* How a synchronisation moves on.                                         *)

SyncOK ==
  /\ sync \in [Syncs -> SyncType]
  /\ \A s \in Syncs : sync[s].pc = "idle" <=> sync[s].todo = {}
  /\ SyncInv

\* Objects and photos are never removed.
Kept == objects \subseteq objects' /\ \A o \in Operations : photos[o] > 0 => photos'[o] > 0

\* A synchronisation that does not move still has what it had.
LEMMA OthersStay ==
  ASSUME MobileInv, Kept, NEW s \in Syncs, sync'[s] = sync[s], sync[s].pc # "idle"
  PROVE  /\ \A o \in sync'[s].todo : sync'[s].read[o] < MaxAttempts
         /\ sync'[s].pc \in {"confirm", "analyze"} => Current(s)' \in objects'
         /\ sync'[s].pc = "analyze" => photos'[Current(s)'] > 0
<1>1. Current(s)' = Current(s) BY DEF Current
<1>2. Current(s) \in Operations BY CurrentAttempt
<1> QED BY <1>1, <1>2 DEF MobileInv, SyncInv, Kept

LEMMA AtStep ==
  ASSUME MobileInv, Kept, NEW s \in Syncs, sync[s].pc # "idle",
         NEW pc \in {"intent", "put", "confirm", "analyze"}, At(s, pc),
         pc \in {"confirm", "analyze"} => Current(s) \in objects',
         pc = "analyze" => photos'[Current(s)] > 0
  PROVE  SyncOK'
<1>0. sync \in [Syncs -> SyncType] BY DEF MobileInv, TypeOK, SyncType
<1>1. /\ sync'[s] = [sync[s] EXCEPT !.pc = pc]
      /\ \A u \in Syncs \ {s} : sync'[u] = sync[u]
      /\ sync' \in [Syncs -> SyncType]
  BY <1>0 DEF At, SyncType
<1>2. sync'[s].pc = pc /\ sync'[s].todo = sync[s].todo /\ sync'[s].read = sync[s].read
  BY <1>0, <1>1 DEF SyncType
<1>3. Current(s)' = Current(s) BY <1>2 DEF Current
<1>4. \A u \in Syncs : sync'[u].pc = "idle" <=> sync'[u].todo = {}
  BY <1>1, <1>2 DEF MobileInv, TypeOK
<1>5. SyncInv'
  <2> SUFFICES ASSUME NEW u \in Syncs, sync'[u].pc # "idle"
               PROVE  /\ \A o \in sync'[u].todo : sync'[u].read[o] < MaxAttempts
                      /\ sync'[u].pc \in {"confirm", "analyze"} => Current(u)' \in objects'
                      /\ sync'[u].pc = "analyze" => photos'[Current(u)'] > 0
    BY DEF SyncInv
  <2>1. CASE u # s BY <1>1, <2>1, OthersStay
  <2>2. CASE u = s BY <1>2, <1>3, <2>2 DEF MobileInv, SyncInv
  <2> QED BY <2>1, <2>2
<1> QED BY <1>1, <1>4, <1>5 DEF SyncOK

LEMMA NextOperationStep ==
  ASSUME MobileInv, Kept, NEW s \in Syncs, sync[s].pc # "idle", NextOperation(s)
  PROVE  SyncOK'
<1>0. sync \in [Syncs -> SyncType] BY DEF MobileInv, TypeOK, SyncType
<1> DEFINE left == sync[s].todo \ {Current(s)}
           next == IF left = {} THEN NoSync
                   ELSE [pc |-> "begin", todo |-> left, read |-> sync[s].read]
<1>1. next \in SyncType
  <2>1. NoSync \in SyncType BY MobileAssumption DEF NoSync, SyncType
  <2>2. left \in SUBSET Operations /\ sync[s].read \in [Operations -> 0 .. MaxAttempts]
    BY <1>0 DEF SyncType
  <2> HIDE DEF left
  <2>3. [pc |-> "begin", todo |-> left, read |-> sync[s].read] \in SyncType
    BY <2>2 DEF SyncType
  <2> QED BY <2>1, <2>3
<1>2. /\ next.pc = "idle" <=> next.todo = {}
      /\ next.pc # "idle" => /\ next.todo \subseteq sync[s].todo
                             /\ next.read = sync[s].read /\ next.pc = "begin"
  BY DEF NoSync
<1>3. sync' = [sync EXCEPT ![s] = next] BY DEF NextOperation
<1> HIDE DEF next
<1>4. /\ sync'[s] = next /\ \A u \in Syncs \ {s} : sync'[u] = sync[u]
      /\ sync' \in [Syncs -> SyncType]
  BY <1>0, <1>1, <1>3
<1>5. \A u \in Syncs : sync'[u].pc = "idle" <=> sync'[u].todo = {}
  BY <1>2, <1>4 DEF MobileInv, TypeOK
<1>6. SyncInv'
  <2> SUFFICES ASSUME NEW u \in Syncs, sync'[u].pc # "idle"
               PROVE  /\ \A o \in sync'[u].todo : sync'[u].read[o] < MaxAttempts
                      /\ sync'[u].pc \in {"confirm", "analyze"} => Current(u)' \in objects'
                      /\ sync'[u].pc = "analyze" => photos'[Current(u)'] > 0
    BY DEF SyncInv
  <2>1. CASE u # s BY <1>4, <2>1, OthersStay
  <2>2. CASE u = s BY <1>2, <1>4, <2>2 DEF MobileInv, SyncInv
  <2> QED BY <2>1, <2>2
<1> QED BY <1>4, <1>5, <1>6 DEF SyncOK

-----------------------------------------------------------------------------
(* The steps.                                                              *)

LEMMA MobileInit == Init => MobileInv
<1> SUFFICES ASSUME Init PROVE MobileInv OBVIOUS
<1>1. NoRow \in RowType BY MobileAssumption DEF NoRow, RowType, RowStatus
<1>2. NoSync \in SyncType /\ NoSync.pc = "idle" /\ NoSync.todo = {}
  BY MobileAssumption DEF NoSync, SyncType
<1>3. TypeOK
  BY <1>1, <1>2 DEF Init, TypeOK, RowType, SyncType
<1>4. PhotoOnce /\ UploadedIsStored
  BY DEF Init, PhotoOnce, UploadedIsStored, NoRow
<1>5. SyncInv BY <1>2 DEF Init, SyncInv
<1> QED BY <1>3, <1>4, <1>5 DEF MobileInv

\* An update of the row of the operation at hand, and the move that goes with it.
LEMMA RowStep ==
  ASSUME MobileInv, Kept, SyncOK',
         row' \in [Operations -> RowType],
         \A o \in Operations : row'[o].status = "uploaded" =>
           row[o].status = "uploaded" \/ photos'[o] > 0,
         photos' \in [Operations -> Nat], \A o \in Operations : photos'[o] <= 1,
         objects' \subseteq Operations, \A o \in Operations : photos'[o] > 0 => o \in objects',
         UNCHANGED << session, files, captured, finalized, abandoned >>
  PROVE  MobileInv'
<1>1. TypeOK' BY DEF MobileInv, TypeOK, SyncOK, RowType, SyncType
<1>2. PhotoOnce' BY DEF PhotoOnce
<1>3. UploadedIsStored' BY DEF MobileInv, UploadedIsStored, Kept
<1> QED BY <1>1, <1>2, <1>3 DEF MobileInv, SyncOK

LEMMA MobileSyncStep ==
  ASSUME MobileInv, NEW s \in Syncs, syncStep(s)
  PROVE  MobileInv'
<1>0. /\ row \in [Operations -> RowType] /\ photos \in [Operations -> Nat]
      /\ objects \subseteq Operations
      /\ \A o \in Operations : photos[o] <= 1 /\ (photos[o] > 0 => o \in objects)
  BY DEF MobileInv, TypeOK, RowType, PhotoOnce, UploadedIsStored
<1>a. sync[s].pc # "idle"
  BY DEF syncStep, beginUpload, intent, putObject, confirm, analyze
<1>b. Current(s) \in Operations /\ Attempt(s) \in 0 .. MaxAttempts
  BY <1>a, CurrentAttempt
<1>c. {"uploading", "blocked", "confirming", "uploaded"} \subseteq RowStatus /\ FALSE \in BOOLEAN
  BY DEF RowStatus
<1>1. CASE beginUpload(s)
  <2>1. Kept /\ UNCHANGED << session, files, captured, serverVars, abandoned >>
    BY <1>1 DEF beginUpload, Kept, serverVars
  <2>2. CASE Updated(Current(s), "uploading", Attempt(s), FALSE) /\ At(s, "intent")
    <3>1. SyncOK' BY <1>a, <2>1, <2>2, AtStep
    <3>2. /\ row' \in [Operations -> RowType]
          /\ \A o \in Operations : row'[o].status = "uploaded" => row[o].status = "uploaded"
      BY <1>0, <1>b, <1>c, <2>2, UpdatedType
    <3> QED BY <1>0, <2>1, <3>1, <3>2, RowStep DEF serverVars
  <2>3. CASE Updated(Current(s), "blocked", Attempt(s), FALSE) /\ NextOperation(s)
    <3>1. SyncOK' BY <1>a, <2>1, <2>3, NextOperationStep
    <3>2. /\ row' \in [Operations -> RowType]
          /\ \A o \in Operations : row'[o].status = "uploaded" => row[o].status = "uploaded"
      BY <1>0, <1>b, <1>c, <2>3, UpdatedType
    <3> QED BY <1>0, <2>1, <3>1, <3>2, RowStep DEF serverVars
  <2> QED BY <1>1, <2>2, <2>3 DEF beginUpload
<1>2. CASE intent(s)
  <2>1. Kept /\ UNCHANGED << session, files, captured, serverVars, abandoned >>
    BY <1>2 DEF intent, Kept, serverVars
  <2>2. CASE At(s, "put") /\ UNCHANGED row
    <3>1. SyncOK' BY <1>a, <2>1, <2>2, AtStep
    <3> QED BY <1>0, <2>1, <2>2, <3>1, RowStep DEF serverVars
  <2>3. ASSUME NEW conflict \in BOOLEAN, uploadFails(s, conflict) PROVE MobileInv'
    <3>1. /\ row' \in [Operations -> RowType]
          /\ \A o \in Operations : row'[o].status = "uploaded" => row[o].status = "uploaded"
          /\ NextOperation(s)
      BY <1>a, <2>3, FailedType
    <3>2. SyncOK' BY <1>a, <2>1, <3>1, NextOperationStep
    <3> QED BY <1>0, <2>1, <3>1, <3>2, RowStep DEF serverVars
  <2> QED BY <1>2, <2>2, <2>3 DEF intent
<1>3. CASE putObject(s)
  <2>1. /\ objects' = objects \/ objects' = objects \cup {Current(s)}
        /\ UNCHANGED << session, files, captured, finalized, photos, abandoned >>
    BY <1>3 DEF putObject
  <2>2. Kept /\ objects' \subseteq Operations BY <1>0, <1>b, <2>1 DEF Kept
  <2>3. CASE /\ objects' = objects \cup {Current(s)} /\ At(s, "confirm")
             /\ Updated(Current(s), "confirming", Attempt(s), row[Current(s)].waiting)
    <3>1. SyncOK' BY <1>a, <2>2, <2>3, AtStep
    <3>2. row[Current(s)].waiting \in BOOLEAN BY <1>0, <1>b DEF RowType
    <3>3. /\ row' \in [Operations -> RowType]
          /\ \A o \in Operations : row'[o].status = "uploaded" => row[o].status = "uploaded"
      BY <1>0, <1>b, <1>c, <2>3, <3>2, UpdatedType
    <3> QED BY <1>0, <2>1, <2>2, <3>1, <3>3, RowStep DEF Kept
  <2>4. CASE uploadFails(s, FALSE)
    <3>1. /\ row' \in [Operations -> RowType]
          /\ \A o \in Operations : row'[o].status = "uploaded" => row[o].status = "uploaded"
          /\ NextOperation(s)
      BY <1>a, <2>4, FailedType
    <3>2. SyncOK' BY <1>a, <2>2, <3>1, NextOperationStep
    <3> QED BY <1>0, <2>1, <2>2, <3>1, <3>2, RowStep DEF Kept
  <2> QED BY <1>3, <2>3, <2>4 DEF putObject
<1>4. CASE confirm(s)
  <2>1. /\ photos' = photos \/ addPhoto(Current(s))
        /\ UNCHANGED << session, files, captured, finalized, objects, abandoned >>
    BY <1>4 DEF confirm
  <2>2. /\ photos' \in [Operations -> Nat]
        /\ \A o \in Operations : photos'[o] <= 1 /\ (photos[o] > 0 => photos'[o] > 0)
        /\ \A o \in Operations : photos'[o] > 0 => photos[o] > 0 \/ o = Current(s)
        /\ addPhoto(Current(s)) => photos'[Current(s)] > 0
    BY <1>0, <1>b, <2>1 DEF addPhoto
  <2>3. Kept BY <2>1, <2>2 DEF Kept
  <2>4. Current(s) \in objects BY <1>4 DEF confirm, MobileInv, SyncInv
  <2>5. \A o \in Operations : photos'[o] > 0 => o \in objects' BY <1>0, <2>1, <2>2, <2>4
  <2>6. CASE addPhoto(Current(s)) /\ At(s, "analyze") /\ UNCHANGED row
    <3>1. SyncOK' BY <1>a, <2>1, <2>2, <2>3, <2>4, <2>6, AtStep
    <3> QED BY <1>0, <2>1, <2>2, <2>3, <2>5, <2>6, <3>1, RowStep
  <2>7. ASSUME NEW conflict \in BOOLEAN, uploadFails(s, conflict) PROVE MobileInv'
    <3>1. /\ row' \in [Operations -> RowType]
          /\ \A o \in Operations : row'[o].status = "uploaded" => row[o].status = "uploaded"
          /\ NextOperation(s)
      BY <1>a, <2>7, FailedType
    <3>2. SyncOK' BY <1>a, <2>3, <3>1, NextOperationStep
    <3> QED BY <1>0, <2>1, <2>2, <2>3, <2>5, <3>1, <3>2, RowStep
  <2> QED BY <1>4, <2>6, <2>7 DEF confirm
<1>5. CASE analyze(s)
  <2>1. Kept /\ UNCHANGED << session, files, captured, serverVars, abandoned >>
    BY <1>5 DEF analyze, Kept, serverVars
  <2>2. Updated(Current(s), "uploaded", Attempt(s), FALSE) /\ NextOperation(s)
    BY <1>5 DEF analyze
  <2>3. photos[Current(s)] > 0 BY <1>5 DEF analyze, MobileInv, SyncInv
  <2>4. SyncOK' BY <1>a, <2>1, <2>2, NextOperationStep
  <2>5. /\ row' \in [Operations -> RowType]
        /\ \A o \in Operations : row'[o].status = "uploaded" =>
             row[o].status = "uploaded" \/ o = Current(s)
    BY <1>0, <1>b, <1>c, <2>2, UpdatedType
  <2> QED BY <1>0, <2>1, <2>3, <2>4, <2>5, RowStep DEF serverVars
<1> QED BY <1>1, <1>2, <1>3, <1>4, <1>5 DEF syncStep

\* The list of a new synchronisation has only operations that are to be attempted.
LEMMA MobileBegins ==
  ASSUME MobileInv, NEW s \in Syncs, syncUploadQueue(s)
  PROVE  MobileInv'
<1> DEFINE pending == { o \in Operations : shouldAttempt(o) }
           new == [pc |-> "begin", todo |-> pending,
                   read |-> [o \in Operations |-> row[o].attempts]]
<1>0. row \in [Operations -> RowType] /\ sync \in [Syncs -> SyncType]
  BY DEF MobileInv, TypeOK, RowType, SyncType
<1>1. /\ sync' = [sync EXCEPT ![s] = new] /\ pending # {} /\ session' = "fresh"
      /\ UNCHANGED << row, files, captured, serverVars, abandoned >>
  BY DEF syncUploadQueue
<1>2. new \in SyncType
  <2>1. [o \in Operations |-> row[o].attempts] \in [Operations -> 0 .. MaxAttempts]
    BY <1>0 DEF RowType
  <2> QED BY <2>1 DEF SyncType
<1>3. \A o \in new.todo : new.read[o] < MaxAttempts BY DEF shouldAttempt
<1>4. new.pc = "begin" /\ new.todo # {} BY <1>1
<1> HIDE DEF new
<1>5. /\ sync'[s] = new /\ \A u \in Syncs \ {s} : sync'[u] = sync[u]
      /\ sync' \in [Syncs -> SyncType]
  BY <1>0, <1>1, <1>2
<1>6. TypeOK' BY <1>1, <1>4, <1>5 DEF MobileInv, TypeOK, SyncType, serverVars
<1>7. SyncInv'
  <2> SUFFICES ASSUME NEW u \in Syncs, sync'[u].pc # "idle"
               PROVE  /\ \A o \in sync'[u].todo : sync'[u].read[o] < MaxAttempts
                      /\ sync'[u].pc \in {"confirm", "analyze"} => Current(u)' \in objects'
                      /\ sync'[u].pc = "analyze" => photos'[Current(u)'] > 0
    BY DEF SyncInv
  <2>1. Kept BY <1>1 DEF Kept, serverVars
  <2>2. CASE u # s BY <1>5, <2>1, <2>2, OthersStay
  <2>3. CASE u = s BY <1>3, <1>4, <1>5, <2>3
  <2> QED BY <2>2, <2>3
<1> QED BY <1>1, <1>6, <1>7 DEF MobileInv, PhotoOnce, UploadedIsStored, serverVars

\* Captures, removals, the session, the inspection: what changes while synchronisations wait.
LEMMA MobileElsewhere ==
  ASSUME MobileInv, UNCHANGED << sync, objects, photos, abandoned >>,
         row' \in [Operations -> RowType],
         \A o \in Operations : row'[o].status = "uploaded" => row[o].status = "uploaded",
         session' \in {"fresh", "stale", "none"}, finalized' \in BOOLEAN,
         files' \subseteq captured', captured' \subseteq Operations
  PROVE  MobileInv'
<1>1. TypeOK' BY DEF MobileInv, TypeOK, RowType
<1>2. PhotoOnce' /\ UploadedIsStored' BY DEF MobileInv, PhotoOnce, UploadedIsStored
<1>3. \A s \in Syncs : Current(s)' = Current(s) BY DEF Current
<1>4. SyncInv' BY <1>3 DEF MobileInv, SyncInv
<1> QED BY <1>1, <1>2, <1>4 DEF MobileInv

LEMMA MobileStep == MobileInv /\ [Next]_vars => MobileInv'
<1> SUFFICES ASSUME MobileInv, [Next]_vars PROVE MobileInv' OBVIOUS
<1>0. /\ row \in [Operations -> RowType] /\ session \in {"fresh", "stale", "none"}
      /\ finalized \in BOOLEAN /\ files \subseteq captured /\ captured \subseteq Operations
  BY DEF MobileInv, TypeOK, RowType
<1>a. NoRow \in RowType /\ NoRow.status = "none"
      /\ [NoRow EXCEPT !.status = "queued"] \in RowType
      /\ [NoRow EXCEPT !.status = "queued"].status = "queued"
  <2>1. 0 \in 0 .. MaxAttempts /\ {"none", "queued"} \subseteq RowStatus
    BY MobileAssumption DEF RowStatus
  <2>2. NoRow \in RowType /\ NoRow.status = "none" BY <2>1 DEF NoRow, RowType
  <2>3. [NoRow EXCEPT !.status = "queued"] \in RowType
        /\ [NoRow EXCEPT !.status = "queued"].status = "queued"
    BY <2>1, <2>2 DEF RowType
  <2> QED BY <2>2, <2>3
<1>1. ASSUME NEW o \in Operations, capture(o) PROVE MobileInv'
  BY <1>0, <1>a, <1>1, MobileElsewhere DEF capture, serverVars
<1>2. ASSUME NEW o \in Operations, backoffOver(o) PROVE MobileInv'
  <2>1. [row[o] EXCEPT !.waiting = FALSE] \in RowType
        /\ [row[o] EXCEPT !.waiting = FALSE].status = row[o].status
    BY <1>0 DEF RowType
  <2>2. row' = [row EXCEPT ![o] = [row[o] EXCEPT !.waiting = FALSE]]
        /\ UNCHANGED << session, files, captured, sync, serverVars, abandoned >>
    BY <1>2 DEF backoffOver
  <2> HIDE DEF NoRow
  <2> QED BY <1>0, <2>1, <2>2, MobileElsewhere DEF serverVars
<1>3. ASSUME NEW o \in Operations, removeUploadOperation(o) PROVE MobileInv'
  BY <1>0, <1>a, <1>3, MobileElsewhere DEF removeUploadOperation, serverVars
<1>4. CASE signIn \/ tokenExpires \/ refreshFails
  BY <1>0, <1>4, MobileElsewhere DEF signIn, tokenExpires, refreshFails, serverVars
<1>5. CASE signOut
  BY <1>0, <1>a, <1>5, MobileElsewhere DEF signOut, serverVars
<1>6. CASE finalizeInspection
  BY <1>0, <1>6, MobileElsewhere DEF finalizeInspection, deviceVars
<1>7. CASE appKilled
  <2>1. sync' = [s \in Syncs |-> NoSync] /\ UNCHANGED << deviceVars, serverVars >>
    BY <1>7 DEF appKilled
  <2>2. NoSync \in SyncType /\ NoSync.pc = "idle" /\ NoSync.todo = {}
    BY MobileAssumption DEF NoSync, SyncType
  <2>3. abandoned' \subseteq Operations
    BY <1>7, CurrentAttempt DEF appKilled, MobileInv, TypeOK
  <2>4. TypeOK' BY <2>1, <2>2, <2>3 DEF MobileInv, TypeOK, SyncType, deviceVars, serverVars
  <2>5. SyncInv' BY <2>1, <2>2 DEF SyncInv
  <2> QED BY <2>1, <2>4, <2>5
          DEF MobileInv, PhotoOnce, UploadedIsStored, deviceVars, serverVars
<1>8. CASE UNCHANGED vars
  <2>1. \A s \in Syncs : Current(s)' = Current(s) BY <1>8 DEF vars, Current
  <2> QED BY <1>8, <2>1 DEF vars, deviceVars, serverVars, MobileInv, TypeOK, PhotoOnce,
                           UploadedIsStored, SyncInv
<1> QED BY <1>1, <1>2, <1>3, <1>4, <1>5, <1>6, <1>7, <1>8, MobileBegins, MobileSyncStep DEF Next

LEMMA MobileAlways == Spec => []MobileInv
BY MobileInit, MobileStep, PTL DEF Spec

-----------------------------------------------------------------------------
\* Every reachable state has the types, and no row counts more attempts than permitted, however
\* many synchronisations have read it before one of them counted its attempt.
THEOREM TypeCorrect == Spec => []TypeOK
BY MobileAlways, PTL DEF MobileInv

\* A capture becomes one photo at most, through overlapping synchronisations, lost answers and
\* kills of the app.
THEOREM UploadIsIdempotent == Spec => []PhotoOnce
BY MobileAlways, PTL DEF MobileInv

\* An upload the device calls done has its photo on the server, and the photo its image.
THEOREM UploadIsBacked == Spec => []UploadedIsStored
BY MobileAlways, PTL DEF MobileInv
=============================================================================
