----------------------------- MODULE MobileSync -----------------------------
(***************************************************************************)
(* The offline upload queue of the mobile app: captures kept as rows of    *)
(* upload_operations (database.ts), synchronisations that may overlap      *)
(* (sync.ts, WorkspaceContext.tsx), the session they need                  *)
(* (AuthContext.tsx), and what the server makes of their requests          *)
(* (app.ts, store.ts).                                                     *)
(*                                                                         *)
(* One inspection, uploads to presigned URLs.  Every await on the way of   *)
(* an upload ends a step; an update of a row is one step, though the app   *)
(* reads the row first: each update sets the status and the attempts       *)
(* whatever it has read.                                                   *)
(***************************************************************************)
EXTENDS Integers, FiniteSets

CONSTANTS
  NumOperations,    \* bound: captures, in the order of created_at
  Syncs,            \* bound: synchronisations under way at the same time
  MaxAttempts       \* attempts after which an operation is blocked (5)

ASSUME MobileAssumption == NumOperations \in Nat /\ MaxAttempts \in Nat \ {0}

Operations == 1 .. NumOperations
RowStatus  == {"none", "queued", "uploading", "confirming", "uploaded", "blocked", "failed"}

NoRow == [status |-> "none", attempts |-> 0, waiting |-> FALSE]

VARIABLES
  session,       \* "fresh", "stale" (about to expire) or "none"
  row,           \* upload_operations; waiting: nextAttemptAt is in the future
  files,         \* captures whose file is on the device
  captured,      \* captures ever queued: operation ids are not used again
  sync,          \* per synchronisation: step, operations it has still to do, attempts it has read
  finalized,     \* the inspection, on the server
  objects,       \* captures in the bucket
  photos,        \* photo rows with the operation's id
  abandoned      \* history: operations whose last attempt ended with the app

deviceVars == << session, row, files, captured >>
serverVars == << finalized, objects, photos >>
vars == << deviceVars, sync, serverVars, abandoned >>

NoSync == [pc |-> "idle", todo |-> {}, read |-> [o \in Operations |-> 0]]

Init ==
  /\ session = "fresh"
  /\ row = [o \in Operations |-> NoRow]
  /\ files = {} /\ captured = {}
  /\ sync = [s \in Syncs |-> NoSync]
  /\ finalized = FALSE /\ objects = {}
  /\ photos = [o \in Operations |-> 0]
  /\ abandoned = {}

-----------------------------------------------------------------------------
(* The rows.                                                               *)

\* queueCandidate: the file is there, the row is inserted unless there is one.
capture(o) ==
  /\ o \notin captured /\ o - 1 \in captured \cup {0} /\ session # "none"
  /\ captured' = captured \cup {o}
  /\ files' = files \cup {o}
  /\ row' = [row EXCEPT ![o] = [NoRow EXCEPT !.status = "queued"]]
  /\ UNCHANGED << session, sync, serverVars, abandoned >>

\* updateUploadOperation: a row that was removed meanwhile is left alone.
Updated(o, status, attempts, waiting) ==
  row' = IF row[o].status = "none" THEN row
         ELSE [row EXCEPT ![o] = [status |-> status, attempts |-> attempts, waiting |-> waiting]]

\* Variant: the last attempt is not the last.
shouldAttemptOnceMore(o) ==
  /\ row[o].status \notin {"none", "blocked", "uploaded"}
  /\ row[o].attempts <= MaxAttempts /\ ~row[o].waiting

shouldAttempt(o) ==
  /\ row[o].status \notin {"none", "blocked", "uploaded"}
  /\ row[o].attempts < MaxAttempts /\ ~row[o].waiting

\* nextAttempt is over: 2 to 300 s, doubled with each attempt.
backoffOver(o) ==
  /\ row[o].waiting
  /\ row' = [row EXCEPT ![o].waiting = FALSE]
  /\ UNCHANGED << session, files, captured, sync, serverVars, abandoned >>

\* "Remove local capture" of the upload screen, also while it is being uploaded.
removeUploadOperation(o) ==
  /\ row[o].status \notin {"none", "uploaded"}
  /\ row' = [row EXCEPT ![o] = NoRow]
  /\ files' = files \ {o}
  /\ UNCHANGED << session, captured, sync, serverVars, abandoned >>

-----------------------------------------------------------------------------
(* The session.                                                            *)

\* Sign-in, or the restored session of an earlier start of the app.
signIn ==
  /\ session = "none" /\ session' = "fresh"
  /\ UNCHANGED << row, files, captured, sync, serverVars, abandoned >>

\* Less than a minute of the token is left.
tokenExpires ==
  /\ session = "fresh" /\ session' = "stale"
  /\ UNCHANGED << row, files, captured, sync, serverVars, abandoned >>

\* getFreshSession when a refresh fails, for a network error too: signed out, the queue stays.
refreshFails ==
  /\ session = "stale" /\ session' = "none"
  /\ UNCHANGED << row, files, captured, sync, serverVars, abandoned >>

\* clearOfflineData with the files; synchronisations under way go on.
signOut ==
  /\ session # "none" /\ session' = "none"
  /\ row' = [o \in Operations |-> NoRow]
  /\ files' = {}
  /\ UNCHANGED << captured, sync, serverVars, abandoned >>

-----------------------------------------------------------------------------
(* A synchronisation.                                                      *)

\* syncNow: after a capture, when the network is back, or by hand; also while one is under way.
\* getFreshSession has refreshed a stale session.  The rows to attempt are read once.
syncUploadQueue(s) ==
  LET pending == { o \in Operations : shouldAttempt(o) } IN
  /\ sync[s].pc = "idle" /\ session # "none" /\ pending # {}
  /\ session' = "fresh"
  /\ sync' = [sync EXCEPT ![s] = [pc |-> "begin", todo |-> pending,
                                  read |-> [o \in Operations |-> row[o].attempts]]]
  /\ UNCHANGED << row, files, captured, serverVars, abandoned >>

\* The operation at hand, oldest first, and the attempt this is according to the row as read.
Current(s) == CHOOSE o \in sync[s].todo : \A p \in sync[s].todo : o <= p
Attempt(s) == sync[s].read[Current(s)] + 1

At(s, pc) == sync' = [sync EXCEPT ![s].pc = pc]

\* The result of uploadOne is counted; the next operation of the list begins.
NextOperation(s) ==
  LET left == sync[s].todo \ {Current(s)} IN
  sync' = [sync EXCEPT ![s] = IF left = {} THEN NoSync
                              ELSE [pc |-> "begin", todo |-> left, read |-> sync[s].read]]

\* uploadOne begins: without its file the operation is blocked.
beginUpload(s) ==
  /\ sync[s].pc = "begin"
  /\ IF Current(s) \in files
       THEN Updated(Current(s), "uploading", Attempt(s), FALSE) /\ At(s, "intent")
       ELSE Updated(Current(s), "blocked", Attempt(s), FALSE) /\ NextOperation(s)
  /\ UNCHANGED << session, files, captured, serverVars, abandoned >>

\* Variant: one attempt too many before an operation is blocked.
uploadFailsOnceMore(s, conflict) ==
  LET status == IF conflict \/ Attempt(s) > MaxAttempts THEN "blocked" ELSE "failed" IN
  /\ Updated(Current(s), status, Attempt(s), status = "failed")
  /\ NextOperation(s)

\* The catch clause: 403 and 409 block the operation, so does the last attempt.
uploadFails(s, conflict) ==
  LET status == IF conflict \/ Attempt(s) >= MaxAttempts THEN "blocked" ELSE "failed" IN
  /\ Updated(Current(s), status, Attempt(s), status = "failed")
  /\ NextOperation(s)

\* POST uploads/intent: refused once the inspection is finalized; or anything else goes wrong.
intent(s) ==
  /\ sync[s].pc = "intent"
  /\ \/ ~finalized /\ At(s, "put") /\ UNCHANGED row
     \/ finalized /\ uploadFails(s, TRUE)
     \/ uploadFails(s, FALSE)
  /\ UNCHANGED << session, files, captured, serverVars, abandoned >>

\* Variant: the HTTP status of the PUT is not looked at.
putObjectUnchecked(s) ==
  /\ sync[s].pc = "put"
  /\ objects' = objects \/ objects' = objects \cup {Current(s)}
  /\ Updated(Current(s), "confirming", Attempt(s), row[Current(s)].waiting)
  /\ At(s, "confirm")
  /\ UNCHANGED << session, files, captured, finalized, photos, abandoned >>

\* The PUT to the bucket: it is stored, or it fails, with the object stored or not.
putObject(s) ==
  /\ sync[s].pc = "put"
  /\ \/ /\ Current(s) \in files
        /\ objects' = objects \cup {Current(s)}
        /\ Updated(Current(s), "confirming", Attempt(s), row[Current(s)].waiting)
        /\ At(s, "confirm")
     \/ /\ uploadFails(s, FALSE)
        /\ objects' \in {objects} \cup (IF Current(s) \in files
                                          THEN {objects \cup {Current(s)}} ELSE {})
  /\ UNCHANGED << session, files, captured, finalized, photos, abandoned >>

\* Variant: the photo is added without a look at the operation's id.
addPhotoAlways(o) == photos' = [photos EXCEPT ![o] = @ + 1]

\* addPhoto returns the photo with the operation's id if there is one.  Two servers that both
\* find none meet the unique index of vehicle_photos, and one of them answers with an error.
addPhoto(o) == photos' = [photos EXCEPT ![o] = IF @ = 0 THEN 1 ELSE @]

\* POST inspections/:id/photos/upload: mutability comes first, so a photo that is there already
\* is refused too.  The answer may be lost.
confirm(s) ==
  /\ sync[s].pc = "confirm"
  /\ \/ ~finalized /\ addPhoto(Current(s)) /\ At(s, "analyze") /\ UNCHANGED row
     \/ ~finalized /\ addPhoto(Current(s)) /\ uploadFails(s, FALSE)
     \/ finalized /\ UNCHANGED photos /\ uploadFails(s, TRUE)
     \/ UNCHANGED photos /\ uploadFails(s, FALSE)
  /\ UNCHANGED << session, files, captured, finalized, objects, abandoned >>

\* POST photos/:id/analyze, whose errors are only noted, and the last update.
analyze(s) ==
  /\ sync[s].pc = "analyze"
  /\ Updated(Current(s), "uploaded", Attempt(s), FALSE)
  /\ NextOperation(s)
  /\ UNCHANGED << session, files, captured, serverVars, abandoned >>

-----------------------------------------------------------------------------
\* The app is killed, or the device restarts.
appKilled ==
  /\ \E s \in Syncs : sync[s].pc # "idle"
  /\ abandoned' = abandoned \cup { Current(s) : s \in { x \in Syncs :
                     sync[x].pc \notin {"idle", "begin"} /\ Attempt(x) = MaxAttempts } }
  /\ sync' = [s \in Syncs |-> NoSync]
  /\ UNCHANGED << deviceVars, serverVars >>

\* Elsewhere the inspection is finalized.
finalizeInspection ==
  /\ ~finalized /\ finalized' = TRUE
  /\ UNCHANGED << deviceVars, sync, objects, photos, abandoned >>

syncStep(s) ==
  beginUpload(s) \/ intent(s) \/ putObject(s) \/ confirm(s) \/ analyze(s)

Next ==
  \/ \E o \in Operations : capture(o) \/ backoffOver(o) \/ removeUploadOperation(o)
  \/ signIn \/ tokenExpires \/ refreshFails \/ signOut
  \/ \E s \in Syncs : syncUploadQueue(s) \/ syncStep(s)
  \/ appKilled \/ finalizeInspection

Spec == Init /\ [][Next]_vars

\* Requests are answered or time out, time passes, and something keeps starting a
\* synchronisation: the network coming back, a capture, or the inspector.  The app is not
\* killed each time before an upload has begun.
FairSpec ==
  /\ Spec
  /\ \A s \in Syncs : /\ WF_vars(syncUploadQueue(s)) /\ WF_vars(syncStep(s))
                       /\ SF_vars(beginUpload(s))
  /\ \A o \in Operations : WF_vars(backoffOver(o))

-----------------------------------------------------------------------------
(* Properties.                                                             *)

\* Every variable has its type; no row counts more than the permitted attempts.
TypeOK ==
  /\ session \in {"fresh", "stale", "none"}
  /\ row \in [Operations -> [status : RowStatus, attempts : 0 .. MaxAttempts,
                             waiting : BOOLEAN]]
  /\ files \subseteq captured /\ captured \subseteq Operations
  /\ sync \in [Syncs -> [pc : {"idle", "begin", "intent", "put", "confirm", "analyze"},
                         todo : SUBSET Operations,
                         read : [Operations -> 0 .. MaxAttempts]]]
  /\ \A s \in Syncs : sync[s].pc = "idle" <=> sync[s].todo = {}
  /\ finalized \in BOOLEAN /\ objects \subseteq Operations
  /\ photos \in [Operations -> Nat]
  /\ abandoned \subseteq Operations

\* docs/security.md: "Stable mobile operation IDs, checksums, and idempotent upload
\* confirmation".  However often synchronisations overlap, answers are lost and the app is
\* killed, a capture becomes one photo.
PhotoOnce == \A o \in Operations : photos[o] <= 1

\* What the device calls uploaded is on the server, and no photo of the server lacks its
\* image: the order of put, confirm and update survives every retry.
UploadedIsStored ==
  \A o \in Operations :
    /\ row[o].status = "uploaded" => photos[o] > 0
    /\ photos[o] > 0 => o \in objects

\* A capture that is queued is uploaded, removed, or shown as blocked, unless nobody is signed
\* in or the app was killed in its last attempt: such an operation is neither retried nor
\* blocked.
UploadsSettle ==
  \A o \in Operations :
    row[o].status \in {"queued", "failed", "uploading", "confirming"}
      ~> \/ row[o].status \in {"none", "uploaded", "blocked"}
         \/ session = "none" \/ o \in abandoned
=============================================================================
