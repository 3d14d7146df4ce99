------------------------ MODULE ImageAnalysisProofs -------------------------
(***************************************************************************)
(* Proofs about ImageAnalysis, for any photos, requests, keys and workers. *)
(***************************************************************************)
EXTENDS ImageAnalysis, FiniteSetTheorems, TLAPS

\* The queue's bookkeeping: a message not yet sent has not been received, one that can be
\* received may be, and it carries one job per photo.
QueueInv ==
  /\ \A m \in Requests :
       /\ messages[m].state = "none" => messages[m].receives = 0
       /\ messages[m].state = "visible" => messages[m].receives < MaxReceive
       /\ api[m].pc \in {"idle", "loaded", "send"} => messages[m].state = "none"
       /\ \A i, j \in messages[m].jobs : PhotoOf(i) = PhotoOf(j) => i = j
  /\ \A w \in Workers : worker[w].pc # "idle" =>
       worker[w].msg \in Requests /\ messages[worker[w].msg].state # "none"

\* A run only adds analyses.
Grown == \A w \in Workers, j \in Jobs :
           worker[w].pc = "running" => worker[w].view.analyses[j] <= worker[w].image.analyses[j]

MessageType == [state : {"none", "visible", "inflight", "deleted", "dead"},
                jobs : SUBSET Jobs, receives : 0 .. MaxReceive]

WorkerType == [pc : {"idle", "waiting", "running", "committed"}, msg : Requests \cup {None},
               view : Images, image : Images, reserved : SUBSET Jobs]

TypeInv == TypeOK /\ QueueInv /\ Grown

-----------------------------------------------------------------------------
(* The handlers return rows of the schema.                                 *)

LEMMA NoRowsType == NoRows \in Images
BY DEF NoRows, Images, NoJob, JobRows, AnalysisStatus, JobStatus, JobKey

LEMMA PhotoOfType == \A j \in Jobs : PhotoOf(j) \in Photos
BY DEF Jobs, PhotoOf

LEMMA StartedType ==
  ASSUME NEW rows \in Images, NEW jobs
  PROVE  /\ Started(rows, jobs) \in Images
         /\ Started(rows, jobs).analyses = rows.analyses
<1> DEFINE js == [j \in Jobs |-> IF j \in jobs
                    THEN [status |-> "running", attempts |-> rows.jobs[j].attempts + 1,
                          key |-> rows.jobs[j].key]
                    ELSE rows.jobs[j]]
           ps == [p \in Photos |-> IF \E j \in jobs : PhotoOf(j) = p
                                     THEN "pending" ELSE rows.photos[p]]
<1>1. js \in [Jobs -> JobRows]
  BY DEF Images, JobRows, JobStatus
<1>2. ps \in [Photos -> AnalysisStatus]
  BY DEF Images, AnalysisStatus
<1>3. Started(rows, jobs) = [rows EXCEPT !.jobs = js, !.photos = ps]
  BY DEF Started
<1> QED  BY <1>1, <1>2, <1>3 DEF Images

LEMMA SavedAnalysisType ==
  ASSUME NEW rows \in Images, NEW j \in Jobs
  PROVE  /\ SavedAnalysis(rows, j) \in Images
         /\ \A i \in Jobs : rows.analyses[i] <= SavedAnalysis(rows, j).analyses[i]
<1> DEFINE js == [rows.jobs EXCEPT ![j].status = "completed"]
           ps == [rows.photos EXCEPT ![PhotoOf(j)] = "completed"]
           as == [rows.analyses EXCEPT ![j] = @ + 1]
<1>1. js \in [Jobs -> JobRows]
  BY DEF Images, JobRows, JobStatus
<1>2. ps \in [Photos -> AnalysisStatus]
  BY PhotoOfType DEF Images, AnalysisStatus
<1>3. as \in [Jobs -> Nat] /\ \A i \in Jobs : rows.analyses[i] <= as[i]
  BY DEF Images
<1>4. \/ SavedAnalysis(rows, j) = [rows EXCEPT !.jobs = js]
      \/ SavedAnalysis(rows, j) = [rows EXCEPT !.jobs = js, !.photos = ps, !.analyses = as]
  BY DEF SavedAnalysis, Images
<1>5. [rows EXCEPT !.jobs = js] \in Images
  BY <1>1 DEF Images
<1>7. \A i \in Jobs : rows.analyses[i] \in Nat
  BY DEF Images
<1> HIDE DEF js, ps, as
<1>6. [rows EXCEPT !.jobs = js, !.photos = ps, !.analyses = as] \in Images
  BY <1>1, <1>2, <1>3 DEF Images
<1>8. [rows EXCEPT !.jobs = js].analyses = rows.analyses
  BY DEF Images
<1>9. [rows EXCEPT !.jobs = js, !.photos = ps, !.analyses = as].analyses = as
  BY DEF Images
<1>10. CASE SavedAnalysis(rows, j) = [rows EXCEPT !.jobs = js]
  BY <1>5, <1>7, <1>8, <1>10
<1>11. CASE SavedAnalysis(rows, j) = [rows EXCEPT !.jobs = js, !.photos = ps, !.analyses = as]
  BY <1>3, <1>6, <1>9, <1>11
<1> QED  BY <1>4, <1>10, <1>11

LEMMA FailedType ==
  ASSUME NEW rows \in Images, NEW j \in Jobs
  PROVE  /\ Failed(rows, j) \in Images
         /\ Failed(rows, j).analyses = rows.analyses
<1> DEFINE status == IF rows.jobs[j].attempts >= 3 THEN "dead_letter" ELSE "failed"
           js == [rows.jobs EXCEPT ![j].status = status]
           ps == [rows.photos EXCEPT ![PhotoOf(j)] = "failed"]
<1>1. js \in [Jobs -> JobRows]
  <2>1. status \in JobStatus
    BY DEF JobStatus
  <2> HIDE DEF status
  <2> QED  BY <2>1 DEF Images, JobRows
<1>2. ps \in [Photos -> AnalysisStatus]
  BY PhotoOfType DEF Images, AnalysisStatus
<1>3. Failed(rows, j) = [rows EXCEPT !.jobs = js, !.photos = ps]
  BY DEF Failed, Images
<1> QED  BY <1>1, <1>2, <1>3 DEF Images

LEMMA EnqueuedType ==
  ASSUME NEW rows \in Images, NEW new,
         \A j \in DOMAIN new : new[j] \in JobKey
  PROVE  /\ Enqueued(rows, new) \in Images
         /\ Enqueued(rows, new).analyses = rows.analyses
BY DEF Images, JobRows, Enqueued, AnalysisStatus, JobStatus

LEMMA MergedType ==
  ASSUME db \in Images, NEW image \in Images, NEW view \in Images,
         \A j \in Jobs : view.analyses[j] <= image.analyses[j]
  PROVE  Merged(image, view) \in Images
<1> DEFINE js == [j \in Jobs |-> IF j \in Written(image, view)
                                   THEN image.jobs[j] ELSE db.jobs[j]]
           ps == [p \in Photos |-> IF p \in Written(image, view)
                                     THEN image.photos[p] ELSE db.photos[p]]
           as == [j \in Jobs |-> db.analyses[j] + (image.analyses[j] - view.analyses[j])]
<1>1. js \in [Jobs -> JobRows] /\ ps \in [Photos -> AnalysisStatus]
  BY DEF Images
<1>2. as \in [Jobs -> Nat]
  <2> SUFFICES ASSUME NEW j \in Jobs
               PROVE  db.analyses[j] + (image.analyses[j] - view.analyses[j]) \in Nat
    OBVIOUS
  <2>1. db.analyses[j] \in Nat /\ image.analyses[j] \in Nat /\ view.analyses[j] \in Nat
    BY DEF Images
  <2> QED  BY <2>1
<1>3. Merged(image, view) = [db EXCEPT !.photos = ps, !.jobs = js, !.analyses = as]
  BY DEF Merged
<1> HIDE DEF js, ps, as
<1> QED  BY <1>1, <1>2, <1>3 DEF Images

-----------------------------------------------------------------------------
(* What a save does.                                                       *)

\* Enqueueing adds new jobs of the request, and sends one job per photo, known by then.
LEMMA EnqueueShape ==
  ASSUME NEW q \in Requests, NEW key, NEW sendAll,
         DOMAIN key \subseteq Photos, \A p \in DOMAIN key : key[p] \in JobKey,
         Enqueue(q, key, sendAll)
  PROVE  \E new, toSend :
           /\ DOMAIN new \subseteq { j \in Jobs : j[1] = q }
           /\ \A j \in DOMAIN new : new[j] \in JobKey /\ api[q].view.jobs[j].status = "none"
           /\ toSend \subseteq Jobs
           /\ \A i, j \in toSend : PhotoOf(i) = PhotoOf(j) => i = j
           /\ \A j \in toSend : j \in DOMAIN new \/ api[q].view.jobs[j].status # "none"
           /\ Save(q, Enqueued(api[q].view, new))
           /\ \/ Done(q) /\ UNCHANGED messages
              \/ /\ api' = [api EXCEPT ![q] = [pc |-> "send", view |-> NoRows]]
                 /\ messages' = [messages EXCEPT ![q].jobs = toSend]
<1> DEFINE Found(p) == Reusable(api[q].view, p, key[p])
<1>1. PICK job \in { f \in [DOMAIN key -> Jobs] :
                       \A p \in DOMAIN key :
                         f[p] \in IF Found(p) = {} THEN {<<q, p>>} ELSE Found(p) } :
        LET all    == { job[p] : p \in DOMAIN key }
            new    == { j \in all : api[q].view.jobs[j].status = "none" }
            image  == Enqueued(api[q].view, [j \in new |-> key[PhotoOf(j)]])
            toSend == { j \in all : sendAll \/ image.jobs[j].status = "queued" }
        IN /\ Save(q, image)
           /\ IF toSend = {}
                THEN Done(q) /\ UNCHANGED messages
                ELSE /\ api' = [api EXCEPT ![q] = [pc |-> "send", view |-> NoRows]]
                     /\ messages' = [messages EXCEPT ![q].jobs = toSend]
  BY DEF Enqueue
<1> DEFINE all    == { job[p] : p \in DOMAIN key }
           news   == { j \in all : api[q].view.jobs[j].status = "none" }
           new    == [j \in news |-> key[PhotoOf(j)]]
           toSend == { j \in all : sendAll
                                     \/ Enqueued(api[q].view, new).jobs[j].status = "queued" }
<1>2. \A p \in DOMAIN key : job[p] \in Jobs /\ PhotoOf(job[p]) = p
  <2> SUFFICES ASSUME NEW p \in DOMAIN key
               PROVE  job[p] \in Jobs /\ PhotoOf(job[p]) = p
    OBVIOUS
  <2>1. job[p] \in Found(p) \/ job[p] = <<q, p>>
    BY <1>1
  <2>2. job[p] \in Jobs
    BY <1>1
  <2> QED  BY <2>1, <2>2 DEF Reusable, PhotoOf
<1>3. \A p \in DOMAIN key : api[q].view.jobs[job[p]].status = "none" => job[p] = <<q, p>>
  BY <1>1 DEF Reusable
<1>4. \A j \in news : j \in Jobs /\ j[1] = q /\ PhotoOf(j) \in DOMAIN key
  BY <1>2, <1>3
<1>5. \A i, j \in all : PhotoOf(i) = PhotoOf(j) => i = j
  BY <1>2
<1>6. /\ Save(q, Enqueued(api[q].view, new))
      /\ \/ Done(q) /\ UNCHANGED messages
         \/ /\ api' = [api EXCEPT ![q] = [pc |-> "send", view |-> NoRows]]
            /\ messages' = [messages EXCEPT ![q].jobs = toSend]
  BY <1>1
<1>7. DOMAIN new = news /\ toSend \subseteq all /\ all \subseteq Jobs
  BY <1>2
<1>8. \A j \in DOMAIN new : new[j] \in JobKey /\ api[q].view.jobs[j].status = "none"
  BY <1>4
<1>9. \A j \in toSend : j \in DOMAIN new \/ api[q].view.jobs[j].status # "none"
  BY <1>7
<1>10. DOMAIN new \subseteq { j \in Jobs : j[1] = q }
  BY <1>4, <1>7
<1>11. \A i, j \in toSend : PhotoOf(i) = PhotoOf(j) => i = j
  BY <1>5, <1>7
<1> HIDE DEF new, toSend, all, news
<1> QED  BY <1>6, <1>7, <1>8, <1>9, <1>10, <1>11

\* A save of rows with the analyses that were loaded keeps the types.
LEMMA SaveType ==
  ASSUME TypeOK, NEW q \in Requests, NEW image \in Images,
         image.analyses = api[q].view.analyses, Save(q, image)
  PROVE  /\ db' \in Images
         /\ dirty' \in [Workers -> SUBSET (Photos \cup Jobs)]
         /\ UNCHANGED << worker, lock, reservations, usage >>
<1>1. api[q].view \in Images
  BY DEF TypeOK
<1>2. \A j \in Jobs : api[q].view.analyses[j] \in Nat
  BY <1>1 DEF Images
<1>3. db' \in Images
  BY <1>1, <1>2, MergedType DEF Save, TypeOK
<1>4. Written(image, api[q].view) \subseteq Photos \cup Jobs
  BY DEF Written
<1>5. dirty' \in [Workers -> SUBSET (Photos \cup Jobs)]
  BY <1>4 DEF Save, Overtake, TypeOK
<1> QED  BY <1>3, <1>5 DEF Save, guardVars

-----------------------------------------------------------------------------
(* Type correctness.                                                       *)

LEMMA TypeInit == Init => TypeInv
<1> SUFFICES ASSUME Init PROVE TypeInv
  OBVIOUS
<1>1. TypeOK
  BY NoRowsType, ImageAssumption DEF Init, TypeOK, NoWork, GuardInit
<1>2. QueueInv /\ Grown
  BY ImageAssumption DEF Init, QueueInv, Grown, NoWork
<1> QED  BY <1>1, <1>2 DEF TypeInv

LEMMA TypeApi ==
  ASSUME TypeInv, NEW q \in Requests, apiStep(q)
  PROVE  TypeInv'
<1> USE DEF TypeInv
<1>1. CASE load(q)
  <2>1. TypeOK'
    BY <1>1 DEF load, TypeOK, guardVars
  <2> QED  BY <1>1, <2>1 DEF load, QueueInv, Grown, guardVars, TypeOK
<1>2. ASSUME NEW key, NEW sendAll, api[q].pc = "loaded",
             DOMAIN key \subseteq Photos, \A p \in DOMAIN key : key[p] \in JobKey,
             Enqueue(q, key, sendAll)
      PROVE  TypeInv'
  <2>1. PICK new, toSend :
           /\ DOMAIN new \subseteq { j \in Jobs : j[1] = q }
           /\ \A j \in DOMAIN new : new[j] \in JobKey /\ api[q].view.jobs[j].status = "none"
           /\ toSend \subseteq Jobs
           /\ \A i, j \in toSend : PhotoOf(i) = PhotoOf(j) => i = j
           /\ \A j \in toSend : j \in DOMAIN new \/ api[q].view.jobs[j].status # "none"
           /\ Save(q, Enqueued(api[q].view, new))
           /\ \/ Done(q) /\ UNCHANGED messages
              \/ /\ api' = [api EXCEPT ![q] = [pc |-> "send", view |-> NoRows]]
                 /\ messages' = [messages EXCEPT ![q].jobs = toSend]
    BY <1>2, EnqueueShape
  <2>2. api[q].view \in Images
    BY DEF TypeOK
  <2>3. /\ Enqueued(api[q].view, new) \in Images
        /\ Enqueued(api[q].view, new).analyses = api[q].view.analyses
    BY <2>1, <2>2, EnqueuedType
  <2>4. /\ db' \in Images
        /\ dirty' \in [Workers -> SUBSET (Photos \cup Jobs)]
        /\ UNCHANGED << worker, lock, reservations, usage >>
    BY <2>1, <2>3, SaveType
  <2>5. /\ messages' \in [Requests -> MessageType]
        /\ \A m \in Requests :
             /\ messages'[m].state = messages[m].state
             /\ messages'[m].receives = messages[m].receives
             /\ messages'[m].jobs = messages[m].jobs \/ messages'[m].jobs = toSend
    <3>1. messages \in [Requests -> MessageType]
      BY DEF TypeOK, MessageType
    <3>2. CASE UNCHANGED messages
      BY <3>1, <3>2
    <3>3. CASE messages' = [messages EXCEPT ![q].jobs = toSend]
      BY <2>1, <3>1, <3>3 DEF MessageType
    <3> QED  BY <2>1, <3>2, <3>3
  <2>6. /\ api' \in [Requests -> [pc : {"idle", "loaded", "send", "done"}, view : Images]]
        /\ \A m \in Requests \ {q} : api'[m] = api[m]
    BY <2>1, NoRowsType DEF TypeOK, Done
  <2>7. TypeOK'
    BY <2>4, <2>5, <2>6 DEF TypeOK, MessageType
  <2>8. QueueInv'
    BY <1>2, <2>1, <2>4, <2>5, <2>6 DEF QueueInv
  <2> QED  BY <2>4, <2>7, <2>8 DEF Grown
<1>3. ASSUME NEW k \in Keys \cup {NoKey, Forced}, analyzePhotos(q, k)
      PROVE  TypeInv'
  <2> DEFINE ps  == { p \in Photos : k = Forced \/ api[q].view.photos[p] # "completed" }
             key == [p \in ps |-> IF k \in Keys THEN <<k, p>> ELSE k]
  <2>1. api[q].pc = "loaded" /\ Enqueue(q, key, FALSE)
    BY <1>3 DEF analyzePhotos
  <2>2. DOMAIN key \subseteq Photos /\ \A p \in DOMAIN key : key[p] \in JobKey
    BY DEF JobKey
  <2> QED  BY <2>1, <2>2, <1>2
<1>4. ASSUME NEW k \in Keys \cup {NoKey, Forced}, NEW p \in Photos, analyzePhoto(q, p, k)
      PROVE  TypeInv'
  <2>1. api[q].pc = "loaded" /\ Enqueue(q, [x \in {p} |-> k], TRUE)
    BY <1>4 DEF analyzePhoto
  <2>2. DOMAIN [x \in {p} |-> k] \subseteq Photos
        /\ \A x \in DOMAIN [y \in {p} |-> k] : [y \in {p} |-> k][x] \in JobKey
    BY DEF JobKey
  <2> QED  BY <2>1, <2>2, <1>2
<1>5. CASE recoverFailedJobs(q)
  <2> DEFINE rows == api[q].view
             recoverable == { j \in Jobs : rows.jobs[j].status \in {"failed", "dead_letter"} }
             js == [j \in Jobs |-> IF j \in recoverable
                      THEN [rows.jobs[j] EXCEPT !.status = "queued"] ELSE rows.jobs[j]]
             ps == [p \in Photos |-> IF \E j \in recoverable : PhotoOf(j) = p
                                       THEN "pending" ELSE rows.photos[p]]
             image == [rows EXCEPT !.jobs = js, !.photos = ps]
  <2>1. /\ api[q].pc = "loaded"
        /\ Save(q, image) /\ Done(q) /\ UNCHANGED messages
    BY <1>5 DEF recoverFailedJobs
  <2>2. rows \in Images
    BY DEF TypeOK
  <2>3. js \in [Jobs -> JobRows] /\ ps \in [Photos -> AnalysisStatus]
    BY <2>2 DEF Images, JobRows, JobStatus, AnalysisStatus
  <2>4. image \in Images /\ image.analyses = rows.analyses
    BY <2>2, <2>3 DEF Images
  <2> HIDE DEF image
  <2>5. /\ db' \in Images
        /\ dirty' \in [Workers -> SUBSET (Photos \cup Jobs)]
        /\ UNCHANGED << worker, lock, reservations, usage >>
    BY <2>1, <2>4, SaveType
  <2>6. TypeOK'
    BY <2>1, <2>5, NoRowsType DEF TypeOK, Done
  <2> QED  BY <2>1, <2>5, <2>6 DEF QueueInv, Grown, Done, TypeOK
<1>6. CASE sendMessage(q)
  <2>3. messages' \in [Requests -> MessageType]
    BY <1>6 DEF sendMessage, TypeOK, MessageType
  <2>4. api' \in [Requests -> [pc : {"idle", "loaded", "send", "done"}, view : Images]]
    BY <1>6, NoRowsType DEF sendMessage, Done, TypeOK
  <2>1. TypeOK'
    BY <1>6, <2>3, <2>4 DEF sendMessage, TypeOK, MessageType, guardVars
  <2>2. messages[q].receives = 0
    BY <1>6 DEF sendMessage, QueueInv
  <2> QED  BY <1>6, <2>1, <2>2, ImageAssumption
           DEF sendMessage, Done, QueueInv, Grown, TypeOK, guardVars
<1>7. CASE giveUp(q)
  <2>1. TypeOK'
    BY <1>7, NoRowsType DEF giveUp, Done, TypeOK, guardVars
  <2> QED  BY <1>7, <2>1 DEF giveUp, Done, QueueInv, Grown, TypeOK, guardVars
<1> QED  BY <1>1, <1>3, <1>4, <1>5, <1>6, <1>7 DEF apiStep

LEMMA NoWorkType == NoWork \in WorkerType
BY NoRowsType DEF NoWork, WorkerType

\* What a worker's step may do to the types: one worker changes, the lock goes with it.
LEMMA TypeWorker ==
  ASSUME TypeInv, NEW w \in Workers, workerStep(w) \/ workerFails(w)
  PROVE  TypeInv'
<1> USE DEF TypeInv
<1> USE NoWorkType, ImageAssumption
<1>0. /\ db \in Images /\ worker \in [Workers -> WorkerType]
      /\ messages \in [Requests -> MessageType]
      /\ worker[w].view \in Images /\ worker[w].image \in Images
  BY DEF TypeOK, WorkerType, MessageType
<1>1. ASSUME NEW m \in Requests, receive(w, m)
      PROVE  TypeInv'
  <2>1. worker[w].pc = "idle" /\ messages[m].state = "visible"
    BY <1>1 DEF receive
  <2>2. messages[m].receives + 1 \in 0 .. MaxReceive
    BY <2>1, <1>0 DEF QueueInv, MessageType
  <2>3. messages' \in [Requests -> MessageType]
    BY <1>0, <1>1, <2>2 DEF receive, MessageType
  <2>4. worker' \in [Workers -> WorkerType] /\ worker'[w].pc = "waiting" /\ worker'[w].msg = m
    BY <1>0, <1>1, NoRowsType DEF receive, WorkerType
  <2>5. \A u \in Workers \ {w} : worker'[u] = worker[u]
    BY <1>1 DEF receive, TypeOK
  <2>6. TypeOK'
    BY <1>1, <2>1, <2>3, <2>4, <2>5 DEF receive, TypeOK, MessageType, WorkerType, guardVars
  <2>7. QueueInv'
    BY <1>0, <1>1, <2>2, <2>4, <2>5 DEF receive, QueueInv, MessageType
  <2>8. Grown'
    BY <2>4, <2>5 DEF Grown
  <2> QED  BY <2>6, <2>7, <2>8
<1>2. CASE startJobs(w)
  <2>1. /\ Started(worker[w].view, JobsOf(w)) \in Images
        /\ Started(worker[w].view, JobsOf(w)).analyses = worker[w].view.analyses
    BY <1>0, StartedType
  <2>2. worker' = [worker EXCEPT ![w] = [worker[w] EXCEPT
                     !.pc = "running", !.image = Started(worker[w].view, JobsOf(w))]]
    BY <1>0, <1>2 DEF startJobs, WorkerType
  <2>3. /\ worker' \in [Workers -> WorkerType]
        /\ worker'[w].pc = "running" /\ worker'[w].msg = worker[w].msg
        /\ worker'[w].view = worker[w].view
        /\ worker'[w].image = Started(worker[w].view, JobsOf(w))
    BY <1>0, <2>1, <2>2 DEF WorkerType
  <2>4. \A u \in Workers \ {w} : worker'[u] = worker[u]
    BY <1>0, <2>2
  <2>5. TypeOK'
    BY <1>2, <2>3, <2>4 DEF startJobs, TypeOK, WorkerType, guardVars
  <2>6. QueueInv'
    BY <1>2, <2>3, <2>4 DEF startJobs, QueueInv
  <2>7. Grown'
    <3>1. \A j \in Jobs : worker[w].view.analyses[j] \in Nat
      BY <1>0 DEF Images
    <3> QED  BY <2>1, <2>3, <2>4, <3>1 DEF Grown
  <2> QED  BY <2>5, <2>6, <2>7
<1>3. ASSUME NEW j \in Jobs, worker[w].pc = "running", reserveUsage(w, j) \/ analyze(w, j)
      PROVE  TypeInv'
  <2>1. /\ lock = w /\ UNCHANGED << db, api, messages, dirty, lock >>
        /\ reservations' \subseteq Jobs \cup JobKey /\ usage' \in Nat
    <3>1. ReservationKey(worker[w].image, j) \in Jobs \cup JobKey
      BY <1>0 DEF ReservationKey, Images, JobRows
    <3> QED  BY <1>3, <3>1 DEF reserveUsage, analyze, TypeOK, guardVars, reserve, Grant,
                               costGuardReached, reserveFails
  <2>2. PICK r \in SUBSET Jobs, i \in {worker[w].image, Failed(worker[w].image, j),
                                      SavedAnalysis(worker[w].image, j)} :
          worker' = [worker EXCEPT ![w] = [worker[w] EXCEPT !.reserved = r, !.image = i]]
    <3>1. \/ worker' = [worker EXCEPT ![w].reserved = @ \cup {j}]
          \/ worker' = [worker EXCEPT ![w].image = Failed(@, j)]
          \/ worker' = [worker EXCEPT ![w].image = SavedAnalysis(@, j)]
      BY <1>3 DEF reserveUsage, analyze
    <3>2. worker[w] = [worker[w] EXCEPT !.reserved = worker[w].reserved,
                                        !.image = worker[w].image]
          /\ worker[w].reserved \in SUBSET Jobs
      BY <1>0 DEF WorkerType
    <3>3. CASE worker' = [worker EXCEPT ![w].reserved = @ \cup {j}]
      <4>1. worker[w].reserved \cup {j} \in SUBSET Jobs
        BY <3>2
      <4>2. [worker[w] EXCEPT !.reserved = worker[w].reserved \cup {j}]
              = [worker[w] EXCEPT !.reserved = worker[w].reserved \cup {j},
                                  !.image = worker[w].image]
        BY <1>0 DEF WorkerType
      <4> QED  BY <3>3, <4>1, <4>2
    <3>4. ASSUME NEW i \in {Failed(worker[w].image, j), SavedAnalysis(worker[w].image, j)},
                 worker' = [worker EXCEPT ![w] = [worker[w] EXCEPT !.image = i]]
          PROVE  worker' = [worker EXCEPT ![w] = [worker[w] EXCEPT
                              !.reserved = worker[w].reserved, !.image = i]]
      <4>1. [worker[w] EXCEPT !.image = i]
              = [worker[w] EXCEPT !.reserved = worker[w].reserved, !.image = i]
        BY <1>0 DEF WorkerType
      <4> QED  BY <3>4, <4>1
    <3> QED  BY <3>1, <3>2, <3>3, <3>4
  <2>3. /\ worker' \in [Workers -> WorkerType]
        /\ worker'[w].pc = "running" /\ worker'[w].msg = worker[w].msg
        /\ worker'[w].view = worker[w].view
        /\ worker'[w].image \in {worker[w].image, Failed(worker[w].image, j),
                                 SavedAnalysis(worker[w].image, j)}
    <3>1. i \in Images
      BY <1>0, FailedType, SavedAnalysisType
    <3>2. [worker[w] EXCEPT !.reserved = r, !.image = i] \in WorkerType
      BY <1>0, <3>1 DEF WorkerType
    <3>3. /\ [worker[w] EXCEPT !.reserved = r, !.image = i].pc = "running"
          /\ [worker[w] EXCEPT !.reserved = r, !.image = i].msg = worker[w].msg
          /\ [worker[w] EXCEPT !.reserved = r, !.image = i].view = worker[w].view
          /\ [worker[w] EXCEPT !.reserved = r, !.image = i].image = i
      BY <1>0, <1>3 DEF WorkerType
    <3> QED  BY <1>0, <2>2, <3>2, <3>3
  <2>4. \A u \in Workers \ {w} : worker'[u] = worker[u]
    BY <1>0, <2>2
  <2>5. TypeOK'
    BY <1>3, <2>1, <2>3, <2>4 DEF TypeOK, WorkerType
  <2>6. QueueInv'
    BY <1>3, <2>1, <2>3, <2>4 DEF QueueInv
  <2>7. /\ \A k \in Jobs : worker[w].image.analyses[k] <= worker'[w].image.analyses[k]
        /\ worker'[w].image \in Images
    <3>1. \A k \in Jobs : worker[w].image.analyses[k] \in Nat
      BY <1>0 DEF Images
    <3>2. CASE worker'[w].image = worker[w].image
      BY <1>0, <3>1, <3>2
    <3>3. CASE worker'[w].image = Failed(worker[w].image, j)
      BY <1>0, <3>1, <3>3, FailedType
    <3>4. CASE worker'[w].image = SavedAnalysis(worker[w].image, j)
      BY <1>0, <3>4, SavedAnalysisType
    <3> QED  BY <2>3, <3>2, <3>3, <3>4
  <2>8. Grown'
    <3>1. \A k \in Jobs : /\ worker[w].view.analyses[k] \in Nat
                          /\ worker[w].image.analyses[k] \in Nat
                          /\ worker'[w].image.analyses[k] \in Nat
      BY <1>0, <2>7 DEF Images
    <3> QED  BY <1>3, <2>3, <2>4, <2>7, <3>1 DEF Grown
  <2> QED  BY <2>5, <2>6, <2>8
<1>4. CASE commit(w)
  <2> DEFINE rows == Written(worker[w].image, worker[w].view)
             work == [NoWork EXCEPT !.pc = "committed", !.msg = worker[w].msg]
  <2>1. worker[w].pc = "running" /\ lock = w /\ UNCHANGED << api, messages, reservations, usage >>
    BY <1>4 DEF commit, TypeOK, guardVars
  <2>2. /\ lock' = None
        /\ worker' = [worker EXCEPT ![w] = NoWork] \/ worker' = [worker EXCEPT ![w] = work]
        /\ UNCHANGED db \/ db' = Merged(worker[w].image, worker[w].view)
    BY <1>4, <2>1 DEF commit, Idle
  <2>3. \A j \in Jobs : worker[w].view.analyses[j] <= worker[w].image.analyses[j]
    BY <2>1 DEF Grown
  <2>4. db' \in Images
    BY <1>0, <2>2, <2>3, MergedType
  <2>5. dirty' \in [Workers -> SUBSET (Photos \cup Jobs)]
    <3>1. rows \subseteq Photos \cup Jobs
      BY DEF Written
    <3> HIDE DEF rows
    <3>2. \/ dirty' = [dirty EXCEPT ![w] = {}]
          \/ Overtake(rows, Waiting \ {w})
      BY <1>4 DEF commit, rows
    <3> QED  BY <3>1, <3>2 DEF Overtake, TypeOK
  <2>6. /\ worker' \in [Workers -> WorkerType]
        /\ worker'[w].pc \in {"idle", "committed"}
        /\ worker'[w].pc = "committed" => worker'[w].msg = worker[w].msg
    <3>1. worker[w].msg \in Requests
      BY <2>1 DEF QueueInv
    <3>2. work \in WorkerType /\ work.pc = "committed" /\ work.msg = worker[w].msg
      BY <3>1, NoRowsType DEF WorkerType, NoWork
    <3>3. NoWork.pc = "idle"
      BY DEF NoWork
    <3> HIDE DEF work
    <3> QED  BY <1>0, <2>2, <3>2, <3>3
  <2>7. \A u \in Workers \ {w} : worker'[u] = worker[u]
    BY <1>0, <2>2
  <2>8. TypeOK'
    BY <2>1, <2>2, <2>4, <2>5, <2>6, <2>7 DEF TypeOK, WorkerType
  <2>9. QueueInv'
    BY <2>1, <2>6, <2>7 DEF QueueInv
  <2>10. Grown'
    BY <2>6, <2>7 DEF Grown
  <2> QED  BY <2>8, <2>9, <2>10
<1>5. CASE startRefused(w) \/ finish(w) \/ workerFails(w)
  <2>1. /\ Idle(w) /\ worker[w].pc # "idle" /\ UNCHANGED << db, api, reservations, usage >>
        /\ dirty' = dirty \/ dirty' = [dirty EXCEPT ![w] = {}]
    BY <1>5 DEF startRefused, finish, workerFails, guardVars
  <2>2. /\ worker' \in [Workers -> WorkerType] /\ worker'[w].pc = "idle"
        /\ \A u \in Workers \ {w} : worker'[u] = worker[u]
        /\ lock' = IF lock = w THEN None ELSE lock
    BY <1>0, <2>1 DEF Idle, NoWork
  <2>3. /\ messages' \in [Requests -> MessageType]
        /\ \A m \in Requests :
             /\ messages'[m].jobs = messages[m].jobs
             /\ messages'[m].receives = messages[m].receives
             /\ messages'[m].state \in {messages[m].state, "deleted"}
             /\ messages[m].state = "none" => messages'[m].state = "none"
    <3>1. CASE UNCHANGED messages
      BY <1>0, <3>1
    <3>2. CASE messages' = [messages EXCEPT ![worker[w].msg].state = "deleted"]
      <4>1. worker[w].msg \in Requests /\ messages[worker[w].msg].state # "none"
        BY <2>1 DEF QueueInv
      <4> QED  BY <1>0, <3>2, <4>1 DEF MessageType
    <3> QED  BY <1>5, <3>1, <3>2 DEF startRefused, finish, workerFails
  <2>4. TypeOK'
    BY <2>1, <2>2, <2>3 DEF TypeOK, MessageType, WorkerType
  <2>5. QueueInv' /\ Grown'
    BY <2>1, <2>2, <2>3 DEF QueueInv, Grown
  <2> QED  BY <2>4, <2>5
<1> QED  BY <1>1, <1>2, <1>3, <1>4, <1>5 DEF workerStep

LEMMA TypeQueue ==
  ASSUME TypeInv, NEW m \in Requests,
         visibilityTimeout(m) \/ duplicateDelivery(m)
  PROVE  TypeInv'
<1> USE DEF TypeInv
<1>0. messages \in [Requests -> MessageType]
  BY DEF TypeOK, MessageType
<1>1. PICK s \in {"visible", "dead"} :
        /\ messages' = [messages EXCEPT ![m].state = s]
        /\ s = "visible" => messages[m].receives < MaxReceive
  BY DEF visibilityTimeout, duplicateDelivery
<1>2. /\ messages[m].state = "inflight"
      /\ UNCHANGED << db, api, worker, dirty, lock, reservations, usage >>
  BY DEF visibilityTimeout, duplicateDelivery, guardVars
<1>3. /\ messages' \in [Requests -> MessageType]
      /\ messages'[m].state = s /\ messages'[m].receives = messages[m].receives
      /\ messages'[m].jobs = messages[m].jobs
      /\ \A n \in Requests \ {m} : messages'[n] = messages[n]
  BY <1>0, <1>1 DEF MessageType
<1>4. TypeOK'
  BY <1>2, <1>3 DEF TypeOK, MessageType
<1>5. QueueInv'
  BY <1>1, <1>2, <1>3 DEF QueueInv
<1> QED  BY <1>2, <1>4, <1>5 DEF Grown

LEMMA TypeStep == TypeInv /\ [Next]_vars => TypeInv'
<1> SUFFICES ASSUME TypeInv, [Next]_vars PROVE TypeInv'
  OBVIOUS
<1>1. CASE UNCHANGED vars
  BY <1>1 DEF vars, TypeInv, TypeOK, QueueInv, Grown
<1>2. ASSUME finalizeReport PROVE TypeInv'
  <2>1. db \in Images
    BY DEF TypeInv, TypeOK
  <2>2. db' \in Images
    BY <1>2, <2>1 DEF finalizeReport, Images
  <2> QED  BY <1>2, <2>2 DEF finalizeReport, TypeInv, TypeOK, QueueInv, Grown, guardVars
<1> QED  BY <1>1, <1>2, TypeApi, TypeWorker, TypeQueue DEF Next

\* Every reachable state has the types of the schema, and only the worker that runs jobs
\* holds the advisory lock.
THEOREM TypeCorrect == Spec => []TypeOK
<1>1. Spec => []TypeInv
  BY TypeInit, TypeStep, PTL DEF Spec
<1> QED  BY <1>1, PTL DEF TypeInv

-----------------------------------------------------------------------------
(* What the rows hold.                                                     *)

\* Rows that hang together: a job that is not there left nothing, one that has run counted it,
\* and what is called completed has an analysis of its photo.
Coherent(rows) ==
  /\ \A j \in Jobs :
       /\ rows.jobs[j].status = "none" => rows.jobs[j] = NoJob /\ rows.analyses[j] = 0
       /\ rows.jobs[j].status \notin {"none", "queued"} => rows.jobs[j].attempts > 0
       /\ rows.jobs[j].status = "completed" => Analyzed(rows, PhotoOf(j))
  /\ \A p \in Photos : rows.photos[p] = "completed" => Analyzed(rows, p)

\* later holds every job of earlier, under its key, and every analysis.
Outlives(earlier, later) ==
  \A j \in Jobs :
    /\ earlier.jobs[j].status # "none" =>
         later.jobs[j].status # "none" /\ later.jobs[j].key = earlier.jobs[j].key
    /\ earlier.analyses[j] <= later.analyses[j]

\* A step takes back no job, no run and no analysis.
Kept ==
  /\ Outlives(db, db')
  /\ \A j \in Jobs : db.jobs[j].attempts > 0 => db'.jobs[j].attempts > 0

\* What a process has loaded is an earlier state of the rows.
Loaded(view) == Coherent(view) /\ Outlives(view, db)

ViewsInv ==
  /\ Coherent(db)
  /\ \A q \in Requests : Loaded(api[q].view)
  /\ \A w \in Workers : Loaded(worker[w].view)

\* A request that has not saved has no jobs.
FreshInv ==
  \A q \in Requests : api[q].pc \in {"idle", "loaded"} =>
    \A p \in Photos : db.jobs[<<q, p>>].status = "none"

\* What a run of jobs has made of the rows it began with.  An analysis it has added is one, is
\* reserved, and is the photo's first unless the job was forced; the photo's row says so.
Run(image, view, jobs, reserved, spent) ==
  /\ Coherent(image)
  /\ \A j \in Jobs \ jobs :
       image.jobs[j] = view.jobs[j] /\ image.analyses[j] = view.analyses[j]
  /\ \A j \in jobs :
       /\ view.jobs[j].status # "none" /\ image.jobs[j].status \notin {"none", "queued"}
       /\ image.jobs[j].key = view.jobs[j].key
       /\ image.jobs[j].attempts = view.jobs[j].attempts + 1
       /\ image.analyses[j] # view.analyses[j] =>
            /\ image.analyses[j] = view.analyses[j] + 1
            /\ image.jobs[j].status = "completed"
            /\ image.photos[PhotoOf(j)] = "completed"
            /\ ReservationKey(image, j) \in spent
            /\ image.jobs[j].key # Forced => ~Analyzed(view, PhotoOf(j))
  /\ \A j \in reserved \cap jobs : ReservationKey(image, j) \in spent

RunInv ==
  \A w \in Workers :
    /\ worker[w].pc = "waiting" => worker[w].reserved = {}
    /\ worker[w].pc = "running" =>
         Run(worker[w].image, worker[w].view, JobsOf(w), worker[w].reserved,
             reservations)

\* A transaction whose view lacks the first analysis of a photo has the photo's row among those
\* that others have committed since.
DirtyInv ==
  \A w \in Waiting, p \in Photos :
    Analyzed(db, p) => p \in dirty[w] \/ Analyzed(worker[w].view, p)

\* The jobs of a message whose outcome is committed have run.
RanInv ==
  /\ \A w \in Workers : worker[w].pc = "committed" =>
       \A j \in JobsOf(w) : db.jobs[j].attempts > 0
  /\ DeletedWasRun

RowsInv == ViewsInv /\ FreshInv /\ RunInv /\ DirtyInv /\ RanInv

-----------------------------------------------------------------------------
(* The handlers on the rows, row by row.                                   *)

LEMMA ImagesFields ==
  ASSUME NEW rows \in Images
  PROVE  /\ rows.jobs \in [Jobs -> JobRows] /\ rows.photos \in [Photos -> AnalysisStatus]
         /\ \A j \in Jobs : /\ rows.jobs[j] \in JobRows /\ rows.analyses[j] \in Nat
                            /\ rows.jobs[j].attempts \in Nat
BY DEF Images, JobRows

LEMMA NoRowsLoaded == db \in Images => Loaded(NoRows)
BY ImagesFields DEF Loaded, Coherent, Outlives, NoRows, NoJob

\* A save replaces the rows it changes and adds the analyses.
LEMMA MergedRows ==
  ASSUME db \in Images, NEW image \in Images, NEW view \in Images
  PROVE  /\ \A j \in Jobs :
              /\ Merged(image, view).jobs[j] =
                   IF image.jobs[j] # view.jobs[j] THEN image.jobs[j] ELSE db.jobs[j]
              /\ Merged(image, view).analyses[j] =
                   db.analyses[j] + (image.analyses[j] - view.analyses[j])
         /\ \A p \in Photos :
              Merged(image, view).photos[p] =
                IF image.photos[p] # view.photos[p] THEN image.photos[p] ELSE db.photos[p]
<1>1. \A j \in Jobs : j \in Written(image, view) <=> image.jobs[j] # view.jobs[j]
  BY ImageAssumption DEF Written
<1>2. \A p \in Photos : p \in Written(image, view) <=> image.photos[p] # view.photos[p]
  BY ImageAssumption DEF Written
<1> DEFINE js == [j \in Jobs |-> IF j \in Written(image, view)
                                   THEN image.jobs[j] ELSE db.jobs[j]]
           ps == [p \in Photos |-> IF p \in Written(image, view)
                                     THEN image.photos[p] ELSE db.photos[p]]
           as == [j \in Jobs |-> db.analyses[j] + (image.analyses[j] - view.analyses[j])]
<1>3. Merged(image, view) = [db EXCEPT !.photos = ps, !.jobs = js, !.analyses = as]
  BY DEF Merged
<1>4. /\ Merged(image, view).jobs = js /\ Merged(image, view).photos = ps
      /\ Merged(image, view).analyses = as
  BY <1>3 DEF Images
<1> QED BY <1>1, <1>2, <1>4

LEMMA StartedRows ==
  ASSUME NEW rows \in Images, NEW jobs
  PROVE  /\ \A j \in Jobs \ jobs : Started(rows, jobs).jobs[j] = rows.jobs[j]
         /\ \A j \in Jobs \cap jobs :
              Started(rows, jobs).jobs[j] = [status |-> "running",
                                             attempts |-> rows.jobs[j].attempts + 1,
                                             key |-> rows.jobs[j].key]
         /\ \A p \in Photos : Started(rows, jobs).photos[p] \in {"pending", rows.photos[p]}
BY DEF Started, Images

LEMMA FailedRows ==
  ASSUME NEW rows \in Images, NEW j \in Jobs
  PROVE  /\ \A i \in Jobs \ {j} : Failed(rows, j).jobs[i] = rows.jobs[i]
         /\ Failed(rows, j).jobs[j].status \in {"failed", "dead_letter"}
         /\ Failed(rows, j).jobs[j].attempts = rows.jobs[j].attempts
         /\ Failed(rows, j).jobs[j].key = rows.jobs[j].key
         /\ \A p \in Photos : Failed(rows, j).photos[p] =
                                 IF p = PhotoOf(j) THEN "failed" ELSE rows.photos[p]
<1> DEFINE status == IF rows.jobs[j].attempts >= 3 THEN "dead_letter" ELSE "failed"
           js == [rows.jobs EXCEPT ![j].status = status]
           ps == [rows.photos EXCEPT ![PhotoOf(j)] = "failed"]
<1>1. Failed(rows, j).jobs = js /\ Failed(rows, j).photos = ps
  BY DEF Failed, Images
<1>2. status \in {"failed", "dead_letter"} OBVIOUS
<1> HIDE DEF status
<1>3. /\ \A i \in Jobs \ {j} : js[i] = rows.jobs[i]
      /\ js[j].status = status /\ js[j].attempts = rows.jobs[j].attempts
      /\ js[j].key = rows.jobs[j].key
  BY ImagesFields DEF JobRows
<1>4. \A p \in Photos : ps[p] = IF p = PhotoOf(j) THEN "failed" ELSE rows.photos[p]
  BY ImagesFields
<1> QED BY <1>1, <1>2, <1>3, <1>4

LEMMA SavedRows ==
  ASSUME NEW rows \in Images, NEW j \in Jobs
  PROVE  /\ \A i \in Jobs \ {j} : SavedAnalysis(rows, j).jobs[i] = rows.jobs[i]
         /\ SavedAnalysis(rows, j).jobs[j].status = "completed"
         /\ SavedAnalysis(rows, j).jobs[j].attempts = rows.jobs[j].attempts
         /\ SavedAnalysis(rows, j).jobs[j].key = rows.jobs[j].key
         /\ \A i \in Jobs \ {j} : SavedAnalysis(rows, j).analyses[i] = rows.analyses[i]
         /\ \A p \in Photos \ {PhotoOf(j)} : SavedAnalysis(rows, j).photos[p] = rows.photos[p]
         /\ IF Analyzed(rows, PhotoOf(j)) /\ rows.jobs[j].key # Forced
              THEN /\ SavedAnalysis(rows, j).photos = rows.photos
                   /\ SavedAnalysis(rows, j).analyses = rows.analyses
              ELSE /\ SavedAnalysis(rows, j).photos[PhotoOf(j)] = "completed"
                   /\ SavedAnalysis(rows, j).analyses[j] = rows.analyses[j] + 1
<1> DEFINE js == [rows.jobs EXCEPT ![j].status = "completed"]
           ps == [rows.photos EXCEPT ![PhotoOf(j)] = "completed"]
           as == [rows.analyses EXCEPT ![j] = @ + 1]
<1>1. /\ \A i \in Jobs \ {j} : js[i] = rows.jobs[i]
      /\ js[j].status = "completed" /\ js[j].attempts = rows.jobs[j].attempts
      /\ js[j].key = rows.jobs[j].key
  BY ImagesFields DEF JobRows
<1>2. /\ \A p \in Photos \ {PhotoOf(j)} : ps[p] = rows.photos[p]
      /\ ps[PhotoOf(j)] = "completed"
      /\ \A i \in Jobs \ {j} : as[i] = rows.analyses[i]
      /\ as[j] = rows.analyses[j] + 1
  BY PhotoOfType DEF Images
<1> HIDE DEF js, ps, as
<1>3. CASE Analyzed(rows, PhotoOf(j)) /\ rows.jobs[j].key # Forced
  <2>1. SavedAnalysis(rows, j) = [rows EXCEPT !.jobs = js]
    BY <1>3 DEF SavedAnalysis, Images, js
  <2>2. /\ SavedAnalysis(rows, j).jobs = js /\ SavedAnalysis(rows, j).photos = rows.photos
        /\ SavedAnalysis(rows, j).analyses = rows.analyses
    BY <2>1 DEF Images
  <2> QED BY <1>1, <1>3, <2>2
<1>4. CASE ~(Analyzed(rows, PhotoOf(j)) /\ rows.jobs[j].key # Forced)
  <2>1. SavedAnalysis(rows, j) = [rows EXCEPT !.jobs = js, !.photos = ps, !.analyses = as]
    BY <1>4 DEF SavedAnalysis, Images, js, ps, as
  <2>2. /\ SavedAnalysis(rows, j).jobs = js /\ SavedAnalysis(rows, j).photos = ps
        /\ SavedAnalysis(rows, j).analyses = as
    BY <2>1 DEF Images
  <2> QED BY <1>1, <1>2, <1>4, <2>2
<1> QED BY <1>3, <1>4

-----------------------------------------------------------------------------
(* A save keeps the rows coherent.                                         *)

\* What image may change of view: jobs that nobody else can have made meanwhile, and jobs that
\* have run.
Continues(image, view) ==
  \A j \in Jobs :
    /\ view.analyses[j] <= image.analyses[j]
    /\ image.jobs[j] # view.jobs[j] =>
         /\ image.jobs[j].status # "none"
         /\ \/ view.jobs[j].status = "none" /\ db.jobs[j].status = "none"
            \/ /\ view.jobs[j].status # "none" /\ image.jobs[j].attempts > 0
               /\ image.jobs[j].key = view.jobs[j].key

LEMMA MergeCoherent ==
  ASSUME db \in Images, NEW image \in Images, NEW view \in Images,
         Coherent(db), Loaded(view), Coherent(image), Continues(image, view),
         db' \in Images, db' = Merged(image, view)
  PROVE  /\ Coherent(db') /\ Outlives(db, db') /\ Outlives(image, db')
         /\ \A j \in Jobs : db.jobs[j].attempts > 0 => db'.jobs[j].attempts > 0
<1>1. /\ \A j \in Jobs : /\ db'.jobs[j] = IF image.jobs[j] # view.jobs[j]
                                            THEN image.jobs[j] ELSE db.jobs[j]
                         /\ db'.analyses[j] =
                              db.analyses[j] + (image.analyses[j] - view.analyses[j])
      /\ \A p \in Photos : db'.photos[p] \in {image.photos[p], db.photos[p]}
  BY MergedRows
<1>2. \A j \in Jobs : /\ db.analyses[j] \in Nat /\ image.analyses[j] \in Nat
                      /\ view.analyses[j] \in Nat /\ db'.analyses[j] \in Nat
  BY ImagesFields
<1>3. \A j \in Jobs : db.analyses[j] <= db'.analyses[j] /\ image.analyses[j] <= db'.analyses[j]
  BY <1>1, <1>2 DEF Loaded, Outlives, Continues
<1>4. ASSUME NEW p \in Photos, Analyzed(db, p) \/ Analyzed(image, p)
      PROVE  Analyzed(db', p)
  BY <1>2, <1>3, <1>4 DEF Analyzed
<1>5. ASSUME NEW j \in Jobs
      PROVE  /\ db.jobs[j].status # "none" =>
                  db'.jobs[j].status # "none" /\ db'.jobs[j].key = db.jobs[j].key
             /\ image.jobs[j].status # "none" =>
                  db'.jobs[j].status # "none" /\ db'.jobs[j].key = image.jobs[j].key
             /\ db.jobs[j].attempts > 0 => db'.jobs[j].attempts > 0
  <2>1. CASE image.jobs[j] = view.jobs[j]
    BY <1>1, <2>1 DEF Loaded, Outlives
  <2>2. CASE image.jobs[j] # view.jobs[j]
    <3>1. db'.jobs[j] = image.jobs[j] /\ image.jobs[j].status # "none" BY <1>1, <2>2 DEF Continues
    <3>2. CASE view.jobs[j].status = "none" /\ db.jobs[j].status = "none"
      <4>1. ~(db.jobs[j].attempts > 0) BY <3>2 DEF Coherent, NoJob
      <4> QED BY <3>1, <3>2, <4>1
    <3>3. CASE /\ view.jobs[j].status # "none" /\ image.jobs[j].attempts > 0
               /\ image.jobs[j].key = view.jobs[j].key
      BY <3>1, <3>3 DEF Loaded, Outlives
    <3> QED BY <2>2, <3>2, <3>3 DEF Continues
  <2> QED BY <2>1, <2>2
<1>6. Outlives(db, db') /\ Outlives(image, db') BY <1>3, <1>5 DEF Outlives
<1>7. ASSUME NEW j \in Jobs, db'.jobs[j].status = "none"
      PROVE  db'.jobs[j] = NoJob /\ db'.analyses[j] = 0
  <2>1. db.jobs[j].status = "none" /\ image.jobs[j].status = "none" BY <1>5, <1>7
  <2>2. image.jobs[j] = view.jobs[j] BY <2>1 DEF Continues
  <2>3. db.jobs[j] = NoJob /\ db.analyses[j] = 0 /\ image.analyses[j] = 0 BY <2>1 DEF Coherent
  <2>4. view.analyses[j] = 0 BY <2>1, <2>2 DEF Loaded, Coherent
  <2> QED BY <1>1, <2>2, <2>3, <2>4
<1>8. ASSUME NEW j \in Jobs
      PROVE  /\ db'.jobs[j].status \notin {"none", "queued"} => db'.jobs[j].attempts > 0
             /\ db'.jobs[j].status = "completed" => Analyzed(db', PhotoOf(j))
  BY <1>1, <1>4, PhotoOfType DEF Coherent
<1>9. \A p \in Photos : db'.photos[p] = "completed" => Analyzed(db', p)
  BY <1>1, <1>4 DEF Coherent
<1> QED BY <1>5, <1>6, <1>7, <1>8, <1>9 DEF Coherent

\* What was loaded stays an earlier state of the rows.
LEMMA StaysLoaded ==
  ASSUME NEW view \in Images, Loaded(view), db \in Images, db' \in Images, Outlives(db, db')
  PROVE  Coherent(view) /\ Outlives(view, db')
<1>1. \A j \in Jobs : /\ view.analyses[j] \in Nat /\ db.analyses[j] \in Nat
                      /\ db'.analyses[j] \in Nat
  BY ImagesFields
<1> QED BY <1>1 DEF Loaded, Outlives

-----------------------------------------------------------------------------
(* The steps of a run keep what is known of it.                            *)

LEMMA StartedRun ==
  ASSUME NEW view \in Images, Coherent(view), NEW jobs \in SUBSET Jobs,
         NEW spent, \A j \in jobs : view.jobs[j].status # "none"
  PROVE  Run(Started(view, jobs), view, jobs, {}, spent)
<1> DEFINE image == Started(view, jobs)
<1>1. image.analyses = view.analyses BY StartedType
<1>2. /\ \A j \in Jobs \ jobs : image.jobs[j] = view.jobs[j]
      /\ \A j \in jobs : image.jobs[j] = [status |-> "running",
                             attempts |-> view.jobs[j].attempts + 1, key |-> view.jobs[j].key]
      /\ \A p \in Photos : image.photos[p] \in {"pending", view.photos[p]}
  BY StartedRows
<1>3. \A j \in jobs : view.jobs[j].attempts \in Nat BY ImagesFields
<1> HIDE DEF image
<1>4. ASSUME NEW j \in jobs
      PROVE  /\ image.jobs[j].status = "running" /\ image.jobs[j].key = view.jobs[j].key
             /\ image.jobs[j].attempts = view.jobs[j].attempts + 1
  <2> DEFINE n == view.jobs[j].attempts + 1
  <2>1. image.jobs[j] = [status |-> "running", attempts |-> n, key |-> view.jobs[j].key]
    BY <1>2
  <2> HIDE DEF n
  <2>2. image.jobs[j].attempts = n BY <2>1
  <2> QED BY <2>1, <2>2 DEF n
<1>5. \A p \in Photos : Analyzed(view, p) => Analyzed(image, p) BY <1>1 DEF Analyzed
<1>6. Coherent(image)
  <2>1. ASSUME NEW j \in Jobs
        PROVE  /\ image.jobs[j].status = "none" => image.jobs[j] = NoJob /\ image.analyses[j] = 0
               /\ image.jobs[j].status \notin {"none", "queued"} => image.jobs[j].attempts > 0
               /\ image.jobs[j].status = "completed" => Analyzed(image, PhotoOf(j))
    <3>1. CASE j \in jobs
      <4>1. image.jobs[j].status = "running"
            /\ image.jobs[j].attempts = view.jobs[j].attempts + 1
        BY <1>4, <3>1
      <4>2. view.jobs[j].attempts + 1 > 0 BY <1>3, <3>1
      <4> QED BY <4>1, <4>2
    <3>2. CASE j \notin jobs BY <1>1, <1>2, <1>5, <3>2, PhotoOfType DEF Coherent
    <3> QED BY <3>1, <3>2
  <2>2. \A p \in Photos : image.photos[p] = "completed" => Analyzed(image, p)
    BY <1>2, <1>5 DEF Coherent
  <2> QED BY <2>1, <2>2 DEF Coherent
<1>7. Run(image, view, jobs, {}, spent) BY <1>1, <1>2, <1>6, <1>4 DEF Run
<1> QED BY <1>7 DEF image

LEMMA FailedRun ==
  ASSUME NEW image \in Images, NEW view \in Images, NEW jobs \in SUBSET Jobs, NEW reserved,
         NEW spent,
         \A i, j \in jobs : PhotoOf(i) = PhotoOf(j) => i = j,
         NEW j \in jobs, image.jobs[j].status = "running",
         Run(image, view, jobs, reserved, spent)
  PROVE  Run(Failed(image, j), view, jobs, reserved, spent)
<1> DEFINE after == Failed(image, j)
<1>1. after.analyses = image.analyses BY FailedType
<1>2. /\ \A i \in Jobs \ {j} : after.jobs[i] = image.jobs[i]
      /\ after.jobs[j].status \in {"failed", "dead_letter"}
      /\ after.jobs[j].attempts = image.jobs[j].attempts
      /\ after.jobs[j].key = image.jobs[j].key
      /\ \A p \in Photos : after.photos[p] = IF p = PhotoOf(j) THEN "failed" ELSE image.photos[p]
  BY FailedRows
<1> HIDE DEF after
<1>3. \A p \in Photos : Analyzed(image, p) => Analyzed(after, p) BY <1>1 DEF Analyzed
<1>4. \A i \in Jobs : ReservationKey(after, i) = ReservationKey(image, i)
  BY <1>2 DEF ReservationKey
<1>5. Coherent(after)
  <2>1. Coherent(image) BY DEF Run
  <2>2. \A i \in Jobs :
          /\ after.jobs[i].status = "none" => after.jobs[i] = NoJob /\ after.analyses[i] = 0
          /\ after.jobs[i].status \notin {"none", "queued"} => after.jobs[i].attempts > 0
          /\ after.jobs[i].status = "completed" => Analyzed(after, PhotoOf(i))
    BY <1>1, <1>2, <1>3, <2>1, PhotoOfType DEF Coherent
  <2>3. \A p \in Photos : after.photos[p] = "completed" => Analyzed(after, p)
    BY <1>2, <1>3, <2>1 DEF Coherent
  <2> QED BY <2>2, <2>3 DEF Coherent
<1>6. \A i \in Jobs \ jobs :
        after.jobs[i] = view.jobs[i] /\ after.analyses[i] = view.analyses[i]
  BY <1>1, <1>2 DEF Run
<1>7. ASSUME NEW i \in jobs
      PROVE  /\ view.jobs[i].status # "none" /\ after.jobs[i].status \notin {"none", "queued"}
             /\ after.jobs[i].key = view.jobs[i].key
             /\ after.jobs[i].attempts = view.jobs[i].attempts + 1
  BY <1>2 DEF Run
<1>8. ASSUME NEW i \in jobs, after.analyses[i] # view.analyses[i]
      PROVE  /\ after.analyses[i] = view.analyses[i] + 1
             /\ after.jobs[i].status = "completed"
             /\ after.photos[PhotoOf(i)] = "completed"
             /\ ReservationKey(after, i) \in spent
             /\ after.jobs[i].key # Forced => ~Analyzed(view, PhotoOf(i))
  <2>1. i # j BY <1>1, <1>8 DEF Run
  <2>2. PhotoOf(i) # PhotoOf(j) /\ PhotoOf(i) \in Photos BY <2>1, PhotoOfType
  <2> QED BY <1>1, <1>2, <1>4, <1>8, <2>1, <2>2 DEF Run
<1>9. \A i \in reserved \cap jobs : ReservationKey(after, i) \in spent
  BY <1>4 DEF Run
<1>10. Run(after, view, jobs, reserved, spent) BY <1>5, <1>6, <1>7, <1>8, <1>9 DEF Run
<1> QED BY <1>10 DEF after

LEMMA SavedRun ==
  ASSUME NEW image \in Images, NEW view \in Images, NEW jobs \in SUBSET Jobs, NEW reserved,
         NEW spent,
         \A i, j \in jobs : PhotoOf(i) = PhotoOf(j) => i = j,
         NEW j \in jobs, image.jobs[j].status = "running",
         ReservationKey(image, j) \in spent,
         Run(image, view, jobs, reserved, spent)
  PROVE  Run(SavedAnalysis(image, j), view, jobs, reserved, spent)
<1> DEFINE after == SavedAnalysis(image, j)
<1>1. /\ \A i \in Jobs \ {j} : after.jobs[i] = image.jobs[i]
      /\ after.jobs[j].status = "completed"
      /\ after.jobs[j].attempts = image.jobs[j].attempts
      /\ after.jobs[j].key = image.jobs[j].key
      /\ \A i \in Jobs \ {j} : after.analyses[i] = image.analyses[i]
      /\ \A p \in Photos \ {PhotoOf(j)} : after.photos[p] = image.photos[p]
      /\ IF Analyzed(image, PhotoOf(j)) /\ image.jobs[j].key # Forced
           THEN after.photos = image.photos /\ after.analyses = image.analyses
           ELSE /\ after.photos[PhotoOf(j)] = "completed"
                /\ after.analyses[j] = image.analyses[j] + 1
  BY SavedRows
<1> HIDE DEF after
<1>2. \A i \in Jobs : image.analyses[i] \in Nat /\ view.analyses[i] \in Nat BY ImagesFields
<1>3. \A i \in Jobs : view.analyses[i] <= image.analyses[i] /\ image.analyses[i] <= after.analyses[i]
  BY <1>1, <1>2 DEF Run
<1>4. /\ \A p \in Photos : Analyzed(view, p) => Analyzed(image, p)
      /\ \A p \in Photos : Analyzed(image, p) => Analyzed(after, p)
      /\ Analyzed(after, PhotoOf(j))
  <2>1. \A i \in Jobs : /\ view.analyses[i] > 0 => image.analyses[i] > 0
                        /\ image.analyses[i] > 0 => after.analyses[i] > 0
    BY <1>1, <1>2, <1>3
  <2>2. \A p \in Photos : Analyzed(image, p) => Analyzed(after, p) BY <2>1 DEF Analyzed
  <2>3. Analyzed(after, PhotoOf(j))
    <3>1. CASE Analyzed(image, PhotoOf(j)) BY <2>2, <3>1, PhotoOfType
    <3>2. CASE ~Analyzed(image, PhotoOf(j))
      <4>1. after.analyses[j] > 0 BY <1>1, <1>2, <3>2
      <4> QED BY <4>1 DEF Analyzed
    <3> QED BY <3>1, <3>2
  <2> QED BY <2>1, <2>2, <2>3 DEF Analyzed
<1>5. \A i \in Jobs : ReservationKey(after, i) = ReservationKey(image, i)
  BY <1>1 DEF ReservationKey
<1>6. Coherent(after)
  <2>1. Coherent(image) BY DEF Run
  <2>2. ASSUME NEW i \in Jobs
        PROVE  /\ after.jobs[i].status = "none" => after.jobs[i] = NoJob /\ after.analyses[i] = 0
               /\ after.jobs[i].status \notin {"none", "queued"} => after.jobs[i].attempts > 0
               /\ after.jobs[i].status = "completed" => Analyzed(after, PhotoOf(i))
    <3>1. CASE i = j BY <1>1, <1>4, <2>1, <3>1 DEF Coherent
    <3>2. CASE i # j BY <1>1, <1>4, <2>1, <3>2, PhotoOfType DEF Coherent
    <3> QED BY <3>1, <3>2
  <2>3. \A p \in Photos : after.photos[p] = "completed" => Analyzed(after, p)
    BY <1>1, <1>4, <2>1 DEF Coherent
  <2> QED BY <2>2, <2>3 DEF Coherent
<1>7. \A i \in Jobs \ jobs :
        after.jobs[i] = view.jobs[i] /\ after.analyses[i] = view.analyses[i]
  BY <1>1 DEF Run
<1>8. ASSUME NEW i \in jobs
      PROVE  /\ view.jobs[i].status # "none" /\ after.jobs[i].status \notin {"none", "queued"}
             /\ after.jobs[i].key = view.jobs[i].key
             /\ after.jobs[i].attempts = view.jobs[i].attempts + 1
  BY <1>1 DEF Run
<1>9. ASSUME NEW i \in jobs, after.analyses[i] # view.analyses[i]
      PROVE  /\ after.analyses[i] = view.analyses[i] + 1
             /\ after.jobs[i].status = "completed"
             /\ after.photos[PhotoOf(i)] = "completed"
             /\ ReservationKey(after, i) \in spent
             /\ after.jobs[i].key # Forced => ~Analyzed(view, PhotoOf(i))
  <2>1. CASE i # j
    <3>1. PhotoOf(i) # PhotoOf(j) /\ PhotoOf(i) \in Photos BY <2>1, PhotoOfType
    <3>2. /\ after.analyses[i] = image.analyses[i] /\ after.jobs[i] = image.jobs[i]
          /\ after.photos[PhotoOf(i)] = image.photos[PhotoOf(i)]
      BY <1>1, <2>1, <3>1
    <3> QED BY <1>5, <1>9, <3>2 DEF Run
  <2>2. CASE i = j
    <3>1. image.analyses[j] = view.analyses[j] BY DEF Run
    <3>2. ~(Analyzed(image, PhotoOf(j)) /\ image.jobs[j].key # Forced)
      BY <1>1, <1>9, <2>2, <3>1
    <3>3. /\ after.photos[PhotoOf(j)] = "completed"
          /\ after.analyses[j] = image.analyses[j] + 1
      BY <1>1, <3>2
    <3>4. after.jobs[j].key # Forced => ~Analyzed(view, PhotoOf(j))
      BY <1>1, <1>4, <3>2, PhotoOfType
    <3> QED BY <1>1, <1>5, <2>2, <3>1, <3>3, <3>4
  <2> QED BY <2>1, <2>2
<1>10. \A i \in reserved \cap jobs : ReservationKey(after, i) \in spent
  BY <1>5 DEF Run
<1>11. Run(after, view, jobs, reserved, spent) BY <1>6, <1>7, <1>8, <1>9, <1>10 DEF Run
<1> QED BY <1>11 DEF after

\* It knows no less when more has been reserved.
LEMMA ReservedRun ==
  ASSUME NEW image, NEW view, NEW jobs, NEW reserved, NEW more, NEW spent, NEW later,
         Run(image, view, jobs, reserved, spent), spent \subseteq later,
         \A j \in (more \ reserved) \cap jobs : ReservationKey(image, j) \in later
  PROVE  Run(image, view, jobs, more, later)
<1>1. \A j \in jobs : image.analyses[j] # view.analyses[j] => ReservationKey(image, j) \in later
  BY DEF Run
<1>2. \A j \in more \cap jobs : ReservationKey(image, j) \in later BY DEF Run
<1> QED BY <1>1, <1>2 DEF Run

-----------------------------------------------------------------------------
(* What is spent, and what plain jobs store.                               *)

SpendInv == IsFiniteSet(reservations) /\ SpentOnce

ImageInv == TypeInv /\ RowsInv /\ SpendInv /\ PlainAnalysedOnce

\* Jobs that stay keep what reserves them.
LEMMA KeysStay ==
  ASSUME NEW earlier, NEW later, Outlives(earlier, later)
  PROVE  \A j \in Jobs : earlier.jobs[j].status # "none" =>
           ReservationKey(later, j) = ReservationKey(earlier, j)
BY DEF Outlives, ReservationKey

\* A save whose new analyses are reserved spends nothing.
LEMMA MergeSpent ==
  ASSUME db \in Images, NEW image \in Images, NEW view \in Images,
         Coherent(db), Loaded(view), Coherent(image), Continues(image, view),
         db' \in Images, db' = Merged(image, view),
         SpendInv, UNCHANGED << reservations, usage >>,
         \A j \in Jobs : image.analyses[j] # view.analyses[j] =>
           ReservationKey(image, j) \in reservations
  PROVE  SpendInv'
<1>1. Outlives(db, db') /\ Outlives(image, db') BY MergeCoherent
<1>2. \A j \in Jobs : /\ db.analyses[j] \in Nat /\ image.analyses[j] \in Nat
                      /\ view.analyses[j] \in Nat
                      /\ db'.analyses[j] = db.analyses[j] + (image.analyses[j] - view.analyses[j])
  BY MergedRows, ImagesFields
<1>3. ASSUME NEW j \in Jobs, db'.analyses[j] > 0
      PROVE  ReservationKey(db', j) \in reservations
  <2>1. CASE db.analyses[j] > 0
    <3>1. db.jobs[j].status # "none" BY <2>1 DEF Coherent
    <3>2. ReservationKey(db', j) = ReservationKey(db, j) BY <1>1, <3>1, KeysStay
    <3> QED BY <2>1, <3>2 DEF SpendInv, SpentOnce
  <2>2. CASE ~(db.analyses[j] > 0)
    <3>1. image.analyses[j] # view.analyses[j] BY <1>2, <1>3, <2>2
    <3>2. image.jobs[j].status # "none"
      <4>1. view.analyses[j] <= image.analyses[j] BY DEF Continues
      <4>2. image.analyses[j] # 0 BY <1>2, <3>1, <4>1
      <4> QED BY <4>2 DEF Coherent
    <3>3. ReservationKey(db', j) = ReservationKey(image, j) BY <1>1, <3>2, KeysStay
    <3> QED BY <3>1, <3>3
  <2> QED BY <2>1, <2>2
<1>4. reservations' \subseteq
        { ReservationKey(db', j) : j \in { i \in Jobs : db'.jobs[i].status # "none" } }
  <2> SUFFICES ASSUME NEW k \in reservations
               PROVE  \E j \in Jobs : db'.jobs[j].status # "none" /\ k = ReservationKey(db', j)
    OBVIOUS
  <2>1. PICK j \in Jobs : db.jobs[j].status # "none" /\ k = ReservationKey(db, j)
    BY DEF SpendInv, SpentOnce
  <2>2. db'.jobs[j].status # "none" BY <1>1, <2>1 DEF Outlives
  <2>3. ReservationKey(db', j) = ReservationKey(db, j) BY <1>1, <2>1, KeysStay
  <2> QED BY <2>1, <2>2, <2>3
<1>5. Balanced' BY DEF Balanced, SpendInv, SpentOnce
<1> QED BY <1>3, <1>4, <1>5 DEF SpendInv, SpentOnce

\* A save without new analyses keeps what plain jobs have stored.
LEMMA SameAnalyses ==
  ASSUME db \in Images, Coherent(db), Outlives(db, db'), PlainAnalysedOnce,
         \A j \in Jobs : db'.analyses[j] = db.analyses[j]
  PROVE  PlainAnalysedOnce'
<1>1. \A j \in Jobs : db'.analyses[j] > 0 => db'.jobs[j].key = db.jobs[j].key
  <2> SUFFICES ASSUME NEW j \in Jobs, db.analyses[j] > 0
               PROVE  db'.jobs[j].key = db.jobs[j].key
    OBVIOUS
  <2>1. db.jobs[j].status # "none" BY DEF Coherent
  <2> QED BY <2>1 DEF Outlives
<1> QED BY <1>1 DEF PlainAnalysedOnce, Plain

-----------------------------------------------------------------------------
(* The API.                                                                *)

\* A request saves rows with new jobs of its own, and jobs that have run in another status.
LEMMA RowsSave ==
  ASSUME ImageInv, NEW q \in Requests, api[q].pc = "loaded",
         NEW image \in Images, image.analyses = api[q].view.analyses, Coherent(image),
         \A j \in Jobs : image.jobs[j] # api[q].view.jobs[j] =>
           /\ image.jobs[j].status # "none"
           /\ \/ api[q].view.jobs[j].status = "none" /\ j[1] = q
              \/ /\ api[q].view.jobs[j].status # "none" /\ image.jobs[j].attempts > 0
                 /\ image.jobs[j].key = api[q].view.jobs[j].key,
         Save(q, image),
         \E pc \in {"send", "done"} : api' = [api EXCEPT ![q] = [pc |-> pc, view |-> NoRows]],
         \A m \in Requests : /\ messages'[m].state = messages[m].state
                             /\ m # q => messages'[m].jobs = messages[m].jobs
  PROVE  RowsInv' /\ SpendInv' /\ PlainAnalysedOnce' /\ Kept
<1> DEFINE view == api[q].view
<1>1. /\ db \in Images /\ view \in Images /\ \A v \in Requests : api[v].view \in Images
      /\ \A w \in Workers : worker[w].view \in Images
  BY DEF ImageInv, TypeInv, TypeOK
<1>2. /\ Coherent(db) /\ Loaded(view)
      /\ \A v \in Requests : Loaded(api[v].view)
      /\ \A w \in Workers : Loaded(worker[w].view)
  BY DEF ImageInv, RowsInv, ViewsInv
<1>3. /\ db' = Merged(image, view) /\ UNCHANGED << worker, lock, reservations, usage >>
      /\ Overtake(Written(image, view), Waiting)
  BY DEF Save, guardVars
<1>4. db' \in Images BY SaveType DEF ImageInv, TypeInv
<1>5. \A j \in Jobs : j[1] = q => db.jobs[j].status = "none"
  BY DEF Jobs, ImageInv, RowsInv, FreshInv
<1> HIDE DEF view
<1>6. /\ \A j \in Jobs : db.analyses[j] \in Nat /\ view.analyses[j] \in Nat
      /\ image.analyses = view.analyses
  BY <1>1, ImagesFields DEF view
<1>7. Continues(image, view) BY <1>5, <1>6 DEF Continues, view
<1>8. /\ Coherent(db') /\ Outlives(db, db')
      /\ \A j \in Jobs : db.jobs[j].attempts > 0 => db'.jobs[j].attempts > 0
  BY <1>1, <1>2, <1>3, <1>4, <1>7, MergeCoherent
<1>9. /\ \A j \in Jobs : /\ db'.jobs[j] = IF image.jobs[j] # view.jobs[j]
                                            THEN image.jobs[j] ELSE db.jobs[j]
                         /\ db'.analyses[j] = db.analyses[j]
  BY <1>1, <1>3, <1>6, MergedRows
<1>10. PICK pc \in {"send", "done"} : api' = [api EXCEPT ![q] = [pc |-> pc, view |-> NoRows]]
  OBVIOUS
<1>11. /\ api'[q].view = NoRows /\ api'[q].pc \notin {"idle", "loaded"}
       /\ \A v \in Requests \ {q} : api'[v] = api[v]
  BY <1>10 DEF ImageInv, TypeInv, TypeOK
<1>12. ViewsInv'
  <2>1. ASSUME NEW v \in Requests PROVE Coherent(api'[v].view) /\ Outlives(api'[v].view, db')
    <3>1. CASE v = q BY <1>4, <1>11, <3>1, NoRowsLoaded, NoRowsType, <1>1, <1>8, StaysLoaded
    <3>2. CASE v # q BY <1>1, <1>2, <1>4, <1>8, <1>11, <3>2, StaysLoaded
    <3> QED BY <3>1, <3>2
  <2>2. ASSUME NEW w \in Workers PROVE Coherent(worker'[w].view) /\ Outlives(worker'[w].view, db')
    BY <1>1, <1>2, <1>3, <1>4, <1>8, StaysLoaded
  <2> QED BY <1>8, <2>1, <2>2 DEF ViewsInv, Loaded
<1>13. FreshInv'
  <2> SUFFICES ASSUME NEW v \in Requests, api'[v].pc \in {"idle", "loaded"}, NEW p \in Photos
               PROVE  db'.jobs[<<v, p>>].status = "none"
    BY DEF FreshInv
  <2>1. v # q /\ api'[v] = api[v] BY <1>11
  <2>2. <<v, p>> \in Jobs /\ db.jobs[<<v, p>>].status = "none"
    BY <2>1 DEF Jobs, ImageInv, RowsInv, FreshInv
  <2>3. view.jobs[<<v, p>>].status = "none" BY <1>2, <2>2 DEF Loaded, Outlives
  <2>4. image.jobs[<<v, p>>] = view.jobs[<<v, p>>] BY <2>1, <2>2, <2>3 DEF view
  <2> QED BY <1>9, <2>2, <2>4
<1>14. \A w \in Workers : worker[w].pc # "idle" => JobsOf(w)' = JobsOf(w)
  <2> SUFFICES ASSUME NEW w \in Workers, worker[w].pc # "idle"
               PROVE  messages'[worker[w].msg].jobs = messages[worker[w].msg].jobs
    BY <1>3 DEF JobsOf
  <2>1. worker[w].msg \in Requests /\ messages[worker[w].msg].state # "none"
        /\ messages[q].state = "none"
    BY DEF ImageInv, TypeInv, QueueInv
  <2> QED BY <2>1
<1>15. RunInv' BY <1>3, <1>14 DEF ImageInv, RowsInv, RunInv
<1>16. DirtyInv'
  <2>1. Waiting' = Waiting /\ \A w \in Waiting : w \in Workers /\ dirty[w] \subseteq dirty'[w]
    BY <1>3 DEF Waiting, Overtake
  <2>2. \A p \in Photos : Analyzed(db', p) => Analyzed(db, p) BY <1>9 DEF Analyzed
  <2> QED BY <1>3, <2>1, <2>2 DEF ImageInv, RowsInv, DirtyInv
<1>17. RanInv'
  <2>1. \A w \in Workers : worker'[w].pc = "committed" =>
          \A j \in JobsOf(w)' : db'.jobs[j].attempts > 0
    <3> SUFFICES ASSUME NEW w \in Workers, worker[w].pc = "committed", NEW j \in JobsOf(w)
                 PROVE  db'.jobs[j].attempts > 0
      BY <1>3, <1>14
    <3>1. j \in Jobs
      BY DEF JobsOf, ImageInv, TypeInv, TypeOK, QueueInv
    <3> QED BY <1>8, <3>1 DEF ImageInv, RowsInv, RanInv
  <2>2. DeletedWasRun'
    <3> SUFFICES ASSUME NEW m \in Requests, messages'[m].state = "deleted",
                        NEW j \in messages'[m].jobs
                 PROVE  db'.jobs[j].attempts > 0
      BY DEF DeletedWasRun
    <3>1. m # q /\ messages[m].state = "deleted" /\ j \in messages[m].jobs
      BY DEF ImageInv, TypeInv, QueueInv
    <3>2. j \in Jobs BY <3>1 DEF ImageInv, TypeInv, TypeOK
    <3> QED BY <1>8, <3>1, <3>2 DEF ImageInv, RowsInv, RanInv, DeletedWasRun
  <2> QED BY <2>1, <2>2 DEF RanInv
<1>18. SpendInv'
  BY <1>1, <1>2, <1>3, <1>4, <1>6, <1>7, MergeSpent DEF ImageInv
<1>19. PlainAnalysedOnce'
  BY <1>1, <1>2, <1>8, <1>9, SameAnalyses DEF ImageInv
<1> QED BY <1>8, <1>12, <1>13, <1>15, <1>16, <1>17, <1>18, <1>19 DEF RowsInv, Kept

\* The other steps outside the workers leave the rows alone.
LEMMA RowsStay ==
  ASSUME ImageInv, db' \in Images,
         db'.jobs = db.jobs, db'.photos = db.photos, db'.analyses = db.analyses,
         UNCHANGED << worker, dirty, reservations, usage >>,
         \A q \in Requests : /\ api'[q].view \in {api[q].view, NoRows, db}
                             /\ api'[q].pc \in {"idle", "loaded"} => api[q].pc \in {"idle", "loaded"}
                             /\ messages'[q].jobs = messages[q].jobs
                             /\ messages'[q].state = "deleted" => messages[q].state = "deleted"
  PROVE  RowsInv' /\ SpendInv' /\ PlainAnalysedOnce' /\ Kept
<1>0. /\ db \in Images /\ \A q \in Requests : api[q].view \in Images
      /\ \A w \in Workers : worker[w].view \in Images
  BY DEF ImageInv, TypeInv, TypeOK
<1>1. /\ \A p \in Photos : Analyzed(db', p) <=> Analyzed(db, p)
      /\ \A j \in Jobs : ReservationKey(db', j) = ReservationKey(db, j)
  BY DEF Analyzed, ReservationKey
<1>2. Coherent(db') BY <1>1, PhotoOfType DEF ImageInv, RowsInv, ViewsInv, Coherent
<1>3. Outlives(db, db')
  <2>1. \A j \in Jobs : db.analyses[j] \in Nat BY <1>0, ImagesFields
  <2> QED BY <2>1 DEF Outlives
<1>4. ViewsInv'
  <2>1. ASSUME NEW q \in Requests PROVE Coherent(api'[q].view) /\ Outlives(api'[q].view, db')
    <3>1. Loaded(api[q].view) /\ Loaded(NoRows)
      BY <1>0, NoRowsLoaded DEF ImageInv, RowsInv, ViewsInv
    <3>2. Loaded(db)
      <4>1. \A j \in Jobs : db.analyses[j] \in Nat BY <1>0, ImagesFields
      <4> QED BY <4>1 DEF Loaded, Outlives, ImageInv, RowsInv, ViewsInv
    <3> QED BY <1>0, <1>3, <3>1, <3>2, NoRowsType, StaysLoaded
  <2>2. ASSUME NEW w \in Workers PROVE Coherent(worker'[w].view) /\ Outlives(worker'[w].view, db')
    <3>1. Loaded(worker[w].view) BY DEF ImageInv, RowsInv, ViewsInv
    <3> QED BY <1>0, <1>3, <3>1, StaysLoaded
  <2> QED BY <1>2, <2>1, <2>2 DEF ViewsInv, Loaded
<1>5. FreshInv' BY DEF ImageInv, RowsInv, FreshInv
<1>6. \A w \in Workers : worker[w].pc # "idle" => JobsOf(w)' = JobsOf(w)
  <2> SUFFICES ASSUME NEW w \in Workers, worker[w].pc # "idle"
               PROVE  messages'[worker[w].msg].jobs = messages[worker[w].msg].jobs
    BY DEF JobsOf
  <2>1. worker[w].msg \in Requests BY DEF ImageInv, TypeInv, QueueInv
  <2> QED BY <2>1
<1>7. RunInv' BY <1>6 DEF ImageInv, RowsInv, RunInv
<1>8. DirtyInv' BY <1>1 DEF ImageInv, RowsInv, DirtyInv, Waiting
<1>9. RanInv' BY <1>6 DEF ImageInv, RowsInv, RanInv, DeletedWasRun
<1>10. SpendInv' BY <1>1 DEF ImageInv, SpendInv, SpentOnce, Balanced
<1>11. PlainAnalysedOnce' BY DEF ImageInv, PlainAnalysedOnce, Plain
<1>12. Kept BY <1>3 DEF Kept
<1> QED BY <1>4, <1>5, <1>7, <1>8, <1>9, <1>10, <1>11, <1>12 DEF RowsInv

LEMMA RowsApi ==
  ASSUME ImageInv, NEW q \in Requests, apiStep(q)
  PROVE  RowsInv' /\ SpendInv' /\ PlainAnalysedOnce' /\ Kept
<1>0. /\ db \in Images /\ api[q].view \in Images /\ Coherent(api[q].view)
      /\ messages \in [Requests -> MessageType]
      /\ api \in [Requests -> [pc : {"idle", "loaded", "send", "done"}, view : Images]]
  BY DEF ImageInv, TypeInv, TypeOK, MessageType, RowsInv, ViewsInv, Loaded
<1>1. CASE load(q)
  <2>1. api' = [api EXCEPT ![q] = [pc |-> "loaded", view |-> db]] /\ api[q].pc = "idle"
        /\ UNCHANGED << db, messages, worker, dirty, lock, reservations, usage >>
    BY <1>1 DEF load, guardVars
  <2>2. \A v \in Requests : /\ api'[v].view \in {api[v].view, NoRows, db}
                            /\ api'[v].pc \in {"idle", "loaded"} => api[v].pc \in {"idle", "loaded"}
    BY <1>0, <2>1
  <2> QED BY <1>0, <2>1, <2>2, RowsStay
<1>2. ASSUME NEW key, NEW sendAll, api[q].pc = "loaded",
             DOMAIN key \subseteq Photos, \A p \in DOMAIN key : key[p] \in JobKey,
             Enqueue(q, key, sendAll)
      PROVE  RowsInv' /\ SpendInv' /\ PlainAnalysedOnce' /\ Kept
  <2> DEFINE view == api[q].view
  <2>1. PICK new, toSend :
           /\ DOMAIN new \subseteq { j \in Jobs : j[1] = q }
           /\ \A j \in DOMAIN new : new[j] \in JobKey /\ api[q].view.jobs[j].status = "none"
           /\ toSend \subseteq Jobs
           /\ \A i, j \in toSend : PhotoOf(i) = PhotoOf(j) => i = j
           /\ \A j \in toSend : j \in DOMAIN new \/ api[q].view.jobs[j].status # "none"
           /\ Save(q, Enqueued(api[q].view, new))
           /\ \/ Done(q) /\ UNCHANGED messages
              \/ /\ api' = [api EXCEPT ![q] = [pc |-> "send", view |-> NoRows]]
                 /\ messages' = [messages EXCEPT ![q].jobs = toSend]
    BY <1>2, EnqueueShape
  <2> DEFINE image == Enqueued(view, new)
  <2>2. /\ image \in Images /\ image.analyses = view.analyses
    BY <1>0, <2>1, EnqueuedType
  <2>3. /\ \A j \in Jobs \ DOMAIN new : image.jobs[j] = view.jobs[j]
        /\ \A j \in Jobs \cap DOMAIN new :
             image.jobs[j] = [status |-> "queued", attempts |-> 0, key |-> new[j]]
        /\ \A p \in Photos : image.photos[p] \in {"pending", view.photos[p]}
    BY <1>0 DEF Enqueued, Images
  <2> HIDE DEF image
  <2>4. ASSUME NEW j \in Jobs \cap DOMAIN new PROVE image.jobs[j].status = "queued"
    <3> DEFINE k == new[j]
    <3>1. image.jobs[j] = [status |-> "queued", attempts |-> 0, key |-> k] BY <2>3
    <3> HIDE DEF k
    <3> QED BY <3>1
  <2>5. \A p \in Photos : Analyzed(view, p) => Analyzed(image, p) BY <2>2 DEF Analyzed
  <2>6. Coherent(image)
    <3>1. ASSUME NEW j \in Jobs
          PROVE  /\ image.jobs[j].status = "none" => image.jobs[j] = NoJob /\ image.analyses[j] = 0
                 /\ image.jobs[j].status \notin {"none", "queued"} => image.jobs[j].attempts > 0
                 /\ image.jobs[j].status = "completed" => Analyzed(image, PhotoOf(j))
      <4>1. CASE j \in DOMAIN new BY <2>4, <4>1
      <4>2. CASE j \notin DOMAIN new BY <1>0, <2>2, <2>3, <2>5, <4>2, PhotoOfType DEF Coherent
      <4> QED BY <4>1, <4>2
    <3>2. \A p \in Photos : image.photos[p] = "completed" => Analyzed(image, p)
      BY <1>0, <2>3, <2>5 DEF Coherent
    <3> QED BY <3>1, <3>2 DEF Coherent
  <2>7. \A j \in Jobs : image.jobs[j] # view.jobs[j] =>
          image.jobs[j].status # "none" /\ view.jobs[j].status = "none" /\ j[1] = q
    BY <2>1, <2>3, <2>4
  <2>8. \E pc \in {"send", "done"} : api' = [api EXCEPT ![q] = [pc |-> pc, view |-> NoRows]]
    BY <2>1 DEF Done
  <2>9. \A m \in Requests : /\ messages'[m].state = messages[m].state
                            /\ m # q => messages'[m].jobs = messages[m].jobs
    BY <1>0, <2>1 DEF MessageType
  <2>10. Save(q, image) BY <2>1 DEF image
  <2> QED BY <1>2, <2>2, <2>6, <2>7, <2>8, <2>9, <2>10, RowsSave
<1>3. ASSUME NEW k \in Keys \cup {NoKey, Forced}, analyzePhotos(q, k)
      PROVE  RowsInv' /\ SpendInv' /\ PlainAnalysedOnce' /\ Kept
  <2> DEFINE ps  == { p \in Photos : k = Forced \/ api[q].view.photos[p] # "completed" }
             key == [p \in ps |-> IF k \in Keys THEN <<k, p>> ELSE k]
  <2>1. api[q].pc = "loaded" /\ Enqueue(q, key, FALSE)
    BY <1>3 DEF analyzePhotos
  <2>2. DOMAIN key \subseteq Photos /\ \A p \in DOMAIN key : key[p] \in JobKey
    BY DEF JobKey
  <2> QED BY <2>1, <2>2, <1>2
<1>4. ASSUME NEW k \in Keys \cup {NoKey, Forced}, NEW p \in Photos, analyzePhoto(q, p, k)
      PROVE  RowsInv' /\ SpendInv' /\ PlainAnalysedOnce' /\ Kept
  <2>1. api[q].pc = "loaded" /\ Enqueue(q, [x \in {p} |-> k], TRUE)
    BY <1>4 DEF analyzePhoto
  <2>2. DOMAIN [x \in {p} |-> k] \subseteq Photos
        /\ \A x \in DOMAIN [y \in {p} |-> k] : [y \in {p} |-> k][x] \in JobKey
    BY DEF JobKey
  <2> QED BY <2>1, <2>2, <1>2
<1>5. CASE recoverFailedJobs(q)
  <2> DEFINE view == api[q].view
             recoverable == { j \in Jobs : view.jobs[j].status \in {"failed", "dead_letter"} }
             js == [j \in Jobs |-> IF j \in recoverable
                      THEN [view.jobs[j] EXCEPT !.status = "queued"] ELSE view.jobs[j]]
             ps == [p \in Photos |-> IF \E j \in recoverable : PhotoOf(j) = p
                                       THEN "pending" ELSE view.photos[p]]
             image == [view EXCEPT !.jobs = js, !.photos = ps]
  <2>1. api[q].pc = "loaded" /\ Save(q, image) /\ Done(q) /\ UNCHANGED messages
    BY <1>5 DEF recoverFailedJobs
  <2>a. view \in Images BY <1>0
  <2>2. js \in [Jobs -> JobRows] /\ ps \in [Photos -> AnalysisStatus]
    BY <2>a DEF Images, JobRows, JobStatus, AnalysisStatus
  <2>3. /\ image \in Images /\ image.analyses = view.analyses
        /\ image.jobs = js /\ image.photos = ps
    BY <2>a, <2>2 DEF Images
  <2>4. /\ \A j \in Jobs \ recoverable : js[j] = view.jobs[j]
        /\ \A j \in recoverable : /\ js[j].status = "queued" /\ js[j].key = view.jobs[j].key
                                  /\ js[j].attempts = view.jobs[j].attempts
        /\ \A p \in Photos : ps[p] \in {"pending", view.photos[p]}
    BY <1>0, ImagesFields DEF JobRows
  <2>5. \A j \in recoverable : j \in Jobs /\ view.jobs[j].status \notin {"none", "queued"}
    OBVIOUS
  <2> HIDE DEF image, js, ps, recoverable
  <2>6. \A p \in Photos : Analyzed(view, p) => Analyzed(image, p) BY <2>3 DEF Analyzed
  <2>7. Coherent(image)
    <3>1. ASSUME NEW j \in Jobs
          PROVE  /\ js[j].status = "none" => js[j] = NoJob /\ image.analyses[j] = 0
                 /\ js[j].status \notin {"none", "queued"} => js[j].attempts > 0
                 /\ js[j].status = "completed" => Analyzed(image, PhotoOf(j))
      <4>1. CASE j \in recoverable BY <2>4, <4>1
      <4>2. CASE j \notin recoverable BY <1>0, <2>3, <2>4, <2>6, <4>2, PhotoOfType DEF Coherent
      <4> QED BY <4>1, <4>2
    <3>2. \A p \in Photos : ps[p] = "completed" => Analyzed(image, p)
      BY <1>0, <2>4, <2>6 DEF Coherent
    <3> QED BY <2>3, <3>1, <3>2 DEF Coherent
  <2>8. \A j \in Jobs : image.jobs[j] # view.jobs[j] =>
          /\ image.jobs[j].status # "none" /\ view.jobs[j].status # "none"
          /\ image.jobs[j].attempts > 0 /\ image.jobs[j].key = view.jobs[j].key
    <3>1. \A j \in recoverable : view.jobs[j].attempts > 0 BY <1>0, <2>5 DEF Coherent
    <3> QED BY <2>3, <2>4, <2>5, <3>1
  <2> QED BY <2>1, <2>3, <2>7, <2>8, RowsSave DEF Done
<1>6. CASE sendMessage(q)
  <2>1. /\ api' = [api EXCEPT ![q] = [pc |-> "done", view |-> NoRows]]
        /\ messages' = [messages EXCEPT ![q].state = "visible"]
        /\ UNCHANGED << db, worker, dirty, lock, reservations, usage >>
    BY <1>6 DEF sendMessage, Done, guardVars
  <2>2. \A v \in Requests : /\ api'[v].view \in {api[v].view, NoRows, db}
                            /\ api'[v].pc \in {"idle", "loaded"} => api[v].pc \in {"idle", "loaded"}
    BY <1>0, <2>1
  <2>3. \A m \in Requests : /\ messages'[m].jobs = messages[m].jobs
                            /\ messages'[m].state = "deleted" => messages[m].state = "deleted"
    BY <1>0, <2>1 DEF MessageType
  <2> QED BY <1>0, <2>1, <2>2, <2>3, RowsStay
<1>7. CASE giveUp(q)
  <2>1. /\ api' = [api EXCEPT ![q] = [pc |-> "done", view |-> NoRows]]
        /\ UNCHANGED << db, messages, worker, dirty, lock, reservations, usage >>
    BY <1>7 DEF giveUp, Done, guardVars
  <2>2. \A v \in Requests : /\ api'[v].view \in {api[v].view, NoRows, db}
                            /\ api'[v].pc \in {"idle", "loaded"} => api[v].pc \in {"idle", "loaded"}
    BY <1>0, <2>1
  <2> QED BY <1>0, <2>1, <2>2, RowsStay
<1> QED BY <1>1, <1>3, <1>4, <1>5, <1>6, <1>7 DEF apiStep

-----------------------------------------------------------------------------
(* The workers.                                                            *)

\* A step of a worker that commits nothing: what has to be shown of the worker itself.
LEMMA RowsSeen ==
  ASSUME ImageInv, NEW w \in Workers, UNCHANGED << db, api >>,
         reservations \subseteq reservations', SpendInv',
         \A u \in Workers \ {w} : worker'[u] = worker[u] /\ dirty'[u] = dirty[u],
         \A m \in Requests : messages'[m].jobs = messages[m].jobs,
         Loaded(worker'[w].view),
         worker'[w].pc = "waiting" => worker'[w].reserved = {},
         worker'[w].pc = "running" =>
           Run(worker'[w].image, worker'[w].view, JobsOf(w)', worker'[w].reserved, reservations'),
         worker'[w].pc \in {"waiting", "running"} =>
           \A p \in Photos : Analyzed(db, p) => p \in dirty'[w] \/ Analyzed(worker'[w].view, p),
         worker'[w].pc # "committed",
         \A m \in Requests : messages'[m].state = "deleted" =>
           messages[m].state = "deleted" \/ (worker[w].pc = "committed" /\ worker[w].msg = m)
  PROVE  RowsInv' /\ SpendInv' /\ PlainAnalysedOnce' /\ Kept
<1>1. ViewsInv'
  <2>1. ASSUME NEW u \in Workers PROVE Loaded(worker'[u].view)
    BY DEF ImageInv, RowsInv, ViewsInv
  <2> QED BY <2>1 DEF ImageInv, RowsInv, ViewsInv, Loaded
<1>2. FreshInv' BY DEF ImageInv, RowsInv, FreshInv
<1>3. ASSUME NEW u \in Workers \ {w}, worker[u].pc # "idle" PROVE JobsOf(u)' = JobsOf(u)
  <2>1. worker[u].msg \in Requests BY <1>3 DEF ImageInv, TypeInv, QueueInv
  <2> QED BY <2>1 DEF JobsOf
<1>4. RunInv'
  <2> SUFFICES ASSUME NEW u \in Workers \ {w}
               PROVE  /\ worker[u].pc = "waiting" => worker[u].reserved = {}
                      /\ worker[u].pc = "running" =>
                           Run(worker[u].image, worker[u].view, JobsOf(u)', worker[u].reserved,
                               reservations')
    BY DEF RunInv
  <2>1. worker[u].pc = "waiting" => worker[u].reserved = {} BY DEF ImageInv, RowsInv, RunInv
  <2>2. ASSUME worker[u].pc = "running"
        PROVE  Run(worker[u].image, worker[u].view, JobsOf(u)', worker[u].reserved, reservations')
    <3>1. Run(worker[u].image, worker[u].view, JobsOf(u), worker[u].reserved, reservations)
      BY <2>2 DEF ImageInv, RowsInv, RunInv
    <3>2. JobsOf(u)' = JobsOf(u) BY <1>3, <2>2
    <3> QED BY <3>1, <3>2, ReservedRun
  <2> QED BY <2>1, <2>2
<1>5. DirtyInv'
  <2> SUFFICES ASSUME NEW u \in Workers, worker'[u].pc \in {"waiting", "running"}, NEW p \in Photos,
                      Analyzed(db, p)
               PROVE  p \in dirty'[u] \/ Analyzed(worker'[u].view, p)
    BY DEF DirtyInv, Waiting
  <2> QED BY DEF ImageInv, RowsInv, DirtyInv, Waiting
<1>6. RanInv'
  <2>1. \A u \in Workers : worker'[u].pc = "committed" =>
          \A j \in JobsOf(u)' : db'.jobs[j].attempts > 0
    BY <1>3 DEF ImageInv, RowsInv, RanInv
  <2>2. DeletedWasRun'
    <3> SUFFICES ASSUME NEW m \in Requests, messages'[m].state = "deleted",
                        NEW j \in messages[m].jobs
                 PROVE  db.jobs[j].attempts > 0
      BY DEF DeletedWasRun
    <3>1. CASE messages[m].state = "deleted"
      BY <3>1 DEF ImageInv, RowsInv, RanInv, DeletedWasRun
    <3>2. CASE worker[w].pc = "committed" /\ worker[w].msg = m
      BY <3>2 DEF ImageInv, RowsInv, RanInv, JobsOf
    <3> QED BY <3>1, <3>2
  <2> QED BY <2>1, <2>2 DEF RanInv
<1>7. PlainAnalysedOnce' BY DEF ImageInv, PlainAnalysedOnce, Plain
<1>8. Kept
  <2>1. \A j \in Jobs : db.analyses[j] \in Nat BY ImagesFields DEF ImageInv, TypeInv, TypeOK
  <2> QED BY <2>1 DEF Kept, Outlives
<1> QED BY <1>1, <1>2, <1>4, <1>5, <1>6, <1>7, <1>8 DEF RowsInv

LEMMA RowsReceived ==
  ASSUME ImageInv, NEW w \in Workers, NEW m \in Requests, receive(w, m)
  PROVE  RowsInv' /\ SpendInv' /\ PlainAnalysedOnce' /\ Kept
<1>0. /\ worker \in [Workers -> WorkerType] /\ messages \in [Requests -> MessageType]
      /\ dirty \in [Workers -> SUBSET (Photos \cup Jobs)] /\ db \in Images
  BY DEF ImageInv, TypeInv, TypeOK, WorkerType, MessageType
<1> DEFINE new == [pc |-> "waiting", msg |-> m, view |-> db, image |-> NoRows, reserved |-> {}]
<1>1. /\ worker' = [worker EXCEPT ![w] = new] /\ dirty' = [dirty EXCEPT ![w] = {}]
      /\ messages' = [messages EXCEPT ![m].state = "inflight", ![m].receives = @ + 1]
      /\ UNCHANGED << db, api, lock, reservations, usage >>
  BY DEF receive, guardVars
<1>2. new.pc = "waiting" /\ new.view = db /\ new.reserved = {} OBVIOUS
<1> HIDE DEF new
<1>3. /\ worker'[w] = new /\ \A u \in Workers \ {w} : worker'[u] = worker[u] /\ dirty'[u] = dirty[u]
  BY <1>0, <1>1
<1>4. \A n \in Requests : /\ messages'[n].jobs = messages[n].jobs
                          /\ messages'[n].state = "deleted" => messages[n].state = "deleted"
  BY <1>0, <1>1 DEF MessageType
<1>5. Loaded(db)
  <2>1. \A j \in Jobs : db.analyses[j] \in Nat BY <1>0, ImagesFields
  <2> QED BY <2>1 DEF Loaded, Outlives, ImageInv, RowsInv, ViewsInv
<1>6. SpendInv' BY <1>1 DEF ImageInv, SpendInv, SpentOnce, Balanced
<1> QED BY <1>1, <1>2, <1>3, <1>4, <1>5, <1>6, RowsSeen

\* The jobs of a message are of different photos.
LEMMA JobsOfMessage ==
  ASSUME ImageInv, NEW w \in Workers, worker[w].pc # "idle"
  PROVE  /\ JobsOf(w) \in SUBSET Jobs /\ worker[w].msg \in Requests
         /\ \A i, j \in JobsOf(w) : PhotoOf(i) = PhotoOf(j) => i = j
         /\ worker \in [Workers -> WorkerType]
         /\ worker[w].view \in Images /\ worker[w].image \in Images
<1>1. worker[w].msg \in Requests BY DEF ImageInv, TypeInv, QueueInv
<1>2. messages[worker[w].msg].jobs \in SUBSET Jobs
  BY <1>1 DEF ImageInv, TypeInv, TypeOK
<1> QED BY <1>1, <1>2 DEF JobsOf, ImageInv, TypeInv, TypeOK, QueueInv, WorkerType

LEMMA RowsStarted ==
  ASSUME ImageInv, NEW w \in Workers, startJobs(w)
  PROVE  RowsInv' /\ SpendInv' /\ PlainAnalysedOnce' /\ Kept
<1> DEFINE view == worker[w].view
           image == Started(view, JobsOf(w))
<1>1. /\ worker[w].pc = "waiting" /\ JobMovesOn(view, JobsOf(w))
      /\ worker' = [worker EXCEPT ![w].pc = "running", ![w].image = image]
      /\ UNCHANGED << db, api, messages, dirty, reservations, usage >>
  BY DEF startJobs, guardVars
<1>2. /\ JobsOf(w) \in SUBSET Jobs /\ worker \in [Workers -> WorkerType] /\ view \in Images
  BY <1>1, JobsOfMessage
<1>3. worker[w].reserved = {} /\ Loaded(view)
  BY <1>1 DEF ImageInv, RowsInv, RunInv, ViewsInv
<1>4. \A j \in JobsOf(w) : view.jobs[j].status # "none" BY <1>1 DEF JobMovesOn
<1>5. Run(image, view, JobsOf(w), {}, reservations)
  BY <1>2, <1>3, <1>4, StartedRun DEF Loaded
<1> HIDE DEF image
<1>6. /\ worker'[w].pc = "running" /\ worker'[w].image = image /\ worker'[w].view = view
      /\ worker'[w].reserved = {} /\ worker'[w].msg = worker[w].msg
      /\ \A u \in Workers \ {w} : worker'[u] = worker[u]
  BY <1>1, <1>2, <1>3 DEF WorkerType
<1>7. JobsOf(w)' = JobsOf(w) BY <1>1, <1>6 DEF JobsOf
<1>8. \A p \in Photos : Analyzed(db, p) => p \in dirty[w] \/ Analyzed(view, p)
  BY <1>1 DEF ImageInv, RowsInv, DirtyInv, Waiting
<1>9. SpendInv' BY <1>1 DEF ImageInv, SpendInv, SpentOnce, Balanced
<1> QED BY <1>1, <1>3, <1>5, <1>6, <1>7, <1>8, <1>9, RowsSeen

\* A reservation under the key of a job that is there is counted once.
LEMMA GrantSpends ==
  ASSUME SpendInv, UNCHANGED db, NEW j \in Jobs, db.jobs[j].status # "none",
         Grant(ReservationKey(db, j)) \/ UNCHANGED << reservations, usage >>
  PROVE  SpendInv' /\ reservations \subseteq reservations'
<1> DEFINE key == ReservationKey(db, j)
<1>1. CASE UNCHANGED << reservations, usage >>
  BY <1>1 DEF SpendInv, SpentOnce, Balanced
<1>2. CASE Grant(key)
  <2>1. /\ key \notin reservations /\ usage < Limit
        /\ reservations' = reservations \cup {key} /\ usage' = usage + 1
    BY <1>2 DEF Grant
  <2>2. IsFiniteSet(reservations) /\ usage = Cardinality(reservations)
    BY DEF SpendInv, SpentOnce, Balanced
  <2>3. /\ IsFiniteSet(reservations')
        /\ Cardinality(reservations') = Cardinality(reservations) + 1
    BY <2>1, <2>2, FS_AddElement
  <2>4. Balanced'
    <3>1. Cardinality(reservations) \in Nat BY <2>2, FS_CardinalityType
    <3> QED BY <2>1, <2>2, <2>3, <3>1, LimitAssumption DEF Balanced
  <2>5. \A i \in Jobs : db'.analyses[i] > 0 => ReservationKey(db', i) \in reservations'
    BY <2>1 DEF SpendInv, SpentOnce
  <2>6. reservations' \subseteq
          { ReservationKey(db', i) : i \in { k \in Jobs : db'.jobs[k].status # "none" } }
    <3>1. key \in { ReservationKey(db, i) : i \in { k \in Jobs : db.jobs[k].status # "none" } }
      OBVIOUS
    <3> HIDE DEF key
    <3> QED BY <2>1, <3>1 DEF SpendInv, SpentOnce
  <2> HIDE DEF key
  <2> QED BY <2>1, <2>3, <2>4, <2>5, <2>6 DEF SpendInv, SpentOnce
<1> QED BY <1>1, <1>2

LEMMA RowsRun ==
  ASSUME ImageInv, NEW w \in Workers, NEW j \in Jobs, worker[w].pc = "running",
         reserveUsage(w, j) \/ analyze(w, j)
  PROVE  RowsInv' /\ SpendInv' /\ PlainAnalysedOnce' /\ Kept
<1> DEFINE view == worker[w].view
           image == worker[w].image
           key == ReservationKey(image, j)
           reserved == worker[w].reserved
<1>1. /\ JobsOf(w) \in SUBSET Jobs /\ worker \in [Workers -> WorkerType]
      /\ view \in Images /\ image \in Images
      /\ \A i, k \in JobsOf(w) : PhotoOf(i) = PhotoOf(k) => i = k
  BY JobsOfMessage
<1>2. Run(image, view, JobsOf(w), reserved, reservations) BY DEF ImageInv, RowsInv, RunInv
<1>3. Loaded(view) BY DEF ImageInv, RowsInv, ViewsInv
<1>4. /\ UNCHANGED << db, api, messages, dirty, lock >>
      /\ j \in JobsOf(w) /\ image.jobs[j].status = "running"
  BY DEF reserveUsage, analyze, Running
<1>5. view.jobs[j].status # "none" /\ image.jobs[j].key = view.jobs[j].key BY <1>2, <1>4 DEF Run
<1>6. db.jobs[j].status # "none" /\ key = ReservationKey(db, j)
  BY <1>3, <1>5 DEF Loaded, Outlives, ReservationKey
<1> HIDE DEF key
<1>7. /\ Grant(key) \/ UNCHANGED << reservations, usage >>
      /\ \/ /\ worker' = [worker EXCEPT ![w].reserved = @ \cup {j}]
            /\ key \in reservations'
         \/ worker' = [worker EXCEPT ![w].image = Failed(@, j)]
         \/ /\ worker' = [worker EXCEPT ![w].image = SavedAnalysis(@, j)]
            /\ j \in reserved
  BY DEF reserveUsage, analyze, reserve, costGuardReached, reserveFails, Grant, guardVars, key
<1>8. SpendInv' /\ reservations \subseteq reservations'
  BY <1>4, <1>6, <1>7, GrantSpends DEF ImageInv
<1>9. /\ \A u \in Workers \ {w} : worker'[u] = worker[u]
      /\ worker'[w].pc = "running" /\ worker'[w].view = view /\ worker'[w].msg = worker[w].msg
  BY <1>1, <1>7 DEF WorkerType
<1>10. Run(worker'[w].image, view, JobsOf(w), worker'[w].reserved, reservations')
  <2>1. CASE worker' = [worker EXCEPT ![w].reserved = @ \cup {j}] /\ key \in reservations'
    <3>1. worker'[w].image = image /\ worker'[w].reserved = reserved \cup {j}
      BY <1>1, <2>1 DEF WorkerType
    <3> HIDE DEF image, view, reserved
    <3> QED BY <1>2, <1>8, <2>1, <3>1, ReservedRun DEF key
  <2>2. CASE worker' = [worker EXCEPT ![w].image = Failed(@, j)]
    <3>1. worker'[w].image = Failed(image, j) /\ worker'[w].reserved = reserved
      BY <1>1, <2>2 DEF WorkerType
    <3> HIDE DEF image, view, reserved
    <3>2. Run(image, view, JobsOf(w), reserved, reservations') BY <1>2, <1>8, ReservedRun
    <3>3. Run(Failed(image, j), view, JobsOf(w), reserved, reservations')
      BY <1>1, <1>4, <3>2, FailedRun
    <3> QED BY <3>1, <3>3
  <2>3. CASE worker' = [worker EXCEPT ![w].image = SavedAnalysis(@, j)] /\ j \in reserved
    <3>1. worker'[w].image = SavedAnalysis(image, j) /\ worker'[w].reserved = reserved
      BY <1>1, <2>3 DEF WorkerType
    <3> HIDE DEF image, view, reserved
    <3>2. Run(image, view, JobsOf(w), reserved, reservations') BY <1>2, <1>8, ReservedRun
    <3>3. ReservationKey(image, j) \in reservations' BY <1>4, <2>3, <3>2 DEF Run
    <3>4. Run(SavedAnalysis(image, j), view, JobsOf(w), reserved, reservations')
      BY <1>1, <1>4, <3>2, <3>3, SavedRun
    <3> QED BY <3>1, <3>4
  <2> QED BY <1>7, <2>1, <2>2, <2>3
<1>11. JobsOf(w)' = JobsOf(w) BY <1>4, <1>9 DEF JobsOf
<1>12. \A p \in Photos : Analyzed(db, p) => p \in dirty[w] \/ Analyzed(view, p)
  BY DEF ImageInv, RowsInv, DirtyInv, Waiting
<1> QED BY <1>3, <1>4, <1>8, <1>9, <1>10, <1>11, <1>12, RowsSeen

\* A worker that gives up, is refused or has finished leaves the rows to the others.
LEMMA RowsLeft ==
  ASSUME ImageInv, NEW w \in Workers, Idle(w), worker[w].pc # "idle",
         UNCHANGED << db, api, reservations, usage >>,
         dirty' = dirty \/ dirty' = [dirty EXCEPT ![w] = {}],
         \/ UNCHANGED messages
         \/ /\ worker[w].pc = "committed"
            /\ messages' = [messages EXCEPT ![worker[w].msg].state = "deleted"]
  PROVE  RowsInv' /\ SpendInv' /\ PlainAnalysedOnce' /\ Kept
<1>0. /\ worker \in [Workers -> WorkerType] /\ messages \in [Requests -> MessageType]
      /\ dirty \in [Workers -> SUBSET (Photos \cup Jobs)] /\ db \in Images
  BY DEF ImageInv, TypeInv, TypeOK, WorkerType, MessageType
<1>1. /\ worker'[w] = NoWork
      /\ \A u \in Workers \ {w} : worker'[u] = worker[u] /\ dirty'[u] = dirty[u]
  BY <1>0 DEF Idle
<1>2. Loaded(worker'[w].view) /\ worker'[w].pc = "idle"
  <2>1. NoWork.view = NoRows /\ NoWork.pc = "idle" BY DEF NoWork
  <2> QED BY <1>0, <1>1, <2>1, NoRowsLoaded
<1>3. \A m \in Requests :
        /\ messages'[m].jobs = messages[m].jobs
        /\ messages'[m].state = "deleted" =>
             messages[m].state = "deleted" \/ (worker[w].pc = "committed" /\ worker[w].msg = m)
  BY <1>0 DEF MessageType
<1>4. SpendInv' BY DEF ImageInv, SpendInv, SpentOnce, Balanced
<1> QED BY <1>1, <1>2, <1>3, <1>4, RowsSeen

\* What a run has made of its view continues it.
LEMMA RunContinues ==
  ASSUME db \in Images, NEW image \in Images, NEW view \in Images, NEW jobs \in SUBSET Jobs,
         NEW reserved, NEW spent, Run(image, view, jobs, reserved, spent), Loaded(view)
  PROVE  /\ Continues(image, view)
         /\ \A j \in Jobs : image.jobs[j] # view.jobs[j] =>
              j \in jobs /\ view.jobs[j].status # "none"
         /\ \A j \in Jobs : image.analyses[j] # view.analyses[j] =>
              j \in jobs /\ ReservationKey(image, j) \in spent
<1>1. \A j \in Jobs : /\ view.analyses[j] \in Nat /\ image.analyses[j] \in Nat
                      /\ view.jobs[j].attempts \in Nat
  BY ImagesFields
<1>2. \A j \in Jobs : view.analyses[j] <= image.analyses[j] BY <1>1 DEF Run
<1>3. ASSUME NEW j \in Jobs, image.jobs[j] # view.jobs[j]
      PROVE  /\ j \in jobs /\ view.jobs[j].status # "none" /\ image.jobs[j].status # "none"
             /\ image.jobs[j].key = view.jobs[j].key /\ image.jobs[j].attempts > 0
  <2>1. j \in jobs BY <1>3 DEF Run
  <2>2. image.jobs[j].attempts = view.jobs[j].attempts + 1 BY <2>1 DEF Run
  <2> QED BY <1>1, <2>1, <2>2 DEF Run
<1>4. \A j \in Jobs : image.analyses[j] # view.analyses[j] =>
        j \in jobs /\ ReservationKey(image, j) \in spent
  BY DEF Run
<1> QED BY <1>2, <1>3, <1>4 DEF Continues

\* The first analysis of a photo is committed with the photo's row, and only by a transaction
\* that no other has overtaken in that row: it is then the only one.
LEMMA CommitOnce ==
  ASSUME ImageInv, db' \in Images, NEW w \in Workers, worker[w].pc = "running",
         db' = Merged(worker[w].image, worker[w].view),
         Written(worker[w].image, worker[w].view) \cap dirty[w] = {}
  PROVE  /\ PlainAnalysedOnce'
         /\ \A p \in Photos : Analyzed(db', p) =>
              Analyzed(db, p) \/ p \in Written(worker[w].image, worker[w].view)
<1> DEFINE image == worker[w].image
           view == worker[w].view
           jobs == JobsOf(w)
<1>1. /\ jobs \in SUBSET Jobs /\ \A i, j \in jobs : PhotoOf(i) = PhotoOf(j) => i = j
      /\ view \in Images /\ image \in Images /\ db \in Images
  BY JobsOfMessage DEF ImageInv, TypeInv, TypeOK
<1>2. Run(image, view, jobs, worker[w].reserved, reservations)
  BY DEF ImageInv, RowsInv, RunInv
<1>3. Loaded(view) /\ Coherent(db) BY DEF ImageInv, RowsInv, ViewsInv
<1>4. \A p \in Photos : Analyzed(db, p) => p \in dirty[w] \/ Analyzed(view, p)
  BY DEF ImageInv, RowsInv, DirtyInv, Waiting
<1>5. db' = Merged(image, view) /\ Written(image, view) \cap dirty[w] = {} OBVIOUS
<1> HIDE DEF image, view, jobs
<1>6. /\ Continues(image, view)
      /\ \A j \in Jobs : image.analyses[j] # view.analyses[j] => j \in jobs
  BY <1>1, <1>2, <1>3, RunContinues
<1>7. Outlives(db, db') /\ Outlives(image, db')
  <2>1. Coherent(image) BY <1>2 DEF Run
  <2> QED BY <1>1, <1>3, <1>5, <1>6, <2>1, MergeCoherent
<1>8. \A j \in Jobs : /\ db'.analyses[j] = db.analyses[j] + (image.analyses[j] - view.analyses[j])
                      /\ db.analyses[j] \in Nat /\ image.analyses[j] \in Nat
                      /\ view.analyses[j] \in Nat
  BY <1>1, <1>5, MergedRows, ImagesFields
<1>9. ASSUME NEW j \in Jobs, image.analyses[j] # view.analyses[j], ~Analyzed(view, PhotoOf(j))
      PROVE  PhotoOf(j) \in Written(image, view)
  <2>1. j \in jobs BY <1>6, <1>9
  <2>2. image.photos[PhotoOf(j)] = "completed" BY <1>2, <1>9, <2>1 DEF Run
  <2>3. view.photos[PhotoOf(j)] # "completed" BY <1>3, <1>9, PhotoOfType DEF Loaded, Coherent
  <2> QED BY <2>2, <2>3, PhotoOfType DEF Written
<1>10. \A p \in Photos : Analyzed(view, p) => Analyzed(db, p)
  <2>1. \A j \in Jobs : view.analyses[j] > 0 => db.analyses[j] > 0
    BY <1>3, <1>8 DEF Loaded, Outlives
  <2> QED BY <2>1 DEF Analyzed
<1>11. ASSUME NEW p \in Photos, Analyzed(db', p) PROVE Analyzed(db, p) \/ p \in Written(image, view)
  <2> SUFFICES ASSUME ~Analyzed(db, p) PROVE p \in Written(image, view) OBVIOUS
  <2>1. PICK j \in Jobs : PhotoOf(j) = p /\ db'.analyses[j] > 0 BY <1>11 DEF Analyzed
  <2>2. ~(db.analyses[j] > 0) BY <2>1 DEF Analyzed
  <2>3. image.analyses[j] # view.analyses[j] BY <1>8, <2>1, <2>2
  <2>4. ~Analyzed(view, p) BY <1>10
  <2> QED BY <1>9, <2>1, <2>3, <2>4
\* A plain job whose analysis is new has the first one of its photo, and no other is new.
<1>12. ASSUME NEW j \in Jobs, image.analyses[j] # view.analyses[j], db'.jobs[j].key # Forced
       PROVE  /\ db'.analyses[j] = 1
              /\ \A i \in Jobs : PhotoOf(i) = PhotoOf(j) /\ db'.analyses[i] > 0 => i = j
  <2>1. j \in jobs BY <1>6, <1>12
  <2>2. image.jobs[j].key # Forced
    <3>1. image.jobs[j].status # "none" BY <1>2, <2>1 DEF Run
    <3> QED BY <1>7, <1>12, <3>1 DEF Outlives
  <2>3. ~Analyzed(view, PhotoOf(j)) /\ image.analyses[j] = view.analyses[j] + 1
    BY <1>2, <1>12, <2>1, <2>2 DEF Run
  <2>4. ~Analyzed(db, PhotoOf(j)) BY <1>4, <1>5, <1>9, <1>12, <2>3, PhotoOfType
  <2>5. \A i \in Jobs : PhotoOf(i) = PhotoOf(j) => db.analyses[i] = 0 /\ view.analyses[i] = 0
    BY <1>8, <2>3, <2>4 DEF Analyzed
  <2>6. db'.analyses[j] = 1 BY <1>8, <2>3, <2>5
  <2>7. ASSUME NEW i \in Jobs, PhotoOf(i) = PhotoOf(j), db'.analyses[i] > 0 PROVE i = j
    <3>1. db.analyses[i] = 0 /\ view.analyses[i] = 0 BY <2>5, <2>7
    <3>2. db'.analyses[i] = 0 + (image.analyses[i] - 0) /\ image.analyses[i] \in Nat
      BY <1>8, <3>1
    <3>3. image.analyses[i] # view.analyses[i] BY <2>7, <3>1, <3>2
    <3>4. i \in jobs BY <1>6, <3>3
    <3> QED BY <1>1, <2>1, <2>7, <3>4
  <2> QED BY <2>6, <2>7
<1>13. PlainAnalysedOnce'
  <2> SUFFICES ASSUME NEW i \in Jobs, NEW j \in Jobs, PhotoOf(i) = PhotoOf(j),
                      db'.jobs[i].key # Forced, db'.jobs[j].key # Forced,
                      db'.analyses[i] > 0, db'.analyses[j] > 0
               PROVE  i = j /\ db'.analyses[j] = 1
    BY DEF PlainAnalysedOnce, Plain
  <2>1. CASE image.analyses[i] # view.analyses[i] \/ image.analyses[j] # view.analyses[j]
    BY <1>12, <2>1
  <2>2. CASE image.analyses[i] = view.analyses[i] /\ image.analyses[j] = view.analyses[j]
    <3>1. db'.analyses[i] = db.analyses[i] /\ db'.analyses[j] = db.analyses[j] BY <1>8, <2>2
    <3>2. db.jobs[i].status # "none" /\ db.jobs[j].status # "none"
      BY <1>3, <3>1 DEF Coherent
    <3>3. db.jobs[i].key # Forced /\ db.jobs[j].key # Forced BY <1>7, <3>2 DEF Outlives
    <3> QED BY <3>1, <3>3, PhotoOfType DEF ImageInv, PlainAnalysedOnce, Plain
  <2> QED BY <2>1, <2>2
<1> QED BY <1>11, <1>13 DEF image, view

LEMMA RowsCommitted ==
  ASSUME ImageInv, db' \in Images, NEW w \in Workers, worker[w].pc = "running",
         db' = Merged(worker[w].image, worker[w].view),
         Written(worker[w].image, worker[w].view) \cap dirty[w] = {},
         worker' = [worker EXCEPT ![w] = [NoWork EXCEPT !.pc = "committed",
                                                        !.msg = worker[w].msg]],
         Overtake(Written(worker[w].image, worker[w].view), Waiting \ {w}),
         UNCHANGED << api, messages, reservations, usage >>
  PROVE  RowsInv' /\ SpendInv' /\ PlainAnalysedOnce' /\ Kept
<1> DEFINE image == worker[w].image
           view == worker[w].view
           jobs == JobsOf(w)
           rows == Written(image, view)
           work == [NoWork EXCEPT !.pc = "committed", !.msg = worker[w].msg]
<1>1. /\ jobs \in SUBSET Jobs /\ view \in Images /\ image \in Images /\ db \in Images
      /\ worker \in [Workers -> WorkerType]
      /\ \A q \in Requests : api[q].view \in Images
      /\ \A u \in Workers : worker[u].view \in Images
  BY JobsOfMessage DEF ImageInv, TypeInv, TypeOK
<1>2. Run(image, view, jobs, worker[w].reserved, reservations)
  BY DEF ImageInv, RowsInv, RunInv
<1>3. Loaded(view) /\ Coherent(db) BY DEF ImageInv, RowsInv, ViewsInv
<1>4. /\ db' = Merged(image, view) /\ Overtake(rows, Waiting \ {w})
      /\ worker' = [worker EXCEPT ![w] = work]
  OBVIOUS
<1>5. work.pc = "committed" /\ work.msg = worker[w].msg /\ work.view = NoRows BY DEF NoWork
<1>6. PlainAnalysedOnce' /\ \A p \in Photos : Analyzed(db', p) => Analyzed(db, p) \/ p \in rows
  BY CommitOnce
<1> HIDE DEF image, view, jobs, rows, work
<1>7. /\ Continues(image, view) /\ Coherent(image)
      /\ \A j \in Jobs : image.jobs[j] # view.jobs[j] => view.jobs[j].status # "none"
      /\ \A j \in Jobs : image.analyses[j] # view.analyses[j] =>
           ReservationKey(image, j) \in reservations
  <2>1. Coherent(image) BY <1>2 DEF Run
  <2>2. /\ Continues(image, view)
        /\ \A j \in Jobs : image.jobs[j] # view.jobs[j] =>
             j \in jobs /\ view.jobs[j].status # "none"
        /\ \A j \in Jobs : image.analyses[j] # view.analyses[j] =>
             j \in jobs /\ ReservationKey(image, j) \in reservations
    BY <1>1, <1>2, <1>3, RunContinues
  <2> QED BY <2>1, <2>2
<1>8. /\ Coherent(db') /\ Outlives(db, db')
      /\ \A j \in Jobs : db.jobs[j].attempts > 0 => db'.jobs[j].attempts > 0
  BY <1>1, <1>3, <1>4, <1>7, MergeCoherent
<1>9. SpendInv' BY <1>1, <1>3, <1>4, <1>7, MergeSpent DEF ImageInv
<1>10. /\ worker'[w] = work /\ \A u \in Workers \ {w} : worker'[u] = worker[u]
  BY <1>1, <1>4
<1>11. \A j \in Jobs : db'.jobs[j] = IF image.jobs[j] # view.jobs[j]
                                       THEN image.jobs[j] ELSE db.jobs[j]
  BY <1>1, <1>4, MergedRows
<1>12. \A u \in Workers : worker'[u].msg = worker[u].msg /\ JobsOf(u)' = JobsOf(u)
  BY <1>5, <1>10 DEF JobsOf
<1>13. ViewsInv'
  <2>1. ASSUME NEW q \in Requests PROVE Coherent(api[q].view) /\ Outlives(api[q].view, db')
    BY <1>1, <1>8, StaysLoaded DEF ImageInv, RowsInv, ViewsInv
  <2>2. ASSUME NEW u \in Workers PROVE Coherent(worker'[u].view) /\ Outlives(worker'[u].view, db')
    <3>1. CASE u = w BY <1>1, <1>5, <1>8, <1>10, <3>1, NoRowsLoaded, NoRowsType, StaysLoaded
    <3>2. CASE u # w
      BY <1>1, <1>8, <1>10, <3>2, StaysLoaded DEF ImageInv, RowsInv, ViewsInv
    <3> QED BY <3>1, <3>2
  <2> QED BY <1>8, <2>1, <2>2 DEF ViewsInv, Loaded
<1>14. FreshInv'
  <2> SUFFICES ASSUME NEW q \in Requests, api[q].pc \in {"idle", "loaded"}, NEW p \in Photos
               PROVE  db'.jobs[<<q, p>>].status = "none"
    BY DEF FreshInv
  <2>1. <<q, p>> \in Jobs /\ db.jobs[<<q, p>>].status = "none"
    BY DEF Jobs, ImageInv, RowsInv, FreshInv
  <2>2. view.jobs[<<q, p>>].status = "none" BY <1>3, <2>1 DEF Loaded, Outlives
  <2> QED BY <1>7, <1>11, <2>1, <2>2
<1>15. RunInv'
  <2> SUFFICES ASSUME NEW u \in Workers
               PROVE  /\ worker'[u].pc = "waiting" => worker'[u].reserved = {}
                      /\ worker'[u].pc = "running" =>
                           Run(worker'[u].image, worker'[u].view, JobsOf(u), worker'[u].reserved,
                               reservations)
    BY <1>12 DEF RunInv
  <2> QED BY <1>5, <1>10 DEF ImageInv, RowsInv, RunInv
<1>16. DirtyInv'
  <2> SUFFICES ASSUME NEW u \in Workers, worker'[u].pc \in {"waiting", "running"},
                      NEW p \in Photos, Analyzed(db', p)
               PROVE  p \in dirty'[u] \/ Analyzed(worker'[u].view, p)
    BY DEF DirtyInv, Waiting
  <2>1. u # w /\ worker'[u] = worker[u] BY <1>5, <1>10
  <2>2. u \in Waiting \ {w} /\ dirty'[u] = dirty[u] \cup rows
    BY <1>4, <2>1 DEF Waiting, Overtake
  <2> QED BY <1>6, <2>1, <2>2 DEF ImageInv, RowsInv, DirtyInv
<1>17. RanInv'
  <2>1. ASSUME NEW u \in Workers, worker'[u].pc = "committed", NEW j \in JobsOf(u)
        PROVE  db'.jobs[j].attempts > 0
    <3>1. CASE u = w
      <4>1. j \in jobs /\ j \in Jobs BY <1>1, <2>1, <3>1 DEF jobs
      <4>2. image.jobs[j].attempts = view.jobs[j].attempts + 1 /\ view.jobs[j].attempts \in Nat
        BY <1>1, <1>2, <4>1, ImagesFields DEF Run
      <4>3. image.jobs[j] # view.jobs[j] BY <4>2
      <4> QED BY <1>11, <4>1, <4>2, <4>3
    <3>2. CASE u # w
      <4>1. worker[u].pc = "committed" BY <1>10, <2>1, <3>2
      <4>2. j \in Jobs BY <2>1, <4>1, JobsOfMessage
      <4> QED BY <1>8, <2>1, <4>1, <4>2 DEF ImageInv, RowsInv, RanInv
    <3> QED BY <3>1, <3>2
  <2>2. DeletedWasRun'
    <3> SUFFICES ASSUME NEW m \in Requests, messages[m].state = "deleted",
                        NEW j \in messages[m].jobs
                 PROVE  db'.jobs[j].attempts > 0
      BY DEF DeletedWasRun
    <3>1. j \in Jobs BY DEF ImageInv, TypeInv, TypeOK
    <3> QED BY <1>8, <3>1 DEF ImageInv, RowsInv, RanInv, DeletedWasRun
  <2> QED BY <1>12, <2>1, <2>2 DEF RanInv
<1> QED BY <1>6, <1>8, <1>9, <1>13, <1>14, <1>15, <1>16, <1>17 DEF RowsInv, Kept

LEMMA RowsWorker ==
  ASSUME ImageInv, NEW w \in Workers, workerStep(w) \/ workerFails(w)
  PROVE  RowsInv' /\ SpendInv' /\ PlainAnalysedOnce' /\ Kept
<1>1. CASE \E m \in Requests : receive(w, m) BY <1>1, RowsReceived
<1>2. CASE startJobs(w) BY <1>2, RowsStarted
<1>3. CASE \E j \in Jobs : worker[w].pc = "running" /\ (reserveUsage(w, j) \/ analyze(w, j))
  BY <1>3, RowsRun
<1>4. CASE commit(w)
  <2> DEFINE rows == Written(worker[w].image, worker[w].view)
             work == [NoWork EXCEPT !.pc = "committed", !.msg = worker[w].msg]
  <2>1. worker[w].pc = "running" /\ UNCHANGED << api, messages, reservations, usage >>
    BY <1>4 DEF commit, guardVars
  <2>2. CASE rows \cap dirty[w] # {}
    <3>1. Idle(w) /\ dirty' = [dirty EXCEPT ![w] = {}] /\ UNCHANGED db
      BY <1>4, <2>2 DEF commit
    <3> QED BY <2>1, <3>1, RowsLeft
  <2>3. CASE rows \cap dirty[w] = {}
    <3>1. /\ db' = Merged(worker[w].image, worker[w].view)
          /\ worker' = [worker EXCEPT ![w] = work]
          /\ Overtake(rows, Waiting \ {w})
      BY <1>4, <2>3 DEF commit
    <3>2. db' \in Images
      <4>1. TypeInv' BY TypeWorker DEF ImageInv
      <4> QED BY <4>1 DEF TypeInv, TypeOK
    <3> QED BY <2>1, <2>3, <3>1, <3>2, RowsCommitted
  <2> QED BY <2>2, <2>3
<1>5. CASE startRefused(w) \/ finish(w) \/ workerFails(w)
  <2>1. /\ Idle(w) /\ worker[w].pc # "idle" /\ UNCHANGED << db, api, reservations, usage >>
        /\ dirty' = dirty \/ dirty' = [dirty EXCEPT ![w] = {}]
        /\ \/ UNCHANGED messages
           \/ /\ worker[w].pc = "committed"
              /\ messages' = [messages EXCEPT ![worker[w].msg].state = "deleted"]
    BY <1>5 DEF startRefused, finish, workerFails, guardVars
  <2> QED BY <2>1, RowsLeft
<1> QED BY <1>1, <1>2, <1>3, <1>4, <1>5 DEF workerStep

-----------------------------------------------------------------------------
LEMMA ImageInit == Init => ImageInv
<1> SUFFICES ASSUME Init PROVE ImageInv OBVIOUS
<1>1. TypeInv BY TypeInit
<1>2. /\ db = NoRows /\ \A q \in Requests : api[q].view = NoRows
      /\ \A q \in Requests : messages[q].state = "none"
      /\ \A w \in Workers : worker[w].view = NoRows /\ worker[w].pc = "idle"
      /\ reservations = {} /\ usage = 0
  BY DEF Init, NoWork, GuardInit
<1>3. /\ \A j \in Jobs : db.jobs[j] = NoJob /\ db.analyses[j] = 0
      /\ NoJob.status = "none"
  BY <1>2 DEF NoRows, NoJob
<1>4. Loaded(NoRows) /\ Coherent(db) BY <1>1, <1>2, NoRowsLoaded DEF TypeInv, TypeOK, Loaded
<1>5. ViewsInv BY <1>2, <1>4 DEF ViewsInv
<1>6. FreshInv BY <1>3 DEF FreshInv, Jobs
<1>7. RunInv /\ DirtyInv /\ RanInv
  BY <1>2 DEF RunInv, DirtyInv, Waiting, RanInv, DeletedWasRun
<1>8. SpendInv
  BY <1>2, <1>3, FS_EmptySet, LimitAssumption DEF SpendInv, SpentOnce, Balanced
<1>9. PlainAnalysedOnce BY <1>3 DEF PlainAnalysedOnce, Plain
<1> QED BY <1>1, <1>5, <1>6, <1>7, <1>8, <1>9 DEF ImageInv, RowsInv

LEMMA ImageStep == ImageInv /\ [Next]_vars => ImageInv' /\ Kept
<1> SUFFICES ASSUME ImageInv, [Next]_vars PROVE ImageInv' /\ Kept OBVIOUS
<1>1. TypeInv' BY TypeStep DEF ImageInv
<1>2. db \in Images /\ db' \in Images BY <1>1 DEF ImageInv, TypeInv, TypeOK
<1>3. RowsInv' /\ SpendInv' /\ PlainAnalysedOnce' /\ Kept
  <2>1. CASE UNCHANGED vars BY <1>2, <2>1, RowsStay DEF vars
  <2>2. CASE finalizeReport
    <3>1. db'.jobs = db.jobs /\ db'.photos = db.photos /\ db'.analyses = db.analyses
      BY <1>2, <2>2 DEF finalizeReport, Images
    <3> QED BY <1>2, <2>2, <3>1, RowsStay DEF finalizeReport, guardVars
  <2>3. ASSUME NEW m \in Requests, visibilityTimeout(m) \/ duplicateDelivery(m)
        PROVE  RowsInv' /\ SpendInv' /\ PlainAnalysedOnce' /\ Kept
    <3>1. messages \in [Requests -> MessageType]
      BY DEF ImageInv, TypeInv, TypeOK, MessageType
    <3>2. PICK s \in {"visible", "dead"} : messages' = [messages EXCEPT ![m].state = s]
      BY <2>3 DEF visibilityTimeout, duplicateDelivery
    <3>3. UNCHANGED << db, api, worker, dirty, lock, reservations, usage >>
      BY <2>3 DEF visibilityTimeout, duplicateDelivery, guardVars
    <3>4. \A n \in Requests : /\ messages'[n].jobs = messages[n].jobs
                              /\ messages'[n].state = "deleted" => messages[n].state = "deleted"
      BY <3>1, <3>2 DEF MessageType
    <3> QED BY <1>2, <3>3, <3>4, RowsStay
  <2> QED BY <2>1, <2>2, <2>3, RowsApi, RowsWorker DEF Next
<1> QED BY <1>1, <1>3 DEF ImageInv

LEMMA ImageAlways == Spec => []ImageInv
BY ImageInit, ImageStep, PTL DEF Spec

-----------------------------------------------------------------------------
\* A photo's plain jobs store one completed analysis together: the first is written with the
\* photo's row, so of two workers that both found none the second is rolled back.
THEOREM OneAnalysis == Spec => []PlainAnalysedOnce
BY ImageAlways, PTL DEF ImageInv

\* A committed job that is called completed has left its photo analyzed: what a request or a
\* worker saves over the rows of others takes no analysis away.
THEOREM CompletedIsAnalysed == Spec => []CompletedHasAnalysis
<1>1. ImageInv => CompletedHasAnalysis
  BY DEF ImageInv, RowsInv, ViewsInv, Coherent, CompletedHasAnalysis, Analyzed
<1> QED BY <1>1, ImageAlways, PTL

\* The counter of the cost guard counts one reservation per key, every key belongs to a job that
\* is there, and no analysis is stored without one.
THEOREM NothingUnreserved == Spec => []SpentOnce
BY ImageAlways, PTL DEF ImageInv, SpendInv

\* A message leaves the queue for good only after a commit that has run all its jobs.
THEOREM NothingForgotten == Spec => []DeletedWasRun
BY ImageAlways, PTL DEF ImageInv, RowsInv, RanInv

\* Whoever saves, and however old the rows are that the save was made from, it takes back no
\* job, no run and no analysis.
THEOREM NothingTakenBack == Spec => CommittedStays
<1>1. Kept => \A j \in Jobs :
                /\ db.jobs[j].status # "none" =>
                     db'.jobs[j].status # "none" /\ db'.jobs[j].key = db.jobs[j].key
                /\ db.jobs[j].attempts > 0 => db'.jobs[j].attempts > 0
                /\ db.analyses[j] <= db'.analyses[j]
  BY DEF Kept, Outlives
<1> QED BY <1>1, ImageInit, ImageStep, PTL DEF Spec, CommittedStays
=============================================================================
