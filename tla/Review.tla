------------------------------- MODULE Review -------------------------------
(***************************************************************************)
(* The review of the findings (vision suggestions) of one inspection, by   *)
(* pages of the web application that read a copy and reload it, by phones  *)
(* that keep a cached copy, and by callers of the API that state no        *)
(* version.  store.ts holds the findings; each handler runs without        *)
(* interruption, between the click of a client and the answer it reads.    *)
(*                                                                         *)
(* Owner, due date and explanation of a finding are left out: assigning it *)
(* or asking for a retake raises its version and no more.                  *)
(***************************************************************************)
EXTENDS Integers, FiniteSets

CONSTANTS
  Suggestions, Retakable,    \* Retakable: quality warnings and photo angles
  Identity,                  \* extracted texts, all of the same field
  Values, Extracted,         \* what a finding can say, and what analysis makes of the photos
  Blank,                     \* values that leave the field of the identity empty
  Pages, Phones,
  MaxChanges                 \* bound: edits, assignments, retakes, updates of the inspection

ASSUME ReviewAssumption ==
  /\ Retakable \subseteq Suggestions /\ Identity \subseteq Suggestions
  /\ Retakable \cap Identity = {} /\ Extracted \subseteq Values
  /\ Blank \subseteq Values /\ Pages \cap Phones = {}
  /\ MaxChanges \in Nat

Clients == Pages \cup Phones
Open    == {"pending", "edited"}
Closed  == {"accepted", "rejected"}
None    == "none"
ASSUME NoneAssumption == None \notin Values \cup Suggestions

Absent == [status |-> "absent", version |-> 0, value |-> None]
NoOp   == [kind |-> None, ids |-> {}, seen |-> Absent, new |-> None]
NotVerified == [source |-> None, value |-> None]

VARIABLES
  suggestion,    \* the findings: status, version, value
  identity,      \* the identity verification of the field: source suggestion and value
  finalized,     \* the inspection
  view,          \* per client: the findings as it shows them
  pc, op,        \* per client: the request it waits for, and the answer
  unread,        \* phones without a cursor, or with one behind inspection.updatedAt
  changes        \* edits, assignments, retakes and updates of the inspection so far

server == << suggestion, identity, finalized, unread >>
client == << view, pc, op >>
vars   == << server, client, changes >>

Init ==
  /\ suggestion = [s \in Suggestions |-> Absent]
  /\ identity = NotVerified /\ finalized = FALSE
  /\ view = [c \in Clients |-> [s \in Suggestions |-> Absent]]
  /\ pc = [c \in Clients |-> "idle"] /\ op = [c \in Clients |-> NoOp]
  /\ unread = Phones /\ changes = 0

-----------------------------------------------------------------------------
(* The store.  A caller without a version states none: seen is Absent.     *)

\* Variant: the version stated is not compared.
assertNoVersion(s, seen) == TRUE

assertExpectedVersion(s, seen) == seen.version = 0 \/ seen.version = suggestion[s].version

\* Analysis adds a finding, which does not touch inspection.updatedAt.
createSuggestion(s, v) ==
  /\ suggestion[s].status = "absent" /\ ~finalized
  /\ suggestion' = [suggestion EXCEPT ![s] = [status |-> "pending", version |-> 1, value |-> v]]
  /\ UNCHANGED << identity, finalized, unread, client, changes >>

\* Variant: what is accepted can be edited.
refusesUnlessRejected(kind, s) ==
  \/ kind \in {"edit", "accept"} /\ suggestion[s].status = "rejected"
  \/ kind = "reject" /\ suggestion[s].status = "accepted"

\* Reviewed findings are not edited, and no decision turns into the other.
refuses(kind, s) ==
  \/ kind = "edit" /\ suggestion[s].status \in Closed
  \/ kind = "accept" /\ suggestion[s].status = "rejected"
  \/ kind = "reject" /\ suggestion[s].status = "accepted"

editSuggestion(s, new) ==
  suggestion' = [suggestion EXCEPT ![s] = [status |-> "edited", version |-> @.version + 1,
                                           value |-> new]]

\* Variant: whatever is accepted verifies the identity.
verifyIdentityAlways(s) == identity' = [source |-> s, value |-> suggestion[s].value]

\* upsertIdentityVerification: the field keeps one row, of the suggestion accepted last that
\* fills it.
upsertIdentityVerification(s) ==
  identity' = IF s \in Identity /\ suggestion[s].value \notin Blank
                THEN [source |-> s, value |-> suggestion[s].value] ELSE identity

\* Accepting what is accepted changes nothing; else recomputeCompleteness stamps the inspection.
acceptSuggestion(s) ==
  \/ suggestion[s].status = "accepted" /\ UNCHANGED << suggestion, identity, unread >>
  \/ /\ suggestion[s].status # "accepted"
     /\ suggestion' = [suggestion EXCEPT ![s].status = "accepted", ![s].version = @ + 1]
     /\ upsertIdentityVerification(s)
     /\ unread' = Phones

\* Variant: a rejection leaves the version as it is.
rejectSameVersion(s) == suggestion' = [suggestion EXCEPT ![s].status = "rejected"]

\* Rejecting what is rejected raises the version again.
rejectSuggestion(s) ==
  suggestion' = [suggestion EXCEPT ![s].status = "rejected", ![s].version = @ + 1]

RaiseVersions(ids) ==
  suggestion' = [s \in Suggestions |->
                   IF s \in ids THEN [suggestion[s] EXCEPT !.version = @ + 1] ELSE suggestion[s]]

\* bulk-assignment, one after the other until one is closed: those before it stay assigned.
\* Nothing asks whether the inspection is finalized.
assignSuggestions(ids, ok) ==
  LET open == { s \in ids : suggestion[s].status \in Open } IN
  IF ok THEN open = ids /\ RaiseVersions(ids)
  ELSE open # ids /\ \E done \in SUBSET open : RaiseVersions(done)

-----------------------------------------------------------------------------
(* A request at the server, and its answer.                                *)

\* "ok" and "conflict" are on their way to the client; any other answer only shows a message.
Answer(c, a) ==
  /\ pc' = [pc EXCEPT ![c] = IF a = "refused" THEN "idle" ELSE a]
  /\ op' = [op EXCEPT ![c] = NoOp]

\* The id of a request about one finding.
Target(c) == CHOOSE s \in Suggestions : op[c].ids = {s}

decide(kind, s, new) ==
  \/ kind = "accept" /\ acceptSuggestion(s)
  \/ kind = "reject" /\ rejectSuggestion(s) /\ UNCHANGED << identity, unread >>
  \/ kind = "edit" /\ editSuggestion(s, new) /\ UNCHANGED << identity, unread >>

\* accept, reject and edit: the version comes first, then mutability, then the status.
handleDecision(c) ==
  LET s == Target(c)
      current == assertExpectedVersion(s, op[c].seen)
      permitted == ~finalized /\ ~refuses(op[c].kind, s) IN
  /\ pc[c] = "sent" /\ op[c].kind \in {"accept", "reject", "edit"}
  /\ \/ current /\ permitted /\ decide(op[c].kind, s, op[c].new) /\ Answer(c, "ok")
     \/ /\ ~(current /\ permitted)
        /\ Answer(c, IF current THEN "refused" ELSE "conflict")
        /\ UNCHANGED << suggestion, identity, unread >>
  /\ UNCHANGED << finalized, view, changes >>

handleBulk(c) ==
  /\ pc[c] = "sent"
  /\ \/ op[c].kind = "assign" /\ assignSuggestions(op[c].ids, TRUE) /\ Answer(c, "ok")
     \/ op[c].kind = "assign" /\ assignSuggestions(op[c].ids, FALSE) /\ Answer(c, "refused")
     \* requestSuggestionRetake looks at neither version nor status.
     \/ op[c].kind = "retake" /\ ~finalized /\ RaiseVersions(op[c].ids) /\ Answer(c, "ok")
     \/ op[c].kind = "retake" /\ finalized /\ UNCHANGED suggestion /\ Answer(c, "refused")
  /\ UNCHANGED << identity, finalized, unread, view, changes >>

handle(c) == handleDecision(c) \/ handleBulk(c)

\* A caller of the API edits without stating a version.
editByScript(s, new) ==
  /\ changes < MaxChanges /\ changes' = changes + 1
  /\ suggestion[s].status # "absent" /\ ~finalized /\ ~refuses("edit", s)
  /\ editSuggestion(s, new)
  /\ UNCHANGED << identity, finalized, unread, client >>

\* Elsewhere the inspection is edited or finalized, which stamps it.
inspectionUpdated ==
  /\ ~finalized /\ unread' = Phones
  /\ \/ finalized' = TRUE /\ UNCHANGED changes
     \/ changes < MaxChanges /\ changes' = changes + 1 /\ UNCHANGED finalized
  /\ UNCHANGED << suggestion, identity, client >>

-----------------------------------------------------------------------------
(* The clients.                                                            *)

\* isActionableSuggestion of the pages; the phone lists what is pending only.
Actionable(c, s) == view[c][s].status \in (IF c \in Pages THEN Open ELSE {"pending"})

Send(c, kind, ids, seen, new) ==
  /\ pc[c] = "idle" /\ pc' = [pc EXCEPT ![c] = "sent"]
  /\ op' = [op EXCEPT ![c] = [kind |-> kind, ids |-> ids, seen |-> seen, new |-> new]]

\* Accept or reject, with the version shown.
reviewSuggestion(c, s) ==
  /\ Actionable(c, s)
  /\ \E kind \in {"accept", "reject"} : Send(c, kind, {s}, view[c][s], None)
  /\ UNCHANGED << server, view, changes >>

\* Edit: the dialog of the phone keeps the finding it was opened for.
saveEdit(c, s, new) ==
  /\ Actionable(c, s) /\ changes < MaxChanges /\ changes' = changes + 1
  /\ Send(c, "edit", {s}, view[c][s], new)
  /\ UNCHANGED << server, view >>

\* The ids selected: a selection stays when a finding is closed meanwhile.
assignSelected(c, ids) ==
  /\ ids # {} /\ \A s \in ids : view[c][s].status # "absent"
  /\ changes < MaxChanges /\ changes' = changes + 1
  /\ Send(c, "assign", ids, Absent, None)
  /\ UNCHANGED << server, view >>

requestSelectedRetakes(c, ids) ==
  /\ ids # {} /\ ids \subseteq Retakable /\ \A s \in ids : view[c][s].status # "absent"
  /\ changes < MaxChanges /\ changes' = changes + 1
  /\ Send(c, "retake", ids, Absent, None)
  /\ UNCHANGED << server, view >>

\* A page loads the whole bundle.
load(c) == view' = [view EXCEPT ![c] = suggestion] /\ UNCHANGED unread

\* A phone gets the bundle only if the inspection is stamped later than its cursor.
bootstrap(c) ==
  /\ view' = IF c \in unread THEN [view EXCEPT ![c] = suggestion] ELSE view
  /\ unread' = unread \ {c}

refresh(c) == IF c \in Pages THEN load(c) ELSE bootstrap(c)

\* The refresh button, or the gesture; also while a request is under way.
refreshByHand(c) ==
  /\ refresh(c)
  /\ UNCHANGED << suggestion, identity, finalized, pc, op, changes >>

\* Variant: nothing is reloaded after a conflict.
reloadsAfterSuccess(c) == pc[c] = "ok"

\* Success reloads; a page reloads after VERSION_CONFLICT too, a phone shows the message.
reloads(c) == pc[c] = "ok" \/ (pc[c] = "conflict" /\ c \in Pages)

\* The answer arrives.
settle(c) ==
  /\ pc[c] \in {"ok", "conflict"}
  /\ IF reloads(c) THEN refresh(c) ELSE UNCHANGED << view, unread >>
  /\ pc' = [pc EXCEPT ![c] = "idle"]
  /\ UNCHANGED << suggestion, identity, finalized, op, changes >>

\* The request, or its answer, is lost: an error like any other.
lose(c) ==
  /\ pc[c] \in {"sent", "ok", "conflict"} /\ Answer(c, "refused")
  /\ UNCHANGED << server, view, changes >>

Next ==
  \/ \E s \in Suggestions : \/ \E v \in Extracted : createSuggestion(s, v)
                            \/ \E v \in Values : editByScript(s, v)
  \/ inspectionUpdated
  \/ \E c \in Clients :
       \/ \E s \in Suggestions : reviewSuggestion(c, s) \/ \E v \in Values : saveEdit(c, s, v)
       \/ \E ids \in SUBSET Suggestions : assignSelected(c, ids) \/ requestSelectedRetakes(c, ids)
       \/ handle(c) \/ settle(c) \/ lose(c) \/ refreshByHand(c)

Spec == Init /\ [][Next]_vars

\* The reviewer at a page keeps deciding what the page shows as open, and not every request
\* or answer is lost.
FairSpec ==
  /\ Spec
  /\ \A p \in Pages : /\ SF_vars(handle(p)) /\ SF_vars(settle(p))
                      /\ \A s \in Suggestions : SF_vars(reviewSuggestion(p, s))

-----------------------------------------------------------------------------
(* Properties.                                                             *)

Finding == [status : {"absent"} \cup Open \cup Closed, version : Nat, value : Values \cup {None}]

\* Every variable has its type, and only open or closed findings have a version.
TypeOK ==
  /\ suggestion \in [Suggestions -> Finding]
  /\ \A s \in Suggestions : suggestion[s].version = 0 <=> suggestion[s].status = "absent"
  /\ identity \in [source : Identity \cup {None}, value : Values \cup {None}]
  /\ finalized \in BOOLEAN
  /\ view \in [Clients -> [Suggestions -> Finding]]
  /\ pc \in [Clients -> {"idle", "sent", "ok", "conflict"}]
  /\ op \in [Clients -> [kind : {None, "accept", "reject", "edit", "assign", "retake"},
                         ids : SUBSET Suggestions, seen : Finding, new : Values \cup {None}]]
  /\ unread \subseteq Phones /\ changes \in 0 .. MaxChanges

\* A version names one content: a copy with the version of the server is the copy the server
\* has, however old caches, dialogs and requests under way are.
VersionNamesContent ==
  \A c \in Clients, s \in Suggestions :
    /\ view[c][s].version <= suggestion[s].version
    /\ view[c][s].version = suggestion[s].version => view[c][s] = suggestion[s]
    /\ op[c].ids = {s} /\ op[c].seen.version = suggestion[s].version => op[c].seen = suggestion[s]

\* docs/runbook.md: "never silently overwrite another reviewer".  When a decision or an edit is
\* carried out, the finding still says what the client showed at the click, and is open.
DecidedAsSeen ==
  [][\A c \in Clients :
       pc[c] = "sent" /\ pc'[c] = "ok" /\ op[c].kind \in {"accept", "reject", "edit"}
         => LET s == Target(c) IN
            suggestion[s].value = op[c].seen.value /\ suggestion[s].status \in Open]_vars

\* The identity of the vehicle rests on a finding that is accepted and says the same.
VerifiedIsAccepted ==
  identity # NotVerified =>
    /\ suggestion[identity.source].status = "accepted"
    /\ suggestion[identity.source].value = identity.value

\* A finding a page shows as open is decided, or the inspection is finalized: a conflict is
\* followed by a reload, so that the next click states a later version.
ReviewsSettle ==
  \A p \in Pages, s \in Suggestions :
    view[p][s].status \in Open ~> suggestion[s].status \in Closed \/ finalized
=============================================================================
