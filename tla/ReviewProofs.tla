---------------------------- MODULE ReviewProofs ----------------------------
(***************************************************************************)
(* Theorems about Review, for any findings, values, pages and phones.      *)
(*                                                                         *)
(* The inductive invariant says of every copy a client shows or has sent   *)
(* that it is not ahead of the store, and is the finding itself if it has  *)
(* its version (Copy); of every decision under way that it is about one    *)
(* finding that was shown as open; and of the verified identity that it    *)
(* rests on a finding.                                                     *)
(***************************************************************************)
EXTENDS Review, TLAPS

Decisions == {"accept", "reject", "edit"}

Copy(x, s) ==
  /\ x.version <= suggestion[s].version
  /\ x.version = suggestion[s].version => x = suggestion[s]
  /\ x.version = 0 => x.status = "absent"

Absents == \A s \in Suggestions : suggestion[s].version = 0 => suggestion[s] = Absent

Copies == \A c \in Clients, s \in Suggestions : Copy(view[c][s], s)

Requested ==
  \A c \in Clients :
    /\ \A s \in Suggestions : op[c].ids = {s} => Copy(op[c].seen, s)
    /\ op[c].kind \in Decisions =>
         \E s \in Suggestions : op[c].ids = {s} /\ op[c].seen.status \in Open
    /\ op[c].kind = "edit" => op[c].new \in Values
    /\ op[c].kind = "retake" => \A s \in op[c].ids : suggestion[s].status # "absent"

Rests == identity # NotVerified => identity.source \in Identity

ReviewInv == TypeOK /\ Absents /\ Copies /\ Requested /\ Rests /\ VerifiedIsAccepted

Request ==
  [kind : {None, "accept", "reject", "edit", "assign", "retake"}, ids : SUBSET Suggestions,
   seen : Finding, new : Values \cup {None}]

LEMMA Constants ==
  /\ Absent \in Finding /\ Absent.version = 0 /\ Absent.status = "absent"
  /\ NoOp \in Request /\ NoOp.kind = None /\ NoOp.ids = {} /\ NoOp.seen = Absent
  /\ None \notin Decisions
<1>1. Absent \in Finding /\ Absent.version = 0 /\ Absent.status = "absent"
  BY DEF Absent, Finding
<1>2. None \notin Decisions BY DEF None, Decisions
<1> QED BY <1>1, <1>2 DEF NoOp, Request

LEMMA InitInv == Init => ReviewInv
<1> SUFFICES ASSUME Init PROVE ReviewInv OBVIOUS
<1> USE Constants DEF Init
<1>1. TypeOK
  <2>1. op \in [Clients -> Request] OBVIOUS
  <2>2. identity \in [source : Identity \cup {None}, value : Values \cup {None}]
    BY DEF NotVerified
  <2>3. view \in [Clients -> [Suggestions -> Finding]] /\ suggestion \in [Suggestions -> Finding]
    OBVIOUS
  <2>4. pc \in [Clients -> {"idle", "sent", "ok", "conflict"}] OBVIOUS
  <2>5. unread \subseteq Phones /\ changes \in 0 .. MaxChanges BY ReviewAssumption
  <2>6. \A s \in Suggestions : suggestion[s] = Absent OBVIOUS
  <2> QED BY <2>1, <2>2, <2>3, <2>4, <2>5, <2>6 DEF TypeOK, Request
<1>2. Absents /\ Copies BY DEF Absents, Copies, Copy
<1>3. Requested BY DEF Requested, Decisions, None
<1>4. Rests /\ VerifiedIsAccepted BY DEF Rests, VerifiedIsAccepted
<1> QED BY <1>1, <1>2, <1>3, <1>4 DEF ReviewInv

-----------------------------------------------------------------------------
(* What a step does to the findings.                                       *)

\* A finding keeps its record or gets a later version; once accepted it stays as accepted.
Moves(s) ==
  /\ suggestion'[s] \in Finding
  /\ suggestion'[s].version # 0 => suggestion'[s].status # "absent"
  /\ \/ suggestion'[s] = suggestion[s]
     \/ suggestion'[s].version > suggestion[s].version
  /\ suggestion[s].status = "accepted" =>
       suggestion'[s].status = "accepted" /\ suggestion'[s].value = suggestion[s].value

FindingsMove == suggestion' = [s \in Suggestions |-> suggestion'[s]] /\ \A s \in Suggestions : Moves(s)

LEMMA Unmoved ==
  ASSUME TypeOK, UNCHANGED suggestion
  PROVE  FindingsMove
BY DEF TypeOK, FindingsMove, Moves

\* One finding gets another record.
LEMMA OneMoves ==
  ASSUME TypeOK, NEW s \in Suggestions, NEW r \in Finding,
         suggestion' = [suggestion EXCEPT ![s] = r],
         r.version > suggestion[s].version, r.status # "absent",
         suggestion[s].status = "accepted" => r.status = "accepted" /\ r.value = suggestion[s].value
  PROVE  FindingsMove
BY DEF TypeOK, FindingsMove, Moves, Finding

LEMMA Raised ==
  ASSUME TypeOK, NEW ids \in SUBSET Suggestions, RaiseVersions(ids),
         \A s \in ids : suggestion[s].status # "absent"
  PROVE  FindingsMove
<1>1. ASSUME NEW s \in Suggestions PROVE Moves(s)
  <2>1. suggestion[s] \in Finding BY DEF TypeOK
  <2>2. CASE s \in ids
    <3> DEFINE r == [suggestion[s] EXCEPT !.version = @ + 1]
    <3>1. /\ r \in Finding /\ r.version = suggestion[s].version + 1
          /\ r.status = suggestion[s].status /\ r.value = suggestion[s].value
      BY <2>1 DEF Finding
    <3>2. suggestion'[s] = r BY <2>2 DEF RaiseVersions
    <3>3. suggestion[s].version \in Nat BY <2>1 DEF Finding
    <3> HIDE DEF r
    <3> QED BY <2>2, <3>1, <3>2, <3>3 DEF Moves
  <2>3. CASE s \notin ids
    BY <2>1, <2>3 DEF RaiseVersions, Moves, TypeOK
  <2> QED BY <2>2, <2>3
<1>2. suggestion' = [s \in Suggestions |-> suggestion'[s]] BY DEF RaiseVersions
<1> QED BY <1>1, <1>2 DEF FindingsMove

\* A finding with a decision.
Restated(x, st, n) == [x EXCEPT !.status = st, !.version = n]

LEMMA RestatedFacts ==
  ASSUME NEW x \in Finding, NEW st \in Closed
  PROVE  /\ Restated(x, st, x.version + 1) \in Finding
         /\ Restated(x, st, x.version + 1).version = x.version + 1
         /\ Restated(x, st, x.version + 1).status = st
         /\ Restated(x, st, x.version + 1).value = x.value
<1>1. x.version + 1 \in Nat BY DEF Finding
<1> QED BY <1>1 DEF Restated, Finding

LEMMA EditMoves ==
  ASSUME TypeOK, NEW s \in Suggestions, NEW v \in Values, editSuggestion(s, v),
         suggestion[s].status # "accepted"
  PROVE  FindingsMove
<1> DEFINE r == [status |-> "edited", version |-> suggestion[s].version + 1, value |-> v]
<1>1. suggestion[s].version \in Nat BY DEF TypeOK, Finding
<1>2. r \in Finding /\ r.version > suggestion[s].version /\ r.status # "absent"
  BY <1>1 DEF Finding, Open
<1>3. suggestion' = [suggestion EXCEPT ![s] = r] BY DEF editSuggestion
<1> HIDE DEF r
<1> QED BY <1>2, <1>3, OneMoves

\* A decision: the target is the one finding the request names.
LEMMA DecisionMoves ==
  ASSUME ReviewInv, NEW c \in Clients, handleDecision(c)
  PROVE  /\ FindingsMove
         /\ Target(c) \in Suggestions /\ op[c].ids = {Target(c)}
         /\ UNCHANGED identity \/ (/\ Target(c) \in Identity
                                   /\ identity' = [source |-> Target(c),
                                                   value |-> suggestion[Target(c)].value]
                                   /\ suggestion'[Target(c)].status = "accepted"
                                   /\ suggestion'[Target(c)].value = suggestion[Target(c)].value)
<1> DEFINE s == Target(c)
<1>0. TypeOK /\ op[c].kind \in Decisions BY DEF ReviewInv, handleDecision, Decisions
<1>1. s \in Suggestions /\ op[c].ids = {s}
  <2>1. \E t \in Suggestions : op[c].ids = {t} BY <1>0 DEF ReviewInv, Requested
  <2> QED BY <2>1 DEF Target
<1> HIDE DEF s
<1>2. suggestion[s] \in Finding /\ suggestion[s].version \in Nat
      /\ (suggestion[s].version = 0 <=> suggestion[s].status = "absent")
  BY <1>0, <1>1 DEF TypeOK, Finding
<1>3. CASE UNCHANGED << suggestion, identity >> BY <1>0, <1>1, <1>3, Unmoved DEF s
<1>4. CASE decide(op[c].kind, s, op[c].new) /\ ~refuses(op[c].kind, s)
  <2>1. CASE op[c].kind = "accept" /\ acceptSuggestion(s) /\ suggestion[s].status # "accepted"
    <3> DEFINE r == Restated(suggestion[s], "accepted", suggestion[s].version + 1)
    <3>1. /\ r \in Finding /\ r.version = suggestion[s].version + 1 /\ r.status = "accepted"
          /\ r.value = suggestion[s].value
      <4>1. "accepted" \in Closed BY DEF Closed
      <4> QED BY <1>2, <4>1, RestatedFacts
    <3>2. suggestion' = [suggestion EXCEPT ![s] = r]
      BY <1>1, <2>1 DEF acceptSuggestion, Restated, TypeOK
    <3>3. suggestion'[s] = r BY <1>0, <1>1, <3>2 DEF TypeOK
    <3> HIDE DEF r
    <3>4. FindingsMove
      <4>1. r.version > suggestion[s].version /\ r.status # "absent" BY <1>2, <3>1
      <4> QED BY <1>0, <1>1, <2>1, <3>1, <3>2, <4>1, OneMoves
    <3>5. upsertIdentityVerification(s) BY <2>1 DEF acceptSuggestion
    <3> QED BY <1>1, <3>1, <3>3, <3>4, <3>5 DEF upsertIdentityVerification, s
  <2>2. CASE op[c].kind = "accept" /\ acceptSuggestion(s) /\ suggestion[s].status = "accepted"
    BY <1>0, <1>1, <2>2, Unmoved DEF acceptSuggestion, s
  <2>3. CASE op[c].kind = "reject" /\ rejectSuggestion(s) /\ UNCHANGED identity
    <3> DEFINE r == Restated(suggestion[s], "rejected", suggestion[s].version + 1)
    <3>1. r \in Finding /\ r.version = suggestion[s].version + 1 /\ r.status = "rejected"
      <4>1. "rejected" \in Closed BY DEF Closed
      <4> QED BY <1>2, <4>1, RestatedFacts
    <3>2. suggestion' = [suggestion EXCEPT ![s] = r]
      BY <1>1, <2>3 DEF rejectSuggestion, Restated, TypeOK
    <3>3. suggestion[s].status # "accepted" BY <1>4, <2>3 DEF refuses
    <3> HIDE DEF r
    <3>4. FindingsMove
      <4>1. r.version > suggestion[s].version /\ r.status # "absent" BY <1>2, <3>1
      <4> QED BY <1>0, <1>1, <3>1, <3>2, <3>3, <4>1, OneMoves
    <3> QED BY <1>1, <2>3, <3>4 DEF s
  <2>4. CASE op[c].kind = "edit" /\ editSuggestion(s, op[c].new) /\ UNCHANGED identity
    <3>1. op[c].new \in Values BY <2>4 DEF ReviewInv, Requested
    <3>2. suggestion[s].status # "accepted" BY <1>4, <2>4 DEF refuses, Closed
    <3>3. FindingsMove BY <1>0, <1>1, <2>4, <3>1, <3>2, EditMoves
    <3> QED BY <1>1, <2>4, <3>3 DEF s
  <2> QED BY <1>0, <1>4, <2>1, <2>2, <2>3, <2>4 DEF decide
<1> QED BY <1>3, <1>4 DEF handleDecision, s

LEMMA BulkMoves ==
  ASSUME ReviewInv, NEW c \in Clients, handleBulk(c)
  PROVE  FindingsMove
<1> TypeOK /\ op[c].ids \in SUBSET Suggestions BY DEF ReviewInv, TypeOK
<1>1. ASSUME NEW done \in SUBSET op[c].ids, RaiseVersions(done),
             \A s \in done : suggestion[s].status \in Open
      PROVE  FindingsMove
  <2>1. \A s \in done : suggestion[s].status # "absent" BY <1>1 DEF Open
  <2> QED BY <1>1, <2>1, Raised
<1>2. CASE op[c].kind = "assign"
  <2>1. ASSUME NEW ok \in BOOLEAN, assignSuggestions(op[c].ids, ok) PROVE FindingsMove
    BY <1>1, <2>1 DEF assignSuggestions
  <2> QED BY <1>2, <2>1 DEF handleBulk
<1>3. CASE op[c].kind = "retake" /\ RaiseVersions(op[c].ids)
  <2>1. \A s \in op[c].ids : suggestion[s].status # "absent"
    BY <1>3 DEF ReviewInv, Requested
  <2> QED BY <1>3, <2>1, Raised
<1> QED BY <1>2, <1>3, Unmoved DEF handleBulk

LEMMA CreateMoves ==
  ASSUME TypeOK, NEW s \in Suggestions, NEW v \in Extracted, createSuggestion(s, v)
  PROVE  FindingsMove
<1> DEFINE r == [status |-> "pending", version |-> 1, value |-> v]
<1>1. suggestion[s].version = 0 /\ suggestion[s].status = "absent" BY DEF createSuggestion, TypeOK
<1>2. r \in Finding /\ r.version > suggestion[s].version /\ r.status # "absent"
  BY <1>1, ReviewAssumption DEF Finding, Open
<1>3. suggestion' = [suggestion EXCEPT ![s] = r] BY DEF createSuggestion
<1> HIDE DEF r
<1> QED BY <1>1, <1>2, <1>3, OneMoves

\* No step takes back a version, or an acceptance.
LEMMA NextMoves == ReviewInv /\ Next => FindingsMove
<1> SUFFICES ASSUME ReviewInv, Next PROVE FindingsMove OBVIOUS
<1> TypeOK BY DEF ReviewInv
<1>1. ASSUME NEW s \in Suggestions, NEW v \in Extracted, createSuggestion(s, v)
      PROVE  FindingsMove
  BY <1>1, CreateMoves
<1>2. ASSUME NEW s \in Suggestions, NEW v \in Values, editByScript(s, v) PROVE FindingsMove
  BY <1>2, EditMoves DEF editByScript, refuses, Closed
<1>3. ASSUME NEW c \in Clients, handle(c) PROVE FindingsMove
  BY <1>3, DecisionMoves, BulkMoves DEF handle
<1>4. CASE UNCHANGED suggestion BY <1>4, Unmoved
<1> QED
  BY <1>1, <1>2, <1>3, <1>4
  DEF Next, inspectionUpdated, reviewSuggestion, saveEdit, assignSelected,
      requestSelectedRetakes, settle, lose, refreshByHand, server

-----------------------------------------------------------------------------
(* What a step does to the clients.                                        *)

\* A client shows what it showed, or the findings of now.
LEMMA ViewsMove ==
  ASSUME ReviewInv, Next
  PROVE  view' = view \/ (/\ UNCHANGED suggestion
                          /\ \E c \in Clients : view' = [view EXCEPT ![c] = suggestion])
BY DEF Next, createSuggestion, editByScript, inspectionUpdated, client, handle, handleDecision,
       handleBulk, reviewSuggestion, saveEdit, assignSelected, requestSelectedRetakes, server,
       settle, lose, refreshByHand, refresh, load, bootstrap

\* A client gives up its request, or makes one of a kind about what it shows.
Asks(c, kind, ids, seen, new) ==
  /\ [kind |-> kind, ids |-> ids, seen |-> seen, new |-> new] \in Request
  /\ op' = [op EXCEPT ![c] = [kind |-> kind, ids |-> ids, seen |-> seen, new |-> new]]
  /\ pc[c] = "idle" /\ pc' = [pc EXCEPT ![c] = "sent"]
  /\ UNCHANGED << server, view >>
  /\ \/ /\ kind \in Decisions
        /\ \E s \in Suggestions : ids = {s} /\ seen = view[c][s] /\ seen.status \in Open
        /\ kind = "edit" => new \in Values
     \/ /\ kind \in {"assign", "retake"} /\ seen = Absent
        /\ \A s \in ids : view[c][s].status # "absent"

LEMMA OpsMove ==
  ASSUME ReviewInv, Next
  PROVE  \/ op' = op
         \/ \E c \in Clients : op' = [op EXCEPT ![c] = NoOp]
         \/ \E c \in Clients, kind \in Decisions \cup {"assign", "retake"},
               ids \in SUBSET Suggestions, seen \in Finding, new \in Values \cup {None} :
               Asks(c, kind, ids, seen, new)
<1> DEFINE Asked == \E c \in Clients, kind \in Decisions \cup {"assign", "retake"},
                      ids \in SUBSET Suggestions, seen \in Finding, new \in Values \cup {None} :
                      Asks(c, kind, ids, seen, new)
<1>0. /\ \A c \in Clients, s \in Suggestions : view[c][s] \in Finding
      /\ None \in Values \cup {None} /\ Absent \in Finding
  BY Constants DEF ReviewInv, TypeOK
<1>1. ASSUME NEW c \in Clients, NEW s \in Suggestions, reviewSuggestion(c, s) PROVE Asked
  <2>1. PICK kind \in {"accept", "reject"} : Send(c, kind, {s}, view[c][s], None)
    BY <1>1 DEF reviewSuggestion
  <2>2. view[c][s].status \in Open BY <1>1 DEF reviewSuggestion, Actionable, Open
  <2>3. UNCHANGED << server, view >> BY <1>1 DEF reviewSuggestion
  <2>4. Asks(c, kind, {s}, view[c][s], None)
    BY <1>0, <2>1, <2>2, <2>3 DEF Asks, Send, Request, Decisions
  <2>5. kind \in Decisions /\ {s} \in SUBSET Suggestions BY DEF Decisions
  <2> QED BY <1>0, <2>4, <2>5
<1>2. ASSUME NEW c \in Clients, NEW s \in Suggestions, NEW v \in Values, saveEdit(c, s, v)
      PROVE  Asked
  <2>1. Send(c, "edit", {s}, view[c][s], v) /\ UNCHANGED << server, view >>
    BY <1>2 DEF saveEdit
  <2>2. view[c][s].status \in Open BY <1>2 DEF saveEdit, Actionable, Open
  <2>3. Asks(c, "edit", {s}, view[c][s], v)
    BY <1>0, <2>1, <2>2 DEF Asks, Send, Request, Decisions
  <2>4. "edit" \in Decisions /\ {s} \in SUBSET Suggestions BY DEF Decisions
  <2> QED BY <1>0, <2>3, <2>4
<1>3. ASSUME NEW c \in Clients, NEW ids \in SUBSET Suggestions, NEW kind \in {"assign", "retake"},
             Send(c, kind, ids, Absent, None), UNCHANGED << server, view >>,
             \A s \in ids : view[c][s].status # "absent"
      PROVE  Asked
  <2>1. Asks(c, kind, ids, Absent, None)
    BY <1>0, <1>3 DEF Asks, Send, Request
  <2> QED BY <1>0, <2>1
<1>4. ASSUME NEW c \in Clients, NEW ids \in SUBSET Suggestions,
             assignSelected(c, ids) \/ requestSelectedRetakes(c, ids)
      PROVE  Asked
  BY <1>3, <1>4 DEF assignSelected, requestSelectedRetakes
<1>5. ASSUME NEW c \in Clients, handle(c) \/ lose(c)
      PROVE  op' = [op EXCEPT ![c] = NoOp]
  BY <1>5 DEF handle, handleDecision, handleBulk, lose, Answer
<1> HIDE DEF Asked
<1>6. op' = op \/ (\E c \in Clients : op' = [op EXCEPT ![c] = NoOp]) \/ Asked
  BY <1>1, <1>2, <1>4, <1>5
  DEF Next, createSuggestion, editByScript, inspectionUpdated, client, settle, refreshByHand
<1> QED BY <1>6 DEF Asked

LEMMA IdentityMoves ==
  ASSUME ReviewInv, Next
  PROVE  \/ identity' = identity
         \/ \E s \in Identity : /\ identity' = [source |-> s, value |-> suggestion[s].value]
                                /\ suggestion'[s].status = "accepted"
                                /\ suggestion'[s].value = suggestion[s].value
<1>1. ASSUME NEW c \in Clients, handleDecision(c)
      PROVE  \/ identity' = identity
             \/ \E s \in Identity : /\ identity' = [source |-> s, value |-> suggestion[s].value]
                                    /\ suggestion'[s].status = "accepted"
                                    /\ suggestion'[s].value = suggestion[s].value
  BY <1>1, DecisionMoves
<1>2. identity' = identity \/ \E c \in Clients : handleDecision(c)
  BY DEF Next, createSuggestion, editByScript, inspectionUpdated, handle, handleBulk,
         reviewSuggestion, saveEdit, assignSelected, requestSelectedRetakes, server, settle, lose,
         refreshByHand
<1> QED BY <1>1, <1>2

-----------------------------------------------------------------------------
(* The invariant is inductive.                                             *)

LEMMA OthersTyped ==
  ASSUME TypeOK, Next
  PROVE  /\ finalized' \in BOOLEAN /\ pc' \in [Clients -> {"idle", "sent", "ok", "conflict"}]
         /\ unread' \subseteq Phones /\ changes' \in 0 .. MaxChanges
<1> USE DEF TypeOK
<1>1. finalized' \in BOOLEAN
  BY DEF Next, createSuggestion, editByScript, inspectionUpdated, handle, handleDecision,
         handleBulk, reviewSuggestion, saveEdit, assignSelected, requestSelectedRetakes, server,
         settle, lose, refreshByHand
<1>2. unread' \subseteq Phones
  BY DEF Next, createSuggestion, editByScript, inspectionUpdated, handle, handleDecision, decide,
         acceptSuggestion, handleBulk, reviewSuggestion, saveEdit, assignSelected,
         requestSelectedRetakes, server, settle, lose, refreshByHand, refresh, load, bootstrap
<1>3. changes' \in 0 .. MaxChanges
  <2>1. changes' = changes \/ (changes < MaxChanges /\ changes' = changes + 1)
    BY DEF Next, createSuggestion, editByScript, inspectionUpdated, handle, handleDecision,
           handleBulk, reviewSuggestion, saveEdit, assignSelected, requestSelectedRetakes, settle,
           lose, refreshByHand
  <2> QED BY <2>1, ReviewAssumption
<1>4. pc' \in [Clients -> {"idle", "sent", "ok", "conflict"}]
  <2>1. \/ pc' = pc
        \/ \E c \in Clients, a \in {"idle", "sent", "ok", "conflict"} : pc' = [pc EXCEPT ![c] = a]
    <3>1. ASSUME NEW c \in Clients, handle(c) \/ lose(c)
          PROVE  \E a \in {"idle", "sent", "ok", "conflict"} : pc' = [pc EXCEPT ![c] = a]
      <4>1. \E a \in {"ok", "conflict", "refused"} : Answer(c, a)
        BY <3>1 DEF handle, handleDecision, handleBulk, lose
      <4> QED BY <4>1 DEF Answer
    <3>2. ASSUME NEW c \in Clients, settle(c)
          PROVE  \E a \in {"idle", "sent", "ok", "conflict"} : pc' = [pc EXCEPT ![c] = a]
      BY <3>2 DEF settle
    <3>3. ASSUME NEW c \in Clients, NEW s \in Suggestions,
                 reviewSuggestion(c, s) \/ \E v \in Values : saveEdit(c, s, v)
          PROVE  \E a \in {"idle", "sent", "ok", "conflict"} : pc' = [pc EXCEPT ![c] = a]
      BY <3>3 DEF reviewSuggestion, saveEdit, Send
    <3>4. ASSUME NEW c \in Clients, NEW ids \in SUBSET Suggestions,
                 assignSelected(c, ids) \/ requestSelectedRetakes(c, ids)
          PROVE  \E a \in {"idle", "sent", "ok", "conflict"} : pc' = [pc EXCEPT ![c] = a]
      BY <3>4 DEF assignSelected, requestSelectedRetakes, Send
    <3> QED BY <3>1, <3>2, <3>3, <3>4
            DEF Next, createSuggestion, editByScript, inspectionUpdated, client, refreshByHand
  <2> QED BY <2>1
<1> QED BY <1>1, <1>2, <1>3, <1>4

\* What was a copy of the findings is one of the later findings.
CopyLater(x, s) ==
  /\ x.version <= suggestion'[s].version
  /\ x.version = suggestion'[s].version => x = suggestion'[s]
  /\ x.version = 0 => x.status = "absent"

LEMMA CopyStays ==
  ASSUME TypeOK, FindingsMove, NEW s \in Suggestions, NEW x \in Finding, Copy(x, s)
  PROVE  CopyLater(x, s)
<1>1. suggestion[s].version \in Nat /\ suggestion'[s].version \in Nat /\ x.version \in Nat
  BY DEF TypeOK, FindingsMove, Moves, Finding
<1> QED BY <1>1 DEF FindingsMove, Moves, Copy, CopyLater

LEMMA OwnCopy ==
  ASSUME TypeOK, Absents, NEW s \in Suggestions
  PROVE  Copy(suggestion[s], s) /\ Copy(Absent, s)
<1>1. suggestion[s].version \in Nat BY DEF TypeOK, Finding
<1> QED BY <1>1, Constants DEF TypeOK, Absents, Copy

LEMMA InvStep == ReviewInv /\ [Next]_vars => ReviewInv'
<1> SUFFICES ASSUME ReviewInv, [Next]_vars PROVE ReviewInv' OBVIOUS
<1>1. CASE UNCHANGED vars
  BY <1>1 DEF vars, server, client, ReviewInv, TypeOK, Absents, Copies, Copy, Requested, Rests,
         VerifiedIsAccepted
<1>2. CASE Next
  <2>0. TypeOK /\ FindingsMove BY <1>2, NextMoves DEF ReviewInv
  <2>1. \A s \in Suggestions :
          /\ suggestion[s] \in Finding /\ suggestion'[s] \in Finding
          /\ suggestion[s].version \in Nat /\ suggestion'[s].version \in Nat
    BY <2>0 DEF TypeOK, FindingsMove, Moves, Finding
  <2>2. \A s \in Suggestions : suggestion'[s].version = 0 => suggestion'[s] = suggestion[s]
    BY <2>0, <2>1 DEF FindingsMove, Moves
  <2>3. Absents' BY <2>2 DEF ReviewInv, Absents
  <2>4. view' \in [Clients -> [Suggestions -> Finding]]
    BY <1>2, <2>0, ViewsMove DEF TypeOK
  <2>5. op' \in [Clients -> Request]
    <3>1. op \in [Clients -> Request] BY <2>0 DEF TypeOK, Request
    <3>2. ASSUME NEW c \in Clients, op' = [op EXCEPT ![c] = NoOp]
          PROVE  op' \in [Clients -> Request]
      BY <3>1, <3>2, Constants
    <3>3. ASSUME NEW c \in Clients, NEW kind \in Decisions \cup {"assign", "retake"},
                 NEW ids \in SUBSET Suggestions, NEW seen \in Finding,
                 NEW new \in Values \cup {None}, Asks(c, kind, ids, seen, new)
          PROVE  op' \in [Clients -> Request]
      BY <3>1, <3>3 DEF Asks
    <3> QED BY <1>2, <3>1, <3>2, <3>3, OpsMove
  <2>6. TypeOK'
    <3>1. suggestion' \in [Suggestions -> Finding]
      BY <2>0 DEF FindingsMove, Moves
    <3>2. \A s \in Suggestions : suggestion'[s].version = 0 <=> suggestion'[s].status = "absent"
      BY <2>0, <2>2 DEF TypeOK, FindingsMove, Moves
    <3>3. identity' \in [source : Identity \cup {None}, value : Values \cup {None}]
      <4>1. ASSUME NEW s \in Identity
            PROVE  [source |-> s, value |-> suggestion[s].value]
                     \in [source : Identity \cup {None}, value : Values \cup {None}]
        BY <2>1, ReviewAssumption DEF Finding
      <4> QED BY <1>2, <2>0, <4>1, IdentityMoves DEF TypeOK
    <3> QED BY <1>2, <2>0, <2>4, <2>5, <3>1, <3>2, <3>3, OthersTyped DEF TypeOK, Request
  <2>7. Copies'
    <3>1. ASSUME NEW c \in Clients, NEW s \in Suggestions PROVE CopyLater(view'[c][s], s)
      <4>1. view[c][s] \in Finding /\ Copy(view[c][s], s) BY <2>0 DEF TypeOK, ReviewInv, Copies
      <4>2. CopyLater(view[c][s], s) BY <2>0, <4>1, CopyStays
      <4>3. CopyLater(suggestion[s], s) BY <2>0, <2>1, CopyStays, OwnCopy DEF ReviewInv
      <4>4. view'[c][s] = view[c][s] \/ view'[c][s] = suggestion[s]
        BY <1>2, <2>0, ViewsMove DEF TypeOK
      <4> QED BY <4>2, <4>3, <4>4
    <3> QED BY <3>1 DEF Copies, Copy, CopyLater
  <2>8. Requested'
    <3>1. ASSUME NEW c \in Clients
          PROVE  /\ \A s \in Suggestions : op'[c].ids = {s} => CopyLater(op'[c].seen, s)
                 /\ op'[c].kind \in Decisions =>
                      \E s \in Suggestions : op'[c].ids = {s} /\ op'[c].seen.status \in Open
                 /\ op'[c].kind = "edit" => op'[c].new \in Values
                 /\ op'[c].kind = "retake" =>
                      \A s \in op'[c].ids : suggestion'[s].status # "absent"
      <4>0. /\ op[c] \in Request /\ op[c].seen \in Finding /\ op[c].ids \subseteq Suggestions
            /\ op \in [Clients -> Request]
        BY <2>0 DEF TypeOK, Request
      <4>1. CASE op'[c] = op[c]
        <5>1. ASSUME NEW s \in Suggestions, op[c].ids = {s} PROVE CopyLater(op[c].seen, s)
          BY <2>0, <4>0, <5>1, CopyStays DEF ReviewInv, Requested
        <5>2. ASSUME NEW s \in Suggestions, suggestion[s].status # "absent"
              PROVE  suggestion'[s].status # "absent"
          BY <2>0, <2>2, <5>2 DEF TypeOK, FindingsMove, Moves
        <5>3. /\ op[c].kind \in Decisions =>
                   \E s \in Suggestions : op[c].ids = {s} /\ op[c].seen.status \in Open
              /\ op[c].kind = "edit" => op[c].new \in Values
              /\ op[c].kind = "retake" => \A s \in op[c].ids : suggestion[s].status # "absent"
          BY DEF ReviewInv, Requested
        <5> QED BY <4>0, <4>1, <5>1, <5>2, <5>3
      <4>2. CASE op'[c] = NoOp BY <4>2, Constants DEF Decisions, None
      <4>3. ASSUME NEW kind \in Decisions \cup {"assign", "retake"},
                   NEW ids \in SUBSET Suggestions, NEW seen \in Finding,
                   NEW new \in Values \cup {None}, Asks(c, kind, ids, seen, new),
                   op'[c] = [kind |-> kind, ids |-> ids, seen |-> seen, new |-> new]
            PROVE  /\ \A s \in Suggestions : ids = {s} => CopyLater(seen, s)
                   /\ kind \in Decisions => \E s \in Suggestions : ids = {s} /\ seen.status \in Open
                   /\ kind = "edit" => new \in Values
                   /\ kind = "retake" => \A s \in ids : suggestion'[s].status # "absent"
        <5>1. ASSUME NEW s \in Suggestions, ids = {s} PROVE CopyLater(seen, s)
          <6>1. seen = view[c][s] \/ seen = Absent BY <4>3, <5>1 DEF Asks
          <6>2. Copy(view[c][s], s) /\ Copy(Absent, s)
            BY <2>0, OwnCopy DEF ReviewInv, Copies
          <6>3. Copy(seen, s) BY <6>1, <6>2
          <6> QED BY <2>0, <6>3, CopyStays
        <5>2. /\ kind \in Decisions => \E s \in Suggestions : ids = {s} /\ seen.status \in Open
              /\ kind = "edit" => new \in Values
          BY <4>3 DEF Asks, Decisions
        <5>3. ASSUME kind = "retake", NEW s \in ids PROVE suggestion'[s].status # "absent"
          <6>1. view[c][s].status # "absent" BY <4>3, <5>3 DEF Asks, Decisions
          <6>2. suggestion' = suggestion BY <4>3 DEF Asks, server
          <6>3. view[c][s].version \in Nat /\ Copy(view[c][s], s)
            BY <2>0 DEF ReviewInv, Copies, TypeOK, Finding
          <6>4. suggestion[s].version # 0 BY <2>1, <6>1, <6>3 DEF Copy
          <6> QED BY <2>0, <6>2, <6>4 DEF TypeOK
        <5> QED BY <5>1, <5>2, <5>3
      <4>4. \/ op'[c] = op[c] \/ op'[c] = NoOp
            \/ \E kind \in Decisions \cup {"assign", "retake"}, ids \in SUBSET Suggestions,
                  seen \in Finding, new \in Values \cup {None} :
                  /\ Asks(c, kind, ids, seen, new)
                  /\ op'[c] = [kind |-> kind, ids |-> ids, seen |-> seen, new |-> new]
        <5>1. ASSUME NEW d \in Clients, op' = [op EXCEPT ![d] = NoOp]
              PROVE  op'[c] = op[c] \/ op'[c] = NoOp
          BY <4>0, <5>1
        <5>2. ASSUME NEW d \in Clients, NEW kind \in Decisions \cup {"assign", "retake"},
                     NEW ids \in SUBSET Suggestions, NEW seen \in Finding,
                     NEW new \in Values \cup {None}, Asks(d, kind, ids, seen, new)
              PROVE  op'[c] = op[c] \/ (c = d /\ op'[c] = [kind |-> kind, ids |-> ids,
                                                         seen |-> seen, new |-> new])
          BY <4>0, <5>2 DEF Asks
        <5>3. ASSUME NEW d \in Clients, NEW kind \in Decisions \cup {"assign", "retake"},
                     NEW ids \in SUBSET Suggestions, NEW seen \in Finding,
                     NEW new \in Values \cup {None}, Asks(d, kind, ids, seen, new),
                     op'[c] # op[c]
              PROVE  /\ Asks(c, kind, ids, seen, new)
                     /\ op'[c] = [kind |-> kind, ids |-> ids, seen |-> seen, new |-> new]
          BY <5>2, <5>3
        <5>4. CASE op' = op BY <5>4
        <5>5. CASE \E d \in Clients : op' = [op EXCEPT ![d] = NoOp] BY <5>1, <5>5
        <5>6. CASE /\ op'[c] # op[c]
                   /\ \E d \in Clients, kind \in Decisions \cup {"assign", "retake"},
                        ids \in SUBSET Suggestions, seen \in Finding, new \in Values \cup {None} :
                        Asks(d, kind, ids, seen, new)
          <6>1. PICK d \in Clients, kind \in Decisions \cup {"assign", "retake"},
                     ids \in SUBSET Suggestions, seen \in Finding, new \in Values \cup {None} :
                     Asks(d, kind, ids, seen, new)
            BY <5>6
          <6>2. /\ Asks(c, kind, ids, seen, new)
                /\ op'[c] = [kind |-> kind, ids |-> ids, seen |-> seen, new |-> new]
            BY <5>3, <5>6, <6>1
          <6> QED BY <6>2
        <5> QED BY <1>2, <5>4, <5>5, <5>6, OpsMove
      <4>5. ASSUME NEW kind \in Decisions \cup {"assign", "retake"},
                   NEW ids \in SUBSET Suggestions, NEW seen \in Finding,
                   NEW new \in Values \cup {None}, Asks(c, kind, ids, seen, new),
                   op'[c] = [kind |-> kind, ids |-> ids, seen |-> seen, new |-> new]
            PROVE  /\ \A s \in Suggestions : op'[c].ids = {s} => CopyLater(op'[c].seen, s)
                   /\ op'[c].kind \in Decisions =>
                        \E s \in Suggestions : op'[c].ids = {s} /\ op'[c].seen.status \in Open
                   /\ op'[c].kind = "edit" => op'[c].new \in Values
                   /\ op'[c].kind = "retake" =>
                        \A s \in op'[c].ids : suggestion'[s].status # "absent"
        <5>1. /\ op'[c].kind = kind /\ op'[c].ids = ids
              /\ op'[c].seen = seen /\ op'[c].new = new
          BY <4>5
        <5> QED BY <4>3, <4>5, <5>1
      <4> QED BY <4>1, <4>2, <4>4, <4>5
    <3> QED BY <3>1 DEF Requested, Copy, CopyLater
  <2>9. Rests' BY <1>2, IdentityMoves DEF ReviewInv, Rests
  <2>10. VerifiedIsAccepted'
    <3>1. CASE identity' = identity
      <4>1. identity # NotVerified => identity.source \in Suggestions
        BY ReviewAssumption DEF ReviewInv, Rests
      <4> QED BY <2>0, <3>1, <4>1 DEF ReviewInv, VerifiedIsAccepted, FindingsMove, Moves
    <3>2. ASSUME NEW s \in Identity, identity' = [source |-> s, value |-> suggestion[s].value],
                 suggestion'[s].status = "accepted", suggestion'[s].value = suggestion[s].value
          PROVE  VerifiedIsAccepted'
      BY <3>2 DEF VerifiedIsAccepted
    <3> QED BY <1>2, <3>1, <3>2, IdentityMoves
  <2> QED BY <2>3, <2>6, <2>7, <2>8, <2>9, <2>10 DEF ReviewInv
<1> QED BY <1>1, <1>2

LEMMA ReviewInvariant == Spec => []ReviewInv
BY InitInv, InvStep, PTL DEF Spec

\* Every variable has its type.
THEOREM ReviewTypes == Spec => []TypeOK
<1>1. ReviewInv => TypeOK BY DEF ReviewInv
<1> QED BY <1>1, ReviewInvariant, PTL

\* A version (assertExpectedVersion, store.ts) names one content, however old a copy is.
THEOREM VersionsName == Spec => []VersionNamesContent
<1>1. ReviewInv => VersionNamesContent
  BY DEF ReviewInv, Copies, Requested, Copy, VersionNamesContent
<1> QED BY <1>1, ReviewInvariant, PTL

\* The verified identity (upsertIdentityVerification, store.ts) rests on an accepted finding
\* that says the same, whatever is edited, rejected or accepted afterwards.
THEOREM IdentityRests == Spec => []VerifiedIsAccepted
<1>1. ReviewInv => VerifiedIsAccepted BY DEF ReviewInv
<1> QED BY <1>1, ReviewInvariant, PTL

\* A decision is carried out on what the client showed when it was taken, or refused.
THEOREM DecisionsAsSeen == Spec => DecidedAsSeen
<1>1. ASSUME ReviewInv, Next, NEW c \in Clients, pc[c] = "sent", pc'[c] = "ok",
             op[c].kind \in {"accept", "reject", "edit"}
      PROVE  /\ suggestion[Target(c)].value = op[c].seen.value
             /\ suggestion[Target(c)].status \in Open
  <2>0. TypeOK /\ pc \in [Clients -> {"idle", "sent", "ok", "conflict"}]
    BY <1>1 DEF ReviewInv, TypeOK
  <2>1. handleDecision(c) /\ Answer(c, "ok")
    <3>1. ASSUME NEW d \in Clients, NEW a, pc' = [pc EXCEPT ![d] = a], a # "ok" \/ d # c
          PROVE  FALSE
      BY <1>1, <2>0, <3>1
    <3>2. CASE pc' = pc BY <1>1, <3>2
    <3>3. ASSUME NEW d \in Clients, handle(d) PROVE handleDecision(c) /\ Answer(c, "ok")
      <4>1. \E a \in {"ok", "conflict", "refused"} : Answer(d, a)
        BY <3>3 DEF handle, handleDecision, handleBulk
      <4>2. PICK a \in {"ok", "conflict", "refused"} : Answer(d, a) BY <4>1
      <4>3. d = c /\ a = "ok" BY <3>1, <4>2 DEF Answer
      <4>4. ~handleBulk(c) BY <1>1 DEF handleBulk
      <4> QED BY <3>3, <4>2, <4>3, <4>4 DEF handle
    <3>4. ASSUME NEW d \in Clients, settle(d) \/ lose(d) PROVE FALSE
      BY <3>1, <3>4 DEF settle, lose, Answer
    <3>5. ASSUME NEW d \in Clients, NEW kind, NEW ids, NEW seen, NEW new,
                 Send(d, kind, ids, seen, new)
          PROVE  FALSE
      BY <3>1, <3>5 DEF Send
    <3>6. ASSUME NEW d \in Clients, NEW s \in Suggestions, reviewSuggestion(d, s) PROVE FALSE
      BY <3>5, <3>6 DEF reviewSuggestion
    <3>7. ASSUME NEW d \in Clients, NEW s \in Suggestions, NEW v \in Values, saveEdit(d, s, v)
          PROVE  FALSE
      BY <3>5, <3>7 DEF saveEdit
    <3>8. ASSUME NEW d \in Clients, NEW ids \in SUBSET Suggestions,
                 assignSelected(d, ids) \/ requestSelectedRetakes(d, ids)
          PROVE  FALSE
      BY <3>5, <3>8 DEF assignSelected, requestSelectedRetakes
    <3> QED BY <1>1, <3>2, <3>3, <3>4, <3>6, <3>7, <3>8
            DEF Next, createSuggestion, editByScript, inspectionUpdated, client, refreshByHand
  <2>2. Target(c) \in Suggestions /\ op[c].ids = {Target(c)} BY <1>1, <2>1, DecisionMoves
  <2>3. pc'[c] = "ok" => assertExpectedVersion(Target(c), op[c].seen)
    <3>1. ASSUME NEW a \in {"refused", "conflict"}, Answer(c, a) PROVE FALSE
      BY <1>1, <2>0, <3>1 DEF Answer
    <3> QED BY <2>1, <3>1 DEF handleDecision
  <2>4. op[c].seen.status \in Open /\ Copy(op[c].seen, Target(c))
    BY <1>1, <2>2 DEF ReviewInv, Requested, Decisions
  <2>5. op[c].seen.version # 0 BY <2>4 DEF Copy, Open
  <2>6. op[c].seen = suggestion[Target(c)]
    BY <1>1, <2>3, <2>4, <2>5 DEF assertExpectedVersion, Copy
  <2> QED BY <2>4, <2>6
<1>2. ReviewInv /\ [Next]_vars =>
        [\A c \in Clients :
           pc[c] = "sent" /\ pc'[c] = "ok" /\ op[c].kind \in {"accept", "reject", "edit"}
             => LET s == Target(c) IN
                suggestion[s].value = op[c].seen.value /\ suggestion[s].status \in Open]_vars
  BY <1>1
<1> QED BY <1>2, ReviewInvariant, PTL DEF Spec, DecidedAsSeen
=============================================================================
