----------------------------- MODULE MCRowStore -----------------------------
(***************************************************************************)
(* Routes of the server as footprints on rows <<table, id>>, for TLC.      *)
(*                                                                         *)
(*   accept1/2  POST vision-suggestions/:id/accept of two angle findings,  *)
(*              also writes the photo, and the inspection's completeness   *)
(*              without raising its version                                *)
(*   reject1    POST vision-suggestions/:id/reject of the first            *)
(*   finalize   POST reports/:id/finalize                                  *)
(*   analysis   the image worker saving the analysis of a photo            *)
(***************************************************************************)
EXTENDS RowStore

MCHostOf ==
  [q \in Requests |-> CASE q = "analysis" -> "worker"
                        [] q \in {"accept2", "reject1"} /\ "api2" \in Hosts -> "api2"
                        [] OTHER -> "api1"]

Inspection  == <<"inspections", "i1">>
Photo1      == <<"vehicle_photos", "p1">>
Photo2      == <<"vehicle_photos", "p2">>
Suggestion1 == <<"vision_suggestions", "s1">>
Suggestion2 == <<"vision_suggestions", "s2">>
NewRow      == <<"vision_suggestions", "s3">>
Report      == <<"final_reports", "f1">>
Audit(q)    == <<"audit_events", q>>

MCInitial == {Inspection, Photo1, Photo2, Suggestion1, Suggestion2, Report}
MCRows    == MCInitial \cup {NewRow} \cup { Audit(q) : q \in Requests }

MCVersioned ==
  { r \in MCInitial : r[1] \in {"inspections", "vision_suggestions", "final_reports"} }

\* The tables, in groups read in the order of the source.
MCLoadOrder ==
  << { r \in MCRows : r[1] \in {"inspections", "vehicle_photos"} },
     { r \in MCRows : r[1] \in {"vision_suggestions", "final_reports", "audit_events"} } >>

MCWrites ==
  [q \in Requests |-> {Audit(q)} \cup
     CASE q = "accept1"  -> {Inspection, Photo1, Suggestion1}
       [] q = "reject1"  -> {Suggestion1}
       [] q = "accept2"  -> {Inspection, Photo2, Suggestion2}
       [] q = "finalize" -> {Inspection, Report}
       [] OTHER          -> {Photo1, NewRow}]

MCBumps ==
  [q \in Requests |->
     CASE q \in {"accept1", "reject1"} -> {Suggestion1}
       [] q = "accept2"  -> {Suggestion2}
       [] q = "finalize" -> {Inspection, Report}
       [] OTHER          -> {}]

\* A decided suggestion is not decided otherwise, and nothing more is analyzed in a
\* finalized inspection (assertMutableInspection).
MCExcludes ==
  [q \in Requests |-> CASE q = "accept1"  -> {"reject1"} \cap Requests
                        [] q = "reject1"  -> {"accept1"} \cap Requests
                        [] q = "analysis" -> {"finalize"} \cap Requests
                        [] OTHER          -> {}]

MCAuditRow == [q \in Requests |-> Audit(q)]
=============================================================================
