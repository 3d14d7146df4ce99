------------------------------- MODULE Tables --------------------------------
(***************************************************************************)
(* One save of the row store, statement by statement (postgresPersistence  *)
(* .ts): which tables there are and in which order they are written, the   *)
(* columns by which their rows refer to rows of other tables, and what the *)
(* database holds after each of the delete and insert statements.          *)
(*                                                                         *)
(* A store is a function from the rows it has to their contents.  Of a     *)
(* content the model knows the rows its key columns name; everything else  *)
(* a record holds is "other".                                              *)
(***************************************************************************)
EXTENDS Integers, Sequences

CONSTANTS RowIds, Other

\* storeMapNames, through storeMapToTable: the order of every load and save.
storeMapNames ==
  << "users", "inspections", "vehicle_photos", "image_analysis_jobs",
     "photo_analysis_results", "vision_suggestions", "damage_items",
     "identity_verifications", "condition_grades", "ai_report_jobs",
     "ai_report_drafts", "final_reports", "report_versions", "audit_events",
     "domain_events" >>

Positions == 1 .. Len(storeMapNames)
Tables    == { storeMapNames[i] : i \in Positions }
Rows      == Tables \X RowIds

\* Key columns of the tables that hold evidence, <<table, column, table referred to>>.
EvidenceKeys ==
  { <<"inspections", "created_by", "users">>,
    <<"inspections", "assigned_to_user_id", "users">>,
    <<"vehicle_photos", "inspection_id", "inspections">>,
    <<"vehicle_photos", "uploaded_by", "users">>,
    <<"image_analysis_jobs", "inspection_id", "inspections">>,
    <<"image_analysis_jobs", "photo_id", "vehicle_photos">>,
    <<"photo_analysis_results", "photo_id", "vehicle_photos">>,
    <<"vision_suggestions", "inspection_id", "inspections">>,
    <<"vision_suggestions", "photo_id", "vehicle_photos">>,
    <<"vision_suggestions", "assigned_to_user_id", "users">>,
    <<"vision_suggestions", "reviewed_by", "users">>,
    <<"damage_items", "inspection_id", "inspections">>,
    <<"damage_items", "photo_id", "vehicle_photos">>,
    <<"damage_items", "confirmed_by", "users">> }

\* Key columns of the tables that follow from the evidence, and of the logs.
DerivedKeys ==
  { <<"identity_verifications", "inspection_id", "inspections">>,
    <<"identity_verifications", "photo_id", "vehicle_photos">>,
    <<"identity_verifications", "source_suggestion_id", "vision_suggestions">>,
    <<"identity_verifications", "verified_by", "users">>,
    <<"condition_grades", "inspection_id", "inspections">>,
    <<"ai_report_jobs", "inspection_id", "inspections">>,
    <<"ai_report_drafts", "inspection_id", "inspections">>,
    <<"ai_report_drafts", "job_id", "ai_report_jobs">>,
    <<"final_reports", "inspection_id", "inspections">>,
    <<"final_reports", "finalized_by", "users">>,
    <<"final_reports", "approved_by", "users">>,
    <<"report_versions", "report_id", "final_reports">>,
    <<"report_versions", "inspection_id", "inspections">>,
    <<"report_versions", "changed_by", "users">>,
    <<"audit_events", "inspection_id", "inspections">>,
    <<"domain_events", "inspection_id", "inspections">> }

Keys == EvidenceKeys \cup DerivedKeys

\* A record of a table: for some of its key columns, the row they name; null for the rest.
Records(table) ==
  { c \in [keys : SUBSET (Keys \X RowIds), other : Other] :
      \A k \in c.keys : k[1][1] = table }

\* The rows a record refers to.
References(c) == { <<k[1][3], k[2]>> : k \in c.keys }

Stores == { st \in UNION { [R -> UNION { Records(t) : t \in Tables }] : R \in SUBSET Rows } :
              \A r \in DOMAIN st : st[r] \in Records(r[1]) }

\* The foreign keys of schema.sql hold.
Referential(st) == \A r \in DOMAIN st : References(st[r]) \subseteq DOMAIN st

-----------------------------------------------------------------------------
(* writeChangedPostgresRowsFromStore(before, after): before is the         *)
(* snapshot the rows were loaded as, after the store of the handler.       *)

\* The rows of the tables from position i on.
From(i) == { r \in Rows : \E j \in Positions : j >= i /\ storeMapNames[j] = r[1] }

deletedIds(before, after) == DOMAIN before \ DOMAIN after

changedRows(before, after) ==
  { r \in DOMAIN after : r \in DOMAIN before => before[r] # after[r] }

\* The database after the delete statements of the tables from the last to position i:
\* children are deleted before the rows they refer to.
deleted(before, after, i) ==
  [r \in DOMAIN before \ (deletedIds(before, after) \cap From(i)) |-> before[r]]

\* The database after all deletes and the upserts of the tables before position i.
upserted(before, after, i) ==
  LET written == changedRows(before, after) \ From(i)
  IN  [r \in (DOMAIN before \cap DOMAIN after) \cup written |->
         IF r \in written THEN after[r] ELSE before[r]]

\* The statements of one save, first to last, and their results.
Steps(before, after) ==
  { deleted(before, after, i) : i \in Positions } \cup
  { upserted(before, after, i) : i \in Positions \cup {Len(storeMapNames) + 1} }
=============================================================================
