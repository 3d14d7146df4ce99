------------------------------- MODULE Access -------------------------------
(***************************************************************************)
(* Who may do what: the roles and their actions (packages/shared), the     *)
(* actor the API makes of a request (apps/api/src/auth.ts, rbac.ts,        *)
(* app.ts), and what the web page and the phone offer their user.  All of  *)
(* it is computed anew for every request from the request, the environment *)
(* and, in the clients, the stored session.                                *)
(*                                                                         *)
(* A claim is the role roleFromString makes of it, or NoRole.              *)
(***************************************************************************)
EXTENDS Integers, Sequences

CONSTANTS
  Users, Names,     \* who calls; actors and inspectors by name
  DefaultActor      \* store.defaultActor, the first user of the store

userRoles == {"inspector", "reviewer", "admin"}
NoRole    == "none"

roleActions ==
  {"inspection:create", "inspection:update", "photo:capture", "photo:analyze",
   "suggestion:review", "suggestion:assign", "damage:create", "damage:update", "damage:delete",
   "grade:calculate", "report:draft", "report:edit", "report:approve", "report:finalize",
   "report:retry", "ops:view", "ops:recover"}

rolePermissions ==
  [inspector |-> {"inspection:create", "photo:capture", "photo:analyze"},
   reviewer  |-> {"suggestion:review", "suggestion:assign", "damage:create", "grade:calculate",
                  "report:draft", "report:edit", "report:approve", "report:finalize",
                  "report:retry"},
   admin     |-> roleActions]

canRole(role, action)  == action \in rolePermissions[role]
rolesForAction(action) == { role \in userRoles : canRole(role, action) }

-----------------------------------------------------------------------------
(* The role a token names.                                                 *)

OrElse(a, b) == IF a # NoRole THEN a ELSE b

FirstRole(claims) ==
  LET named == { i \in DOMAIN claims : claims[i] # NoRole } IN
  IF named = {} THEN NoRole ELSE claims[CHOOSE i \in named : \A j \in named : i <= j]

\* direct: one claim per directRoleClaimKeys, in their order; groups: one list of claims per
\* groupRoleClaimKeys, present or not.
Group  == { g \in [present : BOOLEAN, roles : Seq(userRoles \cup {NoRole})] :
              g.present \/ g.roles = << >> }
Claims == [direct : [1 .. 5 -> userRoles \cup {NoRole}], groups : [1 .. 3 -> Group]]

DirectRole(claims) == FirstRole(claims.direct)
GroupRole(claims)  == FirstRole([i \in 1 .. 3 |-> FirstRole(claims.groups[i].roles)])
NamedRole(claims)  == OrElse(DirectRole(claims), GroupRole(claims))

\* env.emailRole: what AUTH_<ROLE>_EMAILS says of the payload's address.  No role is an error.
roleFromPayload(claims, env) ==
  LET role == OrElse(NamedRole(claims), env.emailRole) IN
  IF role # NoRole THEN role
  ELSE IF env.allowDefaultRole THEN env.defaultRole ELSE NoRole

\* roleFromClaims of the web page, and of the phone: it looks at the first group claim only.
webRole(claims, defaultAuthRole) == OrElse(NamedRole(claims), defaultAuthRole)

mobileRole(claims) ==
  LET present == { i \in 1 .. 3 : claims.groups[i].present }
      group   == IF present = {} THEN NoRole
                 ELSE FirstRole(claims.groups[CHOOSE i \in present : \A j \in present : i <= j].roles)
  IN  OrElse(OrElse(DirectRole(claims), group), "inspector")

\* validateRegisteredClaims; 0 stands for a claim that is missing, seconds elsewhere.
validateRegisteredClaims(payload, env, now) ==
  /\ payload.sub
  /\ payload.exp # 0 => payload.exp > now
  /\ payload.nbf # 0 => payload.nbf <= now
  /\ payload.issued /\ payload.audience

\* verifyJwt: the signature by a key of the issuer, then the claims.
verifyJwt(token, env, now) == token.signed /\ validateRegisteredClaims(token.payload, env, now)

-----------------------------------------------------------------------------
(* The actor of a request.                                                 *)

\* The ids that begin with "evaluation-", and the others.
Ids == [evaluation : BOOLEAN, user : Users]

\* The request is refused before it has an actor.
Unauthorized == [role |-> NoRole]

evaluationModeEnabled(env) ==
  IF env.configured = "unset" THEN ~env.production ELSE env.configured = "true"

EvaluationAsked(req) == req.evaluationPath \/ req.evaluationHeader \/ req.legacyHeader

\* isEvaluationRequest, with a query; the header has been seen before.
EvaluationQuery(req, env) == env.configured = "true" /\ req.reads /\ req.evaluationQuery

evaluationActor(req, role) ==
  [id |-> [evaluation |-> TRUE, user |-> role], name |-> req.name, role |-> role]

\* prepareEvaluationRequest
evaluationActorFromRequest(req, env) ==
  IF ~evaluationModeEnabled(env) THEN Unauthorized
  ELSE evaluationActor(req, IF req.role \in userRoles THEN req.role ELSE "reviewer")

\* authenticateRequest in JWT mode
authenticateRequest(req, env, now) ==
  IF req.token.kind = "none"
    THEN IF EvaluationQuery(req, env) THEN evaluationActor(req, "reviewer") ELSE Unauthorized
  ELSE IF ~verifyJwt(req.token, env, now) THEN Unauthorized
  ELSE LET role == roleFromPayload(req.token.claims, env) IN
       IF role = NoRole THEN Unauthorized
       ELSE [id |-> req.token.id, name |-> req.name, role |-> role]

\* The headers of a local session; what is missing is the default actor's.
headerActor(req) ==
  [id |-> IF req.id \in Ids THEN req.id ELSE DefaultActor.id, name |-> req.name,
   role |-> IF req.role \in userRoles THEN req.role ELSE DefaultActor.role]

actorFromRequest(req, env, now) ==
  IF EvaluationAsked(req) THEN evaluationActorFromRequest(req, env)
  ELSE IF env.authMode = "jwt" THEN authenticateRequest(req, env, now)
  ELSE headerActor(req)

isEvaluationActor(actor) == actor.id.evaluation

requireAction(actor, action) == ~isEvaluationActor(actor) /\ canRole(actor.role, action)

canAccessInspection(actor, inspection) ==
  \/ actor.role \in {"admin", "reviewer"}
  \/ inspection.assignedToUserId = actor.id \/ inspection.createdBy = actor.id
  \/ inspection.inspectorName = actor.name

\* What a route that changes something asks first; creating an inspection has none to ask for.
Permitted(req, env, now, action) ==
  LET actor == actorFromRequest(req, env, now) IN
  actor # Unauthorized /\ requireAction(actor, action)

inspectionForRequest(req, env, now, action, inspection) ==
  /\ Permitted(req, env, now, action)
  /\ canAccessInspection(actorFromRequest(req, env, now), inspection)

\* The routes of app.ts and the action each requires.
routes ==
  { <<"POST inspections", "inspection:create">>, <<"PATCH inspections", "inspection:update">>,
    <<"POST photos/upload", "photo:capture">>, <<"POST uploads/intent", "photo:capture">>,
    <<"POST photos/sample", "photo:capture">>, <<"POST photos/analyze", "photo:analyze">>,
    <<"POST photo/analyze", "photo:analyze">>,
    <<"POST suggestion/accept", "suggestion:review">>,
    <<"POST suggestion/reject", "suggestion:review">>,
    <<"PATCH suggestion", "suggestion:review">>,
    <<"PATCH suggestion/assignment", "suggestion:assign">>,
    <<"POST bulk-assignment", "suggestion:assign">>, <<"POST bulk-retake", "suggestion:assign">>,
    <<"POST damage", "damage:create">>, <<"PATCH damage", "damage:update">>,
    <<"DELETE damage", "damage:delete">>, <<"POST grade", "grade:calculate">>,
    <<"POST ai-report", "report:draft">>, <<"POST ai-report-jobs/retry", "report:retry">>,
    <<"PATCH reports", "report:edit">>, <<"POST reports/approve", "report:approve">>,
    <<"POST reports/finalize", "report:finalize">>,
    <<"GET operations/projections", "ops:view">>,
    <<"POST replay-domain-events", "ops:recover">>,
    <<"POST replay-domain-event-dlq", "ops:recover">>,
    <<"POST simulate-failed-image-job", "ops:recover">>,
    <<"POST recover-failed-jobs", "ops:recover">> }

-----------------------------------------------------------------------------
(* The web page: a session of the identity provider and a local one.       *)

NoSession == [mode |-> "none", role |-> "inspector", expiresAt |-> 0]
Session   == [mode : {"oidc", "local", "evaluation"}, role : userRoles, expiresAt : Nat]

\* storedAuthSession, storedLocalSession: a session is dropped a minute before it expires.
stored(session, now) == IF session.expiresAt <= now + 60 THEN NoSession ELSE session

\* expiresAt of sessionFromTokens.
expiresAt(payload, expiresIn, now) == IF payload.exp # 0 THEN payload.exp ELSE now + expiresIn

isEvaluationSession(session) == session.mode = "evaluation"

activeSession(auth, local, oidc) ==
  IF auth # NoSession THEN auth
  ELSE IF ~oidc \/ isEvaluationSession(local) THEN local ELSE NoSession

\* can: what the page lets its user do.
can(auth, local, oidc, action) ==
  LET session == activeSession(auth, local, oidc) IN
  session # NoSession /\ ~isEvaluationSession(session) /\ canRole(session.role, action)

\* The request api() makes: evaluationApiPath looks at the local session only, authHeaders at
\* the other one first.
requestOf(auth, local, oidc, token, id, name) ==
  [evaluationPath   |-> isEvaluationSession(local),
   evaluationHeader |-> auth = NoSession /\ isEvaluationSession(local),
   legacyHeader |-> FALSE, evaluationQuery |-> FALSE, reads |-> FALSE,
   token |-> IF auth # NoSession THEN token ELSE [kind |-> "none"],
   id |-> id, name |-> name, role |-> activeSession(auth, local, oidc).role]

\* The page takes over the actor that GET auth/session names.
confirmed(auth, token, env, now) ==
  [auth EXCEPT !.role = LET role == roleFromPayload(token.claims, env) IN
                        IF role = NoRole THEN @ ELSE role]
=============================================================================
