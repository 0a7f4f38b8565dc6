------------------------------- MODULE Intake --------------------------------
(***************************************************************************)
(* Onboarding factors and taking in assignments: app/api/factors/route.ts  *)
(* and app/api/assignments/route.ts, any number of requests at once.       *)
(*                                                                         *)
(* Both routes look an organization up in an autocommit SELECT and insert  *)
(* what they did not find; the UNIQUE columns slug and uei of              *)
(* migrations/001_initial.sql decide a race.  A transaction that inserts a *)
(* key another open transaction has inserted waits for it, so each         *)
(* BEGIN ... COMMIT is one step.  The contractor's stub is inserted by an  *)
(* autocommit statement of its own, before the intake's transaction.       *)
(* A request inserts at most one organization and one assignment, so the   *)
(* request stands for their ids.  Malformed bodies (400, 422) are refused  *)
(* before any table is read and are left out; 401 is counted as 403.  A    *)
(* UEI is stored and compared as it was sent.                              *)
(***************************************************************************)
EXTENDS Naturals, FiniteSets

CONSTANTS
  Onboarding, Taking,   \* bounds: the requests to the two routes
  Slug, Uei, Contract,  \* values the request bodies can hold
  Nothing,              \* an empty column or variable
  MaxFailures           \* bound: crashes, database errors, lost answers

Request == Onboarding \cup Taking

ASSUME RequestAssumption == Onboarding \cap Taking = {} /\ Nothing \notin Request
ASSUME KeyAssumption     == Nothing \notin Slug \cup Uei \cup Contract
ASSUME FailureAssumption == MaxFailures \in Nat

VARIABLES
  orgs,                \* table organizations
  configured,          \* factor_configurations, by organization_id
  assignments,         \* table assignments
  audit,               \* audit_log rows about organizations and assignments
  pc, body,            \* where each request is, and its body
  factor, contractor,  \* factorOrgId and contractorOrgId of each intake
  answer,              \* the status code of the response received
  failures

tables == <<orgs, configured, assignments, audit>>
ids    == <<factor, contractor>>
vars   == <<tables, pc, body, ids, answer, failures>>

Body == [slug: Slug, uei: Uei \cup {Nothing}, contract: Contract \cup {Nothing}]

NoBody == [slug |-> Nothing, uei |-> Nothing, contract |-> Nothing]

BySlug(s) == {o \in orgs : o.slug = s /\ o.category = "capital_provider"}
ByUei(u)  == {o \in orgs : o.uei = u}

Init ==
  /\ orgs = {} /\ configured = {} /\ assignments = {} /\ audit = {}
  /\ pc = [r \in Request |-> "unused"]
  /\ body = [r \in Request |-> NoBody]
  /\ factor = [r \in Request |-> Nothing]
  /\ contractor = [r \in Request |-> Nothing]
  /\ answer = [r \in Request |-> 0]
  /\ failures = 0

GoTo(r, place) == pc' = [pc EXCEPT ![r] = place]

Answer(r, code) ==
  /\ GoTo(r, "done")
  /\ answer' = [answer EXCEPT ![r] = code]

Post(r, b) ==   \* a client sends the request
  /\ pc[r] = "unused"
  /\ GoTo(r, "guard")
  /\ body' = [body EXCEPT ![r] = b]
  /\ UNCHANGED <<tables, ids, answer, failures>>

Fail(r) ==   \* crash, database error with ROLLBACK, or the answer lost
  /\ pc[r] \notin {"unused", "done"}
  /\ failures < MaxFailures
  /\ failures' = failures + 1
  /\ Answer(r, 500)
  /\ UNCHANGED <<tables, body, ids>>

Respond(r) ==   \* 201
  /\ pc[r] = "respond"
  /\ Answer(r, 201)
  /\ UNCHANGED <<tables, body, ids, failures>>

-----------------------------------------------------------------------------
(* POST /api/factors, request f.                                           *)

GuardOnboarding(f) ==   \* requirePlatformAdmin: 403 unless the grant is there
  /\ pc[f] = "guard" /\ f \in Onboarding
  /\ \/ GoTo(f, "checkSlug") /\ UNCHANGED answer
     \/ Answer(f, 403)
  /\ UNCHANGED <<tables, body, ids, failures>>

CheckSlug(f) ==   \* 409 if any organization has the slug
  /\ pc[f] = "checkSlug"
  /\ IF \E o \in orgs : o.slug = body[f].slug
     THEN Answer(f, 409)
     ELSE GoTo(f, "onboard") /\ UNCHANGED answer
  /\ UNCHANGED <<tables, body, ids, failures>>

SlugTaken(f) == \E o \in orgs : o.slug = body[f].slug

FactorRow(f) == [id |-> f, slug |-> body[f].slug, uei |-> Nothing, category |-> "capital_provider"]

UpsertFactor(f) ==   \* mutant: INSERT ... ON CONFLICT (slug) DO UPDATE
  /\ pc[f] = "onboard"
  /\ orgs' = IF SlugTaken(f) THEN orgs ELSE orgs \cup {FactorRow(f)}
  /\ configured' = configured \cup {f}
  /\ audit' = audit \cup {<<"factor.onboarded", f>>}
  /\ GoTo(f, "respond")
  /\ UNCHANGED <<assignments, body, ids, answer, failures>>

Onboard(f) ==   \* the transaction; the UNIQUE slug may refuse it: 500
  /\ pc[f] = "onboard"
  /\ IF SlugTaken(f)
     THEN Answer(f, 500) /\ UNCHANGED tables
     ELSE /\ orgs' = orgs \cup {FactorRow(f)}
          /\ configured' = configured \cup {f}
          /\ audit' = audit \cup {<<"factor.onboarded", f>>}
          /\ GoTo(f, "respond")
          /\ UNCHANGED <<assignments, answer>>
  /\ UNCHANGED <<body, ids, failures>>

-----------------------------------------------------------------------------
(* POST /api/assignments, request i.                                       *)

GuardIntake(i) ==   \* requireSessionOrg: only a member of the named factor passes
  /\ pc[i] = "guard" /\ i \in Taking
  /\ \/ BySlug(body[i].slug) # {} /\ GoTo(i, "resolveFactor") /\ UNCHANGED answer
     \/ Answer(i, 403)
  /\ UNCHANGED <<tables, body, ids, failures>>

ResolveFactor(i) ==   \* the row was there for the guard and is never deleted: no 422
  /\ pc[i] = "resolveFactor"
  /\ \E o \in BySlug(body[i].slug) : factor' = [factor EXCEPT ![i] = o.id]
  /\ GoTo(i, "resolveContractor")
  /\ UNCHANGED <<tables, body, contractor, answer, failures>>

NoStub(i) ==   \* mutant: a contractor that is not found stays NULL
  /\ pc[i] = "resolveContractor"
  /\ contractor' =
       [contractor EXCEPT ![i] = IF ByUei(body[i].uei) = {} THEN Nothing
                                 ELSE (CHOOSE o \in ByUei(body[i].uei) : TRUE).id]
  /\ GoTo(i, "insert")
  /\ UNCHANGED <<tables, body, factor, answer, failures>>

ResolveContractor(i) ==   \* SELECT by uei
  /\ pc[i] = "resolveContractor"
  /\ IF ByUei(body[i].uei) = {}
     THEN GoTo(i, "createStub") /\ UNCHANGED contractor
     ELSE /\ \E o \in ByUei(body[i].uei) : contractor' = [contractor EXCEPT ![i] = o.id]
          /\ GoTo(i, "insert")
  /\ UNCHANGED <<tables, body, factor, answer, failures>>

ContractorRow(i) == [id |-> i, slug |-> Nothing, uei |-> body[i].uei, category |-> "contractor"]

StubUnchecked(i) ==   \* mutant: uei is not UNIQUE
  /\ pc[i] = "createStub"
  /\ orgs' = orgs \cup {ContractorRow(i)}
  /\ contractor' = [contractor EXCEPT ![i] = i]
  /\ GoTo(i, "insert")
  /\ UNCHANGED <<configured, assignments, audit, body, factor, answer, failures>>

CreateStub(i) ==   \* autocommit INSERT; the UNIQUE uei may refuse it: 500
  /\ pc[i] = "createStub"
  /\ IF ByUei(body[i].uei) # {}
     THEN Answer(i, 500) /\ UNCHANGED <<orgs, contractor>>
     ELSE /\ orgs' = orgs \cup {ContractorRow(i)}
          /\ contractor' = [contractor EXCEPT ![i] = i]
          /\ GoTo(i, "insert")
          /\ UNCHANGED answer
  /\ UNCHANGED <<configured, assignments, audit, body, factor, failures>>

AssignmentRow(i) ==
  [id |-> i, contractor |-> contractor[i], factor |-> factor[i], contract |-> body[i].contract]

RefuseSecondAssignee(i) ==   \* mutant: the contract's earlier assignment is noticed too late
  /\ pc[i] = "insert"
  /\ IF \E a \in assignments : a.contract = body[i].contract
     THEN Answer(i, 409) /\ UNCHANGED <<assignments, audit>>
     ELSE /\ assignments' = assignments \cup {AssignmentRow(i)}
          /\ audit' = audit \cup {<<"assignment.created", i>>}
          /\ GoTo(i, "respond")
          /\ UNCHANGED answer
  /\ UNCHANGED <<orgs, configured, body, ids, failures>>

InsertAssignment(i) ==   \* the transaction: assignment, parties, audit row
  /\ pc[i] = "insert"
  /\ assignments' = assignments \cup {AssignmentRow(i)}
  /\ audit' = audit \cup {<<"assignment.created", i>>}
  /\ GoTo(i, "respond")
  /\ UNCHANGED <<orgs, configured, body, ids, answer, failures>>

-----------------------------------------------------------------------------
Handle(r) ==
  \/ GuardOnboarding(r) \/ CheckSlug(r) \/ Onboard(r)
  \/ GuardIntake(r) \/ ResolveFactor(r) \/ ResolveContractor(r)
  \/ CreateStub(r) \/ InsertAssignment(r)
  \/ Respond(r)

Next ==
  \/ \E f \in Onboarding, s \in Slug : Post(f, [NoBody EXCEPT !.slug = s])
  \/ \E i \in Taking, s \in Slug, u \in Uei, c \in Contract :
       Post(i, [slug |-> s, uei |-> u, contract |-> c])
  \/ \E r \in Request : Handle(r) \/ Fail(r)

Spec == Init /\ [][Next]_vars

-----------------------------------------------------------------------------
(* Properties.                                                             *)

Place == {"unused", "guard", "checkSlug", "onboard", "resolveFactor", "resolveContractor",
          "createStub", "insert", "respond", "done"}

(* Every variable has the values the schema and the routes allow.          *)
TypeOK ==
  /\ orgs \subseteq [id: Request, slug: Slug \cup {Nothing}, uei: Uei \cup {Nothing},
                     category: {"capital_provider", "contractor"}]
  /\ configured \subseteq Onboarding
  /\ assignments \subseteq [id: Taking, contractor: Taking, factor: Onboarding,
                            contract: Contract]
  /\ audit \subseteq {"factor.onboarded", "assignment.created"} \X Request
  /\ pc \in [Request -> Place]
  /\ body \in [Request -> Body \cup {NoBody}]
  /\ factor \in [Request -> Onboarding \cup {Nothing}]
  /\ contractor \in [Request -> Taking \cup {Nothing}]
  /\ answer \in [Request -> {0, 201, 403, 409, 500}]
  /\ failures \in 0 .. MaxFailures

(***************************************************************************)
(* Concurrent onboardings of one slug: at most one is answered 201, and    *)
(* whoever is has his own configured organization; 409 is the answer only  *)
(* if another request's organization is there.                             *)
(***************************************************************************)
DuplicateNeverCreates ==
  /\ \A f, g \in Onboarding :
       answer[f] = 201 /\ answer[g] = 201 /\ body[f].slug = body[g].slug => f = g
  /\ \A f \in Onboarding : answer[f] = 201 => FactorRow(f) \in orgs
  /\ \A f \in Onboarding : answer[f] = 409 => \E o \in BySlug(body[f].slug) : o.id # f
  /\ configured = {o.id : o \in {p \in orgs : p.category = "capital_provider"}}

(***************************************************************************)
(* Every assignment for a UEI is on the one contractor organization with   *)
(* that UEI, whichever request created it, and on the factor that was      *)
(* named.                                                                  *)
(***************************************************************************)
SameContractor ==
  \A a \in assignments :
    /\ ByUei(body[a.id].uei) = {o \in orgs : o.id = a.contractor}
    /\ BySlug(body[a.id].slug) = {o \in orgs : o.id = a.factor}

(***************************************************************************)
(* A contractor nobody has an assignment for is there only because the     *)
(* intake that created it failed, or is not finished.                      *)
(***************************************************************************)
Used == {a.contractor : a \in assignments} \cup {contractor[i] : i \in {j \in Taking : pc[j] = "insert"}}

StubsAreFailures ==
  Cardinality({o \in orgs : o.category = "contractor" /\ o.id \notin Used}) <= failures

(***************************************************************************)
(* Requests that look first and insert later, race and fail, keep the      *)
(* promise of the abstract specification Registry: each key goes to one    *)
(* organization for good, an assignment is taken in once and on the        *)
(* holders of its keys, with its audit row, and a 201 is about what was    *)
(* asked (factors/route.ts:61-105, assignments/route.ts:68-204).           *)
(***************************************************************************)
HoldersOfSlug == [s \in Slug |-> {o.id : o \in BySlug(s)}]
HoldersOfUei  == [u \in Uei |-> {o.id : o \in ByUei(u)}]
Confirmed     == {r \in Request : answer[r] = 201}

Promise == INSTANCE Registry
  WITH asked <- body, factorOf <- HoldersOfSlug, contractorOf <- HoldersOfUei,
       journal <- audit, confirmed <- Confirmed

KeepsRegistry == Promise!RegistrySpec
=============================================================================
