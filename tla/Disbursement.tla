---------------------------- MODULE Disbursement -----------------------------
(***************************************************************************)
(* Recording an observed government payment and billing it:                *)
(* app/api/disbursements/route.ts with lib/stripe/meter.ts.                *)
(*                                                                         *)
(* A request reads the assignment in an autocommit statement, awaits the   *)
(* session guard, and only then opens the transaction that inserts the     *)
(* disbursement, calls Stripe while it is open, and commits the row, its   *)
(* billing event and two audit rows.  Rows not yet committed are not       *)
(* state here: a rollback only forgets them.  What Stripe has recorded is  *)
(* never rolled back.                                                      *)
(*                                                                         *)
(* The id of a disbursement, which is also Stripe's idempotency key, is    *)
(* generated by the INSERT; one request makes at most one INSERT, so the   *)
(* request itself stands for the id.  The client (external) repeats a      *)
(* payment until it is told 201, and may give up waiting.                  *)
(***************************************************************************)
EXTENDS StateMachine, Naturals, FiniteSets

CONSTANTS
  Request,             \* bound: the requests clients can make
  Payment,             \* payments observed for the one assignment
  NoPayment,           \* the payment of an unused request
  LiveStripe,          \* is STRIPE_SECRET_KEY_TEST set?
  MaxBillingFailures   \* bound: crashes, failed calls, lost answers, client timeouts

VARIABLES
  status,           \* assignments.status, written elsewhere
  rpc, pay, seen,   \* where each request is, its payment, the status it read
  waits, told,      \* requests a client waits for; payments answered 201
  disbursements,    \* table disbursements: the ids
  billing,          \* table factor_billing_events
  audit,            \* table audit_log, rows about disbursements
  metered,          \* idempotency keys of the events Stripe has recorded
  billingFailures   \* how much of the bound is used

billingVars == <<rpc, pay, seen, waits, told, disbursements, billing, audit,
                 metered, billingFailures>>

tables == <<disbursements, billing, audit>>

InProgress == {"read", "authorize", "meter", "commit", "respond"}

Init ==
  /\ rpc = [r \in Request |-> "unused"]
  /\ pay = [r \in Request |-> NoPayment]
  /\ seen = [r \in Request |-> "drafted"]
  /\ waits = {} /\ told = {}
  /\ disbursements = {} /\ billing = {} /\ audit = {}
  /\ metered = {}
  /\ billingFailures = 0

-----------------------------------------------------------------------------
(* The client (external).                                                  *)

Post(r, p) ==   \* one request at a time for a payment, until one is answered 201
  /\ rpc[r] = "unused"
  /\ p \notin told
  /\ \A q \in waits : pay[q] # p
  /\ rpc' = [rpc EXCEPT ![r] = "read"]
  /\ pay' = [pay EXCEPT ![r] = p]
  /\ waits' = waits \cup {r}
  /\ UNCHANGED <<status, seen, told, tables, metered, billingFailures>>

GiveUp(r) ==   \* the client's timeout; the server goes on with the request
  /\ r \in waits
  /\ billingFailures < MaxBillingFailures
  /\ billingFailures' = billingFailures + 1
  /\ waits' = waits \ {r}
  /\ UNCHANGED <<status, rpc, pay, seen, told, tables, metered>>

-----------------------------------------------------------------------------
(* POST /api/disbursements, request r.                                     *)

StillWaiting(r) ==   \* mutant: a refusal is not sent to the client
  /\ rpc' = [rpc EXCEPT ![r] = "done"]
  /\ UNCHANGED waits

Done(r) ==
  /\ rpc' = [rpc EXCEPT ![r] = "done"]
  /\ waits' = waits \ {r}

ReadAssignment(r) ==   \* SELECT id, status, factor_org_id
  /\ rpc[r] = "read"
  /\ rpc' = [rpc EXCEPT ![r] = "authorize"]
  /\ seen' = [seen EXCEPT ![r] = status]
  /\ UNCHANGED <<status, pay, waits, told, tables, metered, billingFailures>>

RefuseSession(r) ==   \* 401 or 403: the session is not a member of the owning factor
  /\ rpc[r] = "authorize"
  /\ Done(r)
  /\ UNCHANGED <<status, pay, seen, told, tables, metered, billingFailures>>

RefuseState(r) ==   \* 422
  /\ rpc[r] = "authorize"
  /\ seen[r] # "perfected"
  /\ Done(r)
  /\ UNCHANGED <<status, pay, seen, told, tables, metered, billingFailures>>

Insert(r) ==   \* BEGIN and the uncommitted INSERT, which draws the id
  /\ rpc[r] = "authorize"
  /\ seen[r] = "perfected"
  /\ rpc' = [rpc EXCEPT ![r] = "meter"]
  /\ UNCHANGED <<status, pay, seen, waits, told, tables, metered, billingFailures>>

SwallowedMeterError(r) ==   \* mutant: a failed Stripe call does not fail the request
  /\ rpc[r] = "meter"
  /\ \/ metered' = metered \cup {r}
     \/ UNCHANGED metered
  /\ rpc' = [rpc EXCEPT ![r] = "commit"]
  /\ UNCHANGED <<status, pay, seen, waits, told, tables, billingFailures>>

FireMeter(r) ==   \* the Stripe call; in fixture mode there is none
  /\ rpc[r] = "meter"
  /\ metered' = IF LiveStripe THEN metered \cup {r} ELSE metered
  /\ rpc' = [rpc EXCEPT ![r] = "commit"]
  /\ UNCHANGED <<status, pay, seen, waits, told, tables, billingFailures>>

BillingEvent(r) == [disbursement |-> r, status |-> IF LiveStripe THEN "fired" ELSE "fixture"]
AuditRows(r)    == {"disbursement.observed", "stripe.meter.fired"} \X {r}

RecheckAfterMeter(r) ==   \* mutant: look at the status again, too late, and roll back
  /\ rpc[r] = "commit"
  /\ IF status = "perfected"
     THEN /\ rpc' = [rpc EXCEPT ![r] = "respond"]
          /\ disbursements' = disbursements \cup {r}
          /\ billing' = billing \cup {BillingEvent(r)}
          /\ audit' = audit \cup AuditRows(r)
          /\ UNCHANGED waits
     ELSE Done(r) /\ UNCHANGED tables
  /\ UNCHANGED <<status, pay, seen, told, metered, billingFailures>>

Commit(r) ==
  /\ rpc[r] = "commit"
  /\ rpc' = [rpc EXCEPT ![r] = "respond"]
  /\ disbursements' = disbursements \cup {r}
  /\ billing' = billing \cup {BillingEvent(r)}
  /\ audit' = audit \cup AuditRows(r)
  /\ UNCHANGED <<status, pay, seen, waits, told, metered, billingFailures>>

ErrorAfterCommit(r) ==   \* mutant: an exception after COMMIT is answered 500
  /\ rpc[r] = "respond"
  /\ Done(r)
  /\ UNCHANGED <<status, pay, seen, told, tables, metered, billingFailures>>

Respond(r) ==   \* 201, if somebody still waits for it
  /\ rpc[r] = "respond"
  /\ Done(r)
  /\ told' = IF r \in waits THEN told \cup {pay[r]} ELSE told
  /\ UNCHANGED <<status, pay, seen, tables, metered, billingFailures>>

AnswersOnError(r) ==   \* mutant: what the catch block answers has no status, so 200
  /\ rpc[r] \in InProgress
  /\ billingFailures < MaxBillingFailures
  /\ billingFailures' = billingFailures + 1
  /\ Done(r)
  /\ told' = IF r \in waits THEN told \cup {pay[r]} ELSE told
  /\ UNCHANGED <<status, pay, seen, tables, metered>>

Fail(r) ==   \* crash or error with ROLLBACK, Stripe refusing, or the answer lost
  /\ rpc[r] \in InProgress
  /\ billingFailures < MaxBillingFailures
  /\ billingFailures' = billingFailures + 1
  /\ Done(r)
  /\ UNCHANGED <<status, pay, seen, told, tables, metered>>

-----------------------------------------------------------------------------
Handle(r) ==
  \/ ReadAssignment(r) \/ RefuseSession(r) \/ RefuseState(r) \/ Insert(r)
  \/ FireMeter(r) \/ Commit(r) \/ Respond(r) \/ Fail(r)

Next ==
  \E r \in Request : Handle(r) \/ GiveUp(r) \/ \E p \in Payment : Post(r, p)

-----------------------------------------------------------------------------
(* Properties.                                                             *)

TypeOK ==
  /\ rpc \in [Request -> InProgress \cup {"unused", "done"}]
  /\ pay \in [Request -> Payment \cup {NoPayment}]
  /\ \A r \in Request : rpc[r] # "unused" => pay[r] \in Payment
  /\ seen \in [Request -> Status]
  /\ waits \subseteq {r \in Request : rpc[r] \in InProgress}
  /\ told \subseteq Payment
  /\ disbursements \subseteq Request
  /\ billing \subseteq [disbursement: Request, status: {"fired", "fixture"}]
  /\ audit \subseteq {"disbursement.observed", "stripe.meter.fired"} \X Request
  /\ metered \subseteq Request
  /\ billingFailures \in 0 .. MaxBillingFailures

(***************************************************************************)
(* Whatever fails, a recorded disbursement has its one billing event, that *)
(* event is at Stripe under the disbursement's own id, and both audit rows *)
(* are there; and no billing event or audit row is without a disbursement. *)
(***************************************************************************)
LedgerComplete ==
  /\ {b.disbursement : b \in billing} = disbursements
  /\ \A b \in billing : b.status = "fired" => b.disbursement \in metered
  /\ \A a, b \in billing : a.disbursement = b.disbursement => a = b
  /\ audit = {"disbursement.observed", "stripe.meter.fired"} \X disbursements

(***************************************************************************)
(* Meter events without a billing row are no more than the failures: a     *)
(* refusal never leaves one behind, whatever happens to the assignment.    *)
(***************************************************************************)
OrphansAreFailures ==
  Cardinality({r \in metered \ disbursements : rpc[r] # "commit"}) <= billingFailures

(***************************************************************************)
(* A payment is billed again only after a failure or a client's timeout.   *)
(* (The key of the retry is new, so Stripe cannot recognise it.)           *)
(***************************************************************************)
BilledOnce ==
  \A p \in Payment :
    Cardinality({r \in metered \cup disbursements : pay[r] = p}) <= 1 + billingFailures

(***************************************************************************)
(* 002_factoring.sql:208-209: factor_billing_events is the ledger of the   *)
(* meter events.  Once a request is over, what it fired is in the ledger.  *)
(***************************************************************************)
EveryMeterEventLedgered ==
  \A r \in metered : rpc[r] = "done" => r \in disbursements

(***************************************************************************)
(* 002_factoring.sql:191: a disbursement is recorded only while the        *)
(* assignment is perfected.                                                *)
(***************************************************************************)
DisbursedWhilePerfected ==
  [][disbursements' # disbursements => status = "perfected"]_<<status, disbursements>>
=============================================================================
