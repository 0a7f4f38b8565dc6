--------------------------- MODULE FactoringSystem ---------------------------
(***************************************************************************)
(* The assignment's lifecycle and the disbursement requests of its factor, *)
(* side by side.  They share one column, assignments.status: the lifecycle *)
(* writes it and a disbursement request reads it, once, before it awaits   *)
(* the session guard and before it opens its transaction.                  *)
(***************************************************************************)
EXTENDS AssignmentLifecycle, FiniteSets

CONSTANTS Request, Payment, NoPayment, LiveStripe, MaxBillingFailures

ASSUME PaymentAssumption == NoPayment \notin Payment
ASSUME BillingBoundsAssumption == MaxBillingFailures \in Nat /\ LiveStripe \in BOOLEAN

VARIABLES rpc, pay, seen, waits, told, disbursements, billing, audit, metered,
          billingFailures

Billing == INSTANCE Disbursement

billingVars == <<rpc, pay, seen, waits, told, disbursements, billing, audit, metered,
                 billingFailures>>
systemVars  == <<vars, billingVars>>

SystemInit == Init /\ Billing!Init

SystemNext ==
  \/ Next /\ UNCHANGED billingVars
  \/ Billing!Next /\ UNCHANGED vars

SystemSpec == SystemInit /\ [][SystemNext]_systemVars

-----------------------------------------------------------------------------
BillingTypeOK           == Billing!TypeOK
LedgerComplete          == Billing!LedgerComplete
OrphansAreFailures      == Billing!OrphansAreFailures
BilledOnce              == Billing!BilledOnce
EveryMeterEventLedgered == Billing!EveryMeterEventLedgered
DisbursedWhilePerfected == Billing!DisbursedWhilePerfected

(* The acts that perfect the assignment have happened. *)
Earned == /\ SignerRoles \subseteq signed
          /\ RequiredRoles(HasSurety) \subseteq acked

(***************************************************************************)
(* A factor is billed, and a payment recorded, only for an assignment both *)
(* parties have really signed and every required addressee has really      *)
(* acknowledged, though the status the request relied on may be long out   *)
(* of date when Stripe is called.                                          *)
(***************************************************************************)
BilledOnEvidence == metered \cup disbursements # {} => Earned

(***************************************************************************)
(* The requests, with Stripe called in the middle of an open transaction,  *)
(* failures, timeouts and repetitions, implement the ledger: the books are *)
(* written in one step after the meter event, never changed, and a client  *)
(* told 201 finds its payment there.                                       *)
(***************************************************************************)
Books == INSTANCE PaymentLedger WITH earned <- Earned
KeepsTheBooks == Books!LedgerSpec

(***************************************************************************)
(* Every recorded disbursement can be traced to a perfection in the        *)
(* transition log: logged, or about to be by a webhook that is not done.   *)
(***************************************************************************)
DisbursementIsTraceable ==
  failures = 0 /\ disbursements # {} =>
    \E row \in Logged \cup InFlight : row.new_state = "perfected"
=============================================================================
