---------------------------- MODULE PaymentLedger ----------------------------
(***************************************************************************)
(* What recording observed payments promises, independent of how the code  *)
(* reaches it: nothing happens before the assignment is earned (signed and *)
(* acknowledged as FAR 32.805 asks), a meter event is sent once per id, a  *)
(* disbursement enters the books in one step with everything that belongs  *)
(* to it and after its meter event, books are never changed, and who is    *)
(* told that a payment is recorded finds it there.                         *)
(***************************************************************************)
CONSTANTS
  Request,      \* ids of disbursements
  Payment,      \* payments observed
  NoPayment,    \* the payment of an id nobody has used
  LiveStripe    \* is there a Stripe account?

VARIABLES
  earned,         \* have the acts that perfect the assignment happened?
  pay,            \* the payment an id is for
  metered,        \* ids of the meter events Stripe has recorded
  disbursements,  \* the books: table disbursements,
  billing,        \*   factor_billing_events
  audit,          \*   and audit_log
  told            \* payments reported as recorded

books      == <<disbursements, billing, audit>>
ledgerVars == <<earned, pay, metered, books, told>>

Init ==
  /\ earned = FALSE
  /\ pay = [r \in Request |-> NoPayment]
  /\ metered = {} /\ told = {}
  /\ disbursements = {} /\ billing = {} /\ audit = {}

Earn ==   \* the parties sign and acknowledge; acts are never undone
  /\ earned' = TRUE
  /\ UNCHANGED <<pay, metered, books, told>>

Ask(r, p) ==
  /\ pay[r] = NoPayment
  /\ pay' = [pay EXCEPT ![r] = p]
  /\ UNCHANGED <<earned, metered, books, told>>

Meter(r) ==
  /\ LiveStripe
  /\ earned /\ pay[r] \in Payment
  /\ r \notin metered \cup disbursements
  /\ metered' = metered \cup {r}
  /\ UNCHANGED <<earned, pay, books, told>>

Enter(r) ==
  /\ earned /\ pay[r] \in Payment
  /\ r \notin disbursements
  /\ LiveStripe => r \in metered
  /\ disbursements' = disbursements \cup {r}
  /\ billing' = billing \cup {[disbursement |-> r,
                               status |-> IF LiveStripe THEN "fired" ELSE "fixture"]}
  /\ audit' = audit \cup {<<"disbursement.observed", r>>, <<"stripe.meter.fired", r>>}
  /\ UNCHANGED <<earned, pay, metered, told>>

Tell(r) ==
  /\ r \in disbursements
  /\ told' = told \cup {pay[r]}
  /\ UNCHANGED <<earned, pay, metered, books>>

Next ==
  \/ Earn
  \/ \E r \in Request : Meter(r) \/ Enter(r) \/ Tell(r) \/ \E p \in Payment : Ask(r, p)

LedgerSpec == Init /\ [][Next]_ledgerVars
=============================================================================
