--------------------------- MODULE FactoringProofs ---------------------------
(***************************************************************************)
(* Proofs about FactoringSystem: the lifecycle's theorems carry over, the  *)
(* ledger of disbursements is complete, what escapes it is bounded by the  *)
(* failures, and billing rests on evidence and can be traced.              *)
(***************************************************************************)
EXTENDS FactoringSystem, AssignmentLifecycleProofs, FiniteSetTheorems

(***************************************************************************)
(* Disbursement requests do not disturb the lifecycle.                     *)
(***************************************************************************)
THEOREM SystemRunsLifecycle == SystemSpec => Spec
  <1>1. SystemInit => Init
    BY DEF SystemInit
  <1>2. [SystemNext]_systemVars => [Next]_vars
    BY DEF SystemNext, systemVars
  <1>3. QED
    BY <1>1, <1>2, PTL DEF SystemSpec, Spec

-----------------------------------------------------------------------------
(***************************************************************************)
(* What the variables of the disbursement requests can be.                 *)
(***************************************************************************)
LEMMA BillingInitTypeOK == SystemInit => BillingTypeOK
  BY BillingBoundsAssumption
     DEF SystemInit, Billing!Init, BillingTypeOK, Billing!TypeOK, Billing!Status

(***************************************************************************)
(* Every step of the system keeps them so.                                 *)
(***************************************************************************)
LEMMA BillingNextTypeOK ==
  TypeOK /\ BillingTypeOK /\ [SystemNext]_systemVars => BillingTypeOK'
  <1> SUFFICES ASSUME TypeOK, Billing!TypeOK, [SystemNext]_systemVars
               PROVE  Billing!TypeOK'
    BY DEF BillingTypeOK
  <1> USE BillingBoundsAssumption
          DEF Billing!TypeOK, Billing!InProgress, Billing!tables, Billing!Done
  <1>1. ASSUME NEW r \in Request, NEW p \in Payment, Billing!Post(r, p) PROVE Billing!TypeOK'
    BY <1>1 DEF Billing!Post
  <1>2. ASSUME NEW r \in Request, Billing!GiveUp(r) PROVE Billing!TypeOK'
    BY <1>2 DEF Billing!GiveUp
  <1>3. ASSUME NEW r \in Request, Billing!ReadAssignment(r) PROVE Billing!TypeOK'
    <2>1. status \in Billing!Status
      BY DEF TypeOK, Billing!Status, Status
    <2>2. QED
      BY <1>3, <2>1 DEF Billing!ReadAssignment
  <1>4. ASSUME NEW r \in Request, Billing!RefuseSession(r) \/ Billing!RefuseState(r)
        PROVE  Billing!TypeOK'
    BY <1>4 DEF Billing!RefuseSession, Billing!RefuseState
  <1>5. ASSUME NEW r \in Request, Billing!Insert(r) PROVE Billing!TypeOK'
    BY <1>5 DEF Billing!Insert
  <1>6. ASSUME NEW r \in Request, Billing!FireMeter(r) PROVE Billing!TypeOK'
    BY <1>6 DEF Billing!FireMeter
  <1>7. ASSUME NEW r \in Request, Billing!Commit(r) PROVE Billing!TypeOK'
    BY <1>7 DEF Billing!Commit, Billing!BillingEvent, Billing!AuditRows
  <1>8. ASSUME NEW r \in Request, Billing!Respond(r) PROVE Billing!TypeOK'
    BY <1>8 DEF Billing!Respond
  <1>9. ASSUME NEW r \in Request, Billing!Fail(r) PROVE Billing!TypeOK'
    BY <1>9 DEF Billing!Fail
  <1>10. CASE UNCHANGED billingVars
    BY <1>10 DEF billingVars
  <1>11. QED
    BY <1>1, <1>2, <1>3, <1>4, <1>5, <1>6, <1>7, <1>8, <1>9, <1>10
       DEF SystemNext, systemVars, Billing!Next, Billing!Handle

(***************************************************************************)
(* Type correctness of the disbursement requests in every behaviour.       *)
(***************************************************************************)
THEOREM BillingTypeCorrect == SystemSpec => [](TypeOK /\ BillingTypeOK)
  BY SystemRunsLifecycle, TypeCorrect, BillingInitTypeOK, BillingNextTypeOK, PTL DEF SystemSpec

-----------------------------------------------------------------------------
(***************************************************************************)
(* The inductive form of LedgerComplete: the rows of the three tables are  *)
(* determined by the disbursements, and a live request that is about to    *)
(* commit has been metered.                                                *)
(***************************************************************************)
LedgerInv ==
  /\ billing = {Billing!BillingEvent(r) : r \in disbursements}
  /\ audit = {"disbursement.observed", "stripe.meter.fired"} \X disbursements
  /\ LiveStripe => disbursements \cup {r \in Request : rpc[r] = "commit"} \subseteq metered

(***************************************************************************)
(* Only FireMeter and Commit touch what LedgerInv speaks of.               *)
(***************************************************************************)
LEMMA LedgerInvStep ==
  BillingTypeOK /\ LedgerInv /\ [SystemNext]_systemVars => LedgerInv'
  <1> SUFFICES ASSUME Billing!TypeOK, LedgerInv, [SystemNext]_systemVars
               PROVE  LedgerInv'
    BY DEF BillingTypeOK
  <1> USE DEF LedgerInv, Billing!tables, Billing!Done
  <1>1. ASSUME NEW r \in Request, Billing!Commit(r) PROVE LedgerInv'
    <2>1. billing' = {Billing!BillingEvent(q) : q \in disbursements'}
      BY <1>1 DEF Billing!Commit
    <2>2. audit' = {"disbursement.observed", "stripe.meter.fired"} \X disbursements'
      BY <1>1 DEF Billing!Commit, Billing!AuditRows
    <2>3. LiveStripe
            => disbursements' \cup {q \in Request : rpc'[q] = "commit"} \subseteq metered'
      BY <1>1 DEF Billing!Commit, Billing!TypeOK
    <2>4. QED
      BY <2>1, <2>2, <2>3 DEF Billing!BillingEvent
  <1>2. ASSUME NEW r \in Request, Billing!FireMeter(r) PROVE LedgerInv'
    BY <1>2 DEF Billing!FireMeter, Billing!TypeOK, Billing!BillingEvent
  <1>3. ASSUME NEW r \in Request,
               \/ Billing!GiveUp(r) \/ Billing!ReadAssignment(r) \/ Billing!RefuseSession(r)
               \/ Billing!RefuseState(r) \/ Billing!Insert(r) \/ Billing!Respond(r)
               \/ Billing!Fail(r) \/ \E p \in Payment : Billing!Post(r, p)
        PROVE  LedgerInv'
    <2>1. UNCHANGED <<disbursements, billing, audit, metered>>
      BY <1>3 DEF Billing!GiveUp, Billing!ReadAssignment, Billing!RefuseSession,
                  Billing!RefuseState, Billing!Insert, Billing!Respond, Billing!Fail, Billing!Post
    <2>2. \A q \in Request : rpc'[q] = "commit" => rpc[q] = "commit"
      BY <1>3 DEF Billing!GiveUp, Billing!ReadAssignment, Billing!RefuseSession,
                  Billing!RefuseState, Billing!Insert, Billing!Respond, Billing!Fail,
                  Billing!Post, Billing!TypeOK
    <2>3. QED
      BY <2>1, <2>2 DEF Billing!BillingEvent
  <1>4. CASE UNCHANGED billingVars
    BY <1>4 DEF billingVars, Billing!BillingEvent
  <1>5. QED
    BY <1>1, <1>2, <1>3, <1>4 DEF SystemNext, systemVars, Billing!Next, Billing!Handle

(***************************************************************************)
(* No failure, timeout or repetition leaves a disbursement without its     *)
(* billing event, its meter event at Stripe and its audit rows.            *)
(***************************************************************************)
THEOREM LedgerIsComplete == SystemSpec => []LedgerComplete
  <1>1. SystemInit => LedgerInv
    BY DEF SystemInit, Billing!Init, LedgerInv
  <1>2. LedgerInv => LedgerComplete
    <2> SUFFICES ASSUME LedgerInv PROVE Billing!LedgerComplete
      BY DEF LedgerComplete
    <2>1. ASSUME NEW b \in billing
          PROVE  /\ b.disbursement \in disbursements
                 /\ b = Billing!BillingEvent(b.disbursement)
                 /\ b.status = "fired" => LiveStripe
      <3>1. PICK r \in disbursements : b = Billing!BillingEvent(r)
        BY DEF LedgerInv
      <3>2. QED
        BY <3>1, BillingBoundsAssumption DEF Billing!BillingEvent
    <2>2. ASSUME NEW r \in disbursements PROVE \E b \in billing : b.disbursement = r
      <3>1. Billing!BillingEvent(r) \in billing
        BY DEF LedgerInv
      <3>2. QED
        BY <3>1 DEF Billing!BillingEvent
    <2>3. {b.disbursement : b \in billing} = disbursements
      BY <2>1, <2>2
    <2>4. \A b \in billing : b.status = "fired" => b.disbursement \in metered
      BY <2>1 DEF LedgerInv
    <2>5. \A a, b \in billing : a.disbursement = b.disbursement => a = b
      BY <2>1
    <2>6. QED
      BY <2>3, <2>4, <2>5 DEF LedgerInv, Billing!LedgerComplete
  <1>3. QED
    BY <1>1, <1>2, LedgerInvStep, BillingTypeCorrect, PTL DEF SystemSpec

-----------------------------------------------------------------------------
(***************************************************************************)
(* Where a request is tells what it has done: past the check it has read   *)
(* "perfected", and what is metered or recorded is past the meter.         *)
(***************************************************************************)
Checked ==
  /\ \A r \in Request : rpc[r] \in {"meter", "commit", "respond"} => seen[r] = "perfected"
  /\ \A r \in metered \cup disbursements :
       seen[r] = "perfected" /\ rpc[r] \in {"commit", "respond", "done"}

(***************************************************************************)
(* Every step of the system keeps it.                                      *)
(***************************************************************************)
LEMMA CheckedStep == BillingTypeOK /\ Checked /\ [SystemNext]_systemVars => Checked'
  <1> SUFFICES ASSUME Billing!TypeOK, Checked, [SystemNext]_systemVars PROVE Checked'
    BY DEF BillingTypeOK
  <1> USE DEF Checked, Billing!TypeOK, Billing!InProgress, Billing!tables, Billing!Done
  <1>1. ASSUME NEW r \in Request, Billing!ReadAssignment(r) PROVE Checked'
    BY <1>1 DEF Billing!ReadAssignment
  <1>2. ASSUME NEW r \in Request, NEW p \in Payment, Billing!Post(r, p) PROVE Checked'
    BY <1>2 DEF Billing!Post
  <1>3. ASSUME NEW r \in Request,
               \/ Billing!GiveUp(r) \/ Billing!RefuseSession(r) \/ Billing!RefuseState(r)
               \/ Billing!Respond(r) \/ Billing!Fail(r)
        PROVE  Checked'
    BY <1>3 DEF Billing!GiveUp, Billing!RefuseSession, Billing!RefuseState, Billing!Respond,
                Billing!Fail
  <1>4. ASSUME NEW r \in Request, Billing!Insert(r) \/ Billing!FireMeter(r) \/ Billing!Commit(r)
        PROVE  Checked'
    BY <1>4 DEF Billing!Insert, Billing!FireMeter, Billing!Commit
  <1>5. CASE UNCHANGED billingVars
    BY <1>5 DEF billingVars
  <1>6. QED
    BY <1>1, <1>2, <1>3, <1>4, <1>5 DEF SystemNext, systemVars, Billing!Next, Billing!Handle

(***************************************************************************)
(* In every behaviour.                                                     *)
(***************************************************************************)
LEMMA AlwaysChecked == SystemSpec => []Checked
  <1>1. SystemInit => Checked
    BY DEF SystemInit, Billing!Init, Checked
  <1>2. QED
    BY <1>1, CheckedStep, BillingTypeCorrect, PTL DEF SystemSpec

-----------------------------------------------------------------------------
(***************************************************************************)
(* Sets of requests against the failures that account for them.            *)
(***************************************************************************)
LEMMA NoMoreThanBefore ==
  ASSUME NEW S, NEW T, IsFiniteSet(S), T \subseteq S, NEW n \in Nat, NEW m \in Nat,
         Cardinality(S) <= n, n <= m
  PROVE  IsFiniteSet(T) /\ Cardinality(T) <= m
  <1>1. IsFiniteSet(T) /\ Cardinality(T) <= Cardinality(S)
    BY FS_Subset
  <1>2. Cardinality(T) \in Nat /\ Cardinality(S) \in Nat
    BY <1>1, FS_CardinalityType
  <1>3. QED
    BY <1>1, <1>2

(***************************************************************************)
(* One element more is one failure more.                                   *)
(***************************************************************************)
LEMMA OneMoreThanBefore ==
  ASSUME NEW S, NEW T, NEW x, IsFiniteSet(S), T \subseteq S \cup {x}, NEW n \in Nat,
         Cardinality(S) <= n
  PROVE  IsFiniteSet(T) /\ Cardinality(T) <= n + 1
  <1>1. IsFiniteSet(S \cup {x}) /\ Cardinality(S) \in Nat
        /\ Cardinality(S \cup {x}) = IF x \in S THEN Cardinality(S) ELSE Cardinality(S) + 1
    BY FS_AddElement, FS_CardinalityType
  <1>2. Cardinality(S \cup {x}) <= n + 1
    BY <1>1
  <1>3. QED
    BY <1>1, <1>2, NoMoreThanBefore

(***************************************************************************)
(* The instance counts with the same Cardinality.                          *)
(***************************************************************************)
LEMMA SameCardinality == \A S : Billing!Cardinality(S) = Cardinality(S)
  BY DEF Billing!Cardinality, Cardinality, Billing!IsFiniteSet, IsFiniteSet

(***************************************************************************)
(* The meter events without a billing row: a failure adds one at most.     *)
(***************************************************************************)
Orphans == {r \in metered \ disbursements : rpc[r] # "commit"}

OrphansInv == IsFiniteSet(Orphans) /\ Cardinality(Orphans) <= billingFailures

(***************************************************************************)
(* Every step of the system keeps the orphans within the failures.         *)
(***************************************************************************)
LEMMA OrphansInvStep ==
  BillingTypeOK /\ OrphansInv /\ [SystemNext]_systemVars => OrphansInv'
  <1> SUFFICES ASSUME Billing!TypeOK, OrphansInv, [SystemNext]_systemVars PROVE OrphansInv'
    BY DEF BillingTypeOK
  <1>1. billingFailures \in Nat
    BY BillingBoundsAssumption DEF Billing!TypeOK
  <1>2. ASSUME Orphans' \subseteq Orphans,
               billingFailures' = billingFailures \/ billingFailures' = billingFailures + 1
        PROVE  OrphansInv'
    BY <1>1, <1>2, NoMoreThanBefore DEF OrphansInv
  <1>3. ASSUME NEW r \in Request, Orphans' \subseteq Orphans \cup {r},
               billingFailures' = billingFailures + 1
        PROVE  OrphansInv'
    BY <1>1, <1>3, OneMoreThanBefore DEF OrphansInv
  <1> USE DEF Orphans, Billing!TypeOK, Billing!InProgress, Billing!tables, Billing!Done
  <1>4. ASSUME NEW r \in Request,
               \/ Billing!ReadAssignment(r) \/ Billing!RefuseSession(r) \/ Billing!RefuseState(r)
               \/ Billing!Insert(r) \/ Billing!FireMeter(r) \/ Billing!Commit(r)
               \/ Billing!Respond(r) \/ \E p \in Payment : Billing!Post(r, p)
        PROVE  Orphans' \subseteq Orphans /\ billingFailures' = billingFailures
    BY <1>4 DEF Billing!ReadAssignment, Billing!RefuseSession, Billing!RefuseState, Billing!Insert,
                Billing!FireMeter, Billing!Commit, Billing!Respond, Billing!Post
  <1>5. ASSUME NEW r \in Request, Billing!GiveUp(r)
        PROVE  Orphans' \subseteq Orphans /\ billingFailures' = billingFailures + 1
    BY <1>5 DEF Billing!GiveUp
  <1>6. ASSUME NEW r \in Request, Billing!Fail(r)
        PROVE  Orphans' \subseteq Orphans \cup {r} /\ billingFailures' = billingFailures + 1
    BY <1>6 DEF Billing!Fail
  <1>7. CASE UNCHANGED billingVars
    BY <1>2, <1>7 DEF billingVars
  <1>8. QED
    BY <1>2, <1>3, <1>4, <1>5, <1>6, <1>7
       DEF SystemNext, systemVars, Billing!Next, Billing!Handle

(***************************************************************************)
(* Of any number of requests, those that leave a meter event behind are no *)
(* more than the failures: refusals and terminations leave none.           *)
(***************************************************************************)
THEOREM OrphansNeedFailures == SystemSpec => []OrphansAreFailures
  <1>1. SystemInit => OrphansInv
    <2> SUFFICES ASSUME SystemInit PROVE OrphansInv
      OBVIOUS
    <2>1. Orphans = {} /\ billingFailures = 0
      BY DEF SystemInit, Billing!Init, Orphans
    <2>2. QED
      BY <2>1, FS_EmptySet DEF OrphansInv
  <1>2. OrphansInv => OrphansAreFailures
    BY SameCardinality DEF OrphansInv, Orphans, OrphansAreFailures, Billing!OrphansAreFailures
  <1>3. QED
    BY <1>1, <1>2, OrphansInvStep, BillingTypeCorrect, PTL DEF SystemSpec

-----------------------------------------------------------------------------
(***************************************************************************)
(* Who may bill a payment: the requests for it that are in progress or     *)
(* have billed it already.  Nobody waits for an abandoned one.             *)
(***************************************************************************)
Chargeable(p) == {r \in Request : /\ pay[r] = p
                                  /\ rpc[r] \in Billing!InProgress
                                       \/ r \in metered \cup disbursements}
Abandoned(p)  == Chargeable(p) \ waits

(***************************************************************************)
(* A client waits for one request at a time and for none once it has been  *)
(* told, and every request it does not wait for, the one it was told of    *)
(* apart, cost a failure or a timeout.                                     *)
(***************************************************************************)
OnceFor(p) ==
  /\ IsFiniteSet(Chargeable(p))
  /\ \A r, q \in waits : pay[r] = p /\ pay[q] = p => r = q
  /\ p \in told => /\ \A r \in waits : pay[r] # p
                   /\ Cardinality(Chargeable(p)) <= 1 + billingFailures
  /\ p \notin told => Cardinality(Abandoned(p)) <= billingFailures

(***************************************************************************)
(* The request a client waits for is the one that may bill without a       *)
(* failure.                                                                *)
(***************************************************************************)
LEMMA WaitingAddsOne ==
  ASSUME Billing!TypeOK, NEW p \in Payment, OnceFor(p)
  PROVE  Cardinality(Chargeable(p)) <= 1 + billingFailures
  <1>1. billingFailures \in Nat
    BY BillingBoundsAssumption DEF Billing!TypeOK
  <1>2. ASSUME p \notin told PROVE Cardinality(Chargeable(p)) <= 1 + billingFailures
    <2>1. IsFiniteSet(Abandoned(p)) /\ Cardinality(Abandoned(p)) <= billingFailures
      BY <1>2, FS_Subset DEF OnceFor, Abandoned
    <2>2. CASE \E r \in waits : pay[r] = p
      <3>1. PICK r \in waits : pay[r] = p
        BY <2>2
      <3>2. Chargeable(p) \subseteq Abandoned(p) \cup {r}
        BY <3>1 DEF OnceFor, Abandoned, Chargeable
      <3>3. Cardinality(Chargeable(p)) <= billingFailures + 1
        BY <1>1, <2>1, <3>2, OneMoreThanBefore
      <3>4. QED
        BY <1>1, <3>3, FS_CardinalityType DEF OnceFor
    <2>3. CASE \A r \in waits : pay[r] # p
      <3>1. Chargeable(p) \subseteq Abandoned(p)
        BY <2>3 DEF Abandoned, Chargeable
      <3>2. QED
        BY <1>1, <2>1, <3>1, NoMoreThanBefore
    <2>4. QED
      BY <2>2, <2>3
  <1>3. QED
    BY <1>2 DEF OnceFor

(***************************************************************************)
(* The ways a step can touch the requests for a payment.                   *)
(***************************************************************************)
LEMMA OnceForStays ==
  ASSUME Billing!TypeOK, NEW p \in Payment, OnceFor(p),
         Chargeable(p)' \subseteq Chargeable(p), Abandoned(p)' \subseteq Abandoned(p),
         waits' \subseteq waits, \A r \in waits' : pay'[r] = pay[r],
         p \in told' <=> p \in told,
         billingFailures' = billingFailures \/ billingFailures' = billingFailures + 1
  PROVE  OnceFor(p)'
  <1>1. billingFailures \in Nat /\ billingFailures' \in Nat /\ billingFailures <= billingFailures'
    BY BillingBoundsAssumption DEF Billing!TypeOK
  <1>2. IsFiniteSet(Chargeable(p)') /\ IsFiniteSet(Abandoned(p))
    BY FS_Subset DEF OnceFor, Abandoned
  <1>3. p \in told => Cardinality(Chargeable(p)') <= 1 + billingFailures'
    <2> SUFFICES ASSUME p \in told PROVE Cardinality(Chargeable(p)') <= 1 + billingFailures'
      OBVIOUS
    <2>1. IsFiniteSet(Chargeable(p)) /\ Cardinality(Chargeable(p)) <= 1 + billingFailures
      BY DEF OnceFor
    <2>2. \A n, m \in Nat : n <= m => 1 + n \in Nat /\ 1 + m \in Nat /\ 1 + n <= 1 + m
      OBVIOUS
    <2>3. /\ 1 + billingFailures \in Nat /\ 1 + billingFailures' \in Nat
          /\ 1 + billingFailures <= 1 + billingFailures'
      BY <1>1, <2>2, Zenon
    <2>4. QED
      BY <2>1, <2>3, NoMoreThanBefore
  <1>4. p \notin told => Cardinality(Abandoned(p)') <= billingFailures'
    BY <1>1, <1>2, NoMoreThanBefore DEF OnceFor
  <1>5. QED
    BY <1>2, <1>3, <1>4 DEF OnceFor

(***************************************************************************)
(* A step that abandons a request costs a failure.                         *)
(***************************************************************************)
LEMMA OnceForCosts ==
  ASSUME Billing!TypeOK, NEW p \in Payment, OnceFor(p), NEW r,
         Chargeable(p)' \subseteq Chargeable(p), Abandoned(p)' \subseteq Abandoned(p) \cup {r},
         waits' \subseteq waits, pay' = pay, told' = told,
         billingFailures' = billingFailures + 1
  PROVE  OnceFor(p)'
  <1>1. billingFailures \in Nat
    BY BillingBoundsAssumption DEF Billing!TypeOK
  <1>2. IsFiniteSet(Chargeable(p)') /\ IsFiniteSet(Abandoned(p))
    BY FS_Subset DEF OnceFor, Abandoned
  <1>3. p \in told => Cardinality(Chargeable(p)') <= 1 + billingFailures'
    BY <1>1, NoMoreThanBefore DEF OnceFor
  <1>4. p \notin told => Cardinality(Abandoned(p)') <= billingFailures'
    BY <1>1, <1>2, OneMoreThanBefore DEF OnceFor
  <1>5. QED
    BY <1>2, <1>3, <1>4 DEF OnceFor

(***************************************************************************)
(* Every step of the system keeps the account of a payment.                *)
(***************************************************************************)
LEMMA OnceForStep ==
  ASSUME Billing!TypeOK, Checked, [SystemNext]_systemVars, NEW p \in Payment, OnceFor(p)
  PROVE  OnceFor(p)'
  <1> USE DEF Billing!TypeOK, Billing!InProgress, Billing!tables, Billing!Done
  <1>1. ASSUME NEW r \in Request, NEW q \in Payment, Billing!Post(r, q) PROVE OnceFor(p)'
    <2>1. /\ rpc[r] = "unused" /\ r \notin metered \cup disbursements
          /\ q \notin told /\ \A v \in waits : pay[v] # q
          /\ rpc' = [rpc EXCEPT ![r] = "read"] /\ pay' = [pay EXCEPT ![r] = q]
          /\ waits' = waits \cup {r} /\ r \notin waits
          /\ UNCHANGED <<told, metered, disbursements, billingFailures>>
      BY <1>1 DEF Billing!Post, Checked
    <2>2. Abandoned(p)' \subseteq Abandoned(p)
      BY <2>1 DEF Abandoned, Chargeable
    <2>3. CASE q # p
      <3>1. Chargeable(p)' \subseteq Chargeable(p)
        BY <2>1, <2>3 DEF Chargeable
      <3>2. IsFiniteSet(Chargeable(p)') /\ IsFiniteSet(Abandoned(p)) /\ billingFailures \in Nat
        BY <3>1, FS_Subset, BillingBoundsAssumption DEF OnceFor, Abandoned
      <3>3. p \in told => Cardinality(Chargeable(p)') <= 1 + billingFailures'
        BY <2>1, <3>1, <3>2, NoMoreThanBefore DEF OnceFor
      <3>4. p \notin told => Cardinality(Abandoned(p)') <= billingFailures'
        <4> SUFFICES ASSUME p \notin told PROVE Cardinality(Abandoned(p)') <= billingFailures'
          OBVIOUS
        <4>1. Cardinality(Abandoned(p)) <= billingFailures
          BY DEF OnceFor
        <4>2. billingFailures' \in Nat /\ billingFailures <= billingFailures'
          BY <2>1, <3>2
        <4>3. QED
          BY <2>2, <3>2, <4>1, <4>2, NoMoreThanBefore
      <3>5. \A v \in waits' : pay'[v] = p => v \in waits /\ pay[v] = p
        BY <2>1, <2>3
      <3>6. QED
        BY <2>1, <3>2, <3>3, <3>4, <3>5 DEF OnceFor
    <2>4. CASE q = p
      <3>1. Chargeable(p)' \subseteq Chargeable(p) \cup {r}
        BY <2>1 DEF Chargeable
      <3>2. IsFiniteSet(Chargeable(p)')
        BY <3>1, FS_AddElement, FS_Subset DEF OnceFor
      <3>3. IsFiniteSet(Abandoned(p)) /\ billingFailures \in Nat
        BY FS_Subset, BillingBoundsAssumption DEF OnceFor, Abandoned
      <3>4. Cardinality(Abandoned(p)') <= billingFailures'
        <4>1. Cardinality(Abandoned(p)) <= billingFailures
          BY <2>1, <2>4 DEF OnceFor
        <4>2. billingFailures' \in Nat /\ billingFailures <= billingFailures'
          BY <2>1, <3>3
        <4>3. QED
          BY <2>2, <3>3, <4>1, <4>2, NoMoreThanBefore
      <3>5. \A v \in waits' : pay'[v] = p => v = r
        BY <2>1, <2>4
      <3>6. QED
        BY <2>1, <2>4, <3>2, <3>4, <3>5 DEF OnceFor
    <2>5. QED
      BY <2>3, <2>4
  <1>2. ASSUME NEW r \in Request,
               \/ Billing!ReadAssignment(r) \/ Billing!RefuseSession(r) \/ Billing!RefuseState(r)
               \/ Billing!Insert(r) \/ Billing!FireMeter(r) \/ Billing!Commit(r)
        PROVE  OnceFor(p)'
    <2>1. /\ waits' \subseteq waits /\ UNCHANGED <<pay, told, billingFailures>>
      BY <1>2 DEF Billing!ReadAssignment, Billing!RefuseSession, Billing!RefuseState,
                  Billing!Insert, Billing!FireMeter, Billing!Commit
    <2>2. Chargeable(p)' \subseteq Chargeable(p) /\ Abandoned(p)' \subseteq Abandoned(p)
      BY <1>2 DEF Billing!ReadAssignment, Billing!RefuseSession, Billing!RefuseState,
                  Billing!Insert, Billing!FireMeter, Billing!Commit, Abandoned, Chargeable, Checked
    <2>3. QED
      BY <2>1, <2>2, OnceForStays
  <1>3. ASSUME NEW r \in Request, Billing!GiveUp(r) \/ Billing!Fail(r) PROVE OnceFor(p)'
    <2>1. waits' \subseteq waits /\ UNCHANGED <<pay, told>> /\ billingFailures' = billingFailures + 1
      BY <1>3 DEF Billing!GiveUp, Billing!Fail
    <2>2. Chargeable(p)' \subseteq Chargeable(p) /\ Abandoned(p)' \subseteq Abandoned(p) \cup {r}
      BY <1>3 DEF Billing!GiveUp, Billing!Fail, Abandoned, Chargeable
    <2>3. QED
      BY <2>1, <2>2, OnceForCosts
  <1>4. ASSUME NEW r \in Request, Billing!Respond(r) PROVE OnceFor(p)'
    <2>1. /\ waits' = waits \ {r} /\ UNCHANGED <<pay, billingFailures>>
          /\ told' = IF r \in waits THEN told \cup {pay[r]} ELSE told
      BY <1>4 DEF Billing!Respond
    <2>2. Chargeable(p)' \subseteq Chargeable(p)
      BY <1>4 DEF Billing!Respond, Chargeable
    <2>3. CASE r \in waits /\ pay[r] = p
      <3>1. billingFailures \in Nat
        BY BillingBoundsAssumption
      <3>2. IsFiniteSet(Chargeable(p)') /\ Cardinality(Chargeable(p)') <= 1 + billingFailures'
        BY <2>1, <2>2, <3>1, WaitingAddsOne, NoMoreThanBefore DEF OnceFor
      <3>3. \A q \in waits' : pay'[q] # p
        BY <2>1, <2>3 DEF OnceFor
      <3>4. p \in told'
        BY <2>1, <2>3
      <3>5. QED
        BY <3>2, <3>3, <3>4 DEF OnceFor
    <2>4. CASE r \notin waits \/ pay[r] # p
      <3>1. Abandoned(p)' \subseteq Abandoned(p)
        BY <2>1, <2>2, <2>4 DEF Abandoned, Chargeable
      <3>2. p \in told' <=> p \in told
        BY <2>1, <2>4
      <3>3. QED
        BY <2>1, <2>2, <3>1, <3>2, OnceForStays
    <2>5. QED
      BY <2>3, <2>4
  <1>5. CASE UNCHANGED billingVars
    <2>1. Chargeable(p)' \subseteq Chargeable(p) /\ Abandoned(p)' \subseteq Abandoned(p)
      BY <1>5 DEF billingVars, Chargeable, Abandoned
    <2>2. QED
      BY <1>5, <2>1, OnceForStays DEF billingVars
  <1>6. QED
    BY <1>1, <1>2, <1>3, <1>4, <1>5 DEF SystemNext, systemVars, Billing!Next, Billing!Handle

(***************************************************************************)
(* However a client repeats a payment, it is billed once and once more for *)
(* every failure or timeout: any number of requests, payments and retries. *)
(***************************************************************************)
THEOREM BilledOncePerFailure == SystemSpec => []BilledOnce
  <1> DEFINE OnceInv == \A p \in Payment : OnceFor(p)
  <1>1. SystemInit => OnceInv
    <2> SUFFICES ASSUME SystemInit, NEW p \in Payment PROVE OnceFor(p)
      OBVIOUS
    <2>1. Chargeable(p) = {} /\ Abandoned(p) = {} /\ waits = {} /\ told = {} /\ billingFailures = 0
      BY DEF SystemInit, Billing!Init, Chargeable, Abandoned, Billing!InProgress
    <2>2. QED
      BY <2>1, FS_EmptySet DEF OnceFor
  <1>2. BillingTypeOK /\ Checked /\ OnceInv /\ [SystemNext]_systemVars => OnceInv'
    BY OnceForStep DEF BillingTypeOK
  <1>3. BillingTypeOK /\ OnceInv => BilledOnce
    <2> SUFFICES ASSUME Billing!TypeOK, OnceInv, NEW p \in Payment
                 PROVE  Cardinality({r \in metered \cup disbursements : pay[r] = p})
                          <= 1 + billingFailures
      BY SameCardinality DEF BillingTypeOK, BilledOnce, Billing!BilledOnce
    <2>1. Cardinality(Chargeable(p)) <= 1 + billingFailures /\ IsFiniteSet(Chargeable(p))
      BY WaitingAddsOne DEF OnceFor
    <2>2. {r \in metered \cup disbursements : pay[r] = p} \subseteq Chargeable(p)
      BY DEF Chargeable, Billing!TypeOK
    <2>3. billingFailures \in Nat
      BY BillingBoundsAssumption DEF Billing!TypeOK
    <2>4. QED
      BY <2>1, <2>2, <2>3, NoMoreThanBefore
  <1> HIDE DEF OnceInv
  <1>4. QED
    BY <1>1, <1>2, <1>3, AlwaysChecked, BillingTypeCorrect, PTL DEF SystemSpec

-----------------------------------------------------------------------------
(***************************************************************************)
(* Whoever read "perfected" leaves its row in the log or on its way there: *)
(* rows stay, though the status may be overwritten.                        *)
(***************************************************************************)
TraceInv == failures = 0 /\ (\E r \in Request : seen[r] = "perfected") => HasRow("perfected")

(***************************************************************************)
(* Every step keeps the trace: it is read with the status, and rows stay.  *)
(***************************************************************************)
LEMMA TraceInvStep ==
  TypeOK /\ BillingTypeOK /\ LoggedInv /\ TraceInv /\ [SystemNext]_systemVars => TraceInv'
  <1> SUFFICES ASSUME TypeOK, Billing!TypeOK, LoggedInv, TraceInv, [SystemNext]_systemVars,
                      failures' = 0, NEW r \in Request, seen'[r] = "perfected"
               PROVE  HasRow("perfected")'
    BY DEF BillingTypeOK, TraceInv
  <1>1. [Next]_vars
    BY DEF SystemNext, systemVars
  <1>2. failures = 0
    BY <1>1, FailuresOnlyGrow
  <1>3. seen[r] = "perfected" \/ status = "perfected"
    BY DEF SystemNext, systemVars, billingVars, Billing!Next, Billing!Handle, Billing!Post,
           Billing!GiveUp, Billing!ReadAssignment, Billing!RefuseSession, Billing!RefuseState,
           Billing!Insert, Billing!FireMeter, Billing!Commit, Billing!Respond, Billing!Fail,
           Billing!TypeOK
  <1>4. HasRow("perfected")
    BY <1>2, <1>3 DEF TraceInv, LoggedInv
  <1>5. QED
    BY <1>1, <1>4, RowsStay

(***************************************************************************)
(* As long as no webhook fails, a recorded disbursement is traced to a     *)
(* perfection in the log, whatever became of the status since.             *)
(***************************************************************************)
THEOREM DisbursementsAreTraced == SystemSpec => []DisbursementIsTraceable
  <1>1. SystemInit => TraceInv
    BY DEF SystemInit, Billing!Init, TraceInv
  <1>2. TypeOK /\ BillingTypeOK /\ Checked /\ TraceInv => DisbursementIsTraceable
    BY HasRowMeaning DEF BillingTypeOK, Billing!TypeOK, Checked, TraceInv, DisbursementIsTraceable
  <1>3. SystemSpec => []LoggedInv
    BY SystemRunsLifecycle, StatusHasRow, PTL
  <1>4. QED
    BY <1>1, <1>2, <1>3, TraceInvStep, AlwaysChecked, BillingTypeCorrect, PTL DEF SystemSpec

-----------------------------------------------------------------------------
(***************************************************************************)
(* Whoever read "perfected" did so when every act was there; acts are      *)
(* never undone.                                                           *)
(***************************************************************************)
BillingEvidence == \A r \in Request : seen[r] = "perfected" => Far!Justified("perfected")

(***************************************************************************)
(* A stale status is still evidence: ReadAssignment may copy a status that *)
(* is overwritten later, but the acts it stood for stay done.              *)
(***************************************************************************)
LEMMA BillingEvidenceStep ==
  /\ TypeOK /\ BillingTypeOK /\ EvidenceInv /\ BillingEvidence
  /\ [SystemNext]_systemVars
  => BillingEvidence'
  <1> SUFFICES ASSUME TypeOK, Billing!TypeOK, EvidenceInv, BillingEvidence,
                      [SystemNext]_systemVars
               PROVE  BillingEvidence'
    BY DEF BillingTypeOK
  <1>1. [Next]_vars
    BY DEF SystemNext, systemVars
  <1>2. Far!Justified("perfected") => Far!Justified("perfected")'
    <2>1. intake' = intake /\ signed \subseteq signed' /\ acked \subseteq acked'
      BY <1>1, ActsOnlyGrow
    <2>2. QED
      BY <2>1, JustifiedStays DEF Status
  <1>3. status = "perfected" => Far!Justified("perfected")
    BY DEF EvidenceInv, StatusesJustified
  <1> USE DEF BillingEvidence, Billing!TypeOK, Billing!InProgress, Billing!tables, Billing!Done
  <1>4. ASSUME NEW r \in Request, Billing!ReadAssignment(r) PROVE BillingEvidence'
    BY <1>2, <1>3, <1>4 DEF Billing!ReadAssignment
  <1>5. ASSUME NEW r \in Request, NEW p \in Payment, Billing!Post(r, p) PROVE BillingEvidence'
    BY <1>2, <1>5 DEF Billing!Post
  <1>6. ASSUME NEW r \in Request,
               \/ Billing!GiveUp(r) \/ Billing!RefuseSession(r) \/ Billing!RefuseState(r)
               \/ Billing!Respond(r) \/ Billing!Fail(r)
        PROVE  BillingEvidence'
    BY <1>2, <1>6 DEF Billing!GiveUp, Billing!RefuseSession, Billing!RefuseState,
                      Billing!Respond, Billing!Fail
  <1>7. ASSUME NEW r \in Request, Billing!Insert(r) \/ Billing!FireMeter(r) \/ Billing!Commit(r)
        PROVE  BillingEvidence'
    BY <1>2, <1>7 DEF Billing!Insert, Billing!FireMeter, Billing!Commit
  <1>8. CASE UNCHANGED billingVars
    BY <1>2, <1>8 DEF billingVars
  <1>9. QED
    BY <1>4, <1>5, <1>6, <1>7, <1>8 DEF SystemNext, systemVars, Billing!Next, Billing!Handle

(***************************************************************************)
(* A factor is billed, and a payment recorded, only after every required   *)
(* signature and acknowledgement, for any number of requests, webhooks,    *)
(* failures and redeliveries.                                              *)
(***************************************************************************)
THEOREM BillingRestsOnEvidence ==
  ASSUME DistinctAddresses, FaithfulMail
  PROVE  SystemSpec => []BilledOnEvidence
  <1>1. SystemInit => BillingEvidence
    BY DEF SystemInit, Billing!Init, BillingEvidence
  <1>2. BillingTypeOK /\ Checked /\ BillingEvidence => BilledOnEvidence
    BY FarVocabulary DEF BillingTypeOK, Billing!TypeOK, Checked, BillingEvidence,
                         BilledOnEvidence, Earned,
                         Far!Justified, Far!BothSigned
  <1>3. SystemSpec => []EvidenceInv
    BY SystemRunsLifecycle, EvidenceInvariant, PTL
  <1>4. QED
    BY <1>1, <1>2, <1>3, BillingEvidenceStep, AlwaysChecked, BillingTypeCorrect, PTL DEF SystemSpec

-----------------------------------------------------------------------------
(***************************************************************************)
(* What the refinement of the ledger needs besides: an unused request has  *)
(* no payment, and a request is in the books exactly from its COMMIT on.   *)
(***************************************************************************)
BooksInv ==
  /\ \A r \in Request : rpc[r] = "unused" => pay[r] = NoPayment
  /\ \A r \in Request : rpc[r] = "respond" => r \in disbursements
  /\ \A r \in disbursements : rpc[r] \in {"respond", "done"}

(***************************************************************************)
(* Every step keeps it.                                                    *)
(***************************************************************************)
LEMMA BooksInvStep == BillingTypeOK /\ BooksInv /\ [SystemNext]_systemVars => BooksInv'
  <1> SUFFICES ASSUME Billing!TypeOK, BooksInv, [SystemNext]_systemVars PROVE BooksInv'
    BY DEF BillingTypeOK
  <1> USE DEF BooksInv, Billing!TypeOK, Billing!InProgress, Billing!tables, Billing!Done
  <1>1. ASSUME NEW r \in Request, NEW p \in Payment, Billing!Post(r, p) PROVE BooksInv'
    BY <1>1 DEF Billing!Post
  <1>2. ASSUME NEW r \in Request,
               \/ Billing!GiveUp(r) \/ Billing!ReadAssignment(r) \/ Billing!RefuseSession(r)
               \/ Billing!RefuseState(r) \/ Billing!Insert(r) \/ Billing!FireMeter(r)
               \/ Billing!Respond(r) \/ Billing!Fail(r)
        PROVE  BooksInv'
    BY <1>2 DEF Billing!GiveUp, Billing!ReadAssignment, Billing!RefuseSession, Billing!RefuseState,
                Billing!Insert, Billing!FireMeter, Billing!Respond, Billing!Fail
  <1>3. ASSUME NEW r \in Request, Billing!Commit(r) PROVE BooksInv'
    BY <1>3 DEF Billing!Commit
  <1>4. CASE UNCHANGED billingVars
    BY <1>4 DEF billingVars
  <1>5. QED
    BY <1>1, <1>2, <1>3, <1>4 DEF SystemNext, systemVars, Billing!Next, Billing!Handle

(***************************************************************************)
(* A step of the system is a step of the ledger or none: the lifecycle can *)
(* only earn, and of a request's steps four are the ledger's.              *)
(***************************************************************************)
LEMMA StepKeepsBooks ==
  ASSUME TypeOK, Billing!TypeOK, LedgerInv, Checked, BillingEvidence, BooksInv,
         [SystemNext]_systemVars
  PROVE  [Books!Next]_(Books!ledgerVars)
  <1> USE DEF Books!ledgerVars, Books!books
  <1>1. CASE Next /\ UNCHANGED billingVars
    <2>1. intake' = intake /\ signed \subseteq signed' /\ acked \subseteq acked'
      BY <1>1, ActsOnlyGrow
    <2>2. Earned => Earned'
      BY <2>1 DEF Earned, HasSurety
    <2>3. Earned' = Earned \/ Earned' = TRUE
      BY <2>2 DEF Earned
    <2>4. QED
      BY <1>1, <2>3 DEF billingVars, Books!Next, Books!Earn
  <1>2. ASSUME NEW r \in Request, Billing!Handle(r) \/ Billing!GiveUp(r)
                                   \/ \E p \in Payment : Billing!Post(r, p),
               UNCHANGED vars
        PROVE  [Books!Next]_(Books!ledgerVars)
    <2>1. Earned' = Earned
      BY <1>2 DEF vars, outside, Earned, HasSurety
    <2>2. seen[r] = "perfected" => Earned
      BY FarVocabulary DEF BillingEvidence, Earned, Far!Justified, Far!BothSigned
    <2> HIDE DEF Books!ledgerVars, Books!books
    <2>3. ASSUME NEW p \in Payment, Billing!Post(r, p) PROVE Books!Ask(r, p)
      BY <2>1, <2>3 DEF Billing!Post, BooksInv, Books!Ask, Books!books, Billing!tables
    <2>4. CASE Billing!FireMeter(r)
      <3>1. CASE LiveStripe
        <4>1. rpc[r] = "meter" /\ metered' = metered \cup {r}
                /\ UNCHANGED <<pay, told, disbursements, billing, audit>>
          BY <2>4, <3>1 DEF Billing!FireMeter, Billing!tables
        <4>2. seen[r] = "perfected" /\ r \notin metered \cup disbursements /\ pay[r] \in Payment
          BY <4>1 DEF Checked, Billing!TypeOK
        <4>3. QED
          BY <2>1, <2>2, <3>1, <4>1, <4>2 DEF Books!Next, Books!Meter, Books!books
      <3>2. CASE ~LiveStripe
        BY <2>1, <2>4, <3>2 DEF Billing!FireMeter, Billing!tables, Books!ledgerVars, Books!books
      <3>3. QED
        BY <3>1, <3>2
    <2>5. CASE Billing!Commit(r)
      <3>1. /\ rpc[r] = "commit" /\ UNCHANGED <<pay, told, metered>>
            /\ disbursements' = disbursements \cup {r}
            /\ billing' = billing \cup {[disbursement |-> r,
                                          status |-> IF LiveStripe THEN "fired" ELSE "fixture"]}
            /\ audit' = audit \cup Billing!AuditRows(r)
        BY <2>5 DEF Billing!Commit, Billing!BillingEvent
      <3>2. /\ seen[r] = "perfected" /\ r \notin disbursements /\ pay[r] \in Payment
            /\ LiveStripe => r \in metered
        BY <3>1 DEF Checked, BooksInv, LedgerInv, Billing!TypeOK
      <3>3. Billing!AuditRows(r) = {<<"disbursement.observed", r>>, <<"stripe.meter.fired", r>>}
        BY DEF Billing!AuditRows
      <3>4. QED
        BY <2>1, <2>2, <3>1, <3>2, <3>3 DEF Books!Next, Books!Enter
    <2>6. CASE Billing!Respond(r)
      <3>1. /\ r \in disbursements /\ UNCHANGED <<pay, metered, disbursements, billing, audit>>
            /\ told' = told \/ told' = told \cup {pay[r]}
        BY <2>6 DEF Billing!Respond, Billing!tables, BooksInv
      <3>2. QED
        BY <2>1, <3>1 DEF Books!Next, Books!Tell, Books!books, Books!ledgerVars
    <2>7. CASE \/ Billing!ReadAssignment(r) \/ Billing!RefuseSession(r) \/ Billing!RefuseState(r)
               \/ Billing!Insert(r) \/ Billing!Fail(r) \/ Billing!GiveUp(r)
      BY <2>1, <2>7 DEF Billing!ReadAssignment, Billing!RefuseSession, Billing!RefuseState,
                        Billing!Insert, Billing!Fail, Billing!GiveUp, Billing!tables,
                        Books!ledgerVars, Books!books
    <2>8. QED
      BY <1>2, <2>3, <2>4, <2>5, <2>6, <2>7 DEF Billing!Handle, Books!Next
  <1>3. CASE UNCHANGED systemVars
    BY <1>3 DEF systemVars, vars, outside, billingVars, Earned, HasSurety
  <1>4. QED
    BY <1>1, <1>2, <1>3 DEF SystemNext, Billing!Next

(***************************************************************************)
(* For any number of requests, payments, webhooks, failures and timeouts   *)
(* the disbursement requests implement the ledger: the books are entered   *)
(* in one step, after the meter event and on the evidence, and never       *)
(* changed, and a payment reported as recorded is there.                   *)
(***************************************************************************)
THEOREM BooksAreKept ==
  ASSUME DistinctAddresses, FaithfulMail
  PROVE  SystemSpec => KeepsTheBooks
  <1>1. SystemInit => Books!Init /\ BooksInv /\ LedgerInv /\ BillingEvidence
    <2> SUFFICES ASSUME SystemInit PROVE Books!Init /\ BooksInv /\ LedgerInv /\ BillingEvidence
      OBVIOUS
    <2>1. Earned = FALSE
      BY DEF SystemInit, Init, Earned, SignerRoles
    <2>2. QED
      BY <2>1 DEF SystemInit, Billing!Init, Books!Init, BooksInv, LedgerInv, BillingEvidence
  <1>2. TypeOK /\ BillingTypeOK /\ LedgerInv /\ Checked /\ BillingEvidence /\ BooksInv
          /\ [SystemNext]_systemVars => [Books!Next]_(Books!ledgerVars)
    BY StepKeepsBooks DEF BillingTypeOK
  <1>3. SystemSpec => []EvidenceInv
    BY SystemRunsLifecycle, EvidenceInvariant, PTL
  <1>4. QED
    BY <1>1, <1>2, <1>3, LedgerInvStep, BillingEvidenceStep, BooksInvStep, AlwaysChecked,
       BillingTypeCorrect, PTL DEF SystemSpec, KeepsTheBooks, Books!LedgerSpec
=============================================================================
