--------------------- MODULE AssignmentLifecycleProofs ----------------------
(***************************************************************************)
(* Proofs about AssignmentLifecycle, for any number of webhook requests,   *)
(* envelopes, messages and failures.                                       *)
(***************************************************************************)
EXTENDS AssignmentLifecycle, TLAPS

(***************************************************************************)
(* What the theorems about evidence assume of the environment: no two      *)
(* parties share an address (parties are matched by address only), and     *)
(* Documenso reports no event the handler does not know (it would take it  *)
(* for a signature).                                                       *)
(***************************************************************************)
DistinctAddresses ==
  \A q \in Intakes : \A r, s \in IntakeRoles :
    q.email[r] = q.email[s] /\ q.email[r] # NoEmail => r = s

FaithfulMail == \A m \in Mail : m.kind # "other"

-----------------------------------------------------------------------------
(***************************************************************************)
(* evaluateTransition proposes only edges of the legal sequence, and never *)
(* an edge into terminated or rejected.                                    *)
(***************************************************************************)
THEOREM EvaluateFollowsSequence ==
  ASSUME NEW current \in Status, NEW rows, NEW surety,
         evaluateTransition(current, rows, surety) # NoTransition
  PROVE  /\ <<current, evaluateTransition(current, rows, surety)>> \in LegalEdge
         /\ evaluateTransition(current, rows, surety) \in {"executed", "acknowledged", "perfected"}
  BY DEF evaluateTransition, LegalEdge, NoTransition, Status

(***************************************************************************)
(* What the rows say when evaluateTransition proposes a status.            *)
(***************************************************************************)
LEMMA EvaluateGrounds ==
  ASSUME NEW current \in Status, NEW rows, NEW surety \in BOOLEAN
  PROVE  LET new == evaluateTransition(current, rows, surety) IN
         /\ new = "executed" => \A r \in SignerRoles : rows[r] = "signed"
         /\ new \in {"acknowledged", "perfected"} => current \in {"served", "acknowledged"}
         /\ new = "acknowledged" => \E r \in RequiredRoles(surety) : rows[r] = "acknowledged"
         /\ new = "perfected" => \A r \in RequiredRoles(surety) : rows[r] = "acknowledged"
  BY DEF evaluateTransition, NoTransition, AckedOf

-----------------------------------------------------------------------------
(***************************************************************************)
(* Type correctness; in particular a document is never recorded as         *)
(* executed, because the CHECK demands a hash nobody writes.               *)
(***************************************************************************)
LEMMA InitTypeOK == Init => TypeOK
  <1> SUFFICES ASSUME Init PROVE TypeOK
    OBVIOUS
  <1>1. 0 \in 0 .. MaxFailures /\ 0 \in 0 .. MaxDuplicates
    BY BoundsAssumption
  <1>2. QED
    BY <1>1, MailAssumption DEF Init, TypeOK, Status, Place, NoTransition, Row

(***************************************************************************)
(* Every step of the lifecycle keeps the types.                            *)
(***************************************************************************)
LEMMA NextTypeOK == TypeOK /\ [Next]_vars => TypeOK'
  <1> SUFFICES ASSUME TypeOK, [Next]_vars PROVE TypeOK'
    OBVIOUS
  <1> USE DEF TypeOK, parties, requests, world, outside, bounds
  <1>1. ASSUME NEW e \in Envelope, CheckDrafted(e) PROVE TypeOK'
    BY <1>1 DEF CheckDrafted
  <1>2. ASSUME NEW e \in Envelope, CreateEnvelope(e) PROVE TypeOK'
    BY <1>2 DEF CreateEnvelope
  <1>3. ASSUME NEW e \in Envelope, RecordEnvelope(e) PROVE TypeOK'
    BY <1>3 DEF RecordEnvelope
  <1>4. ASSUME NEW e \in Envelope, FailInitiate(e) PROVE TypeOK'
    BY <1>4, BoundsAssumption DEF FailInitiate
  <1>5. ASSUME NEW m \in Mail, Emit(m) PROVE TypeOK'
    BY <1>5, MailAssumption DEF Emit, SignedBy, AckedBy, Message, Role, Recipients, AnyRecipient
  <1>6. ASSUME NEW m \in Mail, RefuseUnknownEnvelope(m) PROVE TypeOK'
    BY <1>6 DEF RefuseUnknownEnvelope, Unanswered
  <1>7. ASSUME NEW w \in Worker, UpdateParties(w) PROVE TypeOK'
    BY <1>7 DEF UpdateParties, GoTo, HashConstraint, HasContentHash, newDocStatus,
                newPartyStatus, Place
  <1>8. ASSUME NEW w \in Worker, RollbackUpdate(w) PROVE TypeOK'
    BY <1>8 DEF RollbackUpdate, Finish, GoTo, Unanswered, Place, Status
  <1>9. ASSUME NEW w \in Worker, ReadStatus(w) PROVE TypeOK'
    BY <1>9 DEF ReadStatus, GoTo, Place
  <1>10. ASSUME NEW w \in Worker, ReadParties(w) PROVE TypeOK'
    <2> DEFINE new == evaluateTransition(snap[w], party, HasSurety)
    <2>1. CASE new = NoTransition
      <3>1. Answer200(w) /\ UNCHANGED <<intake, status, parties, transitions, world, manual,
                                         signed, acked, bounds>>
        BY <1>10, <2>1 DEF ReadParties
      <3>2. req[w] \in Mail
        BY <1>10 DEF ReadParties
      <3>3. QED
        BY <3>1, <3>2 DEF Answer200, Finish, GoTo, Place, Status
    <2>2. CASE new # NoTransition
      <3>1. snap[w] \in Status
        OBVIOUS
      <3>2. new \in {"executed", "acknowledged", "perfected"}
        BY <2>2, <3>1, EvaluateFollowsSequence
      <3>3. new \in Status
        BY <3>2 DEF Status
      <3>4. /\ next' = [next EXCEPT ![w] = new] /\ GoTo(w, "writeStatus")
            /\ UNCHANGED <<req, snap, mail>>
            /\ UNCHANGED <<intake, status, parties, transitions, world, manual, signed, acked, bounds>>
        BY <1>10, <2>2 DEF ReadParties
      <3> HIDE DEF new
      <3>5. QED
        BY <1>10, <3>3, <3>4 DEF ReadParties, GoTo, Place
    <2>3. QED
      BY <2>1, <2>2
  <1>11. ASSUME NEW w \in Worker, WriteStatus(w) PROVE TypeOK'
    BY <1>11 DEF WriteStatus, GoTo, Place
  <1>12. ASSUME NEW w \in Worker, WriteLog(w) PROVE TypeOK'
    <2>1. TransitionRow(snap[w], next[w]) \in Row
      BY <1>12 DEF WriteLog, TransitionRow, Row
    <2>2. transitions' \in Seq(Row)
      BY <1>12, <2>1 DEF WriteLog
    <2>3. QED
      BY <1>12, <2>2 DEF WriteLog, Answer200, Finish, GoTo, Place, Status
  <1>13. ASSUME NEW w \in Worker, FailWebhook(w) PROVE TypeOK'
    BY <1>13, BoundsAssumption DEF FailWebhook, Finish, GoTo, Unanswered, Place, Status
  <1>14. ASSUME NEW w \in Worker, NEW m \in Mail, Receive(w, m) PROVE TypeOK'
    BY <1>14, BoundsAssumption DEF Receive, GoTo, Place
  <1>15. ASSUME NEW s \in ManualTargets, SetManually(s) PROVE TypeOK'
    <2>1. s \in Status
      BY ManualAssumption DEF Status
    <2>2. QED
      BY <1>15, <2>1 DEF SetManually, TransitionRow, Row
  <1>16. CASE LogManually
    <2>1. PICK r \in Row : manual = <<r>>
      BY <1>16 DEF LogManually
    <2>2. transitions' \in Seq(Row)
      BY <1>16, <2>1 DEF LogManually
    <2>3. QED
      BY <1>16, <2>2 DEF LogManually
  <1>17. CASE UNCHANGED vars
    BY <1>17 DEF vars
  <1>18. QED
    BY <1>1, <1>2, <1>3, <1>4, <1>5, <1>6, <1>7, <1>8, <1>9, <1>10, <1>11, <1>12,
       <1>13, <1>14, <1>15, <1>16, <1>17 DEF Next, Initiate, Step

(***************************************************************************)
(* Type correctness of every behaviour.                                    *)
(***************************************************************************)
THEOREM TypeCorrect == Spec => []TypeOK
  BY InitTypeOK, NextTypeOK, PTL DEF Spec

-----------------------------------------------------------------------------
(***************************************************************************)
(* The inductive invariant.  What a message reported has happened; a row   *)
(* says signed or acknowledged only if its role signed or acknowledged;    *)
(* and every status held anywhere, in the assignment or in a request that  *)
(* read it or is about to write it, is backed by acts.  Acts are never     *)
(* undone, so a status that was justified when it was read still is when   *)
(* it is written, however late.                                            *)
(***************************************************************************)
MailReported ==
  /\ \A m \in Mail : mail[m] # "unsent" => SignedBy(m) \subseteq signed /\ AckedBy(m) \subseteq acked
  /\ \A w \in Worker : pc[w] # "idle" => mail[req[w]] # "unsent"

RowsTruthful ==
  /\ \A r \in SignerRoles : party[r] = "signed" => r \in signed
  /\ \A r \in Role : party[r] = "acknowledged" => r \in acked

StatusesJustified ==
  /\ Far!Justified(status)
  /\ \A w \in Worker :
       /\ pc[w] \in {"readParties", "writeStatus", "writeLog"} => Far!Justified(snap[w])
       /\ pc[w] \in {"writeStatus", "writeLog"} => Far!Justified(next[w])

EvidenceInv == MailReported /\ RowsTruthful /\ StatusesJustified

(***************************************************************************)
(* The abstract specification speaks of the same roles and statuses.       *)
(***************************************************************************)
LEMMA FarVocabulary ==
  /\ Far!SignerRoles = SignerRoles /\ Far!Role = Role /\ Far!Status = Status
  /\ Far!RequiredRoles(HasSurety) = RequiredRoles(HasSurety)
  BY DEF Far!SignerRoles, SignerRoles, Far!AckRoles, AckRoles, Far!Role, Role, Far!Status, Status,
         Far!RequiredRoles, RequiredRoles

(***************************************************************************)
(* What one step may do to the acts: nothing, or add some.                 *)
(***************************************************************************)
LEMMA ActsOnlyGrow ==
  TypeOK /\ [Next]_vars => intake' = intake /\ signed \subseteq signed' /\ acked \subseteq acked'
  BY DEF TypeOK, Next, vars, outside, bounds, Initiate, Step, CheckDrafted, CreateEnvelope,
         RecordEnvelope, FailInitiate, Emit, RefuseUnknownEnvelope, UpdateParties,
         RollbackUpdate, ReadStatus, ReadParties, WriteStatus, WriteLog, FailWebhook, Receive,
         SetManually, LogManually

(***************************************************************************)
(* Adding acts never takes away a justification.                           *)
(***************************************************************************)
LEMMA JustifiedStays ==
  ASSUME intake' = intake, signed \subseteq signed', acked \subseteq acked', NEW s \in Status,
         Far!Justified(s)
  PROVE  Far!Justified(s)'
  BY DEF Far!Justified, Far!BothSigned, HasSurety

(***************************************************************************)
(* At intake nothing is claimed, so all of it is justified.                *)
(***************************************************************************)
LEMMA InitEvidence == Init => EvidenceInv
  BY MailAssumption DEF Init, EvidenceInv, MailReported, RowsTruthful, StatusesJustified,
     Far!Justified, NoRow, SignerRoles, Role, AckRoles

(***************************************************************************)
(* A message in delivery reports acts that happened when it was emitted.   *)
(***************************************************************************)
LEMMA NextMailReported == TypeOK /\ MailReported /\ [Next]_vars => MailReported'
  <1> SUFFICES ASSUME TypeOK, MailReported, [Next]_vars PROVE MailReported'
    OBVIOUS
  <1> USE DEF MailReported, TypeOK, parties, requests, world, outside, bounds
  <1>1. ASSUME NEW e \in Envelope, Initiate(e) \/ FailInitiate(e) PROVE MailReported'
    BY <1>1 DEF Initiate, CheckDrafted, CreateEnvelope, RecordEnvelope, FailInitiate,
                SignedBy, AckedBy
  <1>2. ASSUME NEW m \in Mail, Emit(m) PROVE MailReported'
    BY <1>2 DEF Emit, SignedBy, AckedBy
  <1>3. ASSUME NEW m \in Mail, RefuseUnknownEnvelope(m) PROVE MailReported'
    BY <1>3 DEF RefuseUnknownEnvelope, Unanswered, SignedBy, AckedBy
  <1>4. ASSUME NEW w \in Worker, Step(w) PROVE MailReported'
    <2>1. CASE UpdateParties(w)
      BY <2>1 DEF UpdateParties, GoTo, SignedBy, AckedBy
    <2>2. CASE RollbackUpdate(w)
      BY <2>2 DEF RollbackUpdate, Finish, GoTo, Unanswered, SignedBy, AckedBy
    <2>3. CASE ReadStatus(w)
      BY <2>3 DEF ReadStatus, GoTo, SignedBy, AckedBy
    <2>4. CASE ReadParties(w)
      BY <2>4 DEF ReadParties, GoTo, Answer200, Finish, SignedBy, AckedBy
    <2>5. CASE WriteStatus(w)
      BY <2>5 DEF WriteStatus, GoTo, SignedBy, AckedBy
    <2>6. CASE WriteLog(w)
      BY <2>6 DEF WriteLog, GoTo, Answer200, Finish, SignedBy, AckedBy
    <2>7. QED
      BY <1>4, <2>1, <2>2, <2>3, <2>4, <2>5, <2>6 DEF Step
  <1>5. ASSUME NEW w \in Worker, FailWebhook(w) PROVE MailReported'
    BY <1>5 DEF FailWebhook, Finish, GoTo, Unanswered, SignedBy, AckedBy
  <1>6. ASSUME NEW w \in Worker, NEW m \in Mail, Receive(w, m) PROVE MailReported'
    BY <1>6 DEF Receive, GoTo, SignedBy, AckedBy
  <1>7. CASE LogManually \/ \E s \in ManualTargets : SetManually(s)
    BY <1>7 DEF LogManually, SetManually, SignedBy, AckedBy
  <1>8. CASE UNCHANGED vars
    BY <1>8 DEF vars, SignedBy, AckedBy
  <1>9. QED
    BY <1>1, <1>2, <1>3, <1>4, <1>5, <1>6, <1>7, <1>8 DEF Next

(***************************************************************************)
(* With distinct addresses the rows an event updates are those of the      *)
(* parties it reports.                                                     *)
(***************************************************************************)
LEMMA AddressesDistinct ==
  ASSUME DistinctAddresses, TypeOK, NEW r \in Role, NEW s \in Role, Address(r) = Address(s)
  PROVE  r = s
  <1>1. intake \in Intakes /\ intake.email \in [IntakeRoles -> Email \cup {NoEmail}]
    BY IntakesAssumption DEF TypeOK, IntakeRequest
  <1>2. ASSUME NEW q \in IntakeRoles, intake.email[q] # NoEmail
        PROVE  intake.email[q] \in Email /\ intake.email[q] \notin Role
    BY <1>1, <1>2, EmailAssumption
  <1>3. QED
    BY <1>1, <1>2 DEF DistinctAddresses, Address

(***************************************************************************)
(* The rows UpdateParties overwrites belong to parties who did what the    *)
(* message says (a recipient's row, or the group of a message without one). *)
(***************************************************************************)
LEMMA TargetsReported ==
  ASSUME DistinctAddresses, TypeOK, NEW m \in Mail, NEW r \in Targets(m)
  PROVE  /\ m.kind = "document.signed" => r \in SignedBy(m)
         /\ m.kind = "envelope.acknowledged" => r \in AckedBy(m)
  <1>1. m.role \in Role \cup {AnyRecipient} /\ r \in Role
    BY MailAssumption DEF Message, Targets
  <1>2. CASE m.role = AnyRecipient
    BY <1>2 DEF Targets, SignedBy, AckedBy, newPartyStatus
  <1>3. CASE m.role # AnyRecipient
    <2>1. Address(r) = Address(m.role)
      BY <1>3 DEF Targets
    <2>2. r = m.role
      BY <1>1, <1>3, <2>1, AddressesDistinct
    <2>3. QED
      BY <1>3, <2>2 DEF SignedBy, AckedBy
  <1>4. QED
    BY <1>2, <1>3

(***************************************************************************)
(* A party row never claims an act that did not happen.                    *)
(***************************************************************************)
LEMMA NextRowsTruthful ==
  ASSUME DistinctAddresses, FaithfulMail
  PROVE  TypeOK /\ MailReported /\ RowsTruthful /\ [Next]_vars => RowsTruthful'
  <1> SUFFICES ASSUME TypeOK, MailReported, RowsTruthful, [Next]_vars PROVE RowsTruthful'
    OBVIOUS
  <1>1. signed \subseteq signed' /\ acked \subseteq acked'
    BY ActsOnlyGrow
  <1>2. ASSUME UNCHANGED party PROVE RowsTruthful'
    BY <1>1, <1>2 DEF RowsTruthful
  <1>3. ASSUME NEW e \in Envelope, RecordEnvelope(e) PROVE RowsTruthful'
    BY <1>1, <1>3 DEF RecordEnvelope, RowsTruthful, SignerRoles, Role, TypeOK
  <1>4. ASSUME NEW w \in Worker, UpdateParties(w) PROVE RowsTruthful'
    <2> DEFINE m == req[w]
    <2>1. m \in Mail /\ mail[m] # "unsent"
      BY <1>4 DEF UpdateParties, TypeOK, MailReported
    <2>2. m.kind \in {"document.signed", "envelope.acknowledged"}
      BY <1>4, <2>1, MailAssumption
         DEF UpdateParties, HashConstraint, HasContentHash, newDocStatus, Completion,
             FaithfulMail, Message, EventKind
    <2>3. SignedBy(m) \subseteq signed /\ AckedBy(m) \subseteq acked
      BY <2>1 DEF MailReported
    <2>4. party' = [r \in Role |-> IF r \in Targets(m) THEN newPartyStatus(m.kind) ELSE party[r]]
      BY <1>4 DEF UpdateParties
    <2>5. ASSUME NEW r \in Role, r \in Targets(m)
          PROVE  /\ party'[r] = "signed" => r \in signed
                 /\ party'[r] = "acknowledged" => r \in acked
      <3>1. party'[r] = newPartyStatus(m.kind)
        BY <2>4, <2>5
      <3>2. /\ m.kind = "document.signed" => r \in SignedBy(m)
            /\ m.kind = "envelope.acknowledged" => r \in AckedBy(m)
        BY <2>1, <2>5, TargetsReported
      <3>3. QED
        BY <2>2, <2>3, <3>1, <3>2 DEF newPartyStatus
    <2>6. ASSUME NEW r \in Role, r \notin Targets(m) PROVE party'[r] = party[r]
      BY <2>4, <2>6
    <2>7. QED
      BY <1>1, <2>5, <2>6 DEF RowsTruthful, Role
  <1>5. QED
    BY <1>2, <1>3, <1>4
       DEF Next, vars, parties, Initiate, Step, CheckDrafted, CreateEnvelope, FailInitiate, Emit,
           RefuseUnknownEnvelope, RollbackUpdate, ReadStatus, ReadParties, WriteStatus, WriteLog,
           FailWebhook, Receive, SetManually, LogManually

(***************************************************************************)
(* The status, and every status a webhook has read or is about to write,   *)
(* stays justified: the acts behind it only grow while the webhook runs.   *)
(***************************************************************************)
LEMMA NextStatusesJustified ==
  TypeOK /\ RowsTruthful /\ StatusesJustified /\ [Next]_vars => StatusesJustified'
  <1> SUFFICES ASSUME TypeOK, RowsTruthful, StatusesJustified, [Next]_vars
               PROVE  StatusesJustified'
    OBVIOUS
  <1>1. intake' = intake /\ signed \subseteq signed' /\ acked \subseteq acked'
    BY ActsOnlyGrow
  <1>2. \A s \in Status : Far!Justified(s) => Far!Justified(s)'
    BY <1>1, JustifiedStays
  <1>3. status \in Status /\ \A w \in Worker : snap[w] \in Status
    BY DEF TypeOK
  <1>4. \A w \in Worker : pc[w] \in {"writeStatus", "writeLog"} => next[w] \in Status
    BY DEF TypeOK
  <1> DEFINE Held(w) ==
        /\ pc[w] \in {"readParties", "writeStatus", "writeLog"} => Far!Justified(snap[w])
        /\ pc[w] \in {"writeStatus", "writeLog"} => Far!Justified(next[w])
  <1>5. ASSUME UNCHANGED status PROVE Far!Justified(status)'
    BY <1>1, <1>5 DEF StatusesJustified, Far!Justified, Far!BothSigned, HasSurety
  <1>6. ASSUME NEW w \in Worker, \/ UNCHANGED <<pc[w], snap[w], next[w]>>
                                \/ pc'[w] \in {"idle", "update", "readStatus"}
        PROVE  Held(w)'
    BY <1>1, <1>6 DEF StatusesJustified, Far!Justified, Far!BothSigned, HasSurety
  <1>7. ASSUME NEW w \in Worker, ReadStatus(w) PROVE Held(w)'
    BY <1>1, <1>7 DEF ReadStatus, GoTo, TypeOK, StatusesJustified, Far!Justified,
                      Far!BothSigned, HasSurety, outside
  <1>8. ASSUME NEW w \in Worker, ReadParties(w) PROVE Held(w)'
    <2> DEFINE new == evaluateTransition(snap[w], party, HasSurety)
    <2>1. CASE new = NoTransition
      <3>1. pc'[w] = "idle"
        BY <1>8, <2>1 DEF ReadParties, Answer200, Finish, GoTo, TypeOK
      <3>2. QED
        BY <3>1
    <2>2. CASE new # NoTransition
      <3>1. pc'[w] = "writeStatus" /\ next'[w] = new /\ snap'[w] = snap[w]
        BY <1>8, <2>2 DEF ReadParties, GoTo, TypeOK
      <3>2. new \in {"executed", "acknowledged", "perfected"}
        BY <1>3, <2>2, EvaluateFollowsSequence
      <3>3. HasSurety \in BOOLEAN /\ RequiredRoles(HasSurety) \subseteq Role
        BY IntakesAssumption DEF TypeOK, IntakeRequest, HasSurety, RequiredRoles, Role, AckRoles
      <3>4. Far!Justified(snap[w])
        BY <1>8 DEF ReadParties, StatusesJustified
      <3>5. /\ new = "executed" => \A r \in SignerRoles : party[r] = "signed"
            /\ new \in {"acknowledged", "perfected"} => snap[w] \in {"served", "acknowledged"}
            /\ new = "acknowledged" => \E r \in RequiredRoles(HasSurety) : party[r] = "acknowledged"
            /\ new = "perfected" => \A r \in RequiredRoles(HasSurety) : party[r] = "acknowledged"
        BY <1>3, <3>3, EvaluateGrounds
      <3> HIDE DEF new
      <3>6. Far!Justified(new)
        <4>1. Far!BothSigned
          BY <3>2, <3>4, <3>5, FarVocabulary DEF Far!Justified, Far!BothSigned, RowsTruthful
        <4>2. QED
          BY <3>2, <3>3, <3>5, <4>1, FarVocabulary DEF Far!Justified, RowsTruthful
      <3>7. new \in Status
        BY <3>2 DEF Status
      <3>8. Far!Justified(next[w])'
        BY <1>1, <3>1, <3>6 DEF Far!Justified, Far!BothSigned, HasSurety
      <3>9. Far!Justified(snap[w])'
        BY <1>1, <3>1, <3>4 DEF Far!Justified, Far!BothSigned, HasSurety
      <3>10. QED
        BY <3>8, <3>9
    <2>3. QED
      BY <2>1, <2>2
  <1>9. ASSUME NEW w \in Worker, WriteStatus(w) PROVE Far!Justified(status)' /\ Held(w)'
    <2>1. /\ status' = next[w] /\ pc'[w] = "writeLog"
          /\ snap' = snap /\ next' = next
      BY <1>9 DEF WriteStatus, GoTo, TypeOK
    <2>2. Far!Justified(next[w]) /\ Far!Justified(snap[w])
      BY <1>9 DEF WriteStatus, StatusesJustified
    <2>3. QED
      BY <1>1, <2>1, <2>2 DEF Far!Justified, Far!BothSigned, HasSurety
  <1>10. ASSUME NEW s \in ManualTargets, SetManually(s) PROVE Far!Justified(status)'
    <2>1. status' = s /\ UNCHANGED <<intake, signed, acked>>
      BY <1>10 DEF SetManually, outside
    <2>2. s = "served" => status = "executed"
      BY <1>10 DEF SetManually, LegalEdge, Status
    <2>3. QED
      BY <2>1, <2>2, ManualAssumption DEF StatusesJustified, Far!Justified, Far!BothSigned, HasSurety
  <1>11. ASSUME NEW w \in Worker, NEW v \in Worker, v # w,
                Step(w) \/ FailWebhook(w) \/ \E m \in Mail : Receive(w, m)
         PROVE  UNCHANGED <<pc[v], snap[v], next[v]>>
    BY <1>11 DEF Step, UpdateParties, RollbackUpdate, ReadStatus, ReadParties, WriteStatus,
                 WriteLog, FailWebhook, Receive, Answer200, Finish, GoTo, TypeOK
  <1>12. ASSUME NEW w \in Worker,
                UpdateParties(w) \/ RollbackUpdate(w) \/ WriteLog(w) \/ FailWebhook(w)
                  \/ \E m \in Mail : Receive(w, m)
         PROVE  UNCHANGED status /\ pc'[w] \in {"idle", "update", "readStatus"}
    BY <1>12 DEF UpdateParties, RollbackUpdate, WriteLog, FailWebhook, Receive, Answer200,
                 Finish, GoTo, TypeOK
  <1>13. ASSUME NEW w \in Worker, ReadStatus(w) \/ ReadParties(w) PROVE UNCHANGED status
    BY <1>13 DEF ReadStatus, ReadParties
  <1>14. ASSUME NEW w \in Worker, Step(w) \/ FailWebhook(w) \/ \E m \in Mail : Receive(w, m)
         PROVE  StatusesJustified'
    <2>1. Far!Justified(status)'
      BY <1>5, <1>9, <1>12, <1>13, <1>14 DEF Step
    <2>2. Held(w)'
      BY <1>6, <1>7, <1>8, <1>9, <1>12, <1>14 DEF Step
    <2>3. ASSUME NEW v \in Worker, v # w PROVE Held(v)'
      BY <1>6, <1>11, <1>14, <2>3
    <2>4. QED
      BY <2>1, <2>2, <2>3 DEF StatusesJustified
  <1>15. ASSUME UNCHANGED <<pc, snap, next>>, Far!Justified(status)' PROVE StatusesJustified'
    BY <1>6, <1>15 DEF StatusesJustified
  <1>16. ASSUME UNCHANGED <<status, pc, snap, next>> PROVE StatusesJustified'
    BY <1>5, <1>15, <1>16
  <1>17. CASE \E e \in Envelope : Initiate(e) \/ FailInitiate(e)
    BY <1>16, <1>17 DEF Initiate, CheckDrafted, CreateEnvelope, RecordEnvelope, FailInitiate, requests
  <1>18. CASE LogManually \/ UNCHANGED vars \/ \E m \in Mail : Emit(m) \/ RefuseUnknownEnvelope(m)
    BY <1>16, <1>18 DEF LogManually, vars, Emit, RefuseUnknownEnvelope, requests
  <1>19. CASE \E s \in ManualTargets : SetManually(s)
    BY <1>10, <1>15, <1>19 DEF SetManually, requests
  <1>20. QED
    BY <1>14, <1>17, <1>18, <1>19 DEF Next

-----------------------------------------------------------------------------
(***************************************************************************)
(* The evidence invariant holds in every behaviour.                        *)
(***************************************************************************)
THEOREM EvidenceInvariant ==
  ASSUME DistinctAddresses, FaithfulMail
  PROVE  Spec => []EvidenceInv
  <1>1. TypeOK /\ EvidenceInv /\ [Next]_vars => EvidenceInv'
    BY NextMailReported, NextRowsTruthful, NextStatusesJustified DEF EvidenceInv
  <1>2. QED
    BY <1>1, InitEvidence, TypeCorrect, PTL DEF Spec

(***************************************************************************)
(* No interleaving of webhooks, crash or redelivery perfects an assignment *)
(* some required addressee has not acknowledged.                           *)
(***************************************************************************)
THEOREM PerfectedIsJustified ==
  ASSUME DistinctAddresses, FaithfulMail
  PROVE  Spec => []PerfectedJustified
  <1>1. EvidenceInv => PerfectedJustified
    BY FarVocabulary DEF EvidenceInv, StatusesJustified, Far!Justified, Far!BothSigned,
                         PerfectedJustified
  <1>2. QED
    BY <1>1, EvidenceInvariant, PTL

(***************************************************************************)
(* Every step adds acts, moves the status to one the acts justify, or is   *)
(* invisible to the abstract specification.                                *)
(***************************************************************************)
LEMMA StepRefines ==
  TypeOK /\ StatusesJustified /\ [Next]_vars
    => [Far!Act \/ \E s \in Far!Status : Far!Move(s)]_(Far!farVars)
  <1> SUFFICES ASSUME TypeOK, StatusesJustified, [Next]_vars
               PROVE  \/ Far!Act
                      \/ \E s \in Far!Status : Far!Move(s)
                      \/ UNCHANGED <<intake, status, signed, acked>>
    BY DEF Far!farVars, HasSurety
  <1>1. ASSUME NEW w \in Worker, WriteStatus(w) PROVE \E s \in Far!Status : Far!Move(s)
    <2>1. Far!Justified(next[w]) /\ next[w] \in Status
      BY <1>1 DEF WriteStatus, StatusesJustified, TypeOK
    <2>2. status' = next[w] /\ UNCHANGED <<intake, signed, acked>>
      BY <1>1 DEF WriteStatus, outside
    <2>3. Far!Move(next[w])
      BY <2>1, <2>2 DEF Far!Move, HasSurety
    <2>4. QED
      BY <2>1, <2>3, FarVocabulary
  <1>2. ASSUME NEW s \in ManualTargets, SetManually(s) PROVE Far!Move(s) /\ s \in Far!Status
    <2>1. status' = s /\ UNCHANGED <<intake, signed, acked>> /\ (s = "served" => status = "executed")
      BY <1>2 DEF SetManually, outside, LegalEdge, Status
    <2>2. Far!Justified(s)
      BY <2>1, ManualAssumption DEF StatusesJustified, Far!Justified
    <2>3. s \in Status
      BY ManualAssumption DEF Status
    <2>4. QED
      BY <2>1, <2>2, <2>3, FarVocabulary DEF Far!Move, HasSurety
  <1>3. ASSUME NEW m \in Mail, Emit(m) PROVE Far!Act
    <2>1. signed' \subseteq Role /\ acked' \subseteq Role
      BY NextTypeOK DEF TypeOK
    <2>2. UNCHANGED <<intake, status>>
      BY <1>3 DEF Emit
    <2>3. signed \subseteq signed' /\ acked \subseteq acked'
      BY ActsOnlyGrow
    <2>4. QED
      BY <2>1, <2>2, <2>3, FarVocabulary DEF Far!Act, HasSurety
  <1>4. CASE UNCHANGED vars
    BY <1>4 DEF vars, outside
  <1>5. QED
    BY <1>1, <1>2, <1>3, <1>4
       DEF Next, outside, Initiate, Step, CheckDrafted, CreateEnvelope, RecordEnvelope,
           FailInitiate, RefuseUnknownEnvelope, UpdateParties, RollbackUpdate, ReadStatus,
           ReadParties, WriteLog, FailWebhook, Receive, LogManually

(***************************************************************************)
(* The initial states map to initial states.                               *)
(***************************************************************************)
LEMMA InitRefines == Init => Far!Init
  BY IntakesAssumption DEF Init, Far!Init, HasSurety, IntakeRequest

(***************************************************************************)
(* The lifecycle implements the abstract specification: no status is ever  *)
(* entered without the acts it stands for.                                 *)
(***************************************************************************)
THEOREM LifecycleHasEvidence ==
  ASSUME DistinctAddresses, FaithfulMail
  PROVE  Spec => StatusHasEvidence
  <1>1. EvidenceInv => StatusesJustified
    BY DEF EvidenceInv
  <1>2. QED
    BY <1>1, InitRefines, StepRefines, EvidenceInvariant, TypeCorrect, PTL
       DEF Spec, StatusHasEvidence, Far!EvidenceSpec

-----------------------------------------------------------------------------
(***************************************************************************)
(* A row into status s: in the log, or with the process about to insert it.*)
(***************************************************************************)
InLog(s)      == \E i \in DOMAIN transitions : transitions[i].new_state = s
InWebhook(s)  == \E w \in Worker : pc[w] = "writeLog" /\ next[w] = s
InOperator(s) == manual # <<>> /\ manual[1].new_state = s
HasRow(s)     == InLog(s) \/ InWebhook(s) \/ InOperator(s)

LoggedInv == failures = 0 /\ status # "drafted" => HasRow(status)

(***************************************************************************)
(* HasRow is what StatusIsLogged speaks of.                                *)
(***************************************************************************)
LEMMA HasRowMeaning ==
  ASSUME TypeOK, NEW s, HasRow(s)
  PROVE  \E r \in Logged \cup InFlight : r.new_state = s
  <1>1. CASE InLog(s)
    BY <1>1 DEF InLog, Logged
  <1>2. CASE InWebhook(s)
    <2>1. PICK w \in Worker : pc[w] = "writeLog" /\ next[w] = s
      BY <1>2 DEF InWebhook
    <2>2. TransitionRow(snap[w], next[w]) \in InFlight
      BY <2>1 DEF InFlight
    <2>3. TransitionRow(snap[w], next[w]).new_state = s
      BY <2>1 DEF TransitionRow
    <2>4. QED
      BY <2>2, <2>3
  <1>3. CASE InOperator(s)
    <2>1. PICK row \in Row : manual = <<row>>
      BY <1>3 DEF InOperator, TypeOK
    <2>2. 1 \in DOMAIN manual
      BY <2>1
    <2>3. QED
      BY <1>3, <2>2 DEF InOperator, InFlight
  <1>4. QED
    BY <1>1, <1>2, <1>3 DEF HasRow

(***************************************************************************)
(* Appending a row keeps the others and adds it.                           *)
(***************************************************************************)
LEMMA AppendedRow ==
  ASSUME TypeOK, NEW row \in Row, transitions' = Append(transitions, row), NEW s
  PROVE  InLog(s) \/ row.new_state = s => InLog(s)'
  <1>1. /\ DOMAIN transitions = 1..Len(transitions)
        /\ DOMAIN transitions' = 1..(Len(transitions) + 1) /\ Len(transitions) \in Nat
        /\ \A i \in 1..Len(transitions) : transitions'[i] = transitions[i]
        /\ transitions'[Len(transitions) + 1] = row
    BY DEF TypeOK
  <1>2. 1..Len(transitions) \subseteq 1..(Len(transitions) + 1)
    BY <1>1
  <1>3. Len(transitions) + 1 \in 1..(Len(transitions) + 1)
    BY <1>1
  <1>4. InLog(s) => InLog(s)'
    BY <1>1, <1>2 DEF InLog
  <1>5. row.new_state = s => InLog(s)'
    BY <1>1, <1>3 DEF InLog
  <1>6. QED
    BY <1>4, <1>5

(***************************************************************************)
(* Failures are never forgotten.                                           *)
(***************************************************************************)
LEMMA FailuresOnlyGrow ==
  ASSUME TypeOK, [Next]_vars, failures' = 0
  PROVE  failures = 0
  <1>1. failures' = failures \/ failures' = failures + 1
    BY DEF Next, vars, bounds, Initiate, Step, CheckDrafted, CreateEnvelope, RecordEnvelope,
       FailInitiate, Emit, RefuseUnknownEnvelope, UpdateParties, RollbackUpdate, ReadStatus,
       ReadParties, WriteStatus, WriteLog, FailWebhook, Receive, SetManually, LogManually
  <1>2. failures \in Nat
    BY BoundsAssumption DEF TypeOK
  <1>3. QED
    BY <1>1, <1>2

(***************************************************************************)
(* As long as nothing fails, a row is never lost between the process that  *)
(* owes it and the log.                                                    *)
(***************************************************************************)
LEMMA RowsStay ==
  ASSUME TypeOK, [Next]_vars, failures' = 0, NEW s, HasRow(s)
  PROVE  HasRow(s)'
  <1> USE DEF HasRow
  <1>1. failures = 0
    BY FailuresOnlyGrow
  <1>2. ASSUME NEW w \in Worker, WriteLog(w) PROVE HasRow(s)'
    <2> DEFINE row == TransitionRow(snap[w], next[w])
    <2>1. /\ transitions' = Append(transitions, row) /\ pc[w] = "writeLog" /\ manual' = manual
          /\ \A v \in Worker \ {w} : pc'[v] = pc[v] /\ next'[v] = next[v]
      BY <1>2 DEF WriteLog, Answer200, Finish, GoTo, TypeOK
    <2>2. row \in Row /\ row.new_state = next[w]
      BY <2>1 DEF TransitionRow, Row, TypeOK
    <2> HIDE DEF row
    <2>3. CASE InLog(s) \/ next[w] = s
      BY <2>1, <2>2, <2>3, AppendedRow
    <2>4. CASE InWebhook(s) /\ next[w] # s
      BY <2>1, <2>4 DEF InWebhook
    <2>5. CASE InOperator(s)
      BY <2>1, <2>5 DEF InOperator
    <2>6. QED
      BY <2>3, <2>4, <2>5
  <1>3. ASSUME LogManually PROVE HasRow(s)'
    <2>1. PICK row \in Row : manual = <<row>>
      BY <1>3 DEF LogManually, TypeOK
    <2>2. transitions' = Append(transitions, row) /\ UNCHANGED <<pc, next>>
      BY <1>3, <2>1 DEF LogManually, requests, TypeOK
    <2>3. QED
      BY <2>1, <2>2, AppendedRow DEF InWebhook, InOperator
  <1>4. ASSUME NEW r \in ManualTargets, SetManually(r) PROVE HasRow(s)'
    BY <1>4 DEF SetManually, requests, InLog, InWebhook, InOperator
  <1>5. ASSUME UNCHANGED <<transitions, manual>>,
               \A w \in Worker : pc[w] = "writeLog" => pc'[w] = "writeLog" /\ next'[w] = next[w]
        PROVE  HasRow(s)'
    BY <1>5 DEF InLog, InWebhook, InOperator
  <1>6. ASSUME NEW w \in Worker,
               \/ UpdateParties(w) \/ RollbackUpdate(w) \/ ReadStatus(w) \/ ReadParties(w)
               \/ WriteStatus(w) \/ \E m \in Mail : Receive(w, m)
        PROVE  HasRow(s)'
    <2>1. UNCHANGED <<transitions, manual>>
      BY <1>6 DEF UpdateParties, RollbackUpdate, ReadStatus, ReadParties, WriteStatus, Receive
    <2>2. pc[w] # "writeLog" /\ \A v \in Worker \ {w} : pc'[v] = pc[v] /\ next'[v] = next[v]
      BY <1>6 DEF UpdateParties, RollbackUpdate, ReadStatus, ReadParties, WriteStatus, Receive,
                  Answer200, Finish, GoTo, TypeOK
    <2>3. QED
      BY <1>5, <2>1, <2>2
  <1>7. ASSUME NEW w \in Worker, FailWebhook(w) PROVE FALSE
    BY <1>1, <1>7 DEF FailWebhook
  <1>8. CASE \/ \E e \in Envelope : Initiate(e) \/ FailInitiate(e)
             \/ \E m \in Mail : Emit(m) \/ RefuseUnknownEnvelope(m)
             \/ UNCHANGED vars
    BY <1>5, <1>8 DEF Initiate, CheckDrafted, CreateEnvelope, RecordEnvelope, FailInitiate, Emit,
                      RefuseUnknownEnvelope, vars, requests
  <1>9. QED
    BY <1>2, <1>3, <1>4, <1>6, <1>7, <1>8 DEF Next, Step

(***************************************************************************)
(* The present status has a row: a step that changes it brings its own.    *)
(***************************************************************************)
LEMMA NextLoggedInv == TypeOK /\ LoggedInv /\ [Next]_vars => LoggedInv'
  <1> SUFFICES ASSUME TypeOK, LoggedInv, [Next]_vars, failures' = 0, status' # "drafted"
               PROVE  InLog(status)' \/ InWebhook(status)' \/ InOperator(status)'
    BY DEF LoggedInv, HasRow
  <1>1. CASE UNCHANGED status
    <2>1. HasRow(status)
      BY <1>1, FailuresOnlyGrow DEF LoggedInv
    <2>2. \A s : HasRow(s) => HasRow(s)'
      BY RowsStay
    <2>3. QED
      BY <1>1, <2>1, <2>2 DEF HasRow, InLog, InWebhook, InOperator
  <1>2. ASSUME NEW w \in Worker, WriteStatus(w) PROVE InWebhook(status)'
    BY <1>2 DEF WriteStatus, GoTo, InWebhook, TypeOK
  <1>3. ASSUME NEW s \in ManualTargets, SetManually(s) PROVE InOperator(status)'
    BY <1>3 DEF SetManually, TransitionRow, InOperator
  <1>4. QED
    BY <1>1, <1>2, <1>3
       DEF Next, vars, Initiate, Step, CheckDrafted, CreateEnvelope, RecordEnvelope, FailInitiate,
           Emit, RefuseUnknownEnvelope, UpdateParties, RollbackUpdate, ReadStatus, ReadParties,
           WriteLog, FailWebhook, Receive, LogManually

(***************************************************************************)
(* As long as nothing failed, the present status has its row in the log or *)
(* with the process about to insert it, whatever the interleaving.         *)
(***************************************************************************)
THEOREM StatusHasRow == Spec => [](LoggedInv /\ StatusIsLogged)
  <1>1. Init => LoggedInv
    BY DEF Init, LoggedInv
  <1>2. TypeOK /\ LoggedInv => StatusIsLogged
    BY HasRowMeaning DEF LoggedInv, StatusIsLogged
  <1>3. QED
    BY <1>1, <1>2, NextLoggedInv, TypeCorrect, PTL DEF Spec

-----------------------------------------------------------------------------
(***************************************************************************)
(* What the theorems about the legal sequence and the log assume of the    *)
(* environment: webhooks are handled one at a time, and the operator only  *)
(* serves.  The status is written without looking at the one it replaces,  *)
(* so with a second webhook, or a termination by hand between the read and *)
(* the write, neither theorem holds.                                       *)
(***************************************************************************)
OneAtATime         == \A v, w \in Worker : v = w
OperatorOnlyServes == ManualTargets \subseteq {"served"}

(***************************************************************************)
(* The inductive invariant of a lone webhook.  The status it read is the   *)
(* present one, unless it read "executed" and the operator has served the  *)
(* assignment since; but from "executed" a webhook goes nowhere, so the    *)
(* one it writes over is the one it read.                                  *)
(***************************************************************************)
ByWebhook == {"executed", "acknowledged", "perfected"}

SerialInv ==
  /\ status \notin {"terminated", "rejected"}
  /\ \A w \in Worker : pc[w] = "readParties" => snap[w] \in {status, "executed"}
  /\ \A w \in Worker : pc[w] = "writeStatus" => snap[w] = status /\ <<status, next[w]>> \in LegalEdge
  /\ \A w \in Worker : pc[w] \in {"writeStatus", "writeLog"} => next[w] \in ByWebhook
  /\ manual # <<>> => manual[1].new_state = "served"

(***************************************************************************)
(* From a status in which a webhook can decide, it proposes an edge; from  *)
(* "executed" none.                                                        *)
(***************************************************************************)
LEMMA WebhookEdges ==
  ASSUME NEW s, NEW t \in ByWebhook, <<s, t>> \in LegalEdge
  PROVE  s \in {"drafted", "served", "acknowledged"}
  BY DEF ByWebhook, LegalEdge, Status

(***************************************************************************)
(* Every step keeps the invariant of a lone webhook.                       *)
(***************************************************************************)
LEMMA NextSerialInv ==
  ASSUME OneAtATime, OperatorOnlyServes
  PROVE  TypeOK /\ SerialInv /\ [Next]_vars => SerialInv'
  <1> SUFFICES ASSUME TypeOK, SerialInv, [Next]_vars PROVE SerialInv'
    OBVIOUS
  <1>1. ASSUME UNCHANGED <<status, pc, snap, next, manual>> PROVE SerialInv'
    BY <1>1 DEF SerialInv
  <1>2. ASSUME NEW w \in Worker,
               \/ UpdateParties(w) \/ RollbackUpdate(w) \/ WriteLog(w) \/ FailWebhook(w)
               \/ \E m \in Mail : Receive(w, m)
        PROVE  SerialInv'
    <2>1. UNCHANGED <<status, manual>> /\ pc'[w] \in {"idle", "update", "readStatus"}
      BY <1>2 DEF UpdateParties, RollbackUpdate, WriteLog, FailWebhook, Receive, Answer200,
                  Finish, GoTo, TypeOK
    <2>2. QED
      BY <2>1 DEF SerialInv, OneAtATime
  <1>3. ASSUME NEW w \in Worker, ReadStatus(w) PROVE SerialInv'
    <2>1. UNCHANGED <<status, manual>> /\ pc'[w] = "readParties" /\ snap'[w] = status
      BY <1>3 DEF ReadStatus, GoTo, TypeOK
    <2>2. QED
      BY <2>1 DEF SerialInv, OneAtATime
  <1>4. ASSUME NEW w \in Worker, ReadParties(w) PROVE SerialInv'
    <2> DEFINE new == evaluateTransition(snap[w], party, HasSurety)
    <2>1. UNCHANGED <<status, manual>> /\ snap[w] \in Status /\ snap[w] \in {status, "executed"}
      BY <1>4 DEF ReadParties, TypeOK, SerialInv
    <2>2. CASE new = NoTransition
      <3>1. pc'[w] = "idle"
        BY <1>4, <2>2 DEF ReadParties, Answer200, Finish, GoTo, TypeOK
      <3>2. QED
        BY <2>1, <3>1 DEF SerialInv, OneAtATime
    <2>3. CASE new # NoTransition
      <3>1. pc'[w] = "writeStatus" /\ next'[w] = new /\ snap'[w] = snap[w]
        BY <1>4, <2>3 DEF ReadParties, GoTo, TypeOK
      <3>2. <<snap[w], new>> \in LegalEdge /\ new \in ByWebhook
        BY <2>1, <2>3, EvaluateFollowsSequence DEF ByWebhook
      <3> HIDE DEF new
      <3>3. snap[w] = status
        BY <2>1, <3>2, WebhookEdges
      <3>4. QED
        BY <2>1, <3>1, <3>2, <3>3 DEF SerialInv, OneAtATime
    <2>4. QED
      BY <2>2, <2>3
  <1>5. ASSUME NEW w \in Worker, WriteStatus(w) PROVE SerialInv'
    <2>1. UNCHANGED <<next, manual>> /\ pc'[w] = "writeLog" /\ status' = next[w]
      BY <1>5 DEF WriteStatus, GoTo, TypeOK
    <2>2. next[w] \in ByWebhook
      BY <1>5 DEF WriteStatus, SerialInv
    <2>3. QED
      BY <2>1, <2>2 DEF SerialInv, OneAtATime, ByWebhook
  <1>6. ASSUME NEW s \in ManualTargets, SetManually(s) PROVE SerialInv'
    <2>1. s = "served"
      BY DEF OperatorOnlyServes
    <2>2. status = "executed" /\ status' = s /\ UNCHANGED <<pc, snap, next>>
            /\ manual' = <<TransitionRow("executed", "served")>>
      BY <1>6, <2>1 DEF SetManually, LegalEdge, Status, requests
    <2>3. \A w \in Worker : pc[w] # "writeStatus"
      BY <2>2, WebhookEdges DEF SerialInv
    <2>4. QED
      BY <2>1, <2>2, <2>3 DEF SerialInv, TransitionRow
  <1>7. CASE LogManually
    BY <1>7 DEF LogManually, requests, SerialInv
  <1>8. CASE \/ \E e \in Envelope : Initiate(e) \/ FailInitiate(e)
             \/ \E m \in Mail : Emit(m) \/ RefuseUnknownEnvelope(m)
             \/ UNCHANGED vars
    BY <1>1, <1>8 DEF Initiate, CheckDrafted, CreateEnvelope, RecordEnvelope, FailInitiate, Emit,
                      RefuseUnknownEnvelope, vars, requests
  <1>9. QED
    BY <1>2, <1>3, <1>4, <1>5, <1>6, <1>7, <1>8 DEF Next, Step

(***************************************************************************)
(* A lone webhook and an operator who serves, in every behaviour.          *)
(***************************************************************************)
LEMMA SerialInvariant ==
  ASSUME OneAtATime, OperatorOnlyServes
  PROVE  Spec => [](TypeOK /\ SerialInv)
  <1>1. Init => SerialInv
    BY DEF Init, SerialInv
  <1>2. QED
    BY <1>1, NextSerialInv, TypeCorrect, PTL DEF Spec

(***************************************************************************)
(* Then the status moves only along edges.                                 *)
(***************************************************************************)
LEMMA EdgesOnly ==
  ASSUME SerialInv, [Next]_vars
  PROVE  status' = status \/ <<status, status'>> \in LegalEdge
  BY DEF SerialInv, Next, vars, Initiate, Step, CheckDrafted, CreateEnvelope, RecordEnvelope,
     FailInitiate, Emit, RefuseUnknownEnvelope, UpdateParties, RollbackUpdate, ReadStatus,
     ReadParties, WriteStatus, WriteLog, FailWebhook, Receive, SetManually, LogManually

(***************************************************************************)
(* One webhook at a time, and the operator serving, the lifecycle also     *)
(* implements the stronger abstract specification: the status follows the  *)
(* legal sequence, each edge backed by the acts it stands for, through any *)
(* crashes, retries and redeliveries.                                      *)
(***************************************************************************)
THEOREM LifecycleFollowsSequence ==
  ASSUME DistinctAddresses, FaithfulMail, OneAtATime, OperatorOnlyServes
  PROVE  Spec => FollowsLegalSequence
  <1>1. TypeOK /\ SerialInv /\ EvidenceInv /\ [Next]_vars
          => [Far!Act \/ \E s \in Far!Status : Far!LegalMove(s)]_(Far!farVars)
    <2> SUFFICES ASSUME TypeOK, SerialInv, StatusesJustified, [Next]_vars
                 PROVE  [Far!Act \/ \E s \in Far!Status : Far!LegalMove(s)]_(Far!farVars)
      BY DEF EvidenceInv
    <2>1. Far!LegalEdge = LegalEdge
      BY FarVocabulary DEF Far!LegalEdge, LegalEdge
    <2>2. ASSUME NEW s \in Far!Status, Far!Move(s)
          PROVE  Far!LegalMove(s) \/ UNCHANGED Far!farVars
      BY <2>1, <2>2, EdgesOnly DEF Far!Move, Far!LegalMove, Far!farVars
    <2>3. QED
      BY <2>2, StepRefines
  <1>2. QED
    BY <1>1, InitRefines, EvidenceInvariant, SerialInvariant, PTL
       DEF Spec, FollowsLegalSequence, Far!LegalSpec

-----------------------------------------------------------------------------
(***************************************************************************)
(* The statuses an assignment that is now in s may have entered.  A legal  *)
(* move enters one that is not among them, so none is entered twice.       *)
(***************************************************************************)
Entered(s) ==
  CASE s = "executed"     -> {"executed"}
    [] s = "served"       -> {"executed", "served"}
    [] s = "acknowledged" -> {"executed", "served", "acknowledged"}
    [] s = "perfected"    -> {"executed", "served", "acknowledged", "perfected"}
    [] OTHER              -> {}

(***************************************************************************)
(* The inductive form of LogIsSound and LogIsHistory: rows lead only into  *)
(* statuses entered so far, and only a failure may have lost one.          *)
(***************************************************************************)
SoundInv ==
  /\ LogIsSound
  /\ \A r \in Rows : r.new_state \in Entered(status)

NoGap ==
  {r.previous_state : r \in Rows} = ({"drafted"} \cup {r.new_state : r \in Rows}) \ {status}

HistoryInv == SoundInv /\ (failures = 0 => NoGap)

(***************************************************************************)
(* Rows are rows of the table's type.                                      *)
(***************************************************************************)
LEMMA RowsTyped == TypeOK => Rows \subseteq Row
  <1> SUFFICES ASSUME TypeOK PROVE Rows \subseteq Row
    OBVIOUS
  <1>1. Logged \subseteq Row
    BY DEF TypeOK, Logged
  <1>2. ASSUME NEW w \in Worker, pc[w] = "writeLog" PROVE TransitionRow(snap[w], next[w]) \in Row
    BY <1>2 DEF TypeOK, TransitionRow, Row
  <1>3. \A i \in DOMAIN manual : manual[i] \in Row
    BY DEF TypeOK
  <1>4. QED
    BY <1>1, <1>2, <1>3 DEF Rows, InFlight

(***************************************************************************)
(* A change of status puts its row in flight; its target is new.           *)
(***************************************************************************)
LEMMA RowOwed ==
  ASSUME TypeOK, LoggedInv, HistoryInv, UNCHANGED <<transitions, failures>>,
         NEW s \in Status \ {"terminated", "rejected"}, <<status, s>> \in LegalEdge, status' = s,
         InFlight' = InFlight \cup {TransitionRow(status, s)}
  PROVE  HistoryInv'
  <1> DEFINE row == TransitionRow(status, s)
  <1>1. row.new_state = s /\ row.previous_state = status
    BY DEF TransitionRow
  <1>2. Logged' = Logged /\ Rows' = Rows \cup {row}
    BY DEF Logged, Rows
  <1>3. /\ s \notin Entered(status) /\ s # "drafted" /\ s # status
        /\ Entered(status) \subseteq Entered(s) /\ s \in Entered(s)
    BY DEF Entered, LegalEdge, Status
  <1>4. \A r \in Rows : r.new_state \in Entered(status)
    BY DEF HistoryInv, SoundInv
  <1>5. /\ \A i, j \in DOMAIN transitions : transitions[i] = transitions[j] => i = j
        /\ Logged \cap InFlight = {}
        /\ \A r, t \in Rows : r.new_state = t.new_state => r = t
        /\ \A r \in Rows : <<r.previous_state, r.new_state>> \in LegalEdge
    BY DEF HistoryInv, SoundInv, LogIsSound
  <1> HIDE DEF row
  <1>6. row \notin Rows
    BY <1>1, <1>3, <1>4
  <1>7. Logged' \cap InFlight' = {}
    BY <1>2, <1>5, <1>6 DEF Rows, row
  <1>8. \A r, t \in Rows' : r.new_state = t.new_state => r = t
    BY <1>1, <1>2, <1>3, <1>4, <1>5
  <1>9. \A r \in Rows' : <<r.previous_state, r.new_state>> \in LegalEdge
    BY <1>1, <1>2, <1>5
  <1>10. \A r \in Rows' : r.new_state \in Entered(s)
    BY <1>1, <1>2, <1>3, <1>4
  <1>11. SoundInv'
    BY <1>5, <1>7, <1>8, <1>9, <1>10 DEF SoundInv, LogIsSound
  <1>12. ASSUME failures = 0
         PROVE  {r.previous_state : r \in Rows'} = ({"drafted"} \cup {r.new_state : r \in Rows'}) \ {s}
    <2>1. {r.previous_state : r \in Rows'} = {r.previous_state : r \in Rows} \cup {status}
      BY <1>1, <1>2
    <2>2. {r.new_state : r \in Rows'} = {r.new_state : r \in Rows} \cup {s}
      BY <1>1, <1>2
    <2>3. s \notin {"drafted"} \cup {r.new_state : r \in Rows}
      BY <1>3, <1>4
    <2>4. status \in {"drafted"} \cup {r.new_state : r \in Rows}
      BY <1>12, HasRowMeaning DEF LoggedInv, Rows
    <2>5. {r.previous_state : r \in Rows} = ({"drafted"} \cup {r.new_state : r \in Rows}) \ {status}
      BY <1>12 DEF HistoryInv, NoGap
    <2>6. QED
      BY <2>1, <2>2, <2>3, <2>4, <2>5
  <1>13. QED
    BY <1>11, <1>12 DEF HistoryInv, NoGap

(***************************************************************************)
(* Inserting the row moves it from those in flight to those in the log.    *)
(***************************************************************************)
LEMMA RowInserted ==
  ASSUME TypeOK, HistoryInv, UNCHANGED <<status, failures>>, NEW row \in InFlight,
         transitions' = Append(transitions, row), InFlight' = InFlight \ {row}
  PROVE  HistoryInv'
  <1>1. /\ DOMAIN transitions = 1..Len(transitions) /\ Len(transitions) \in Nat
        /\ DOMAIN transitions' = 1..(Len(transitions) + 1)
        /\ \A i \in 1..Len(transitions) : transitions'[i] = transitions[i]
        /\ transitions'[Len(transitions) + 1] = row
    BY RowsTyped DEF TypeOK, Rows
  <1>2. Logged' = Logged \cup {row}
    <2>1. ASSUME NEW i \in DOMAIN transitions' PROVE transitions'[i] \in Logged \cup {row}
      BY <1>1, <2>1 DEF Logged
    <2>2. ASSUME NEW i \in DOMAIN transitions
          PROVE  i \in DOMAIN transitions' /\ transitions'[i] = transitions[i]
      BY <1>1, <2>2
    <2>3. Len(transitions) + 1 \in DOMAIN transitions'
      BY <1>1
    <2>4. QED
      BY <1>1, <2>1, <2>2, <2>3 DEF Logged
  <1>3. Rows' = Rows
    BY <1>2 DEF Rows
  <1>4. row \notin Logged /\ Logged \cap InFlight = {}
    BY DEF HistoryInv, SoundInv, LogIsSound
  <1>5. \A i, j \in DOMAIN transitions' : transitions'[i] = transitions'[j] => i = j
    <2>1. \A i \in 1..Len(transitions) : transitions[i] # row
      BY <1>1, <1>4 DEF Logged
    <2>2. \A i, j \in 1..Len(transitions) : transitions[i] = transitions[j] => i = j
      BY <1>1 DEF HistoryInv, SoundInv, LogIsSound
    <2>3. QED
      BY <1>1, <2>1, <2>2
  <1>6. Logged' \cap InFlight' = {}
    BY <1>2, <1>4
  <1>7. QED
    BY <1>3, <1>5, <1>6 DEF HistoryInv, SoundInv, LogIsSound, NoGap

(***************************************************************************)
(* A lone webhook's row and the operator's are never the same one.         *)
(***************************************************************************)
LEMMA RowsInFlight ==
  ASSUME OneAtATime, TypeOK, SerialInv, NEW w \in Worker, pc[w] = "writeLog"
  PROVE  /\ InFlight = {TransitionRow(snap[w], next[w])} \cup {manual[i] : i \in DOMAIN manual}
         /\ TransitionRow(snap[w], next[w]) \notin {manual[i] : i \in DOMAIN manual}
  <1>1. {v \in Worker : pc[v] = "writeLog"} = {w}
    BY DEF OneAtATime
  <1>2. TransitionRow(snap[w], next[w]).new_state # "served"
    BY DEF TransitionRow, SerialInv, ByWebhook
  <1>3. \A i \in DOMAIN manual : manual[i].new_state = "served"
    <2>1. CASE manual = <<>>
      BY <2>1
    <2>2. CASE manual # <<>>
      <3>1. PICK r \in Row : manual = <<r>>
        BY <2>2 DEF TypeOK
      <3>2. QED
        BY <2>2, <3>1 DEF SerialInv
    <2>3. QED
      BY <2>1, <2>2
  <1>4. QED
    BY <1>1, <1>2, <1>3 DEF InFlight

(***************************************************************************)
(* A step that starts or ends no insertion leaves the rows alone.          *)
(***************************************************************************)
LEMMA RowsUntouched ==
  ASSUME HistoryInv, UNCHANGED <<status, transitions, manual>>, failures' = 0 => failures = 0,
         \A w \in Worker : pc'[w] = "writeLog" <=> pc[w] = "writeLog",
         \A w \in Worker : pc[w] = "writeLog" => UNCHANGED <<snap[w], next[w]>>
  PROVE  HistoryInv'
  <1>1. Logged' = Logged /\ InFlight' = InFlight
    BY DEF Logged, InFlight, TransitionRow
  <1>2. Rows' = Rows
    BY <1>1 DEF Rows
  <1>3. QED
    BY <1>1, <1>2 DEF HistoryInv, SoundInv, LogIsSound, NoGap

(***************************************************************************)
(* A webhook that fails may take the row it owed with it, never another.   *)
(***************************************************************************)
LEMMA RowLost ==
  ASSUME HistoryInv, UNCHANGED <<status, transitions>>, failures' # 0,
         InFlight' \subseteq InFlight
  PROVE  HistoryInv'
  <1>1. Logged' = Logged /\ Rows' \subseteq Rows
    BY DEF Logged, Rows
  <1>2. QED
    BY <1>1 DEF HistoryInv, SoundInv, LogIsSound

(***************************************************************************)
(* Every step keeps the invariant: two steps owe a row, two insert one,    *)
(* and a failure may lose one.                                             *)
(***************************************************************************)
LEMMA NextHistoryInv ==
  ASSUME OneAtATime, OperatorOnlyServes
  PROVE  TypeOK /\ SerialInv /\ LoggedInv /\ HistoryInv /\ [Next]_vars => HistoryInv'
  <1> SUFFICES ASSUME TypeOK, SerialInv, LoggedInv, HistoryInv, [Next]_vars PROVE HistoryInv'
    OBVIOUS
  <1>1. failures' = 0 => failures = 0
    BY FailuresOnlyGrow
  <1>2. ASSUME NEW w \in Worker, WriteStatus(w) PROVE HistoryInv'
    <2>1. /\ pc[w] = "writeStatus" /\ pc' = [pc EXCEPT ![w] = "writeLog"] /\ status' = next[w]
          /\ UNCHANGED <<transitions, snap, next, manual, failures>>
      BY <1>2 DEF WriteStatus, GoTo, bounds
    <2>2. /\ snap[w] = status /\ <<status, next[w]>> \in LegalEdge
          /\ next[w] \in Status \ {"terminated", "rejected"}
      BY <2>1 DEF SerialInv, ByWebhook, Status
    <2>3. {v \in Worker : pc'[v] = "writeLog"} = {v \in Worker : pc[v] = "writeLog"} \cup {w}
      BY <2>1 DEF TypeOK
    <2>4. InFlight' = InFlight \cup {TransitionRow(status, next[w])}
      BY <2>1, <2>2, <2>3 DEF InFlight, TransitionRow
    <2>5. QED
      BY <2>1, <2>2, <2>4, RowOwed
  <1>3. ASSUME NEW s \in ManualTargets, SetManually(s) PROVE HistoryInv'
    <2>1. /\ manual = <<>> /\ manual' = <<TransitionRow(status, s)>> /\ status' = s
          /\ <<status, s>> \in LegalEdge /\ UNCHANGED <<transitions, pc, snap, next, failures>>
      BY <1>3 DEF SetManually, requests, bounds
    <2>2. s \in Status \ {"terminated", "rejected"}
      BY DEF OperatorOnlyServes, Status
    <2>3. /\ {manual[i] : i \in DOMAIN manual} = {}
          /\ {manual'[i] : i \in DOMAIN manual'} = {TransitionRow(status, s)}
      BY <2>1
    <2>4. InFlight' = InFlight \cup {TransitionRow(status, s)}
      BY <2>1, <2>3 DEF InFlight, TransitionRow
    <2>5. QED
      BY <2>1, <2>2, <2>4, RowOwed
  <1>4. ASSUME NEW w \in Worker, WriteLog(w) PROVE HistoryInv'
    <2> DEFINE row == TransitionRow(snap[w], next[w])
    <2>1. /\ pc[w] = "writeLog" /\ transitions' = Append(transitions, row)
          /\ \A v \in Worker : pc'[v] # "writeLog"
          /\ UNCHANGED <<status, manual, failures>>
      BY <1>4 DEF WriteLog, Answer200, Finish, GoTo, TypeOK, OneAtATime, bounds
    <2>2. InFlight' = {manual[i] : i \in DOMAIN manual}
      BY <2>1 DEF InFlight
    <2>3. row \in InFlight /\ InFlight' = InFlight \ {row}
      BY <2>1, <2>2, RowsInFlight
    <2> HIDE DEF row
    <2>4. QED
      BY <2>1, <2>3, RowInserted
  <1>5. CASE LogManually
    <2>1. PICK row \in Row : manual = <<row>>
      BY <1>5 DEF LogManually, TypeOK
    <2>2. /\ transitions' = Append(transitions, row) /\ manual' = <<>>
          /\ UNCHANGED <<status, pc, snap, next, failures>>
      BY <1>5, <2>1 DEF LogManually, requests, TypeOK, bounds
    <2>3. {manual[i] : i \in DOMAIN manual} = {row} /\ {manual'[i] : i \in DOMAIN manual'} = {}
      BY <2>1, <2>2
    <2>4. row \in InFlight /\ InFlight' = InFlight \ {row}
      <3>1. CASE \E w \in Worker : pc[w] = "writeLog"
        <4>1. PICK w \in Worker : pc[w] = "writeLog"
          BY <3>1
        <4>2. InFlight' = {TransitionRow(snap[w], next[w])}
          BY <2>2, <2>3, <4>1 DEF InFlight, TransitionRow, OneAtATime
        <4>3. QED
          BY <2>3, <4>1, <4>2, RowsInFlight
      <3>2. CASE ~\E w \in Worker : pc[w] = "writeLog"
        BY <2>2, <2>3, <3>2 DEF InFlight
      <3>3. QED
        BY <3>1, <3>2
    <2>5. QED
      BY <2>2, <2>4, RowInserted
  <1>6. ASSUME NEW w \in Worker,
               \/ UpdateParties(w) \/ RollbackUpdate(w) \/ ReadStatus(w) \/ ReadParties(w)
               \/ \E m \in Mail : Receive(w, m)
        PROVE  HistoryInv'
    <2>1. UNCHANGED <<status, transitions, manual>>
      BY <1>6 DEF UpdateParties, RollbackUpdate, ReadStatus, ReadParties, Receive
    <2>2. /\ pc[w] # "writeLog" /\ pc'[w] # "writeLog"
          /\ \A v \in Worker \ {w} : UNCHANGED <<pc[v], snap[v], next[v]>>
      BY <1>6 DEF UpdateParties, RollbackUpdate, ReadStatus, ReadParties, Receive, Answer200,
                  Finish, GoTo, TypeOK
    <2>3. QED
      BY <1>1, <2>1, <2>2, RowsUntouched
  <1>7. ASSUME NEW w \in Worker, FailWebhook(w) PROVE HistoryInv'
    <2>1. /\ UNCHANGED <<status, transitions, manual>> /\ failures' # 0
          /\ \A v \in Worker : pc'[v] # "writeLog"
      BY <1>7 DEF FailWebhook, Finish, GoTo, TypeOK, OneAtATime
    <2>2. InFlight' = {manual[i] : i \in DOMAIN manual}
      BY <2>1 DEF InFlight
    <2>3. QED
      BY <2>1, <2>2, RowLost DEF InFlight
  <1>8. CASE \/ \E e \in Envelope : Initiate(e) \/ FailInitiate(e)
             \/ \E m \in Mail : Emit(m) \/ RefuseUnknownEnvelope(m)
             \/ UNCHANGED vars
    <2>1. UNCHANGED <<status, transitions, manual, pc, snap, next>>
      BY <1>8 DEF Initiate, CheckDrafted, CreateEnvelope, RecordEnvelope, FailInitiate, Emit,
                  RefuseUnknownEnvelope, vars, requests
    <2>2. QED
      BY <1>1, <2>1, RowsUntouched
  <1>9. QED
    BY <1>2, <1>3, <1>4, <1>5, <1>6, <1>7, <1>8 DEF Next, Step

(***************************************************************************)
(* The invariant holds in every behaviour of a lone webhook.               *)
(***************************************************************************)
LEMMA HistoryInvariant ==
  ASSUME OneAtATime, OperatorOnlyServes
  PROVE  Spec => []HistoryInv
  <1>1. Init => HistoryInv
    <2> SUFFICES ASSUME Init PROVE HistoryInv
      OBVIOUS
    <2>1. Logged = {} /\ InFlight = {} /\ DOMAIN transitions = {} /\ status = "drafted"
      BY DEF Init, Logged, InFlight
    <2>2. QED
      BY <2>1 DEF HistoryInv, SoundInv, LogIsSound, NoGap, Rows
  <1>2. QED
    BY <1>1, NextHistoryInv, SerialInvariant, StatusHasRow, PTL DEF Spec

(***************************************************************************)
(* One webhook at a time and the operator serving, the transition log says *)
(* nothing false: whatever crashed and was retried, no row is inserted     *)
(* twice, no status entered twice, and every row is a legal move.          *)
(***************************************************************************)
THEOREM LogIsNeverWrong ==
  ASSUME OneAtATime, OperatorOnlyServes
  PROVE  Spec => []LogIsSound
  <1>1. HistoryInv => LogIsSound
    BY DEF HistoryInv, SoundInv
  <1>2. QED
    BY <1>1, HistoryInvariant, PTL

(***************************************************************************)
(* If moreover nothing failed the log, with the rows about to be inserted, *)
(* is the history of the assignment: one row per change of status, no gap  *)
(* and no fork.                                                            *)
(***************************************************************************)
THEOREM LogIsTheHistory ==
  ASSUME OneAtATime, OperatorOnlyServes
  PROVE  Spec => []LogIsHistory
  <1>1. HistoryInv => LogIsHistory
    BY DEF HistoryInv, SoundInv, NoGap, LogIsHistory
  <1>2. QED
    BY <1>1, HistoryInvariant, PTL
=============================================================================
