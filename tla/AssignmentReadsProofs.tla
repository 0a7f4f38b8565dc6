----------------------- MODULE AssignmentReadsProofs ------------------------
(***************************************************************************)
(* Proofs about what a reader of the assignment's page is shown: rows only *)
(* ever advance, so rows read after a status account for it.               *)
(***************************************************************************)
EXTENDS AssignmentReads, AssignmentLifecycleProofs

(***************************************************************************)
(* What these theorems assume beside DistinctAddresses and FaithfulMail:   *)
(* Documenso reports signatures of signers only.                           *)
(***************************************************************************)
SignersSign == \A m \in Mail : m.kind = "document.signed" => m.role \in SignerRoles \cup {AnyRecipient}

Acted == {"signed", "acknowledged"}

-----------------------------------------------------------------------------
(***************************************************************************)
(* A signature event never reaches the row of an addressee.                *)
(***************************************************************************)
LEMMA SignaturesSpareAddressees ==
  ASSUME DistinctAddresses, SignersSign, TypeOK, NEW m \in Mail, m.kind = "document.signed",
         NEW r \in AckRoles
  PROVE  r \notin Targets(m)
  <1> SUFFICES ASSUME r \in Targets(m) PROVE FALSE
    OBVIOUS
  <1>1. r \in SignedBy(m)
    BY TargetsReported
  <1>2. SignedBy(m) \subseteq SignerRoles
    BY DEF SignedBy, SignersSign
  <1>3. QED
    BY <1>1, <1>2 DEF SignerRoles, AckRoles

(***************************************************************************)
(* Rows only advance: an act recorded stays recorded, an acknowledgement   *)
(* stays one, and a document stays.                                        *)
(***************************************************************************)
RowsAdvance ==
  /\ intake' = intake
  /\ \A r \in Role : party[r] \in Acted => party'[r] \in Acted
  /\ \A r \in AckRoles : party[r] = "acknowledged" => party'[r] = "acknowledged"
  /\ \A e \in Envelope : doc[e] # NoRow => doc'[e] # NoRow

(***************************************************************************)
(* No step of the lifecycle takes back what a row, or a document, says.    *)
(***************************************************************************)
LEMMA RowsOnlyAdvance ==
  ASSUME DistinctAddresses, FaithfulMail, SignersSign
  PROVE  TypeOK /\ [Next]_vars => RowsAdvance
  <1> SUFFICES ASSUME TypeOK, [Next]_vars PROVE RowsAdvance
    OBVIOUS
  <1>1. intake' = intake
    BY ActsOnlyGrow
  <1>2. ASSUME UNCHANGED <<party, doc>> PROVE RowsAdvance
    BY <1>1, <1>2 DEF RowsAdvance
  <1>3. ASSUME NEW e \in Envelope, RecordEnvelope(e) PROVE RowsAdvance
    BY <1>1, <1>3 DEF RecordEnvelope, RowsAdvance, Acted, NoRow, TypeOK, AckRoles, Role
  <1>4. ASSUME NEW w \in Worker, UpdateParties(w) PROVE RowsAdvance
    <2> DEFINE m == req[w]
    <2>1. m \in Mail /\ m.kind \in {"document.signed", "envelope.acknowledged"}
      BY <1>4, MailAssumption
         DEF UpdateParties, TypeOK, HashConstraint, HasContentHash, newDocStatus, Completion,
             FaithfulMail, Message, EventKind
    <2>2. \A r \in Role : party'[r] = IF r \in Targets(m) THEN newPartyStatus(m.kind) ELSE party[r]
      BY <1>4 DEF UpdateParties
    <2>3. \A r \in AckRoles : r \in Targets(m) => newPartyStatus(m.kind) = "acknowledged"
      BY <2>1, SignaturesSpareAddressees DEF newPartyStatus
    <2>4. \A e \in Envelope : doc[e] # NoRow => doc'[e] # NoRow
      BY <1>4 DEF UpdateParties, TypeOK, newDocStatus, NoRow
    <2>5. newPartyStatus(m.kind) \in Acted
      BY DEF newPartyStatus, Acted
    <2>6. QED
      BY <1>1, <2>2, <2>3, <2>4, <2>5 DEF RowsAdvance, Role
  <1>5. QED
    BY <1>2, <1>3, <1>4
       DEF Next, vars, parties, Initiate, Step, CheckDrafted, CreateEnvelope, FailInitiate, Emit,
           RefuseUnknownEnvelope, RollbackUpdate, ReadStatus, ReadParties, WriteStatus, WriteLog,
           FailWebhook, Receive, SetManually, LogManually

(***************************************************************************)
(* A recorded acknowledgement is never taken back, however many webhooks   *)
(* overlap and however late or often they are delivered.                   *)
(***************************************************************************)
THEOREM AcknowledgementsNeverLost ==
  ASSUME DistinctAddresses, FaithfulMail, SignersSign
  PROVE  Spec => AcknowledgementsStick
  <1>1. TypeOK /\ [Next]_vars =>
          [\A r \in AckRoles : party[r] = "acknowledged" => party'[r] = "acknowledged"]_vars
    BY RowsOnlyAdvance DEF RowsAdvance
  <1>2. QED
    BY <1>1, TypeCorrect, PTL DEF Spec, AcknowledgementsStick

-----------------------------------------------------------------------------
(***************************************************************************)
(* The rows and documents that account for a status, whichever moment each *)
(* is of.                                                                  *)
(***************************************************************************)
Accounts(rows, docs, surety, s) ==
  /\ s \in {"executed", "served", "acknowledged", "perfected"} =>
       /\ \A r \in SignerRoles : rows[r] \in Acted
       /\ \E e \in Envelope : docs[e] # NoRow
  /\ s = "perfected" => \A r \in RequiredRoles(surety) : rows[r] = "acknowledged"

(***************************************************************************)
(* The inductive invariant: every status held anywhere, in the table, in a *)
(* webhook that read it or will write it and in a page being built, is     *)
(* accounted for by the rows as they are now; and a row says that somebody *)
(* acted only when there is a document.                                    *)
(***************************************************************************)
Documented ==
  /\ \A w \in Worker : pc[w] # "idle" => doc[req[w].env] # NoRow
  /\ (\E r \in Role : party[r] \in Acted) => \E e \in Envelope : doc[e] # NoRow

AccountInv ==
  /\ Accounts(party, doc, HasSurety, status)
  /\ \A w \in Worker :
       /\ pc[w] \in {"readParties", "writeStatus", "writeLog"} =>
            Accounts(party, doc, HasSurety, snap[w])
       /\ pc[w] \in {"writeStatus", "writeLog"} => Accounts(party, doc, HasSurety, next[w])

(***************************************************************************)
(* The addressees are government roles.                                    *)
(***************************************************************************)
LEMMA RequiredAreAddressees == \A b : RequiredRoles(b) \subseteq AckRoles
  BY DEF RequiredRoles, AckRoles

(***************************************************************************)
(* What is accounted for stays so.                                         *)
(***************************************************************************)
LEMMA AccountsStay ==
  ASSUME RowsAdvance, NEW s, Accounts(party, doc, HasSurety, s)
  PROVE  Accounts(party', doc', HasSurety', s)
  BY RequiredAreAddressees DEF RowsAdvance, Accounts, HasSurety, SignerRoles, Role

(***************************************************************************)
(* A webhook runs only for a document that is there.                       *)
(***************************************************************************)
LEMMA NextDocumented ==
  ASSUME TypeOK, Documented, RowsAdvance, [Next]_vars
  PROVE  Documented'
  <1>1. \A e \in Envelope : doc[e] # NoRow => doc'[e] # NoRow
    BY DEF RowsAdvance
  <1>2. \A w \in Worker : pc[w] # "idle" => req[w].env \in Envelope
    BY MailAssumption DEF TypeOK, Message
  <1>3. ASSUME NEW w \in Worker, pc'[w] # "idle" PROVE doc'[req'[w].env] # NoRow
    <2>1. CASE pc[w] # "idle" /\ req'[w] = req[w]
      BY <1>1, <1>2, <2>1 DEF Documented
    <2>2. ASSUME NEW m \in Mail, Receive(w, m) PROVE doc'[req'[w].env] # NoRow
      BY <2>2 DEF Receive, TypeOK, GoTo, parties
    <2>3. \/ pc[w] # "idle" /\ req'[w] = req[w]
          \/ \E m \in Mail : Receive(w, m)
      <3>1. ASSUME NEW v \in Worker, v # w,
                   Step(v) \/ FailWebhook(v) \/ \E m \in Mail : Receive(v, m)
            PROVE  UNCHANGED <<pc[w], req[w]>>
        BY <3>1 DEF Step, UpdateParties, RollbackUpdate, ReadStatus, ReadParties, WriteStatus,
                    WriteLog, FailWebhook, Receive, Answer200, Finish, GoTo, TypeOK
      <3>2. ASSUME Step(w) \/ FailWebhook(w) PROVE pc[w] # "idle" /\ req'[w] = req[w]
        BY <1>3, <3>2 DEF Step, UpdateParties, RollbackUpdate, ReadStatus, ReadParties,
                          WriteStatus, WriteLog, FailWebhook, Answer200, Finish, GoTo, TypeOK
      <3>3. ASSUME \/ \E e \in Envelope : Initiate(e) \/ FailInitiate(e)
                   \/ \E m \in Mail : Emit(m) \/ RefuseUnknownEnvelope(m)
                   \/ \E s \in ManualTargets : SetManually(s)
                   \/ LogManually \/ UNCHANGED vars
            PROVE  UNCHANGED <<pc[w], req[w]>>
        BY <3>3 DEF Initiate, CheckDrafted, CreateEnvelope, RecordEnvelope, FailInitiate, Emit,
                    RefuseUnknownEnvelope, SetManually, LogManually, vars, requests
      <3>4. QED
        BY <1>3, <3>1, <3>2, <3>3 DEF Next
    <2>4. QED
      BY <2>1, <2>2, <2>3
  <1>4. ASSUME \E r \in Role : party'[r] \in Acted PROVE \E e \in Envelope : doc'[e] # NoRow
    <2>1. CASE \E r \in Role : party[r] \in Acted
      BY <1>1, <2>1 DEF Documented
    <2>2. CASE \E w \in Worker : UpdateParties(w)
      BY <1>1, <1>2, <2>2 DEF UpdateParties, Documented
    <2>3. CASE \E e \in Envelope : RecordEnvelope(e)
      BY <2>3 DEF RecordEnvelope, TypeOK, NoRow
    <2>4. CASE UNCHANGED party
      BY <1>4, <2>1, <2>4
    <2>5. QED
      BY <2>2, <2>3, <2>4
         DEF Next, vars, parties, Initiate, Step, CheckDrafted, CreateEnvelope, FailInitiate, Emit,
             RefuseUnknownEnvelope, RollbackUpdate, ReadStatus, ReadParties, WriteStatus, WriteLog,
             FailWebhook, Receive, SetManually, LogManually
  <1>5. QED
    BY <1>3, <1>4 DEF Documented

(***************************************************************************)
(* What a webhook decides to write is accounted for by the rows it read.   *)
(***************************************************************************)
LEMMA DecisionAccounted ==
  ASSUME TypeOK, Documented, NEW s \in Status, Accounts(party, doc, HasSurety, s),
         evaluateTransition(s, party, HasSurety) # NoTransition
  PROVE  Accounts(party, doc, HasSurety, evaluateTransition(s, party, HasSurety))
  <1> DEFINE new == evaluateTransition(s, party, HasSurety)
  <1>1. new \in {"executed", "acknowledged", "perfected"}
    BY EvaluateFollowsSequence
  <1>2. HasSurety \in BOOLEAN
    BY IntakesAssumption DEF TypeOK, IntakeRequest, HasSurety
  <1>3. /\ new = "executed" => \A r \in SignerRoles : party[r] = "signed"
        /\ new \in {"acknowledged", "perfected"} => s \in {"served", "acknowledged"}
        /\ new = "perfected" => \A r \in RequiredRoles(HasSurety) : party[r] = "acknowledged"
    BY <1>2, EvaluateGrounds
  <1> HIDE DEF new
  <1>4. CASE new = "executed"
    <2>1. \A r \in SignerRoles : party[r] \in Acted
      BY <1>3, <1>4 DEF Acted
    <2>2. \E e \in Envelope : doc[e] # NoRow
      BY <2>1 DEF Documented, SignerRoles, Role
    <2>3. QED
      BY <1>4, <2>1, <2>2 DEF Accounts, new
  <1>5. CASE new \in {"acknowledged", "perfected"}
    BY <1>3, <1>5 DEF Accounts, new
  <1>6. QED
    BY <1>1, <1>4, <1>5

(***************************************************************************)
(* Every step keeps every held status accounted for.                       *)
(***************************************************************************)
LEMMA NextAccountInv ==
  ASSUME TypeOK, Documented, AccountInv, RowsAdvance, [Next]_vars
  PROVE  AccountInv'
  <1> DEFINE Accounted(s) == Accounts(party', doc', HasSurety', s)
             Held(w) == /\ pc'[w] \in {"readParties", "writeStatus", "writeLog"} => Accounted(snap'[w])
                        /\ pc'[w] \in {"writeStatus", "writeLog"} => Accounted(next'[w])
  <1>1. \A s : Accounts(party, doc, HasSurety, s) => Accounted(s)
    BY AccountsStay
  <1>2. Accounted(status)
    BY <1>1 DEF AccountInv
  <1>3. ASSUME NEW w \in Worker, \/ UNCHANGED <<pc[w], snap[w], next[w]>>
                                \/ pc'[w] \in {"idle", "update", "readStatus"}
        PROVE  Held(w)
    BY <1>1, <1>3 DEF AccountInv
  <1>4. ASSUME NEW w \in Worker, ReadStatus(w) PROVE status' = status /\ Held(w)
    <2>1. pc'[w] = "readParties" /\ snap'[w] = status /\ status' = status
      BY <1>4 DEF ReadStatus, GoTo, TypeOK
    <2>2. QED
      BY <1>2, <2>1
  <1>5. ASSUME NEW w \in Worker, ReadParties(w) PROVE status' = status /\ Held(w)
    <2> DEFINE new == evaluateTransition(snap[w], party, HasSurety)
    <2>1. status' = status /\ pc[w] = "readParties" /\ snap[w] \in Status
      BY <1>5 DEF ReadParties, TypeOK
    <2>2. CASE new = NoTransition
      <3>1. pc'[w] = "idle"
        BY <1>5, <2>2 DEF ReadParties, Answer200, Finish, GoTo, TypeOK
      <3>2. QED
        BY <2>1, <3>1
    <2>3. CASE new # NoTransition
      <3>1. pc'[w] = "writeStatus" /\ next'[w] = new /\ snap'[w] = snap[w]
        BY <1>5, <2>3 DEF ReadParties, GoTo, TypeOK
      <3>2. Accounts(party, doc, HasSurety, snap[w])
        BY <2>1 DEF AccountInv
      <3>3. Accounts(party, doc, HasSurety, new)
        BY <2>1, <2>3, <3>2, DecisionAccounted
      <3> HIDE DEF new
      <3>4. QED
        BY <1>1, <2>1, <3>1, <3>2, <3>3
    <2>4. QED
      BY <2>2, <2>3
  <1>6. ASSUME NEW w \in Worker, WriteStatus(w) PROVE Accounted(status') /\ Held(w)
    <2>1. /\ status' = next[w] /\ pc[w] = "writeStatus" /\ pc'[w] = "writeLog"
          /\ snap' = snap /\ next' = next
      BY <1>6 DEF WriteStatus, GoTo, TypeOK
    <2>2. Accounts(party, doc, HasSurety, next[w]) /\ Accounts(party, doc, HasSurety, snap[w])
      BY <2>1 DEF AccountInv
    <2>3. QED
      BY <1>1, <2>1, <2>2
  <1>7. ASSUME NEW w \in Worker,
               UpdateParties(w) \/ RollbackUpdate(w) \/ WriteLog(w) \/ FailWebhook(w)
                 \/ \E m \in Mail : Receive(w, m)
        PROVE  status' = status /\ Held(w)
    <2>1. status' = status /\ pc'[w] \in {"idle", "update", "readStatus"}
      BY <1>7 DEF UpdateParties, RollbackUpdate, WriteLog, FailWebhook, Receive, Answer200,
                  Finish, GoTo, TypeOK
    <2>2. QED
      BY <1>3, <2>1
  <1>8. ASSUME NEW w \in Worker, Step(w) \/ FailWebhook(w) \/ \E m \in Mail : Receive(w, m)
        PROVE  AccountInv'
    <2>1. Accounted(status') /\ Held(w)
      BY <1>2, <1>4, <1>5, <1>6, <1>7, <1>8 DEF Step
    <2>2. ASSUME NEW v \in Worker, v # w PROVE Held(v)
      <3>1. UNCHANGED <<pc[v], snap[v], next[v]>>
        BY <1>8, <2>2 DEF Step, UpdateParties, RollbackUpdate, ReadStatus, ReadParties, WriteStatus,
                          WriteLog, FailWebhook, Receive, Answer200, Finish, GoTo, TypeOK
      <3>2. QED
        BY <1>3, <3>1
    <2>3. QED
      BY <2>1, <2>2 DEF AccountInv
  <1>9. ASSUME UNCHANGED <<pc, snap, next>>, Accounted(status') PROVE AccountInv'
    BY <1>3, <1>9 DEF AccountInv
  <1>10. ASSUME NEW s \in ManualTargets, SetManually(s) PROVE AccountInv'
    <2>1. status' = s /\ UNCHANGED <<pc, snap, next>> /\ (s = "served" => status = "executed")
      BY <1>10 DEF SetManually, requests, LegalEdge, Status
    <2>2. Accounted(s)
      BY <1>2, <2>1, ManualAssumption DEF Accounts
    <2>3. QED
      BY <1>9, <2>1, <2>2
  <1>11. CASE \/ \E e \in Envelope : Initiate(e) \/ FailInitiate(e)
              \/ \E m \in Mail : Emit(m) \/ RefuseUnknownEnvelope(m)
              \/ LogManually \/ UNCHANGED vars
    <2>1. UNCHANGED <<status, pc, snap, next>>
      BY <1>11 DEF Initiate, CheckDrafted, CreateEnvelope, RecordEnvelope, FailInitiate, Emit,
                   RefuseUnknownEnvelope, LogManually, vars, requests
    <2>2. QED
      BY <1>2, <1>9, <2>1
  <1>12. QED
    BY <1>8, <1>10, <1>11 DEF Next

(***************************************************************************)
(* In every behaviour of the lifecycle every held status is accounted for. *)
(***************************************************************************)
THEOREM StatusesAccounted ==
  ASSUME DistinctAddresses, FaithfulMail, SignersSign
  PROVE  Spec => [](TypeOK /\ Documented /\ AccountInv)
  <1>1. Init => Documented /\ AccountInv
    BY DEF Init, Documented, AccountInv, Accounts, Acted, NoRow
  <1>2. TypeOK /\ Documented /\ AccountInv /\ [Next]_vars => (Documented /\ AccountInv)'
    BY RowsOnlyAdvance, NextDocumented, NextAccountInv
  <1>3. QED
    BY <1>1, <1>2, TypeCorrect, PTL DEF Spec

(***************************************************************************)
(* A reader of the page disturbs nothing.                                  *)
(***************************************************************************)
LEMMA ReaderRunsLifecycle == ReaderSpec => Spec
  <1>1. ReaderInit => Init
    BY DEF ReaderInit
  <1>2. [ReaderNext]_readerVars => [Next]_vars
    BY DEF ReaderNext, ReadAssignment, ReadRows, readerVars
  <1>3. QED
    BY <1>1, <1>2, PTL DEF ReaderSpec, Spec

(***************************************************************************)
(* However long a page takes between its SELECTs, the status it read first *)
(* is accounted for by the rows it reads last.                             *)
(***************************************************************************)
THEOREM PageShowsBackedStatus ==
  ASSUME DistinctAddresses, FaithfulMail, SignersSign
  PROVE  ReaderSpec => []ShownStatusIsBacked
  <1> DEFINE ShownInv == Accounts(party, doc, HasSurety, shown)
  <1>1. ReaderInit => ShownInv
    BY DEF ReaderInit, Accounts, NoPage
  <1>2. TypeOK /\ AccountInv /\ ShownInv /\ [ReaderNext]_readerVars => ShownInv'
    <2> SUFFICES ASSUME TypeOK, AccountInv, ShownInv, [ReaderNext]_readerVars
                 PROVE  Accounts(party', doc', HasSurety', shown')
      BY DEF HasSurety
    <2>1. [Next]_vars /\ RowsAdvance
      BY RowsOnlyAdvance DEF ReaderNext, ReadAssignment, ReadRows, readerVars
    <2>2. shown' \in {shown, status, NoPage}
      BY DEF ReaderNext, ReadAssignment, ReadRows, readerVars
    <2>3. Accounts(party, doc, HasSurety, shown')
      BY <2>2 DEF AccountInv, Accounts, NoPage
    <2>4. QED
      BY <2>1, <2>3, AccountsStay
  <1>3. ShownInv => ShownStatusIsBacked
    <2> SUFFICES ASSUME ShownInv, NEW k \in Reached
                 PROVE  /\ k > 1 => /\ \A r \in SignerRoles : party[r] \in {"signed", "acknowledged"}
                                    /\ \E e \in Envelope : doc[e] # NoRow
                        /\ Timeline[k] = "perfected" =>
                             \A r \in RequiredRoles(HasSurety) : party[r] = "acknowledged"
      BY DEF ShownStatusIsBacked
    <2>1. k \in 1..5 /\ Timeline[k] = shown
      BY DEF Reached, Timeline
    <2>2. k > 1 => shown \in {"executed", "served", "acknowledged", "perfected"}
      BY <2>1 DEF Timeline
    <2>3. QED
      BY <2>1, <2>2 DEF Accounts, Acted
  <1> HIDE DEF ShownInv
  <1>4. QED
    BY <1>1, <1>2, <1>3, ReaderRunsLifecycle, StatusesAccounted, PTL DEF ReaderSpec
=============================================================================
