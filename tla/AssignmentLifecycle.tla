------------------------ MODULE AssignmentLifecycle -------------------------
(***************************************************************************)
(* One assignment from intake to perfection.  The actors are               *)
(*   - the initiate-signing requests, each of which creates one Documenso  *)
(*     envelope (app/api/assignments/[id]/initiate-signing/route.ts);      *)
(*   - Documenso, which reports what recipients did by webhook deliveries  *)
(*     that may be late, repeated or retried (external);                   *)
(*   - the webhook requests, any number of which run at once               *)
(*     (app/api/webhooks/documenso/route.ts), each followed by             *)
(*     maybeAdvanceState (lib/factoring/state-machine.ts), whose queries   *)
(*     are autocommit statements of their own;                             *)
(*   - an operator who applies the transitions no route performs           *)
(*     (external: only the tests call applyTransition that way).           *)
(* A step is one database transaction, one autocommit statement or one     *)
(* external call.  The transaction of the webhook reads nothing it later   *)
(* writes, so it is one step.                                              *)
(***************************************************************************)
EXTENDS StateMachine, Sequences, Naturals

CONSTANTS
  Worker,         \* webhook requests that can be in progress at one time
  Envelope,       \* initiate-signing requests, named by the envelope they create
  Email,          \* addresses an intake request can name
  NoEmail,        \* an address left out of the intake request
  Intakes,        \* the intake requests considered
  Mail,           \* the webhook messages Documenso may have to deliver
  NoMail,         \* the message of an idle webhook request
  ManualTargets,  \* statuses the operator may set by hand
  Retries,        \* does Documenso redeliver after a non-2xx answer?
  MaxFailures,    \* bound: crashes and failed database or Documenso calls
  MaxDuplicates   \* bound: redeliveries of an already answered message

IntakeRoles  == Role \ {"factor_assignee"}   \* intake takes no factor address
AnyRecipient == "any recipient"              \* a message without recipient_email

(***************************************************************************)
(* Webhook event names.  "document.signed" stands for envelope.signed too, *)
(* "other" for every name the handler does not list (document.opened, ...).*)
(***************************************************************************)
EventKind == {"document.signed", "envelope.acknowledged", "document.completed",
              "envelope.completed", "other"}

IntakeRequest == [has_surety: BOOLEAN, email: [IntakeRoles -> Email \cup {NoEmail}]]
Message == [env: Envelope, kind: EventKind, role: Role \cup {AnyRecipient}]

ASSUME IntakesAssumption == Intakes \subseteq IntakeRequest
ASSUME MailAssumption    == Mail \subseteq Message /\ NoMail \notin Mail
ASSUME EmailAssumption   == NoEmail \notin Email /\ Role \cap (Email \cup {NoEmail}) = {}
ASSUME ManualAssumption  == ManualTargets \subseteq {"served", "terminated", "rejected"}
ASSUME BoundsAssumption  == MaxFailures \in Nat /\ MaxDuplicates \in Nat /\ Retries \in BOOLEAN

VARIABLES
  intake,       \* the row's immutable columns and the party addresses given
  status,       \* assignments.status
  party,        \* assignment_parties.status by role, NoRow if there is no row
  doc,          \* assignment_documents.status by envelope, NoRow if there is no row
  transitions,  \* assignment_state_transitions, in insertion order
  issued,       \* envelopes that exist at Documenso
  ipc,          \* where each initiate-signing request is
  pc, req,      \* where each webhook request is, the message it handles,
  snap, next,   \*   the status it read and the status it will write
  manual,       \* the log row the operator has still to insert, if any
  mail,         \* per message: unsent, pending, answered (2xx) or dropped
  signed, acked,            \* history: roles that really signed, acknowledged
  failures, duplicates      \* how much of each bound is used

parties  == <<party, doc>>
requests == <<pc, req, snap, next>>
world    == <<issued, ipc>>
outside  == <<mail, signed, acked>>
bounds   == <<failures, duplicates>>
vars == <<intake, status, parties, transitions, world, requests, manual, outside, bounds>>

-----------------------------------------------------------------------------
(* Parties, addresses and what an event does to them.                      *)

HasSurety == intake.has_surety

(* The address of a role's row: the one given, or a placeholder of its own *)
(* (the role's name stands for "co@placeholder.example" and the like).     *)
Address(r) ==
  IF r \in IntakeRoles /\ intake.email[r] # NoEmail THEN intake.email[r] ELSE r

(* Rows the intake request creates. *)
Seeded(q) == {r \in IntakeRoles : q.email[r] # NoEmail /\ (r = "surety" => q.has_surety)}

(* Recipients of the envelope: the surety only if the row is there. *)
Recipients == (Role \ {"surety"})
                \cup {r \in {"surety"} : HasSurety /\ party[r] # NoRow}

Completion == {"document.completed", "envelope.completed"}

newPartyStatus(kind) ==
  IF kind \in {"document.completed", "envelope.acknowledged"} THEN "acknowledged" ELSE "signed"

newDocStatus(kind) == IF kind \in Completion THEN "executed" ELSE "signed"

(* The rows the handler updates: all those with the recipient's address, or *)
(* the group the event is about when it names no recipient.                *)
Targets(m) ==
  {r \in Role : /\ party[r] # NoRow
                /\ IF m.role = AnyRecipient
                   THEN r \in (IF newPartyStatus(m.kind) = "signed" THEN SignerRoles ELSE AckRoles)
                   ELSE Address(r) = Address(m.role)}

(* What the message newly reports: completion follows the recipients' acts, *)
(* and the other events (document.opened, ...) report no act at all.       *)
SignedBy(m) ==
  IF m.kind # "document.signed" THEN {}
  ELSE IF m.role = AnyRecipient THEN SignerRoles ELSE {m.role}

AckedBy(m) ==
  IF m.kind # "envelope.acknowledged" THEN {}
  ELSE IF m.role = AnyRecipient THEN AckRoles ELSE {m.role}

(* content_sha256 IS NOT NULL: no statement of the program writes it. *)
HasContentHash(e) == FALSE

HashUnchecked(e, docStatus) == TRUE   \* mutant: no CHECK on assignment_documents

HashConstraint(e, docStatus) == docStatus # "executed" \/ HasContentHash(e)

-----------------------------------------------------------------------------
(* POST /api/assignments has committed the row and the parties it seeds.   *)
Init ==
  /\ intake \in Intakes
  /\ status = "drafted"
  /\ party = [r \in Role |-> IF r \in Seeded(intake) THEN "pending" ELSE NoRow]
  /\ doc = [e \in Envelope |-> NoRow]
  /\ transitions = <<>>
  /\ issued = {}
  /\ ipc = [e \in Envelope |-> "start"]
  /\ pc = [w \in Worker |-> "idle"]
  /\ req = [w \in Worker |-> NoMail]
  /\ snap = [w \in Worker |-> "drafted"]
  /\ next = [w \in Worker |-> NoTransition]
  /\ manual = <<>>
  /\ mail = [m \in Mail |-> "unsent"]
  /\ signed = {} /\ acked = {}
  /\ failures = 0 /\ duplicates = 0

-----------------------------------------------------------------------------
(* POST /api/assignments/:id/initiate-signing, request e.                  *)

CheckDrafted(e) ==   \* SELECT the assignment: 422 unless it is drafted
  /\ ipc[e] = "start"
  /\ ipc' = [ipc EXCEPT ![e] = IF status = "drafted" THEN "checked" ELSE "refused"]
  /\ UNCHANGED <<intake, status, parties, transitions, issued, requests, manual, outside, bounds>>

CreateEnvelope(e) ==   \* the external call, before any transaction
  /\ ipc[e] = "checked"
  /\ ipc' = [ipc EXCEPT ![e] = "created"]
  /\ issued' = issued \cup {e}
  /\ UNCHANGED <<intake, status, parties, transitions, requests, manual, outside, bounds>>

RecordEnvelope(e) ==   \* the transaction: document row, rows of the missing parties
  /\ ipc[e] = "created"
  /\ ipc' = [ipc EXCEPT ![e] = "sent"]
  /\ doc' = [doc EXCEPT ![e] = "sent"]
  /\ party' = [r \in Role |-> IF r \in Recipients /\ party[r] = NoRow THEN "pending" ELSE party[r]]
  /\ UNCHANGED <<intake, status, transitions, issued, requests, manual, outside, bounds>>

FailInitiate(e) ==   \* crash, or an error answered 500: the envelope stays if it was created
  /\ ipc[e] \in {"start", "checked", "created"}
  /\ failures < MaxFailures
  /\ failures' = failures + 1
  /\ ipc' = [ipc EXCEPT ![e] = "failed"]
  /\ UNCHANGED <<intake, status, parties, transitions, issued, requests, manual, outside, duplicates>>

-----------------------------------------------------------------------------
(* Documenso (external).                                                   *)

Emit(m) ==   \* a recipient acts (or merely opens the document); a message is due
  /\ mail[m] = "unsent"
  /\ m.kind \in Completion => Recipients \subseteq signed \cup acked
  /\ m.env \in issued
  /\ m.role \in Recipients \cup {AnyRecipient}
  /\ mail' = [mail EXCEPT ![m] = "pending"]
  /\ signed' = signed \cup SignedBy(m)
  /\ acked' = acked \cup AckedBy(m)
  /\ UNCHANGED <<intake, status, parties, transitions, world, requests, manual, bounds>>

AnswerAnyway(m) == mail' = [mail EXCEPT ![m] = "answered"]   \* mutant: 200 on errors too

(* What becomes of message m when its delivery is not answered 2xx. *)
Unanswered(m) ==
  mail' = IF Retries THEN mail ELSE [mail EXCEPT ![m] = "dropped"]

-----------------------------------------------------------------------------
(* POST /api/webhooks/documenso, request w.                                *)

GoTo(w, place) == pc' = [pc EXCEPT ![w] = place]

Finish(w) ==   \* the response is sent, the connection closed
  /\ GoTo(w, "idle")
  /\ req' = [req EXCEPT ![w] = NoMail]
  /\ snap' = [snap EXCEPT ![w] = "drafted"]
  /\ next' = [next EXCEPT ![w] = NoTransition]

Answer200(w) ==
  /\ Finish(w)
  /\ mail' = [mail EXCEPT ![req[w]] = "answered"]

(* A delivery whose envelope has a document row starts a request. *)
Receive(w, m) ==
  /\ pc[w] = "idle"
  /\ \/ mail[m] = "pending" /\ UNCHANGED <<mail, duplicates>>
     \/ /\ mail[m] = "answered" /\ duplicates < MaxDuplicates
        /\ duplicates' = duplicates + 1
        /\ mail' = [mail EXCEPT ![m] = "pending"]
  /\ doc[m.env] # NoRow
  /\ GoTo(w, "update")
  /\ req' = [req EXCEPT ![w] = m]
  /\ UNCHANGED <<intake, status, parties, transitions, world, snap, next, manual,
                 signed, acked, failures>>

(* 404: the envelope is not recorded yet, or never will be. *)
RefuseUnknownEnvelope(m) ==
  /\ mail[m] = "pending" /\ ~Retries
  /\ doc[m.env] = NoRow
  /\ Unanswered(m)
  /\ UNCHANGED <<intake, status, parties, transitions, world, requests, manual, signed, acked, bounds>>

UpdatePartiesAnyRow(w) ==   \* mutant: the UPDATE's address condition is lost
  /\ pc[w] = "update"
  /\ LET m == req[w] IN
       /\ HashConstraint(m.env, newDocStatus(m.kind))
       /\ party' = [r \in Role |-> IF party[r] # NoRow THEN newPartyStatus(m.kind) ELSE NoRow]
       /\ doc' = [doc EXCEPT ![m.env] = newDocStatus(m.kind)]
  /\ GoTo(w, "readStatus")
  /\ UNCHANGED <<intake, status, transitions, world, req, snap, next, manual, outside, bounds>>

(* The transaction BEGIN ... COMMIT: the matching parties and the document. *)
UpdateParties(w) ==
  /\ pc[w] = "update"
  /\ LET m == req[w] IN
       /\ HashConstraint(m.env, newDocStatus(m.kind))
       /\ party' = [r \in Role |-> IF r \in Targets(m) THEN newPartyStatus(m.kind) ELSE party[r]]
       /\ doc' = [doc EXCEPT ![m.env] = newDocStatus(m.kind)]
  /\ GoTo(w, "readStatus")
  /\ UNCHANGED <<intake, status, transitions, world, req, snap, next, manual, outside, bounds>>

(* The same transaction when the CHECK on assignment_documents fails: ROLLBACK, 500. *)
RollbackUpdate(w) ==
  /\ pc[w] = "update"
  /\ ~HashConstraint(req[w].env, newDocStatus(req[w].kind))
  /\ Finish(w)
  /\ Unanswered(req[w])
  /\ UNCHANGED <<intake, status, parties, transitions, world, manual, signed, acked, bounds>>

ReadStatus(w) ==   \* maybeAdvanceState, first SELECT
  /\ pc[w] = "readStatus"
  /\ snap' = [snap EXCEPT ![w] = status]
  /\ GoTo(w, "readParties")
  /\ UNCHANGED <<intake, status, parties, transitions, world, req, next, manual, outside, bounds>>

ReadParties(w) ==   \* second SELECT and evaluateTransition; 200 when nothing is due
  /\ pc[w] = "readParties"
  /\ LET newState == evaluateTransition(snap[w], party, HasSurety) IN
       IF newState = NoTransition
       THEN Answer200(w)
       ELSE /\ next' = [next EXCEPT ![w] = newState]
            /\ GoTo(w, "writeStatus")
            /\ UNCHANGED <<req, snap, mail>>
  /\ UNCHANGED <<intake, status, parties, transitions, world, manual, signed, acked, bounds>>

WriteStatus(w) ==   \* applyTransition: the UPDATE, without looking at the status it replaces
  /\ pc[w] = "writeStatus"
  /\ status' = next[w]
  /\ GoTo(w, "writeLog")
  /\ UNCHANGED <<intake, parties, transitions, world, req, snap, next, manual, outside, bounds>>

SwappedRow(prev, new) == [previous_state |-> new, new_state |-> prev]   \* mutant: $2, $3 swapped

TransitionRow(prev, new) == [previous_state |-> prev, new_state |-> new]

WriteLogRereading(w) ==   \* mutant: the previous status is looked up after the UPDATE
  /\ pc[w] = "writeLog"
  /\ transitions' = Append(transitions, TransitionRow(status, next[w]))
  /\ Answer200(w)
  /\ UNCHANGED <<intake, status, parties, world, manual, signed, acked, bounds>>

WriteLog(w) ==   \* recordTransition, then 200
  /\ pc[w] = "writeLog"
  /\ transitions' = Append(transitions, TransitionRow(snap[w], next[w]))
  /\ Answer200(w)
  /\ UNCHANGED <<intake, status, parties, world, manual, signed, acked, bounds>>

FailWebhook(w) ==   \* crash or database error between two statements, or a lost answer
  /\ pc[w] # "idle"
  /\ failures < MaxFailures
  /\ failures' = failures + 1
  /\ Finish(w)
  /\ Unanswered(req[w])
  /\ UNCHANGED <<intake, status, parties, transitions, world, manual, signed, acked, duplicates>>

-----------------------------------------------------------------------------
(* The operator (external): applyTransition called by hand.                *)

SetManually(s) ==
  /\ manual = <<>>
  /\ <<status, s>> \in LegalEdge
  /\ status' = s
  /\ manual' = <<TransitionRow(status, s)>>
  /\ UNCHANGED <<intake, parties, transitions, world, requests, outside, bounds>>

LogManually ==
  /\ manual # <<>>
  /\ transitions' = transitions \o manual
  /\ manual' = <<>>
  /\ UNCHANGED <<intake, status, parties, world, requests, outside, bounds>>

-----------------------------------------------------------------------------
Step(w) ==   \* what a webhook request does when nothing fails
  \/ UpdateParties(w) \/ RollbackUpdate(w)
  \/ ReadStatus(w) \/ ReadParties(w)
  \/ WriteStatus(w) \/ WriteLog(w)

Initiate(e) == CheckDrafted(e) \/ CreateEnvelope(e) \/ RecordEnvelope(e)

Next ==
  \/ \E e \in Envelope : Initiate(e) \/ FailInitiate(e)
  \/ \E m \in Mail : Emit(m) \/ RefuseUnknownEnvelope(m)
  \/ \E w \in Worker : Step(w) \/ FailWebhook(w) \/ \E m \in Mail : Receive(w, m)
  \/ \E s \in ManualTargets : SetManually(s)
  \/ LogManually

Spec == Init /\ [][Next]_vars

(***************************************************************************)
(* The server runs every request it has accepted, and Documenso's pending  *)
(* deliveries are accepted; nobody has to sign, acknowledge or serve, and  *)
(* failures are bounded.                                                   *)
(***************************************************************************)
Fairness ==
  /\ \A w \in Worker : WF_vars(Step(w))
  /\ \A m \in Mail : WF_vars(\E w \in Worker : Receive(w, m))
  /\ WF_vars(LogManually)

FairSpec == Spec /\ Fairness

-----------------------------------------------------------------------------
(* Properties.                                                             *)

Place == {"idle", "update", "readStatus", "readParties", "writeStatus", "writeLog"}
Row   == [previous_state: Status, new_state: Status]

(* Every variable has the values the schema and the handlers allow. *)
TypeOK ==
  /\ intake \in Intakes
  /\ status \in Status
  /\ party \in [Role -> {NoRow, "pending", "signed", "acknowledged"}]
  /\ doc \in [Envelope -> {NoRow, "sent", "signed"}]
  /\ transitions \in Seq(Row)
  /\ issued \subseteq Envelope
  /\ ipc \in [Envelope -> {"start", "checked", "created", "sent", "refused", "failed"}]
  /\ pc \in [Worker -> Place]
  /\ req \in [Worker -> Mail \cup {NoMail}]
  /\ \A w \in Worker : pc[w] # "idle" => req[w] \in Mail
  /\ snap \in [Worker -> Status]
  /\ next \in [Worker -> Status \cup {NoTransition}]
  /\ \A w \in Worker : pc[w] \in {"writeStatus", "writeLog"} => next[w] \in Status
  /\ manual \in {<<>>} \cup {<<r>> : r \in Row}
  /\ mail \in [Mail -> {"unsent", "pending", "answered", "dropped"}]
  /\ signed \subseteq Role /\ acked \subseteq Role
  /\ failures \in 0 .. MaxFailures /\ duplicates \in 0 .. MaxDuplicates

(***************************************************************************)
(* The detailed specification implements the abstract one: whatever the    *)
(* interleaving, crashes and redeliveries, a status is entered only when   *)
(* the acts it stands for have really happened.                            *)
(***************************************************************************)
Far == INSTANCE FarAssignment WITH hasSurety <- HasSurety
StatusHasEvidence == Far!EvidenceSpec

(***************************************************************************)
(* When webhooks are handled one at a time the status also follows the     *)
(* legal sequence of the state machine's header.                           *)
(***************************************************************************)
FollowsLegalSequence == Far!LegalSpec

(***************************************************************************)
(* An assignment is perfected only if every required government addressee  *)
(* has really acknowledged, and never on the strength of the parties' rows *)
(* as they were at different times.                                        *)
(***************************************************************************)
PerfectedJustified ==
  status = "perfected" =>
    /\ RequiredRoles(HasSurety) \subseteq acked
    /\ SignerRoles \subseteq signed

(***************************************************************************)
(* A recorded acknowledgement is never taken back by a late or repeated    *)
(* message about somebody else (the webhook overwrites party rows blindly).*)
(***************************************************************************)
AcknowledgementsStick ==
  [][\A r \in AckRoles : party[r] = "acknowledged" => party'[r] = "acknowledged"]_vars

(***************************************************************************)
(* As long as nothing failed, the present status has a row in the          *)
(* transition log, or the process that wrote it is about to insert one.    *)
(***************************************************************************)
InFlight == {TransitionRow(snap[w], next[w]) : w \in {v \in Worker : pc[v] = "writeLog"}}
              \cup {manual[i] : i \in DOMAIN manual}
Logged == {transitions[i] : i \in DOMAIN transitions}

StatusIsLogged ==
  failures = 0 /\ status # "drafted" =>
    \E r \in Logged \cup InFlight : r.new_state = status

(***************************************************************************)
(* The log, with the rows still to be inserted, says nothing false, though *)
(* the UPDATE and the INSERT of a transition are separate statements and   *)
(* the delivery is retried after a crash between them: no row is there     *)
(* twice, no status is entered twice, and every row is a legal move.  (A   *)
(* crash may lose a row: see LogIsHistory.)                                *)
(***************************************************************************)
Rows == Logged \cup InFlight

LogIsSound ==
  /\ \A i, j \in DOMAIN transitions : transitions[i] = transitions[j] => i = j
  /\ Logged \cap InFlight = {}
  /\ \A r, t \in Rows : r.new_state = t.new_state => r = t
  /\ \A r \in Rows : <<r.previous_state, r.new_state>> \in LegalEdge

(***************************************************************************)
(* As long as nothing failed the log is the history of the assignment:     *)
(* exactly one row per change of status, and the rows lead from drafted to *)
(* the present status without a gap or a fork.  (Their order in the table  *)
(* may differ: a webhook can log after the operator it preceded.)          *)
(***************************************************************************)
LogIsHistory ==
  failures = 0 =>
    /\ LogIsSound
    /\ {r.previous_state : r \in Rows}
         = ({"drafted"} \cup {r.new_state : r \in Rows}) \ {status}

(***************************************************************************)
(* No signature is lost: once both signers' rows say signed, the           *)
(* assignment leaves drafted, though the two webhooks that recorded them   *)
(* ran at the same time and either may have crashed before it advanced the *)
(* state (Documenso then redelivers).                                      *)
(***************************************************************************)
SignedIsExecuted ==
  (\A r \in SignerRoles : party[r] = "signed") ~> status # "drafted"

(***************************************************************************)
(* A crash after the acknowledgements were recorded does not lose the      *)
(* perfection: the delivery that was not answered comes back and           *)
(* re-evaluates the assignment.                                            *)
(***************************************************************************)
AllAcked == \A r \in RequiredRoles(HasSurety) : party[r] = "acknowledged"

RetryPerfects ==
  (/\ status \in {"served", "acknowledged"} /\ AllAcked
   /\ \E w \in Worker : pc[w] = "readStatus")
  ~> status \in {"perfected", "terminated", "rejected"}

(***************************************************************************)
(* state-machine.ts:53-55: the API moves an executed assignment to served. *)
(***************************************************************************)
ExecutedIsServed == (status = "executed") ~> (status # "executed")

(***************************************************************************)
(* state-machine.ts:5: executed means contractor and factor both signed.   *)
(***************************************************************************)
ExecutedJustified == status = "executed" => SignerRoles \subseteq signed

(***************************************************************************)
(* state-machine.ts:8-10: perfected is left only by termination or         *)
(* rejection.                                                              *)
(***************************************************************************)
PerfectedStays ==
  [][status = "perfected" => status' \in {"perfected", "terminated", "rejected"}]_status
=============================================================================
