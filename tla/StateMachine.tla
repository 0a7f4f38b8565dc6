---------------------------- MODULE StateMachine ----------------------------
(***************************************************************************)
(* The vocabulary and the pure decision of the assignment state machine:   *)
(* lib/factoring/state-machine.ts and the CHECK constraints of             *)
(* migrations/002_factoring.sql.                                           *)
(***************************************************************************)

Status == {"drafted", "executed", "served", "acknowledged", "perfected",
           "terminated", "rejected"}

SignerRoles == {"contractor_assignor", "factor_assignee"}
AckRoles    == {"contracting_officer", "disbursing_officer", "surety"}
Role        == SignerRoles \cup AckRoles

NoRow        == "no row"   \* a role without an assignment_parties row
NoTransition == "null"     \* evaluateTransition's null

(***************************************************************************)
(* Government addressees whose acknowledgement perfects the assignment.    *)
(***************************************************************************)
RequiredRoles(hasSurety) ==
  {"contracting_officer", "disbursing_officer"}
    \cup (IF hasSurety THEN {"surety"} ELSE {})

AckedOf(party, hasSurety) ==
  {r \in RequiredRoles(hasSurety) : party[r] = "acknowledged"}

AnyAckPerfects(current, party, hasSurety) ==   \* mutant: some() for every()
  LET acked == AckedOf(party, hasSurety)
  IN  CASE /\ current = "drafted"
           /\ \A r \in SignerRoles : party[r] = "signed" -> "executed"
        [] /\ current \in {"served", "acknowledged"}
           /\ acked # {} -> "perfected"
        [] OTHER -> NoTransition

SkipsServed(current, party, hasSurety) ==   \* mutant: acknowledgements count before service
  LET required == RequiredRoles(hasSurety)
      acked    == AckedOf(party, hasSurety)
  IN  CASE /\ current = "drafted"
           /\ \A r \in SignerRoles : party[r] = "signed" -> "executed"
        [] current \in {"executed", "served", "acknowledged"} /\ acked = required -> "perfected"
        [] OTHER -> NoTransition

ReAcknowledges(current, party, hasSurety) ==   \* mutant: no test for "served" on a partial ack
  LET required == RequiredRoles(hasSurety)
      acked    == AckedOf(party, hasSurety)
  IN  CASE /\ current = "drafted"
           /\ \A r \in SignerRoles : party[r] = "signed" -> "executed"
        [] current \in {"served", "acknowledged"} /\ acked = required -> "perfected"
        [] current \in {"served", "acknowledged"} /\ acked \notin {{}, required} -> "acknowledged"
        [] OTHER -> NoTransition

(***************************************************************************)
(* The status the assignment should move to, or NoTransition.              *)
(***************************************************************************)
evaluateTransition(current, party, hasSurety) ==
  LET required == RequiredRoles(hasSurety)
      acked    == AckedOf(party, hasSurety)
  IN  CASE /\ current = "drafted"
           /\ \A r \in SignerRoles : party[r] = "signed" -> "executed"
        [] current \in {"served", "acknowledged"} /\ acked = required -> "perfected"
        [] current = "served" /\ acked \notin {{}, required} -> "acknowledged"
        [] OTHER -> NoTransition

(***************************************************************************)
(* The legal sequence of the module header: the edges a status may take.   *)
(* "any" is read as any status that is not itself final.                   *)
(***************************************************************************)
LegalEdge ==
  {<<"drafted", "executed">>, <<"executed", "served">>,
   <<"served", "acknowledged">>, <<"served", "perfected">>,
   <<"acknowledged", "perfected">>}
    \cup (Status \ {"terminated", "rejected"}) \X {"terminated", "rejected"}
=============================================================================
