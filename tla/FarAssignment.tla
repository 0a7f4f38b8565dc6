--------------------------- MODULE FarAssignment ----------------------------
(***************************************************************************)
(* What an assignment of claims promises, independent of how the code      *)
(* reaches it: a status is entered only when the acts FAR 32.805 asks for  *)
(* it have happened (EvidenceSpec), and, when nothing runs concurrently,   *)
(* only along the legal sequence (LegalSpec).                              *)
(***************************************************************************)
EXTENDS StateMachine

VARIABLES
  hasSurety,   \* assignments.has_surety, fixed at intake
  status,      \* assignments.status
  signed,      \* roles that have really signed
  acked        \* roles that have really acknowledged

farVars == <<hasSurety, status, signed, acked>>

(***************************************************************************)
(* The acts that must have happened for the assignment to be in status s.  *)
(***************************************************************************)
BothSigned == SignerRoles \subseteq signed

Justified(s) ==
  /\ s \in {"executed", "served", "acknowledged", "perfected"} => BothSigned
  /\ s = "acknowledged" => acked \cap RequiredRoles(hasSurety) # {}
  /\ s = "perfected"    => RequiredRoles(hasSurety) \subseteq acked

Init ==
  /\ hasSurety \in BOOLEAN
  /\ status = "drafted"
  /\ signed = {}
  /\ acked = {}

Act ==   \* parties sign or acknowledge; acts are never undone
  /\ signed' \in SUBSET Role /\ signed \subseteq signed'
  /\ acked' \in SUBSET Role  /\ acked \subseteq acked'
  /\ UNCHANGED <<hasSurety, status>>

Move(s) ==
  /\ Justified(s)
  /\ status' = s
  /\ UNCHANGED <<hasSurety, signed, acked>>

LegalMove(s) ==
  /\ <<status, s>> \in LegalEdge
  /\ Move(s)

EvidenceSpec == Init /\ [][Act \/ \E s \in Status : Move(s)]_farVars
LegalSpec    == Init /\ [][Act \/ \E s \in Status : LegalMove(s)]_farVars
=============================================================================
