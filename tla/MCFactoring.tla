----------------------------- MODULE MCFactoring -----------------------------
(***************************************************************************)
(* Small instances of FactoringSystem for TLC.                             *)
(***************************************************************************)
EXTENDS FactoringSystem, TLC

CONSTANTS e1

BareIntake == {[has_surety |-> FALSE, email |-> [r \in IntakeRoles |-> NoEmail]]}

(* The signers in one message, the officers in another, or one by one. *)
ShortMail ==
  {[env |-> e1, kind |-> "document.signed", role |-> AnyRecipient],
   [env |-> e1, kind |-> "envelope.acknowledged", role |-> "contracting_officer"],
   [env |-> e1, kind |-> "envelope.acknowledged", role |-> "disbursing_officer"]}

Requests == Permutations(Request)
=============================================================================
