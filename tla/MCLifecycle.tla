----------------------------- MODULE MCLifecycle -----------------------------
(***************************************************************************)
(* Small instances of AssignmentLifecycle for TLC.                         *)
(***************************************************************************)
EXTENDS AssignmentLifecycle, FiniteSets, TLC

CONSTANTS e1, e2, w1, w2, ann, bob, carol, dave

Give(surety, c, co, do, s) ==
  [has_surety |-> surety,
   email |-> ("contractor_assignor" :> c @@ "contracting_officer" :> co
              @@ "disbursing_officer" :> do @@ "surety" :> s)]

(* With a surety and every address given; with none given; no surety bond, *)
(* though a surety's address was sent.                                     *)
FullIntake    == Give(TRUE, ann, bob, carol, dave)
BareIntake    == Give(FALSE, NoEmail, NoEmail, NoEmail, NoEmail)
IgnoredSurety == Give(FALSE, ann, bob, NoEmail, dave)

From(e, r, kind) == [env |-> e, kind |-> kind, role |-> r]
Signature(e, r)  == From(e, r, "document.signed")
Ack(e, r)        == From(e, r, "envelope.acknowledged")

(* Everybody acts on one envelope, each in a message of his own. *)
OneEach(e) == {Signature(e, r) : r \in SignerRoles} \cup {Ack(e, r) : r \in AckRoles}

(* The signers are reported together, the officers one by one; completion *)
(* of the envelope comes last.                                            *)
ConcurrentMail ==
  {Signature(e1, AnyRecipient),
   Ack(e1, "contracting_officer"), Ack(e1, "disbursing_officer"),
   From(e1, AnyRecipient, "document.completed")}

SigningMail ==
  {Signature(e1, "contractor_assignor"), Signature(e1, "factor_assignee"),
   Ack(e1, "contracting_officer")}

(* The signers merely open the document. *)
OpenedMail == {From(e1, r, "other") : r \in SignerRoles}

SerialMail == OneEach(e1)

SerialIntakes == {FullIntake, BareIntake, IgnoredSurety}
PlainIntake  == {BareIntake}
ThreeAddresses == {ann, bob, carol, dave}
Workers == Permutations(Worker)
=============================================================================
