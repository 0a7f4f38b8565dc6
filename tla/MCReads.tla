------------------------------ MODULE MCReads -------------------------------
(***************************************************************************)
(* A small instance of what depends on the assignment's rows while the     *)
(* lifecycle writes them: the disbursement requests, beside one webhook    *)
(* request at a time, or a reader of the assignment's page, beside as many *)
(* as there are.  `part' says which of them a behaviour is about.          *)
(***************************************************************************)
EXTENDS MCFactoring, AssignmentReads

VARIABLE part

partVars == <<part, systemVars, shown>>

(* Bounds of the parts.  A terminated assignment's page highlights no step. *)
OneWebhook      == \A v, w \in Worker : pc[v] # "idle" /\ pc[w] # "idle" => v = w
NeverTerminated == status # "terminated"

PartInit == part \in {"billing", "page"} /\ SystemInit /\ shown = NoPage

Bill == part = "billing" /\ SystemNext /\ OneWebhook' /\ UNCHANGED <<part, shown>>
Page == part = "page" /\ ReaderNext /\ NeverTerminated' /\ UNCHANGED <<part, billingVars>>

PartSpec == PartInit /\ [][Bill \/ Page]_partVars

Interchangeable == Permutations(Request) \cup Permutations(Worker)
=============================================================================
