-------------------------- MODULE AssignmentReads ---------------------------
(***************************************************************************)
(* Somebody opens the assignment's page while it moves                     *)
(* (capital/factor/[assignment_id]/page.tsx).  getAssignmentDetail reads   *)
(* the assignment first and its rows after it, in SELECTs of their own, so *)
(* the page shows rows of different moments.  Parties are never removed    *)
(* and documents only added: the last three SELECTs are taken as one.  The *)
(* log is read but not shown.                                              *)
(***************************************************************************)
EXTENDS AssignmentLifecycle

VARIABLE shown     \* the status a page being built has read, or NoPage

readerVars == <<vars, shown>>

NoPage == "no page"

ReaderInit == Init /\ shown = NoPage

ReadAssignment == shown = NoPage /\ shown' = status /\ UNCHANGED vars

(* The page is rendered from the status read before and the rows there now, *)
(* or a query fails and it says "Assignment not found".                     *)
ReadRows == shown # NoPage /\ shown' = NoPage /\ UNCHANGED vars

ReaderNext == (Next /\ UNCHANGED shown) \/ ReadAssignment \/ ReadRows

ReaderSpec == ReaderInit /\ [][ReaderNext]_readerVars

Timeline == <<"drafted", "executed", "served", "acknowledged", "perfected">>   \* STATE_ORDER

(* The step the timeline highlights: none for a terminated or rejected one. *)
Reached == {k \in DOMAIN Timeline : Timeline[k] = shown}

-----------------------------------------------------------------------------
(***************************************************************************)
(* The page never claims more than it shows (queries.ts:54-76): whatever   *)
(* step the timeline has reached, the rows that may be read beside it      *)
(* account for it, though webhooks write between the reads.  From executed *)
(* on there is a document and both signers have acted; a perfected         *)
(* assignment has the acknowledgement of every addressee.                  *)
(***************************************************************************)
ShownStatusIsBacked ==
  \A k \in Reached :
    /\ k > 1 => /\ \A r \in SignerRoles : party[r] \in {"signed", "acknowledged"}
                /\ \E e \in Envelope : doc[e] # NoRow
    /\ Timeline[k] = "perfected" =>
         \A r \in RequiredRoles(HasSurety) : party[r] = "acknowledged"
=============================================================================
