------------------------------ MODULE Registry -------------------------------
(***************************************************************************)
(* What onboarding and intake promise, independent of the look-ups the     *)
(* routes make first: a slug and a UEI are given to the first request that *)
(* claims them and never to another; an assignment is taken in once, on    *)
(* the holders of the keys its request named; the journal is written in    *)
(* the same step; and who is told 201 has what he asked for.               *)
(***************************************************************************)
CONSTANTS
  Onboarding, Taking,   \* requests to the two routes
  Slug, Uei, Contract,  \* what they can ask for
  Nothing               \* a column of a body that is empty

VARIABLES
  asked,        \* what each request asks for
  factorOf,     \* the organization that has each slug, as a set
  contractorOf, \* the organization that has each UEI, as a set
  assignments,  \* what has been taken in
  journal,      \* what has been recorded about it
  confirmed     \* requests answered 201

registryVars == <<asked, factorOf, contractorOf, assignments, journal, confirmed>>

NotAsked == [slug |-> Nothing, uei |-> Nothing, contract |-> Nothing]

Init ==
  /\ asked = [r \in Onboarding \cup Taking |-> NotAsked]
  /\ factorOf = [s \in Slug |-> {}]
  /\ contractorOf = [u \in Uei |-> {}]
  /\ assignments = {} /\ journal = {} /\ confirmed = {}

Ask(r, b) ==
  /\ asked[r] = NotAsked
  /\ asked' = [asked EXCEPT ![r] = b]
  /\ UNCHANGED <<factorOf, contractorOf, assignments, journal, confirmed>>

Register(f) ==
  /\ asked[f] # NotAsked
  /\ factorOf[asked[f].slug] = {}
  /\ factorOf' = [factorOf EXCEPT ![asked[f].slug] = {f}]
  /\ journal' = journal \cup {<<"factor.onboarded", f>>}
  /\ UNCHANGED <<asked, contractorOf, assignments, confirmed>>

Enrol(i) ==
  /\ asked[i] # NotAsked
  /\ contractorOf[asked[i].uei] = {}
  /\ contractorOf' = [contractorOf EXCEPT ![asked[i].uei] = {i}]
  /\ UNCHANGED <<asked, factorOf, assignments, journal, confirmed>>

Take(i) ==
  /\ asked[i] # NotAsked
  /\ \A a \in assignments : a.id # i
  /\ \E f \in factorOf[asked[i].slug], c \in contractorOf[asked[i].uei] :
       assignments' = assignments \cup
         {[id |-> i, contractor |-> c, factor |-> f, contract |-> asked[i].contract]}
  /\ journal' = journal \cup {<<"assignment.created", i>>}
  /\ UNCHANGED <<asked, factorOf, contractorOf, confirmed>>

Confirm(r) ==
  /\ asked[r] # NotAsked
  /\ \/ r \in Onboarding /\ factorOf[asked[r].slug] = {r}
     \/ r \in Taking /\ \E a \in assignments : a.id = r
  /\ confirmed' = confirmed \cup {r}
  /\ UNCHANGED <<asked, factorOf, contractorOf, assignments, journal>>

Next ==
  \/ \E f \in Onboarding : Register(f) \/ Confirm(f)
  \/ \E f \in Onboarding, s \in Slug : Ask(f, [NotAsked EXCEPT !.slug = s])
  \/ \E i \in Taking : Enrol(i) \/ Take(i) \/ Confirm(i)
  \/ \E i \in Taking, s \in Slug, u \in Uei, c \in Contract :
       Ask(i, [slug |-> s, uei |-> u, contract |-> c])

RegistrySpec == Init /\ [][Next]_registryVars
=============================================================================
