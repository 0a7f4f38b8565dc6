---------------------------- MODULE IntakeProofs -----------------------------
(***************************************************************************)
(* Proofs about Intake: racing requests share one organization per key,    *)
(* and at most one onboarding of a slug succeeds.                          *)
(***************************************************************************)
EXTENDS Intake, FiniteSetTheorems, TLAPS

(***************************************************************************)
(* A request has a body of its own kind from Post on, and is only at the   *)
(* places of its own route.                                                *)
(***************************************************************************)
BodiesFit ==
  /\ \A f \in Onboarding :
       /\ pc[f] \in {"unused", "guard", "checkSlug", "onboard", "respond", "done"}
       /\ pc[f] # "unused" => body[f].slug \in Slug
  /\ \A i \in Taking :
       /\ pc[i] \notin {"checkSlug", "onboard"}
       /\ pc[i] # "unused" => body[i] \in [slug: Slug, uei: Uei, contract: Contract]

(***************************************************************************)
(* The rows are keyed by slug and by uei, and each is as its own request   *)
(* wrote it.                                                               *)
(***************************************************************************)
KeysUnique ==
  \A o, p \in orgs :
    \/ o.id = p.id
    \/ o.slug = p.slug /\ o.slug # Nothing
    \/ o.uei = p.uei /\ o.uei # Nothing
    => o = p

RowsOwned ==
  \A o \in orgs :
    \/ o.id \in Onboarding /\ o = FactorRow(o.id) /\ pc[o.id] \in {"respond", "done"}
    \/ o.id \in Taking /\ o = ContractorRow(o.id) /\ pc[o.id] \in {"insert", "respond", "done"}

(***************************************************************************)
(* What a request or an assignment relies on is in the table.              *)
(***************************************************************************)
HasFactor(id, b)     == \E o \in BySlug(b.slug) : o.id = id
HasContractor(id, b) == \E o \in ByUei(b.uei) : o.id = id

Onboarded ==
  \A f \in Onboarding : pc[f] = "respond" \/ answer[f] = 201 => FactorRow(f) \in orgs

ConflictsReal ==
  \A f \in Onboarding : answer[f] = 409 => \E o \in BySlug(body[f].slug) : o.id # f

AnsweredDone == \A r \in Request : answer[r] # 0 => pc[r] = "done"

ConfiguredFactors == configured = {o.id : o \in {p \in orgs : p.category = "capital_provider"}}

IntakesFound ==
  \A i \in Taking :
    /\ pc[i] \in {"resolveContractor", "createStub", "insert"} => HasFactor(factor[i], body[i])
    /\ pc[i] = "insert" => HasContractor(contractor[i], body[i])

AssignmentsFound ==
  \A a \in assignments :
    /\ a.id \in Taking /\ pc[a.id] \in {"respond", "done"}
    /\ HasFactor(a.factor, body[a.id])
    /\ HasContractor(a.contractor, body[a.id])

ReferencesHold ==
  Onboarded /\ ConflictsReal /\ AnsweredDone /\ ConfiguredFactors /\ IntakesFound /\ AssignmentsFound

IntakeInv == BodiesFit /\ KeysUnique /\ RowsOwned /\ ReferencesHold
-----------------------------------------------------------------------------
(***************************************************************************)
(* Every place and body fits its route.                                    *)
(***************************************************************************)
LEMMA NextBodiesFit == TypeOK /\ BodiesFit /\ [Next]_vars => BodiesFit'
  <1> SUFFICES ASSUME TypeOK, BodiesFit, [Next]_vars PROVE BodiesFit'
    OBVIOUS
  <1> USE RequestAssumption DEF TypeOK, BodiesFit, Request, GoTo, Answer
  <1>1. ASSUME NEW f \in Onboarding, NEW s \in Slug, Post(f, [NoBody EXCEPT !.slug = s])
        PROVE  BodiesFit'
    BY <1>1 DEF Post, NoBody
  <1>2. ASSUME NEW i \in Taking, NEW s \in Slug, NEW u \in Uei, NEW c \in Contract,
               Post(i, [slug |-> s, uei |-> u, contract |-> c])
        PROVE  BodiesFit'
    BY <1>2 DEF Post
  <1>3. ASSUME NEW r \in Request, Handle(r) \/ Fail(r) PROVE BodiesFit'
    BY <1>3 DEF Handle, Fail, GuardOnboarding, CheckSlug, Onboard, GuardIntake, ResolveFactor,
                ResolveContractor, CreateStub, InsertAssignment, Respond
  <1>4. CASE UNCHANGED vars
    BY <1>4 DEF vars
  <1>5. QED
    BY <1>1, <1>2, <1>3, <1>4 DEF Next

(***************************************************************************)
(* Bodies never change once sent, answers never before the end, and rows   *)
(* are only added.                                                         *)
(***************************************************************************)
LEMMA OnlyAdditions ==
  TypeOK /\ [Next]_vars =>
    /\ orgs \subseteq orgs'
    /\ \A r \in Request : pc[r] # "unused" => body'[r] = body[r] /\ pc'[r] # "unused"
    /\ \A r \in Request : pc[r] \in {"respond", "done"} => pc'[r] \in {"respond", "done"}
    /\ \A r \in Request : pc[r] = "insert" => pc'[r] \in {"insert", "respond", "done"}
  <1> SUFFICES ASSUME TypeOK, [Next]_vars
               PROVE  /\ orgs \subseteq orgs'
                      /\ \A r \in Request :
                           /\ pc[r] # "unused" => body'[r] = body[r] /\ pc'[r] # "unused"
                           /\ pc[r] \in {"respond", "done"} => pc'[r] \in {"respond", "done"}
                           /\ pc[r] = "insert" => pc'[r] \in {"insert", "respond", "done"}
    OBVIOUS
  <1> USE DEF TypeOK, GoTo, Answer, tables, ids
  <1>1. ASSUME NEW r \in Request, NEW b, Post(r, b)
        PROVE  /\ orgs \subseteq orgs'
               /\ \A q \in Request :
                    /\ pc[q] # "unused" => body'[q] = body[q] /\ pc'[q] # "unused"
                    /\ pc[q] \in {"respond", "done"} => pc'[q] \in {"respond", "done"}
                    /\ pc[q] = "insert" => pc'[q] \in {"insert", "respond", "done"}
    BY <1>1 DEF Post
  <1>2. ASSUME NEW r \in Request, Handle(r) \/ Fail(r)
        PROVE  /\ orgs \subseteq orgs'
               /\ body' = body
               /\ \A q \in Request :
                    /\ pc[q] # "unused" => pc'[q] # "unused"
                    /\ pc[q] \in {"respond", "done"} => pc'[q] \in {"respond", "done"}
                    /\ pc[q] = "insert" => pc'[q] \in {"insert", "respond", "done"}
    BY <1>2 DEF Handle, Fail, GuardOnboarding, CheckSlug, Onboard, GuardIntake, ResolveFactor,
                ResolveContractor, CreateStub, InsertAssignment, Respond
  <1>3. CASE UNCHANGED vars
    BY <1>3 DEF vars
  <1>4. QED
    BY <1>1, <1>2, <1>3 DEF Next, Request

(***************************************************************************)
(* UNIQUE (slug), UNIQUE (uei): the two inserts look before they add.      *)
(***************************************************************************)
LEMMA NextKeysUnique ==
  TypeOK /\ BodiesFit /\ KeysUnique /\ RowsOwned /\ [Next]_vars => KeysUnique'
  <1> SUFFICES ASSUME TypeOK, BodiesFit, KeysUnique, RowsOwned, [Next]_vars PROVE KeysUnique'
    OBVIOUS
  <1>1. ASSUME NEW f \in Request, Onboard(f), ~SlugTaken(f) PROVE KeysUnique'
    <2>1. f \in Onboarding /\ pc[f] = "onboard"
      BY <1>1 DEF Onboard, BodiesFit, Request
    <2>2. orgs' = orgs \cup {FactorRow(f)}
      BY <1>1 DEF Onboard
    <2>3. \A o \in orgs : o.id # f /\ o.slug # body[f].slug
      BY <1>1, <2>1 DEF RowsOwned, SlugTaken
    <2>4. FactorRow(f).id = f /\ FactorRow(f).slug = body[f].slug /\ FactorRow(f).uei = Nothing
      BY DEF FactorRow
    <2>5. QED
      BY <2>2, <2>3, <2>4 DEF KeysUnique
  <1>2. ASSUME NEW i \in Request, CreateStub(i), ByUei(body[i].uei) = {} PROVE KeysUnique'
    <2>1. i \in Taking /\ pc[i] = "createStub"
      BY <1>2 DEF CreateStub, BodiesFit, Request
    <2>2. orgs' = orgs \cup {ContractorRow(i)}
      BY <1>2 DEF CreateStub
    <2>3. \A o \in orgs : o.id # i /\ o.uei # body[i].uei
      BY <1>2, <2>1 DEF RowsOwned, ByUei
    <2>4. /\ ContractorRow(i).id = i /\ ContractorRow(i).uei = body[i].uei
          /\ ContractorRow(i).slug = Nothing
      BY DEF ContractorRow
    <2>5. QED
      BY <2>2, <2>3, <2>4 DEF KeysUnique
  <1>3. CASE orgs' = orgs
    BY <1>3 DEF KeysUnique
  <1>4. QED
    BY <1>1, <1>2, <1>3
       DEF Next, vars, tables, Handle, Post, Fail, GuardOnboarding, CheckSlug, Onboard,
           GuardIntake, ResolveFactor, ResolveContractor, CreateStub, InsertAssignment, Respond

(***************************************************************************)
(* A row stays as its request wrote it.                                    *)
(***************************************************************************)
LEMMA NextRowsOwned ==
  TypeOK /\ BodiesFit /\ RowsOwned /\ [Next]_vars => RowsOwned'
  <1> SUFFICES ASSUME TypeOK, BodiesFit, RowsOwned, [Next]_vars PROVE RowsOwned'
    OBVIOUS
  <1>1. ASSUME NEW o \in orgs
        PROVE  \/ /\ o.id \in Onboarding /\ o = FactorRow(o.id)'
                  /\ pc'[o.id] \in {"respond", "done"}
               \/ /\ o.id \in Taking /\ o = ContractorRow(o.id)'
                  /\ pc'[o.id] \in {"insert", "respond", "done"}
    <2>1. CASE o.id \in Onboarding /\ o = FactorRow(o.id) /\ pc[o.id] \in {"respond", "done"}
      <3>1. body'[o.id] = body[o.id] /\ pc'[o.id] \in {"respond", "done"}
        BY <2>1, OnlyAdditions DEF Request
      <3>2. FactorRow(o.id)' = FactorRow(o.id)
        BY <3>1 DEF FactorRow
      <3>3. QED
        BY <2>1, <3>1, <3>2
    <2>2. CASE /\ o.id \in Taking /\ o = ContractorRow(o.id)
               /\ pc[o.id] \in {"insert", "respond", "done"}
      <3>1. body'[o.id] = body[o.id] /\ pc'[o.id] \in {"insert", "respond", "done"}
        BY <2>2, OnlyAdditions DEF Request
      <3>2. ContractorRow(o.id)' = ContractorRow(o.id)
        BY <3>1 DEF ContractorRow
      <3>3. QED
        BY <2>2, <3>1, <3>2
    <2>3. QED
      BY <2>1, <2>2 DEF RowsOwned
  <1>2. ASSUME NEW f \in Request, Onboard(f), ~SlugTaken(f) PROVE RowsOwned'
    <2>1. f \in Onboarding /\ orgs' = orgs \cup {FactorRow(f)} /\ body' = body
      BY <1>2 DEF Onboard, BodiesFit, Request
    <2>2. pc'[f] = "respond"
      BY <1>2 DEF Onboard, GoTo, TypeOK
    <2>3. FactorRow(f).id = f /\ FactorRow(f)' = FactorRow(f)
      BY <2>1 DEF FactorRow
    <2>4. QED
      BY <1>1, <2>1, <2>2, <2>3 DEF RowsOwned
  <1>3. ASSUME NEW i \in Request, CreateStub(i), ByUei(body[i].uei) = {} PROVE RowsOwned'
    <2>1. i \in Taking /\ orgs' = orgs \cup {ContractorRow(i)} /\ body' = body
      BY <1>3 DEF CreateStub, BodiesFit, Request
    <2>2. pc'[i] = "insert"
      BY <1>3 DEF CreateStub, GoTo, TypeOK
    <2>3. ContractorRow(i).id = i /\ ContractorRow(i)' = ContractorRow(i)
      BY <2>1 DEF ContractorRow
    <2>4. QED
      BY <1>1, <2>1, <2>2, <2>3 DEF RowsOwned
  <1>4. CASE orgs' = orgs
    BY <1>1, <1>4 DEF RowsOwned
  <1>5. QED
    BY <1>2, <1>3, <1>4
       DEF Next, vars, tables, Handle, Post, Fail, GuardOnboarding, CheckSlug, Onboard,
           GuardIntake, ResolveFactor, ResolveContractor, CreateStub, InsertAssignment, Respond

(***************************************************************************)
(* The row with a UEI is a contractor's stub, and an id found by slug is an *)
(* onboarding's.                                                           *)
(***************************************************************************)
LEMMA KeysOfRows ==
  ASSUME RowsOwned, NEW o \in orgs
  PROVE  /\ o.uei # Nothing => o.id \in Taking /\ o = ContractorRow(o.id)
         /\ o.category = "capital_provider" => o.id \in Onboarding /\ o = FactorRow(o.id)
  BY DEF RowsOwned, FactorRow, ContractorRow

(***************************************************************************)
(* Type correctness of a step.                                             *)
(***************************************************************************)
LEMMA NextTypeOK ==
  TypeOK /\ BodiesFit /\ RowsOwned /\ ReferencesHold /\ [Next]_vars => TypeOK'
  <1> SUFFICES ASSUME TypeOK, BodiesFit, RowsOwned, ReferencesHold, [Next]_vars PROVE TypeOK'
    OBVIOUS
  <1> USE RequestAssumption, KeyAssumption, FailureAssumption
          DEF TypeOK, Request, GoTo, Answer, tables, ids, Place
  <1>1. ASSUME NEW f \in Onboarding, NEW s \in Slug, Post(f, [NoBody EXCEPT !.slug = s])
        PROVE  TypeOK'
    BY <1>1 DEF Post, NoBody, Body
  <1>2. ASSUME NEW i \in Taking, NEW s \in Slug, NEW u \in Uei, NEW c \in Contract,
               Post(i, [slug |-> s, uei |-> u, contract |-> c])
        PROVE  TypeOK'
    BY <1>2 DEF Post, Body
  <1>3. ASSUME NEW r \in Request,
               \/ GuardOnboarding(r) \/ CheckSlug(r) \/ GuardIntake(r) \/ Respond(r) \/ Fail(r)
        PROVE  TypeOK'
    BY <1>3 DEF GuardOnboarding, CheckSlug, GuardIntake, Respond, Fail
  <1>4. ASSUME NEW f \in Request, Onboard(f) PROVE TypeOK'
    <2>1. f \in Onboarding /\ body[f].slug \in Slug
      BY <1>4 DEF Onboard, BodiesFit
    <2>2. QED
      BY <1>4, <2>1 DEF Onboard, FactorRow
  <1>5. ASSUME NEW i \in Request, ResolveFactor(i) PROVE TypeOK'
    <2>1. PICK o \in BySlug(body[i].slug) : factor' = [factor EXCEPT ![i] = o.id]
      BY <1>5 DEF ResolveFactor
    <2>2. o.id \in Onboarding
      BY <2>1, KeysOfRows DEF BySlug
    <2>3. QED
      BY <1>5, <2>1, <2>2 DEF ResolveFactor
  <1>6. ASSUME NEW i \in Request, ResolveContractor(i) PROVE TypeOK'
    <2>1. i \in Taking /\ body[i].uei \in Uei
      BY <1>6 DEF ResolveContractor, BodiesFit
    <2>2. \A o \in ByUei(body[i].uei) : o.id \in Taking
      BY <2>1, KeysOfRows DEF ByUei
    <2>3. contractor' \in [Request -> Taking \cup {Nothing}]
      BY <1>6, <2>2 DEF ResolveContractor
    <2>4. QED
      BY <1>6, <2>3 DEF ResolveContractor
  <1>7. ASSUME NEW i \in Request, CreateStub(i) PROVE TypeOK'
    <2>1. i \in Taking /\ body[i].uei \in Uei
      BY <1>7 DEF CreateStub, BodiesFit
    <2>2. QED
      BY <1>7, <2>1 DEF CreateStub, ContractorRow
  <1>8. ASSUME NEW i \in Request, InsertAssignment(i) PROVE TypeOK'
    <2>1. i \in Taking /\ body[i].uei \in Uei /\ body[i].contract \in Contract
      BY <1>8 DEF InsertAssignment, BodiesFit
    <2>2. HasFactor(factor[i], body[i]) /\ HasContractor(contractor[i], body[i])
      BY <1>8, <2>1 DEF InsertAssignment, ReferencesHold, IntakesFound
    <2>3. factor[i] \in Onboarding /\ contractor[i] \in Taking
      BY <2>1, <2>2, KeysOfRows DEF HasFactor, HasContractor, BySlug, ByUei
    <2>4. QED
      BY <1>8, <2>1, <2>3 DEF InsertAssignment, AssignmentRow
  <1>9. CASE UNCHANGED vars
    BY <1>9 DEF vars
  <1>10. QED
    BY <1>1, <1>2, <1>3, <1>4, <1>5, <1>6, <1>7, <1>8, <1>9 DEF Next, Handle

(***************************************************************************)
(* Rows stay found under the keys they were found by.                      *)
(***************************************************************************)
LEMMA FoundStaysFound ==
  ASSUME TypeOK, [Next]_vars, NEW id, NEW r \in Request, pc[r] # "unused"
  PROVE  /\ HasFactor(id, body[r]) => HasFactor(id, body[r])'
         /\ HasContractor(id, body[r]) => HasContractor(id, body[r])'
  <1>1. orgs \subseteq orgs' /\ body'[r] = body[r]
    BY OnlyAdditions
  <1>2. QED
    BY <1>1 DEF HasFactor, HasContractor, BySlug, ByUei

(***************************************************************************)
(* A step is a request sent, a statement of a request, or a failure.       *)
(***************************************************************************)
LEMMA KindsOfSteps ==
  [Next]_vars => \/ \E r \in Request : \E b : Post(r, b)
                 \/ \E r \in Request : Handle(r) \/ Fail(r)
                 \/ UNCHANGED vars
  BY DEF Next, Request

(***************************************************************************)
(* Only Respond answers 201, and only CheckSlug answers 409.               *)
(***************************************************************************)
LEMMA Answers ==
  ASSUME TypeOK, BodiesFit, AnsweredDone, [Next]_vars, NEW f \in Onboarding
  PROVE  /\ answer'[f] = 201 => answer[f] = 201 \/ pc[f] = "respond"
         /\ answer'[f] = 409 => \/ answer[f] = 409
                               \/ (CheckSlug(f) /\ \E o \in orgs : o.slug = body[f].slug)
         /\ pc'[f] = "respond" => pc[f] = "respond" \/ (Onboard(f) /\ FactorRow(f) \in orgs')
  <1>1. ASSUME NEW r \in Request, NEW b, Post(r, b)
        PROVE  answer'[f] = answer[f] /\ (pc'[f] = "respond" => pc[f] = "respond")
    BY <1>1 DEF Post, GoTo, TypeOK
  <1>2. ASSUME NEW r \in Request, Handle(r) \/ Fail(r), r # f
        PROVE  answer'[f] = answer[f] /\ pc'[f] = pc[f]
    BY <1>2 DEF Handle, Fail, GuardOnboarding, CheckSlug, Onboard, GuardIntake, ResolveFactor,
                ResolveContractor, CreateStub, InsertAssignment, Respond, Request, GoTo, Answer,
                TypeOK
  <1>3. ASSUME Handle(f) \/ Fail(f)
        PROVE  /\ answer'[f] = 201 => answer[f] = 201 \/ pc[f] = "respond"
               /\ answer'[f] = 409 => \/ answer[f] = 409
                                     \/ (CheckSlug(f) /\ \E o \in orgs : o.slug = body[f].slug)
               /\ pc'[f] = "respond" => pc[f] = "respond" \/ (Onboard(f) /\ FactorRow(f) \in orgs')
    <2>1. f \in Request /\ f \notin Taking
      BY RequestAssumption DEF Request
    <2> USE DEF TypeOK, GoTo, Answer, tables, ids
    <2>2. CASE GuardOnboarding(f) \/ Fail(f) \/ Respond(f)
      BY <2>1, <2>2 DEF GuardOnboarding, Fail, Respond
    <2>3. CASE CheckSlug(f)
      BY <2>1, <2>3 DEF CheckSlug
    <2>4. CASE Onboard(f)
      BY <2>1, <2>4 DEF Onboard
    <2>5. pc[f] \in {"unused", "guard", "checkSlug", "onboard", "respond", "done"}
      BY DEF BodiesFit
    <2>6. QED
      BY <1>3, <2>1, <2>2, <2>3, <2>4, <2>5
         DEF Handle, GuardIntake, ResolveFactor, ResolveContractor, CreateStub, InsertAssignment
  <1>4. CASE UNCHANGED vars
    BY <1>4 DEF vars
  <1>5. QED
    BY <1>1, <1>2, <1>3, <1>4, KindsOfSteps

(***************************************************************************)
(* Whoever is answered 201 has his row.                                    *)
(***************************************************************************)
LEMMA NextOnboarded ==
  TypeOK /\ BodiesFit /\ ReferencesHold /\ [Next]_vars => Onboarded'
  <1> SUFFICES ASSUME TypeOK, BodiesFit, ReferencesHold, [Next]_vars,
                      NEW f \in Onboarding, pc'[f] = "respond" \/ answer'[f] = 201
               PROVE  FactorRow(f)' \in orgs'
    BY DEF Onboarded
  <1>1. f \in Request
    BY DEF Request
  <1>2. CASE pc[f] = "respond" \/ answer[f] = 201
    <2>1. FactorRow(f) \in orgs /\ pc[f] # "unused"
      BY <1>1, <1>2 DEF ReferencesHold, Onboarded, AnsweredDone
    <2>2. body'[f] = body[f] /\ orgs \subseteq orgs'
      BY <1>1, <2>1, OnlyAdditions
    <2>3. QED
      BY <2>1, <2>2 DEF FactorRow
  <1>3. CASE Onboard(f) /\ FactorRow(f) \in orgs'
    BY <1>3 DEF Onboard, FactorRow
  <1>4. QED
    BY <1>2, <1>3, Answers DEF ReferencesHold

(***************************************************************************)
(* A 409 is about an organization another request created: a request that  *)
(* is still checking has none.                                             *)
(***************************************************************************)
LEMMA NextConflictsReal ==
  TypeOK /\ BodiesFit /\ RowsOwned /\ ReferencesHold /\ [Next]_vars => ConflictsReal'
  <1> SUFFICES ASSUME TypeOK, BodiesFit, RowsOwned, ReferencesHold, [Next]_vars,
                      NEW f \in Onboarding, answer'[f] = 409
               PROVE  (\E o \in BySlug(body[f].slug) : o.id # f)'
    BY DEF ConflictsReal
  <1>1. f \in Request
    BY DEF Request
  <1>2. PICK o \in BySlug(body[f].slug) : o.id # f
    <2>1. CASE answer[f] = 409
      BY <2>1 DEF ReferencesHold, ConflictsReal
    <2>2. CASE CheckSlug(f) /\ \E o \in orgs : o.slug = body[f].slug
      <3>1. pc[f] = "checkSlug" /\ body[f].slug \in Slug
        BY <2>2 DEF CheckSlug, BodiesFit
      <3>2. PICK o \in orgs : o.slug = body[f].slug
        BY <2>2
      <3>3. o.id \in Onboarding /\ o = FactorRow(o.id) /\ o.id # f
        BY <3>1, <3>2, KeyAssumption DEF RowsOwned, ContractorRow
      <3>4. QED
        BY <3>2, <3>3 DEF BySlug, FactorRow
    <2>3. QED
      BY <2>1, <2>2, Answers DEF ReferencesHold
  <1>3. pc[f] # "unused"
    BY <1>1, Answers DEF ReferencesHold, AnsweredDone, CheckSlug
  <1>4. body'[f] = body[f] /\ orgs \subseteq orgs'
    BY <1>1, <1>3, OnlyAdditions
  <1>5. QED
    BY <1>2, <1>4 DEF BySlug

(***************************************************************************)
(* An answer ends the request.                                             *)
(***************************************************************************)
LEMMA NextAnsweredDone == TypeOK /\ AnsweredDone /\ [Next]_vars => AnsweredDone'
  <1> SUFFICES ASSUME TypeOK, AnsweredDone, [Next]_vars PROVE AnsweredDone'
    OBVIOUS
  <1> USE DEF AnsweredDone, TypeOK, GoTo, Answer
  <1>1. ASSUME NEW r \in Request, NEW b, Post(r, b) PROVE AnsweredDone'
    BY <1>1 DEF Post
  <1>2. ASSUME NEW r \in Request, Handle(r) \/ Fail(r) PROVE AnsweredDone'
    BY <1>2 DEF Handle, Fail, GuardOnboarding, CheckSlug, Onboard, GuardIntake, ResolveFactor,
                ResolveContractor, CreateStub, InsertAssignment, Respond
  <1>3. CASE UNCHANGED vars
    BY <1>3 DEF vars
  <1>4. QED
    BY <1>1, <1>2, <1>3 DEF Next, Request

(***************************************************************************)
(* A factor and its configuration are written together.                    *)
(***************************************************************************)
LEMMA NextConfiguredFactors == ConfiguredFactors /\ [Next]_vars => ConfiguredFactors'
  <1> SUFFICES ASSUME ConfiguredFactors, [Next]_vars PROVE ConfiguredFactors'
    OBVIOUS
  <1>1. CASE UNCHANGED <<orgs, configured>>
    BY <1>1 DEF ConfiguredFactors
  <1>2. ASSUME NEW f, orgs' = orgs \cup {FactorRow(f)}, configured' = configured \cup {f}
        PROVE  ConfiguredFactors'
    <2>1. FactorRow(f).id = f /\ FactorRow(f).category = "capital_provider"
      BY DEF FactorRow
    <2>2. QED
      BY <1>2, <2>1 DEF ConfiguredFactors
  <1>3. ASSUME NEW i, orgs' = orgs \cup {ContractorRow(i)}, configured' = configured
        PROVE  ConfiguredFactors'
    <2>1. ContractorRow(i).category = "contractor"
      BY DEF ContractorRow
    <2>2. QED
      BY <1>3, <2>1 DEF ConfiguredFactors
  <1>4. QED
    BY <1>1, <1>2, <1>3
       DEF Next, vars, tables, Handle, Post, Fail, GuardOnboarding, CheckSlug, Onboard,
           GuardIntake, ResolveFactor, ResolveContractor, CreateStub, InsertAssignment, Respond

(***************************************************************************)
(* An intake moves on with ids it has found or inserted.                   *)
(***************************************************************************)
LEMMA NextIntakesFound ==
  TypeOK /\ BodiesFit /\ IntakesFound /\ [Next]_vars => IntakesFound'
  <1> SUFFICES ASSUME TypeOK, BodiesFit, IntakesFound, [Next]_vars, NEW i \in Taking
               PROVE  /\ pc'[i] \in {"resolveContractor", "createStub", "insert"}
                            => HasFactor(factor[i], body[i])'
                      /\ pc'[i] = "insert" => HasContractor(contractor[i], body[i])'
    BY DEF IntakesFound
  <1>1. i \in Request
    BY DEF Request
  <1>2. CASE factor'[i] = factor[i] /\ contractor'[i] = contractor[i] /\ pc'[i] = pc[i]
    <2>1. CASE pc[i] = "unused"
      BY <1>2, <2>1
    <2>2. CASE pc[i] # "unused"
      BY <1>1, <1>2, <2>2, FoundStaysFound DEF IntakesFound, HasFactor, HasContractor
    <2>3. QED
      BY <2>1, <2>2
  <1>3. CASE ResolveFactor(i)
    <2>1. PICK o \in BySlug(body[i].slug) : factor'[i] = o.id
      BY <1>1, <1>3 DEF ResolveFactor, TypeOK
    <2>2. orgs' = orgs /\ body' = body /\ pc'[i] = "resolveContractor"
      BY <1>1, <1>3 DEF ResolveFactor, tables, GoTo, TypeOK
    <2>3. QED
      BY <2>1, <2>2 DEF HasFactor, BySlug
  <1>4. CASE ResolveContractor(i)
    <2>1. orgs' = orgs /\ body' = body /\ factor' = factor /\ HasFactor(factor[i], body[i])
      BY <1>4 DEF ResolveContractor, tables, IntakesFound
    <2>2. pc'[i] = "insert" => \E o \in ByUei(body[i].uei) : contractor'[i] = o.id
      BY <1>1, <1>4 DEF ResolveContractor, TypeOK, GoTo
    <2>3. QED
      BY <2>1, <2>2 DEF HasFactor, HasContractor, BySlug, ByUei
  <1>5. CASE CreateStub(i)
    <2>1. HasFactor(factor[i], body[i])'
      <3>1. HasFactor(factor[i], body[i]) /\ pc[i] # "unused"
        BY <1>5 DEF CreateStub, IntakesFound
      <3>2. orgs \subseteq orgs' /\ body' = body /\ factor' = factor
        BY <1>5 DEF CreateStub
      <3>3. QED
        BY <3>1, <3>2 DEF HasFactor, BySlug
    <2>2. CASE ByUei(body[i].uei) # {}
      BY <1>1, <1>5, <2>1, <2>2 DEF CreateStub, Answer, GoTo, TypeOK
    <2>3. CASE ByUei(body[i].uei) = {}
      <3>1. ContractorRow(i) \in orgs' /\ body' = body /\ contractor'[i] = i
        BY <1>1, <1>5, <2>3 DEF CreateStub, TypeOK
      <3>2. ContractorRow(i).id = i /\ ContractorRow(i).uei = body[i].uei
        BY DEF ContractorRow
      <3>3. QED
        BY <2>1, <3>1, <3>2 DEF HasContractor, ByUei
    <2>4. QED
      BY <2>2, <2>3
  <1>6. CASE pc'[i] \notin {"resolveContractor", "createStub", "insert"}
    BY <1>6
  <1>7. QED
    <2>1. ASSUME NEW r \in Request, NEW b, Post(r, b)
          PROVE  \/ factor'[i] = factor[i] /\ contractor'[i] = contractor[i] /\ pc'[i] = pc[i]
                 \/ pc'[i] = "guard"
      <3>1. factor' = factor /\ contractor' = contractor
        BY <2>1 DEF Post, ids
      <3>2. pc'[i] = pc[i] \/ pc'[i] = "guard"
        <4>1. pc' = [pc EXCEPT ![r] = "guard"] /\ pc \in [Request -> Place]
          BY <2>1 DEF Post, GoTo, TypeOK
        <4>2. QED
          BY <1>1, <4>1
      <3>3. QED
        BY <3>1, <3>2
    <2> USE DEF TypeOK, GoTo, Answer, tables, ids
    <2>2. ASSUME NEW r \in Request, Handle(r) \/ Fail(r), r # i
          PROVE  factor'[i] = factor[i] /\ contractor'[i] = contractor[i] /\ pc'[i] = pc[i]
      BY <1>1, <2>2
         DEF Handle, Fail, GuardOnboarding, CheckSlug, Onboard, GuardIntake, ResolveFactor,
             ResolveContractor, CreateStub, InsertAssignment, Respond
    <2>3. ASSUME Handle(i) \/ Fail(i)
          PROVE  \/ ResolveFactor(i) \/ ResolveContractor(i) \/ CreateStub(i)
                 \/ pc'[i] \notin {"resolveContractor", "createStub", "insert"}
      BY <1>1, <2>3
         DEF Handle, Fail, GuardOnboarding, CheckSlug, Onboard, GuardIntake, InsertAssignment,
             Respond
    <2>4. CASE UNCHANGED vars
      BY <1>2, <2>4 DEF vars
    <2>5. QED
      BY <2>1, <2>2, <2>3, <2>4, <1>2, <1>3, <1>4, <1>5, <1>6, KindsOfSteps

(***************************************************************************)
(* An assignment's factor and contractor are the organizations its intake  *)
(* named.                                                                  *)
(***************************************************************************)
LEMMA NextAssignmentsFound ==
  TypeOK /\ BodiesFit /\ IntakesFound /\ AssignmentsFound /\ [Next]_vars => AssignmentsFound'
  <1> SUFFICES ASSUME TypeOK, BodiesFit, IntakesFound, AssignmentsFound, [Next]_vars
               PROVE  AssignmentsFound'
    OBVIOUS
  <1>1. ASSUME NEW a \in assignments
        PROVE  /\ a.id \in Taking /\ pc'[a.id] \in {"respond", "done"}
               /\ HasFactor(a.factor, body[a.id])'
               /\ HasContractor(a.contractor, body[a.id])'
    <2>1. /\ a.id \in Taking /\ pc[a.id] \in {"respond", "done"}
          /\ HasFactor(a.factor, body[a.id])
          /\ HasContractor(a.contractor, body[a.id])
      BY DEF AssignmentsFound
    <2>2. a.id \in Request /\ pc'[a.id] \in {"respond", "done"}
      BY <2>1, OnlyAdditions DEF Request
    <2>3. orgs \subseteq orgs' /\ body'[a.id] = body[a.id]
      BY <2>1, <2>2, OnlyAdditions
    <2>4. QED
      BY <2>1, <2>2, <2>3 DEF HasFactor, HasContractor, BySlug, ByUei
  <1>2. ASSUME NEW i \in Request, InsertAssignment(i) PROVE AssignmentsFound'
    <2>1. i \in Taking /\ assignments' = assignments \cup {AssignmentRow(i)}
      BY <1>2 DEF InsertAssignment, BodiesFit, Request
    <2>2. HasFactor(factor[i], body[i]) /\ HasContractor(contractor[i], body[i])
      BY <1>2, <2>1 DEF InsertAssignment, IntakesFound
    <2>3. orgs' = orgs /\ body' = body /\ pc'[i] = "respond"
      BY <1>2 DEF InsertAssignment, GoTo, TypeOK
    <2>4. /\ AssignmentRow(i).id = i /\ AssignmentRow(i).factor = factor[i]
          /\ AssignmentRow(i).contractor = contractor[i]
      BY DEF AssignmentRow
    <2>5. \A id : /\ HasFactor(id, body[i]) => HasFactor(id, body[i])'
                  /\ HasContractor(id, body[i]) => HasContractor(id, body[i])'
      BY <2>3 DEF HasFactor, HasContractor, BySlug, ByUei
    <2>6. QED
      BY <1>1, <2>1, <2>2, <2>3, <2>4, <2>5 DEF AssignmentsFound
  <1>3. CASE assignments' = assignments
    BY <1>1, <1>3 DEF AssignmentsFound
  <1>4. QED
    BY <1>2, <1>3
       DEF Next, vars, tables, Handle, Post, Fail, GuardOnboarding, CheckSlug, Onboard,
           GuardIntake, ResolveFactor, ResolveContractor, CreateStub, InsertAssignment, Respond
-----------------------------------------------------------------------------
(***************************************************************************)
(* The invariant holds before the first request.                           *)
(***************************************************************************)
LEMMA InitIntakeInv == Init => TypeOK /\ IntakeInv
  <1> SUFFICES ASSUME Init PROVE TypeOK /\ IntakeInv
    OBVIOUS
  <1> USE DEF Init
  <1>1. TypeOK
    BY RequestAssumption, KeyAssumption, FailureAssumption DEF TypeOK, Place
  <1>2. BodiesFit /\ KeysUnique /\ RowsOwned
    BY DEF BodiesFit, KeysUnique, RowsOwned, Request
  <1>3. ReferencesHold
    BY DEF ReferencesHold, Onboarded, ConflictsReal, AnsweredDone, ConfiguredFactors,
           IntakesFound, AssignmentsFound, Request
  <1>4. QED
    BY <1>1, <1>2, <1>3 DEF IntakeInv

(***************************************************************************)
(* The inductive invariant of the two routes, for any number of requests:  *)
(* rows belong to the request that wrote them, keys are unique, and every  *)
(* id a request carries or an assignment stores is in the table under the  *)
(* key it was found by (factors/route.ts:73-105, assignments/route.ts:     *)
(* 83-178).                                                                *)
(***************************************************************************)
THEOREM IntakeInvariant == Spec => [](TypeOK /\ IntakeInv)
  <1>1. TypeOK /\ IntakeInv /\ [Next]_vars => (TypeOK /\ IntakeInv)'
    <2> SUFFICES ASSUME TypeOK, IntakeInv, [Next]_vars PROVE TypeOK' /\ IntakeInv'
      OBVIOUS
    <2>1. TypeOK'
      BY NextTypeOK DEF IntakeInv
    <2>2. BodiesFit' /\ KeysUnique' /\ RowsOwned'
      BY NextBodiesFit, NextKeysUnique, NextRowsOwned DEF IntakeInv
    <2>3. Onboarded' /\ ConflictsReal' /\ AnsweredDone' /\ ConfiguredFactors'
      BY NextOnboarded, NextConflictsReal, NextAnsweredDone, NextConfiguredFactors
         DEF IntakeInv, ReferencesHold
    <2>4. IntakesFound' /\ AssignmentsFound'
      BY NextIntakesFound, NextAssignmentsFound DEF IntakeInv, ReferencesHold
    <2>5. QED
      BY <2>1, <2>2, <2>3, <2>4 DEF IntakeInv, ReferencesHold
  <1>2. QED
    BY <1>1, InitIntakeInv, PTL DEF Spec

(***************************************************************************)
(* The types of the tables and of the requests, in every behaviour.        *)
(***************************************************************************)
THEOREM IntakeTypeCorrect == Spec => []TypeOK
  BY IntakeInvariant, PTL

(***************************************************************************)
(* Of any number of concurrent onboardings of a slug at most one is        *)
(* answered 201, and a 409 is about an organization another one created:   *)
(* the look-up may be stale, the UNIQUE column and the transaction are not *)
(* (factors/route.ts:61-105).                                              *)
(***************************************************************************)
THEOREM DuplicatesNeverCreate == Spec => []DuplicateNeverCreates
  <1>1. TypeOK /\ IntakeInv => DuplicateNeverCreates
    <2> SUFFICES ASSUME TypeOK, IntakeInv PROVE DuplicateNeverCreates
      OBVIOUS
    <2> USE DEF IntakeInv, ReferencesHold
    <2>1. ASSUME NEW f \in Onboarding, NEW g \in Onboarding,
                 answer[f] = 201, answer[g] = 201, body[f].slug = body[g].slug
          PROVE  f = g
      <3>1. FactorRow(f) \in orgs /\ FactorRow(g) \in orgs
        BY <2>1 DEF Onboarded
      <3>2. body[f].slug # Nothing
        <4>1. pc[f] # "unused"
          BY <2>1 DEF AnsweredDone, Request
        <4>2. QED
          BY <4>1, KeyAssumption DEF BodiesFit
      <3>3. FactorRow(f) = FactorRow(g)
        BY <2>1, <3>1, <3>2 DEF KeysUnique, FactorRow
      <3>4. QED
        BY <3>3 DEF FactorRow
    <2>2. QED
      BY <2>1 DEF DuplicateNeverCreates, Onboarded, ConflictsReal, ConfiguredFactors
  <1>2. QED
    BY <1>1, IntakeInvariant, PTL

(***************************************************************************)
(* Intakes that race to create the contractor of one UEI end up with the   *)
(* same organization, whatever fails between the stub and the transaction  *)
(* (assignments/route.ts:83-178).                                          *)
(***************************************************************************)
THEOREM IntakesShareContractor == Spec => []SameContractor
  <1>1. TypeOK /\ IntakeInv => SameContractor
    <2> SUFFICES ASSUME TypeOK, IntakeInv, NEW a \in assignments
                 PROVE  /\ ByUei(body[a.id].uei) = {o \in orgs : o.id = a.contractor}
                        /\ BySlug(body[a.id].slug) = {o \in orgs : o.id = a.factor}
      BY DEF SameContractor
    <2> USE DEF IntakeInv, ReferencesHold
    <2>1. /\ a.id \in Taking /\ pc[a.id] # "unused"
          /\ HasFactor(a.factor, body[a.id])
          /\ HasContractor(a.contractor, body[a.id])
      BY DEF AssignmentsFound
    <2>2. body[a.id].slug # Nothing /\ body[a.id].uei # Nothing
      BY <2>1, KeyAssumption DEF BodiesFit
    <2>3. ByUei(body[a.id].uei) = {o \in orgs : o.id = a.contractor}
      <3>1. PICK c \in orgs : c.uei = body[a.id].uei /\ c.id = a.contractor
        BY <2>1 DEF HasContractor, ByUei
      <3>2. \A o \in orgs : o.uei = body[a.id].uei <=> o.id = a.contractor
        BY <2>2, <3>1 DEF KeysUnique
      <3>3. QED
        BY <3>2 DEF ByUei
    <2>4. BySlug(body[a.id].slug) = {o \in orgs : o.id = a.factor}
      <3>1. PICK c \in orgs : /\ c.slug = body[a.id].slug /\ c.category = "capital_provider"
                              /\ c.id = a.factor
        BY <2>1 DEF HasFactor, BySlug
      <3>2. \A o \in orgs :
              o.slug = body[a.id].slug /\ o.category = "capital_provider" <=> o.id = a.factor
        BY <2>2, <3>1 DEF KeysUnique
      <3>3. QED
        BY <3>2 DEF BySlug
    <2>5. QED
      BY <2>3, <2>4
  <1>2. QED
    BY <1>1, IntakeInvariant, PTL
-----------------------------------------------------------------------------
(***************************************************************************)
(* The contractors nobody uses: finitely many, and no more than failures.  *)
(***************************************************************************)
Unused == {o \in orgs : o.category = "contractor" /\ o.id \notin Used}

UnusedInv == IsFiniteSet(Unused) /\ Cardinality(Unused) <= failures

(***************************************************************************)
(* One unused contractor more is one failure more.                         *)
(***************************************************************************)
LEMMA UnusedGrowsByOne ==
  ASSUME UnusedInv, failures \in Nat,
         \/ Unused' \subseteq Unused /\ failures' = failures
         \/ failures' = failures + 1 /\ \E x : Unused' \subseteq Unused \cup {x}
  PROVE  UnusedInv'
  <1>1. CASE Unused' \subseteq Unused /\ failures' = failures
    <2>1. IsFiniteSet(Unused') /\ Cardinality(Unused') <= Cardinality(Unused)
      BY <1>1, FS_Subset DEF UnusedInv
    <2>2. Cardinality(Unused') \in Nat /\ Cardinality(Unused) \in Nat
      BY <2>1, FS_CardinalityType DEF UnusedInv
    <2>3. QED
      BY <1>1, <2>1, <2>2 DEF UnusedInv
  <1>2. ASSUME NEW x, Unused' \subseteq Unused \cup {x}, failures' = failures + 1
        PROVE  UnusedInv'
    <2>1. /\ IsFiniteSet(Unused \cup {x}) /\ Cardinality(Unused) \in Nat
          /\ Cardinality(Unused \cup {x}) \in {Cardinality(Unused), Cardinality(Unused) + 1}
      BY FS_AddElement, FS_CardinalityType DEF UnusedInv
    <2>2. IsFiniteSet(Unused') /\ Cardinality(Unused') <= Cardinality(Unused \cup {x})
      BY <1>2, <2>1, FS_Subset
    <2>3. Cardinality(Unused') \in Nat
      BY <2>2, FS_CardinalityType
    <2>4. QED
      BY <1>2, <2>1, <2>2, <2>3 DEF UnusedInv
  <1>3. QED
    BY <1>1, <1>2

(***************************************************************************)
(* Only an intake that fails before its INSERT abandons its contractor.    *)
(***************************************************************************)
LEMMA NextUnused == TypeOK /\ IntakeInv /\ UnusedInv /\ [Next]_vars => UnusedInv'
  <1> SUFFICES ASSUME TypeOK, IntakeInv, UnusedInv, [Next]_vars PROVE UnusedInv'
    OBVIOUS
  <1>0. failures \in Nat
    BY FailureAssumption DEF TypeOK
  <1>1. ASSUME \A o \in orgs' \ orgs : o.category # "contractor", Used \subseteq Used',
               failures' = failures
        PROVE  UnusedInv'
    <2>1. Unused' \subseteq Unused
      BY <1>1 DEF Unused
    <2>2. QED
      BY <1>0, <1>1, <2>1, UnusedGrowsByOne
  <1> USE RequestAssumption DEF TypeOK, Used, Request, GoTo, Answer, tables, ids
  <1>2. ASSUME NEW r \in Request, NEW b, Post(r, b) PROVE UnusedInv'
    BY <1>1, <1>2 DEF Post
  <1>3. ASSUME NEW r \in Request,
               \/ GuardOnboarding(r) \/ CheckSlug(r) \/ GuardIntake(r) \/ ResolveFactor(r)
               \/ ResolveContractor(r) \/ Respond(r)
        PROVE  UnusedInv'
    BY <1>1, <1>3 DEF GuardOnboarding, CheckSlug, GuardIntake, ResolveFactor,
                      ResolveContractor, Respond
  <1>4. ASSUME NEW f \in Request, Onboard(f) PROVE UnusedInv'
    BY <1>1, <1>4 DEF Onboard, FactorRow
  <1>5. ASSUME NEW i \in Request, InsertAssignment(i) PROVE UnusedInv'
    <2>1. /\ i \in Taking /\ pc[i] = "insert" /\ assignments' = assignments \cup {AssignmentRow(i)}
          /\ pc' = [pc EXCEPT ![i] = "respond"] /\ AssignmentRow(i).contractor = contractor[i]
          /\ UNCHANGED <<orgs, contractor, failures>>
      BY <1>5 DEF InsertAssignment, AssignmentRow, IntakeInv, BodiesFit
    <2>2. Used \subseteq Used'
      BY <2>1
    <2>3. QED
      BY <1>1, <2>1, <2>2
  <1>6. ASSUME NEW i \in Request, CreateStub(i) PROVE UnusedInv'
    <2>1. CASE orgs' = orgs
      BY <1>1, <1>6, <2>1 DEF CreateStub
    <2>2. CASE orgs' # orgs
      <3>1. /\ i \in Taking /\ pc[i] = "createStub" /\ orgs' = orgs \cup {ContractorRow(i)}
            /\ contractor' = [contractor EXCEPT ![i] = i] /\ pc' = [pc EXCEPT ![i] = "insert"]
            /\ ContractorRow(i).id = i /\ UNCHANGED <<assignments, failures>>
        BY <1>6, <2>2 DEF CreateStub, ContractorRow, IntakeInv, BodiesFit
      <3>2. Used \subseteq Used' /\ i \in Used'
        BY <3>1
      <3>3. Unused' \subseteq Unused
        BY <3>1, <3>2 DEF Unused
      <3>4. QED
        BY <1>0, <3>1, <3>3, UnusedGrowsByOne
    <2>3. QED
      BY <2>1, <2>2
  <1>7. ASSUME NEW r \in Request, Fail(r) PROVE UnusedInv'
    <2>1. /\ UNCHANGED <<orgs, assignments, contractor>> /\ failures' = failures + 1
          /\ \A q \in Request : q # r => pc'[q] = pc[q]
      BY <1>7 DEF Fail
    <2>2. Used \subseteq Used' \cup {contractor[r]}
      BY <2>1
    <2>3. \A o, p \in orgs : o.id = contractor[r] /\ p.id = contractor[r] => o = p
      BY DEF IntakeInv, KeysUnique
    <2>4. \E x : \A o \in orgs : o.id = contractor[r] => o = x
      BY <2>3
    <2>5. \E x : Unused' \subseteq Unused \cup {x}
      BY <2>1, <2>2, <2>4 DEF Unused
    <2>6. QED
      BY <1>0, <2>1, <2>5, UnusedGrowsByOne
  <1>8. CASE UNCHANGED vars
    BY <1>1, <1>8 DEF vars
  <1>9. QED
    BY <1>2, <1>3, <1>4, <1>5, <1>6, <1>7, <1>8 DEF Next, Handle

(***************************************************************************)
(* A contractor without an assignment is the trace of an intake that       *)
(* failed after its stub was committed, or of one still in progress; each  *)
(* failure leaves one at most (assignments/route.ts:94-178).               *)
(***************************************************************************)
THEOREM StubsNeedFailures == Spec => []StubsAreFailures
  <1>1. Init => UnusedInv
    <2> SUFFICES ASSUME Init PROVE UnusedInv
      OBVIOUS
    <2>1. Unused = {} /\ failures = 0
      BY DEF Init, Unused
    <2>2. QED
      BY <2>1, FS_EmptySet DEF UnusedInv
  <1>2. UnusedInv => StubsAreFailures
    BY DEF UnusedInv, Unused, StubsAreFailures
  <1>3. QED
    BY <1>1, <1>2, NextUnused, IntakeInvariant, PTL DEF Spec
-----------------------------------------------------------------------------
(***************************************************************************)
(* The refinement of Registry needs two facts more: an unused request has  *)
(* asked for nothing, and an intake that is about to answer 201 has its    *)
(* assignment.                                                             *)
(***************************************************************************)
AsksTrue ==
  /\ \A r \in Request : pc[r] = "unused" => body[r] = NoBody
  /\ \A i \in Taking : pc[i] = "respond" => \E a \in assignments : a.id = i

(***************************************************************************)
(* Only Post writes a body and only InsertAssignment leads to the answer.  *)
(***************************************************************************)
LEMMA NextAsksTrue == TypeOK /\ BodiesFit /\ AsksTrue /\ [Next]_vars => AsksTrue'
  <1> SUFFICES ASSUME TypeOK, BodiesFit, AsksTrue, [Next]_vars PROVE AsksTrue'
    OBVIOUS
  <1> USE RequestAssumption DEF TypeOK, BodiesFit, AsksTrue, Request, GoTo, Answer, tables, ids
  <1>1. ASSUME NEW r \in Request, NEW b, Post(r, b) PROVE AsksTrue'
    BY <1>1 DEF Post
  <1>2. ASSUME NEW r \in Request,
               \/ Fail(r) \/ GuardOnboarding(r) \/ CheckSlug(r) \/ GuardIntake(r)
               \/ ResolveFactor(r) \/ ResolveContractor(r) \/ CreateStub(r) \/ Respond(r)
        PROVE  AsksTrue'
    BY <1>2 DEF Fail, GuardOnboarding, CheckSlug, GuardIntake, ResolveFactor,
                ResolveContractor, CreateStub, Respond
  <1>3. ASSUME NEW f \in Request, Onboard(f) PROVE AsksTrue'
    BY <1>3 DEF Onboard
  <1>4. ASSUME NEW i \in Request, InsertAssignment(i) PROVE AsksTrue'
    <2>1. /\ assignments' = assignments \cup {AssignmentRow(i)} /\ AssignmentRow(i).id = i
          /\ pc' = [pc EXCEPT ![i] = "respond"] /\ body' = body /\ pc[i] = "insert"
      BY <1>4 DEF InsertAssignment, AssignmentRow
    <2>2. QED
      BY <2>1
  <1>5. CASE UNCHANGED vars
    BY <1>5 DEF vars
  <1>6. QED
    BY <1>1, <1>2, <1>3, <1>4, <1>5 DEF Next, Handle

(***************************************************************************)
(* The organization that is found by a key is the only one that has it.    *)
(***************************************************************************)
LEMMA HolderIsFound ==
  ASSUME KeysUnique, NEW r, NEW id, body[r].slug \in Slug, body[r].uei \in Uei
  PROVE  /\ HasFactor(id, body[r]) => HoldersOfSlug[body[r].slug] = {id}
         /\ HasContractor(id, body[r]) => HoldersOfUei[body[r].uei] = {id}
  <1>1. body[r].slug # Nothing /\ body[r].uei # Nothing
    BY KeyAssumption
  <1>2. ASSUME HasFactor(id, body[r]) PROVE \A o \in BySlug(body[r].slug) : o.id = id
    BY <1>1, <1>2 DEF HasFactor, BySlug, KeysUnique
  <1>3. ASSUME HasContractor(id, body[r]) PROVE \A o \in ByUei(body[r].uei) : o.id = id
    BY <1>1, <1>3 DEF HasContractor, ByUei, KeysUnique
  <1>4. QED
    BY <1>2, <1>3 DEF HasFactor, HasContractor, HoldersOfSlug, HoldersOfUei

(***************************************************************************)
(* What a step that adds no organization and answers no 201 leaves alone.  *)
(***************************************************************************)
LEMMA HoldersKept ==
  ASSUME TypeOK
  PROVE  /\ orgs' = orgs => HoldersOfSlug' = HoldersOfSlug /\ HoldersOfUei' = HoldersOfUei
         /\ answer' = answer => Confirmed' = Confirmed
         /\ \A r \in Request, code \in {403, 409, 500} :
              answer[r] # 201 /\ Answer(r, code) => Confirmed' = Confirmed
  <1>1. orgs' = orgs => HoldersOfSlug' = HoldersOfSlug /\ HoldersOfUei' = HoldersOfUei
    BY DEF HoldersOfSlug, HoldersOfUei, BySlug, ByUei
  <1>2. answer' = answer => Confirmed' = Confirmed
    BY DEF Confirmed
  <1>3. ASSUME NEW r \in Request, NEW code \in {403, 409, 500}, answer[r] # 201, Answer(r, code)
        PROVE  Confirmed' = Confirmed
    BY <1>3 DEF Confirmed, Answer, TypeOK
  <1>4. QED
    BY <1>1, <1>2, <1>3

(***************************************************************************)
(* Post is what the registry sees as Ask.                                  *)
(***************************************************************************)
LEMMA PostAsks ==
  ASSUME TypeOK, AsksTrue, NEW r \in Request, NEW b, Post(r, b)
  PROVE  Promise!Ask(r, b)
  <1>1. /\ pc[r] = "unused" /\ body' = [body EXCEPT ![r] = b]
        /\ UNCHANGED <<orgs, assignments, audit, answer>>
    BY DEF Post, tables
  <1>2. body[r] = NoBody
    BY <1>1 DEF AsksTrue
  <1>3. QED
    BY <1>1, <1>2, HoldersKept DEF Promise!Ask, Promise!NotAsked, NoBody

(***************************************************************************)
(* The onboarding's transaction gives a free slug away.                    *)
(***************************************************************************)
LEMMA OnboardRegisters ==
  ASSUME TypeOK, IntakeInv, NEW f \in Request, Onboard(f), ~SlugTaken(f)
  PROVE  f \in Onboarding /\ Promise!Register(f)
  <1>1. f \in Onboarding /\ body[f].slug \in Slug /\ pc[f] = "onboard"
    BY DEF Onboard, IntakeInv, BodiesFit, Request
  <1>2. /\ orgs' = orgs \cup {FactorRow(f)} /\ audit' = audit \cup {<<"factor.onboarded", f>>}
        /\ UNCHANGED <<assignments, body, answer>>
    BY DEF Onboard
  <1>3. /\ FactorRow(f).id = f /\ FactorRow(f).slug = body[f].slug
        /\ FactorRow(f).uei = Nothing /\ FactorRow(f).category = "capital_provider"
    BY DEF FactorRow
  <1>4. BySlug(body[f].slug) = {}
    BY DEF SlugTaken, BySlug
  <1>5. HoldersOfSlug[body[f].slug] = {}
    BY <1>1, <1>4 DEF HoldersOfSlug
  <1>6. HoldersOfSlug' = [HoldersOfSlug EXCEPT ![body[f].slug] = {f}]
    <2>1. ASSUME NEW s \in Slug
          PROVE  BySlug(s)' = IF s = body[f].slug THEN {FactorRow(f)} ELSE BySlug(s)
      BY <1>2, <1>3, <1>4 DEF BySlug
    <2>2. \A s \in Slug : {o.id : o \in BySlug(s)'}
                            = IF s = body[f].slug THEN {f} ELSE {o.id : o \in BySlug(s)}
      BY <1>3, <2>1
    <2>3. HoldersOfSlug' = [s \in Slug |-> {o.id : o \in BySlug(s)'}]
      BY DEF HoldersOfSlug
    <2>4. QED
      BY <1>1, <2>2, <2>3 DEF HoldersOfSlug
  <1>7. HoldersOfUei' = HoldersOfUei
    <2>1. \A u \in Uei : ByUei(u)' = ByUei(u)
      BY <1>2, <1>3, KeyAssumption DEF ByUei
    <2>2. HoldersOfUei' = [u \in Uei |-> {o.id : o \in ByUei(u)'}]
      BY DEF HoldersOfUei
    <2>3. QED
      BY <2>1, <2>2 DEF HoldersOfUei
  <1>8. body[f] # NoBody
    BY <1>1, KeyAssumption DEF NoBody
  <1>9. QED
    BY <1>1, <1>2, <1>5, <1>6, <1>7, <1>8, HoldersKept
       DEF Promise!Register, Promise!NotAsked, NoBody

(***************************************************************************)
(* The autocommit INSERT of a stub gives a free UEI away.                  *)
(***************************************************************************)
LEMMA StubEnrols ==
  ASSUME TypeOK, IntakeInv, NEW i \in Request, CreateStub(i), ByUei(body[i].uei) = {}
  PROVE  i \in Taking /\ Promise!Enrol(i)
  <1>1. i \in Taking /\ body[i].slug \in Slug /\ body[i].uei \in Uei
    BY DEF CreateStub, IntakeInv, BodiesFit, Request
  <1>2. orgs' = orgs \cup {ContractorRow(i)} /\ UNCHANGED <<assignments, audit, body, answer>>
    BY DEF CreateStub
  <1>3. /\ ContractorRow(i).id = i /\ ContractorRow(i).uei = body[i].uei
        /\ ContractorRow(i).category = "contractor"
    BY DEF ContractorRow
  <1>4. HoldersOfUei[body[i].uei] = {}
    BY <1>1 DEF HoldersOfUei
  <1>5. HoldersOfUei' = [HoldersOfUei EXCEPT ![body[i].uei] = {i}]
    <2>1. ASSUME NEW u \in Uei
          PROVE  ByUei(u)' = IF u = body[i].uei THEN {ContractorRow(i)} ELSE ByUei(u)
      BY <1>2, <1>3 DEF ByUei
    <2>2. \A u \in Uei : {o.id : o \in ByUei(u)'}
                           = IF u = body[i].uei THEN {i} ELSE {o.id : o \in ByUei(u)}
      BY <1>3, <2>1
    <2>3. HoldersOfUei' = [u \in Uei |-> {o.id : o \in ByUei(u)'}]
      BY DEF HoldersOfUei
    <2>4. QED
      BY <1>1, <2>2, <2>3 DEF HoldersOfUei
  <1>6. HoldersOfSlug' = HoldersOfSlug
    <2>1. \A s \in Slug : BySlug(s)' = BySlug(s)
      BY <1>2, <1>3 DEF BySlug
    <2>2. HoldersOfSlug' = [s \in Slug |-> {o.id : o \in BySlug(s)'}]
      BY DEF HoldersOfSlug
    <2>3. QED
      BY <2>1, <2>2 DEF HoldersOfSlug
  <1>7. body[i] # NoBody
    BY <1>1, KeyAssumption DEF NoBody
  <1>8. QED
    BY <1>1, <1>2, <1>4, <1>5, <1>6, <1>7, HoldersKept
       DEF Promise!Enrol, Promise!NotAsked, NoBody

(***************************************************************************)
(* The intake's transaction takes an assignment in on the holders of the   *)
(* keys, although it carries ids it read earlier.                          *)
(***************************************************************************)
LEMMA InsertTakes ==
  ASSUME TypeOK, IntakeInv, NEW i \in Request, InsertAssignment(i)
  PROVE  i \in Taking /\ Promise!Take(i)
  <1>1. /\ i \in Taking /\ pc[i] = "insert"
        /\ body[i].slug \in Slug /\ body[i].uei \in Uei
    BY DEF InsertAssignment, IntakeInv, BodiesFit, Request
  <1>2. /\ assignments' = assignments \cup {AssignmentRow(i)}
        /\ audit' = audit \cup {<<"assignment.created", i>>}
        /\ UNCHANGED <<orgs, body, answer>>
    BY DEF InsertAssignment, ids
  <1>3. HasFactor(factor[i], body[i]) /\ HasContractor(contractor[i], body[i])
    BY <1>1 DEF IntakeInv, ReferencesHold, IntakesFound
  <1>4. /\ HoldersOfSlug[body[i].slug] = {factor[i]}
        /\ HoldersOfUei[body[i].uei] = {contractor[i]}
    BY <1>1, <1>3, HolderIsFound DEF IntakeInv
  <1>5. \A a \in assignments : a.id # i
    BY <1>1 DEF IntakeInv, ReferencesHold, AssignmentsFound
  <1>6. body[i] # NoBody
    BY <1>1, KeyAssumption DEF NoBody
  <1>7. QED
    BY <1>1, <1>2, <1>4, <1>5, <1>6, HoldersKept
       DEF Promise!Take, Promise!NotAsked, NoBody, AssignmentRow

(***************************************************************************)
(* A 201 is sent when the registry holds what was asked for.               *)
(***************************************************************************)
LEMMA RespondConfirms ==
  ASSUME TypeOK, IntakeInv, AsksTrue, NEW r \in Request, Respond(r)
  PROVE  Promise!Confirm(r)
  <1>1. pc[r] = "respond" /\ UNCHANGED <<orgs, assignments, audit, body>>
    BY DEF Respond, tables
  <1>2. Confirmed' = Confirmed \cup {r}
    BY DEF Respond, Answer, Confirmed, TypeOK
  <1>3. body[r].slug \in Slug
    BY <1>1 DEF IntakeInv, BodiesFit, Request
  <1>4. body[r] # NoBody
    BY <1>3, KeyAssumption DEF NoBody
  <1>5. CASE r \in Onboarding
    <2>1. FactorRow(r) \in BySlug(body[r].slug) /\ FactorRow(r).id = r
      BY <1>1, <1>5 DEF IntakeInv, ReferencesHold, Onboarded, BySlug, FactorRow
    <2>2. \A o \in BySlug(body[r].slug) : o.id = r
      BY <1>3, <2>1, KeyAssumption DEF IntakeInv, KeysUnique, BySlug
    <2>3. HoldersOfSlug[body[r].slug] = {r}
      BY <1>3, <2>1, <2>2 DEF HoldersOfSlug
    <2>4. QED
      BY <1>1, <1>2, <1>4, <1>5, <2>3, HoldersKept
         DEF Promise!Confirm, Promise!NotAsked, NoBody
  <1>6. CASE r \in Taking
    <2>1. \E a \in assignments : a.id = r
      BY <1>1, <1>6 DEF AsksTrue
    <2>2. QED
      BY <1>1, <1>2, <1>4, <1>6, <2>1, HoldersKept
         DEF Promise!Confirm, Promise!NotAsked, NoBody
  <1>7. QED
    BY <1>5, <1>6 DEF Request

(***************************************************************************)
(* Looking up, refusing and failing are steps the registry does not see.   *)
(***************************************************************************)
LEMMA OthersStutter ==
  ASSUME TypeOK, IntakeInv, NEW r \in Request,
         \/ Fail(r) \/ GuardOnboarding(r) \/ CheckSlug(r) \/ GuardIntake(r)
         \/ ResolveFactor(r) \/ ResolveContractor(r)
         \/ Onboard(r) /\ SlugTaken(r)
         \/ CreateStub(r) /\ ByUei(body[r].uei) # {}
  PROVE  UNCHANGED Promise!registryVars
  <1>1. pc[r] # "done" /\ UNCHANGED <<orgs, assignments, audit, body>>
    BY DEF Fail, GuardOnboarding, CheckSlug, GuardIntake, ResolveFactor, ResolveContractor,
           Onboard, CreateStub, tables
  <1>2. answer[r] # 201
    BY <1>1 DEF IntakeInv, ReferencesHold, AnsweredDone
  <1>3. answer' = answer \/ \E code \in {403, 409, 500} : Answer(r, code)
    BY DEF Fail, GuardOnboarding, CheckSlug, GuardIntake, ResolveFactor, ResolveContractor,
           Onboard, CreateStub
  <1>4. Confirmed' = Confirmed
    BY <1>2, <1>3, HoldersKept
  <1>5. QED
    BY <1>1, <1>4, HoldersKept DEF Promise!registryVars

(***************************************************************************)
(* Every step of the two routes is a step of the registry or a stutter.    *)
(***************************************************************************)
LEMMA StepKeepsRegistry ==
  TypeOK /\ IntakeInv /\ AsksTrue /\ [Next]_vars => [Promise!Next]_(Promise!registryVars)
  <1> SUFFICES ASSUME TypeOK, IntakeInv, AsksTrue, [Next]_vars
               PROVE  Promise!Next \/ UNCHANGED Promise!registryVars
    OBVIOUS
  <1>1. ASSUME NEW f \in Onboarding, NEW s \in Slug, Post(f, [NoBody EXCEPT !.slug = s])
        PROVE  Promise!Next
    <2>1. Promise!Ask(f, [NoBody EXCEPT !.slug = s])
      BY <1>1, PostAsks DEF Request
    <2>2. QED
      BY <2>1 DEF Promise!Next, Promise!NotAsked, NoBody
  <1>2. ASSUME NEW i \in Taking, NEW s \in Slug, NEW u \in Uei, NEW c \in Contract,
               Post(i, [slug |-> s, uei |-> u, contract |-> c])
        PROVE  Promise!Next
    BY <1>2, PostAsks DEF Request, Promise!Next
  <1>3. ASSUME NEW r \in Request, Handle(r) \/ Fail(r)
        PROVE  Promise!Next \/ UNCHANGED Promise!registryVars
    <2>1. CASE Onboard(r) /\ ~SlugTaken(r)
      BY <2>1, OnboardRegisters DEF Promise!Next
    <2>2. CASE CreateStub(r) /\ ByUei(body[r].uei) = {}
      BY <2>2, StubEnrols DEF Promise!Next
    <2>3. CASE InsertAssignment(r)
      BY <2>3, InsertTakes DEF Promise!Next
    <2>4. CASE Respond(r)
      BY <2>4, RespondConfirms DEF Promise!Next, Request
    <2>5. QED
      BY <1>3, <2>1, <2>2, <2>3, <2>4, OthersStutter DEF Handle
  <1>4. CASE UNCHANGED vars
    BY <1>4, HoldersKept DEF vars, tables, Promise!registryVars
  <1>5. QED
    BY <1>1, <1>2, <1>3, <1>4 DEF Next

(***************************************************************************)
(* For any number of requests, keys and failures, the routes implement the *)
(* abstract specification: the registry's atomic find-or-create is what    *)
(* their separate look-ups and inserts amount to (factors/route.ts:61-105, *)
(* assignments/route.ts:68-204).                                           *)
(***************************************************************************)
THEOREM RegistryIsKept == Spec => KeepsRegistry
  <1>1. Init => Promise!Init /\ AsksTrue
    <2> SUFFICES ASSUME Init PROVE Promise!Init /\ AsksTrue
      OBVIOUS
    <2> USE DEF Init
    <2>1. AsksTrue
      BY RequestAssumption DEF AsksTrue, Request
    <2>2. HoldersOfSlug = [s \in Slug |-> {}] /\ HoldersOfUei = [u \in Uei |-> {}]
      BY DEF HoldersOfSlug, HoldersOfUei, BySlug, ByUei
    <2>3. Confirmed = {}
      BY DEF Confirmed
    <2>4. QED
      BY <2>1, <2>2, <2>3 DEF Promise!Init, Promise!NotAsked, NoBody, Request
  <1>2. TypeOK /\ IntakeInv /\ AsksTrue /\ [Next]_vars => AsksTrue'
    BY NextAsksTrue DEF IntakeInv
  <1>3. QED
    BY <1>1, <1>2, StepKeepsRegistry, IntakeInvariant, PTL
       DEF Spec, KeepsRegistry, Promise!RegistrySpec
=============================================================================
