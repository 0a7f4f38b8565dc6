--------------------------- MODULE ReadPathProofs ---------------------------
(***************************************************************************)
(* Proofs about ReadPath: the session's theorems carry over to pages that  *)
(* read, and the broker hands out data on live memberships only.           *)
(***************************************************************************)
EXTENDS ReadPath, TenantSessionProofs

(***************************************************************************)
(* The deployment stays what it is.                                        *)
(***************************************************************************)
LEMMA PathConstant == PortalSpec => [](path \in Paths)
  <1>1. PortalInit => path \in Paths
    BY DEF PortalInit
  <1>2. path \in Paths /\ [PortalNext]_portalVars => (path \in Paths)'
    BY DEF PortalNext, portalVars, readVars, AskSurfaces, Read, Answer, requireUser, ownedUeis,
           FetchThroughBff, FetchDirect
  <1>3. QED
    BY <1>1, <1>2, PTL DEF PortalSpec

(***************************************************************************)
(* A step of the portal is one of these.                                   *)
(***************************************************************************)
SessionStep(r) == Open(r) \/ Step(r) \/ Fault(r) \/ FinishPage(r)

ReadStep(r) == \/ AskSurfaces(r)
               \/ \E s \in Surface : Read(r, s)

(***************************************************************************)
(* A step of the portal is the clock's or an administrator's, the          *)
(* session's, or a read's.                                                 *)
(***************************************************************************)
LEMMA PortalSteps ==
  ASSUME path \in Paths, [PortalNext]_portalVars
  PROVE  \/ (Change \/ Tick) /\ UNCHANGED readVars
         \/ \E r \in Request : SessionStep(r) /\ EndReads /\ UNCHANGED path
         \/ \E r \in Request : ReadStep(r)
         \/ UNCHANGED portalVars
  BY PathsAssumption DEF PortalNext, AnswerPage, SessionStep, ReadStep

(***************************************************************************)
(* Reads change neither the sessions nor the path.                         *)
(***************************************************************************)
LEMMA ReadsOnlyRead ==
  ASSUME NEW r, ReadStep(r)
  PROVE  UNCHANGED <<sessionVars, path>>
  BY DEF ReadStep, AskSurfaces, Read, Answer, requireUser, ownedUeis, FetchThroughBff, FetchDirect

(***************************************************************************)
(* The portal implements the sessions, so their theorems carry over.       *)
(***************************************************************************)
THEOREM PortalRunsSessions == PortalSpec => Spec
  <1>1. PortalInit => Init
    BY DEF PortalInit
  <1>2. path \in Paths /\ [PortalNext]_portalVars => [Next]_sessionVars
    BY PortalSteps, ReadsOnlyRead DEF SessionStep, Next, portalVars
  <1>3. QED
    BY <1>1, <1>2, PathConstant, PTL DEF PortalSpec, Spec

-----------------------------------------------------------------------------
(***************************************************************************)
(* Types of the reads.                                                     *)
(***************************************************************************)
LEMMA GetJsonTyped == ASSUME NEW a PROVE getJson(a) \in {"data", "empty", "cut", "error"}
  BY DEF getJson

(***************************************************************************)
(* Every step keeps the reads' types.                                      *)
(***************************************************************************)
LEMMA NextReadTyped ==
  ASSUME path \in Paths, read \in [Request -> [Surface -> ReadState]], [PortalNext]_portalVars
  PROVE  read' \in [Request -> [Surface -> ReadState]]
  <1> USE DEF ReadState, Result
  <1>1. NoReads \in [Surface -> ReadState]
    BY DEF NoReads
  <1>2. ASSUME EndReads PROVE read' \in [Request -> [Surface -> ReadState]]
    BY <1>1, <1>2 DEF EndReads
  <1>3. ASSUME NEW r \in Request, AskSurfaces(r) PROVE read' \in [Request -> [Surface -> ReadState]]
    BY <1>3 DEF AskSurfaces
  <1>4. ASSUME NEW r \in Request, NEW s \in Surface, Read(r, s)
        PROVE  read' \in [Request -> [Surface -> ReadState]]
    <2>1. PICK from, a : Answer(r, s, from, a)
      BY <1>4 DEF Read, requireUser, ownedUeis, FetchThroughBff, FetchDirect
    <2>2. QED
      BY <2>1, GetJsonTyped DEF Answer
  <1>5. CASE UNCHANGED read
    BY <1>5
  <1>6. QED
    BY <1>2, <1>3, <1>4, <1>5, PortalSteps DEF ReadStep, readVars, portalVars

(***************************************************************************)
(* Type correctness of sessions and reads in every behaviour.              *)
(***************************************************************************)
THEOREM PortalTypeCorrect == PortalSpec => []PortalTypeOK
  <1>1. PortalInit => read \in [Request -> [Surface -> ReadState]]
    BY DEF PortalInit, NoReads, ReadState
  <1>2. TypeOK /\ path \in Paths /\ read \in [Request -> [Surface -> ReadState]] => PortalTypeOK
    BY PathsAssumption DEF PortalTypeOK
  <1>3. path \in Paths /\ read \in [Request -> [Surface -> ReadState]] /\ [PortalNext]_portalVars
          => (read \in [Request -> [Surface -> ReadState]])'
    BY NextReadTyped
  <1>4. QED
    BY <1>1, <1>2, <1>3, PathConstant, PortalRunsSessions, SessionTypeCorrect, PTL DEF PortalSpec

-----------------------------------------------------------------------------
(***************************************************************************)
(* The inductive form of DataIsLive: only a page that renders has reads,   *)
(* and behind the broker what it was allowed is backed.                    *)
(***************************************************************************)
Handed(r) == \E s \in Surface : read[r][s] \in {"allowed", "data"}

ReadsInv ==
  /\ \A r \in Request : req[r].pc # "render" => read[r] = NoReads
  /\ path = "bff" => \A r \in Request :
       Handed(r) => Backed(since, req[r].user, req[r].org, req[r].age)

(***************************************************************************)
(* A rendering request either stays as it is or ends.                      *)
(***************************************************************************)
LEMMA RenderingStays ==
  ASSUME TypeOK, NEW r \in Request, SessionStep(r), NEW x \in Request, req[x].pc = "render",
         req'[x].pc = "render"
  PROVE  req'[x] = req[x]
  <1>1. CASE x # r
    BY <1>1 DEF SessionStep, TypeOK, Open, SignIn, SignOut, Visit, OpenPage, OpenWrite, Begin,
       Step, SignInStep, QueryOrgs, signTenantToken, ReceiveSignIn, ReceiveSignOut, Land,
       GuardPage, requireSessionOrg, CommitWrite, FinishPage, Go, Fault, SkipEstablish,
       FailSignIn, FailRequest
  <1>2. CASE x = r
    <2>1. FinishPage(r) \/ FailRequest(r)
      BY <1>2 DEF SessionStep, Open, SignIn, SignOut, Visit, OpenPage, OpenWrite, Begin,
         Step, SignInStep, QueryOrgs, signTenantToken, ReceiveSignIn, ReceiveSignOut, Land,
         GuardPage, requireSessionOrg, CommitWrite, Go, Fault, SkipEstablish, FailSignIn
    <2>2. req'[r] = Idle
      BY <2>1 DEF FinishPage, FailRequest, Go, TypeOK
    <2>3. QED
      BY <1>2, <2>2 DEF Idle
  <1>3. QED
    BY <1>1, <1>2

(***************************************************************************)
(* A step of a session does not touch the memberships.                     *)
(***************************************************************************)
LEMMA SessionStepKeepsAges ==
  ASSUME NEW r \in Request, SessionStep(r) PROVE since' = since
  BY DEF SessionStep, Open, SignIn, SignOut, Visit, OpenPage, OpenWrite, Begin,
     Step, SignInStep, QueryOrgs, signTenantToken, ReceiveSignIn, ReceiveSignOut, Land,
     GuardPage, requireSessionOrg, CommitWrite, FinishPage, Go, Fault, SkipEstablish,
     FailSignIn, FailRequest

(***************************************************************************)
(* Every step keeps the invariant; the broker's look at the memberships is *)
(* the only way a read becomes allowed.                                    *)
(***************************************************************************)
LEMMA NextReadsInv ==
  TypeOK /\ TypeOK' /\ SessionInv /\ path \in Paths /\ read \in [Request -> [Surface -> ReadState]]
    /\ ReadsInv /\ [PortalNext]_portalVars => ReadsInv'
  <1> SUFFICES ASSUME TypeOK, TypeOK', SessionInv, path \in Paths,
                      read \in [Request -> [Surface -> ReadState]], ReadsInv,
                      [PortalNext]_portalVars
               PROVE  ReadsInv'
    OBVIOUS
  <1>1. CASE Tick /\ UNCHANGED readVars
    <2>1. since \in Ages /\ since' \in Ages
      BY DEF TypeOK, Ages
    <2>2. ASSUME NEW p \in Pairs PROVE since'[p] <= since[p] + 1
      BY <1>1, TickAges
    <2>3. ASSUME NEW r \in Request
          PROVE  /\ req'[r].pc = req[r].pc
                 /\ req[r].pc = "render" => /\ req'[r].user = req[r].user
                                            /\ req'[r].org = req[r].org
                                            /\ req'[r].age = req[r].age + 1
      BY <1>1, TickKeepsRequests
    <2>4. \A r \in Request : req[r].age \in Int
      BY TimesAssumption DEF TypeOK
    <2>5. ASSUME NEW r \in Request, path' = "bff", Handed(r)'
          PROVE  Backed(since', req'[r].user, req'[r].org, req'[r].age)
      <3>1. path = "bff" /\ Handed(r) /\ req[r].pc = "render"
        BY <1>1, <2>5 DEF readVars, ReadsInv, Handed, NoReads
      <3>2. Backed(since, req[r].user, req[r].org, req[r].age)
        BY <3>1 DEF ReadsInv
      <3>3. QED
        BY <2>1, <2>2, <2>3, <2>4, <3>1, <3>2, BackedAges
    <2>6. QED
      BY <1>1, <2>3, <2>5 DEF ReadsInv, readVars
  <1>2. CASE Change /\ UNCHANGED readVars
    <2>1. \A p \in Pairs : since'[p] = 0 \/ since'[p] = since[p]
      BY <1>2 DEF Change, TypeOK
    <2>2. req' = req /\ read' = read /\ path' = path
      BY <1>2 DEF Change, readVars
    <2>3. \A r \in Request : req[r].age \in Int /\ 0 <= req[r].age
      BY TimesAssumption DEF TypeOK
    <2>4. \A r \in Request : Backed(since, req[r].user, req[r].org, req[r].age)
                              => Backed(since', req[r].user, req[r].org, req[r].age)
      BY <2>1, <2>3 DEF Backed
    <2>5. QED
      BY <2>2, <2>4 DEF ReadsInv, Handed
  <1>3. ASSUME NEW r \in Request, SessionStep(r), EndReads, UNCHANGED path PROVE ReadsInv'
    <2>1. since' = since
      BY <1>3, SessionStepKeepsAges
    <2>2. ASSUME NEW x \in Request, req'[x].pc # "render" PROVE read'[x] = NoReads
      BY <1>3, <2>2 DEF EndReads
    <2>3. ASSUME NEW x \in Request, path = "bff", Handed(x)'
          PROVE  Backed(since', req'[x].user, req'[x].org, req'[x].age)
      <3>1. req'[x].pc = "render" /\ read'[x] = read[x]
        BY <1>3, <2>3 DEF EndReads, Handed, NoReads
      <3>2. req[x].pc = "render" /\ Handed(x)
        BY <2>3, <3>1 DEF ReadsInv, Handed, NoReads
      <3>3. req'[x] = req[x]
        BY <1>3, <3>1, <3>2, RenderingStays
      <3>4. QED
        BY <2>1, <2>3, <3>2, <3>3 DEF ReadsInv
    <2>4. QED
      BY <1>3, <2>2, <2>3 DEF ReadsInv
  <1>4. ASSUME NEW r \in Request, AskSurfaces(r) PROVE ReadsInv'
    <2>1. /\ req[r].pc = "render" /\ \A x \in Request \ {r} : read'[x] = read[x]
          /\ \A s \in Surface : read'[r][s] \in {"none", "empty", "asked"}
          /\ req' = req /\ since' = since /\ path' = path
      BY <1>4 DEF AskSurfaces, sessionVars
    <2>2. QED
      BY <2>1 DEF ReadsInv, Handed
  <1>5. ASSUME NEW r \in Request, NEW s \in Surface, Read(r, s) PROVE ReadsInv'
    <2>1. PICK from, a : Answer(r, s, from, a) /\ from \in {"asked", "allowed"}
                           /\ (path = "bff" /\ from = "asked" =>
                                 a \in {"401", "503", "404"}
                                   \/ (a = "allowed" /\ <<req[r].user, req[r].org>> \in member))
      BY <1>5 DEF Read, requireUser, ownedUeis, FetchThroughBff, FetchDirect
    <2>2. /\ read[r][s] = from
          /\ req' = req /\ since' = since /\ path' = path
          /\ \A x \in Request \ {r} : read'[x] = read[x]
          /\ \A t \in Surface \ {s} : read'[r][t] = read[r][t]
          /\ read'[r][s] = IF a = "allowed" THEN a ELSE getJson(a)
      BY <2>1 DEF Answer, sessionVars
    <2>3. req[r].pc = "render"
      BY <2>1, <2>2 DEF ReadsInv, NoReads
    <2>4. path = "bff" /\ Handed(r)' => Backed(since, req[r].user, req[r].org, req[r].age)
      <3>1. CASE from = "allowed"
        BY <2>2, <3>1 DEF ReadsInv, Handed
      <3>2. CASE from = "asked" /\ path = "bff"
        <4>1. CASE a = "allowed"
          <5>1. req[r].age \in Nat
            BY TimesAssumption DEF TypeOK
          <5>2. QED
            BY <2>1, <3>2, <4>1, <5>1, MemberBacked
        <4>2. CASE a # "allowed"
          <5>1. read'[r][s] = "empty"
            BY <2>1, <2>2, <3>2, <4>2 DEF getJson, Degraded
          <5>2. QED
            BY <2>2, <5>1 DEF ReadsInv, Handed
        <4>3. QED
          BY <4>1, <4>2
      <3>3. QED
        BY <2>1, <3>1, <3>2
    <2>5. QED
      BY <2>2, <2>3, <2>4 DEF ReadsInv, Handed
  <1>6. CASE UNCHANGED portalVars
    BY <1>6 DEF portalVars, sessionVars, readVars, ReadsInv, Handed
  <1>7. QED
    BY <1>1, <1>2, <1>3, <1>4, <1>5, <1>6, PortalSteps DEF ReadStep

(***************************************************************************)
(* Behind the broker, data is handed to a page only on a membership active *)
(* since the page was opened, whatever cookie let the page through.        *)
(***************************************************************************)
THEOREM BrokerReadsLive == PortalSpec => []DataIsLive
  <1>1. PortalInit => ReadsInv
    BY DEF PortalInit, ReadsInv, Handed, NoReads
  <1>2. ReadsInv => DataIsLive
    BY DEF ReadsInv, DataIsLive, Handed, Backed, Pair
  <1>3. PortalTypeOK => read \in [Request -> [Surface -> ReadState]]
    BY DEF PortalTypeOK
  <1>4. QED
    BY <1>1, <1>2, <1>3, NextReadsInv, PathConstant, PortalTypeCorrect, PortalRunsSessions,
       SessionInvariant, PTL DEF PortalSpec
=============================================================================
