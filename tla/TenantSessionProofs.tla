------------------------ MODULE TenantSessionProofs -------------------------
(***************************************************************************)
(* Proofs about TenantSession, for any users, organisations, lifetimes and *)
(* any number of concurrent requests, revocations and failures.            *)
(***************************************************************************)
EXTENDS TenantSession, Integers, TLAPS

(***************************************************************************)
(* The horizon is past both times.                                         *)
(***************************************************************************)
LEMMA HorizonNat == Horizon \in Nat /\ TTL <= Horizon /\ Latency <= Horizon /\ 0 < Horizon
  BY TimesAssumption DEF Horizon

-----------------------------------------------------------------------------
(***************************************************************************)
(* Types.                                                                  *)
(***************************************************************************)
LEMMA NoCookieTyped == NoCookie \in Cookie
  BY TimesAssumption DEF NoCookie, Cookie

(***************************************************************************)
(* An idle request has the requests' type.                                 *)
(***************************************************************************)
LEMMA IdleTyped ==
  Idle \in [pc: Place, user: User \cup {NoUser}, jar: Cookie, org: Org \cup {NoOrg}, age: 0..Latency]
  BY NoCookieTyped, TimesAssumption DEF Idle, Place

(***************************************************************************)
(* Ageing a cookie leaves a cookie.                                        *)
(***************************************************************************)
LEMMA OlderTyped == ASSUME NEW c \in Cookie PROVE Older(c) \in Cookie
  BY NoCookieTyped, TimesAssumption DEF Older, Cookie

(***************************************************************************)
(* The initial states have the types.                                      *)
(***************************************************************************)
LEMMA InitTypeOK == Init => TypeOK
  <1> SUFFICES ASSUME Init PROVE TypeOK
    OBVIOUS
  <1>1. since \in [Pairs -> 0..Horizon]
    BY HorizonNat DEF Init
  <1>2. QED
    BY <1>1, NoCookieTyped, IdleTyped, SecretAssumption DEF Init, TypeOK

(***************************************************************************)
(* A request that begins or goes on stays typed.                           *)
(***************************************************************************)
LEMMA BeginTyped ==
  ASSUME TypeOK, NEW r \in Request, NEW place \in Place, NEW u \in User \cup {NoUser},
         NEW o \in Org \cup {NoOrg}, Begin(r, place, u, o)
  PROVE  TypeOK'
  BY IdleTyped DEF Begin, TypeOK, Idle

(***************************************************************************)
(* Moving a request on keeps the types.                                    *)
(***************************************************************************)
LEMMA GoTyped ==
  ASSUME TypeOK, NEW r \in Request, NEW from, NEW to \in Place, Go(r, from, to)
  PROVE  TypeOK'
  BY IdleTyped DEF Go, TypeOK

(***************************************************************************)
(* Every step keeps the types.                                             *)
(***************************************************************************)
LEMMA NextTypeOK == TypeOK /\ [Next]_sessionVars => TypeOK'
  <1> SUFFICES ASSUME TypeOK, [Next]_sessionVars PROVE TypeOK'
    OBVIOUS
  <1>1. ASSUME Change PROVE TypeOK'
    <2>1. since' \in [Pairs -> 0..Horizon]
      BY <1>1, HorizonNat DEF Change, TypeOK
    <2>2. QED
      BY <1>1, <2>1, SecretAssumption DEF Change, TypeOK
  <1>2. ASSUME Tick PROVE TypeOK'
    <2>1. since' \in [Pairs -> 0..Horizon]
      <3>1. ASSUME NEW p \in Pairs, since[p] # Horizon PROVE since[p] + 1 \in 0..Horizon
        <4>1. since[p] \in 0..Horizon
          BY DEF TypeOK
        <4>2. QED
          BY <3>1, <4>1, HorizonNat
      <3>2. QED
        BY <1>2, <3>1 DEF Tick, TypeOK
    <2>2. cookie' \in Cookie
      BY <1>2, OlderTyped DEF Tick, TypeOK
    <2>3. ASSUME NEW r \in Request
          PROVE  req'[r] \in [pc: Place, user: User \cup {NoUser}, jar: Cookie,
                              org: Org \cup {NoOrg}, age: 0..Latency]
      <3>1. req[r].jar \in Cookie /\ Older(req[r].jar) \in Cookie
        BY OlderTyped DEF TypeOK
      <3>2. req[r].age \in 0..Latency /\ req[r].age < Latency
        BY <1>2 DEF Tick, TypeOK
      <3>3. req[r].age + 1 \in 0..Latency
        BY <3>2, TimesAssumption
      <3>4. QED
        BY <1>2, <3>1, <3>3 DEF Tick, TypeOK
    <2>4. req' \in [Request -> [pc: Place, user: User \cup {NoUser}, jar: Cookie,
                                org: Org \cup {NoOrg}, age: 0..Latency]]
      BY <1>2, <2>3 DEF Tick
    <2>5. QED
      BY <1>2, <2>1, <2>2, <2>4 DEF Tick, TypeOK
  <1>3. ASSUME NEW r \in Request, Open(r) PROVE TypeOK'
    BY <1>3, BeginTyped DEF Open, SignIn, SignOut, Visit, OpenPage, OpenWrite, Place, TypeOK
  <1>4. ASSUME NEW r \in Request, GuardPage(r) \/ requireSessionOrg(r) \/ CommitWrite(r) \/ FinishPage(r)
        PROVE  TypeOK'
    BY <1>4, GoTyped DEF GuardPage, requireSessionOrg, CommitWrite, FinishPage, Place
  <1>5. ASSUME NEW r \in Request, QueryOrgs(r) PROVE TypeOK'
    <2>1. [sub |-> req[r].user, orgs |-> OrgsOf(req[r].user), left |-> 0] \in Cookie
      BY TimesAssumption DEF TypeOK, Cookie, OrgsOf
    <2>2. QED
      BY <1>5, <2>1 DEF QueryOrgs, TypeOK, Place
  <1>6. ASSUME NEW r \in Request, signTenantToken(r) PROVE TypeOK'
    <2>1. [req[r].jar EXCEPT !.left = TTL] \in Cookie
      BY TimesAssumption DEF TypeOK, Cookie
    <2>2. QED
      BY <1>6, <2>1 DEF signTenantToken, TypeOK, Place
  <1>7. ASSUME NEW r \in Request, ReceiveSignIn(r) \/ ReceiveSignOut(r) \/ FailSignIn(r) PROVE TypeOK'
    BY <1>7, IdleTyped, NoCookieTyped, SecretAssumption
       DEF ReceiveSignIn, ReceiveSignOut, FailSignIn, TypeOK
  <1>8. ASSUME NEW r \in Request, Land(r) PROVE TypeOK'
    <2>1. PICK o \in OrgsOf(req[r].user) \cup {NoOrg} :
            req' = [req EXCEPT ![r] =
                      IF o \in UeiOrg /\ session # NoUser
                      THEN [Idle EXCEPT !.pc = "guard", !.user = session, !.org = o, !.jar = cookie]
                      ELSE Idle]
      BY <1>8 DEF Land
    <2>2. o \in Org \cup {NoOrg}
      BY <2>1 DEF OrgsOf
    <2>3. [Idle EXCEPT !.pc = "guard", !.user = session, !.org = o, !.jar = cookie]
            \in [pc: Place, user: User \cup {NoUser}, jar: Cookie, org: Org \cup {NoOrg}, age: 0..Latency]
      BY <2>2, IdleTyped DEF Idle, TypeOK, Place
    <2>4. QED
      BY <1>8, <2>1, <2>3, IdleTyped DEF Land, TypeOK
  <1>9. ASSUME NEW r \in Request, SkipEstablish(r) \/ FailRequest(r) PROVE TypeOK'
    BY <1>9, IdleTyped, NoCookieTyped, SecretAssumption DEF SkipEstablish, FailRequest, TypeOK, Place
  <1>10. CASE UNCHANGED sessionVars
    BY <1>10 DEF sessionVars, TypeOK
  <1>11. QED
    BY <1>1, <1>2, <1>3, <1>4, <1>5, <1>6, <1>7, <1>8, <1>9, <1>10
       DEF Next, Step, SignInStep, Fault

(***************************************************************************)
(* Type correctness: whatever overlaps, fails or is revoked, cookies and   *)
(* requests stay well-formed.                                              *)
(***************************************************************************)
THEOREM SessionTypeCorrect == Spec => []TypeOK
  BY InitTypeOK, NextTypeOK, PTL DEF Spec

-----------------------------------------------------------------------------
(***************************************************************************)
(* The inductive invariant.  A cookie with n ticks to live was read from   *)
(* the database at most Horizon - n ticks ago, and what a sign-in or a     *)
(* write has read was read since its request began.  The ages are a        *)
(* parameter, to be able to speak of them before and after a step.         *)
(***************************************************************************)
Backed(ages, u, o, n) == <<u, o>> \in Pairs /\ ages[<<u, o>>] <= n

CookieBacked(ages, c) == c.left > 0 => \A o \in c.orgs : Backed(ages, c.sub, o, Horizon - c.left)

RequestBacked(ages, q) ==
  /\ CookieBacked(ages, q.jar)
  /\ q.pc = "idle" => q.jar.left = 0
  /\ q.pc = "sign" => q.jar.left = 0 /\ \A o \in q.jar.orgs : Backed(ages, q.jar.sub, o, q.age)
  /\ q.pc = "commit" => Backed(ages, q.user, q.org, q.age)

SessionInv ==
  /\ \A p \in member : since[p] = 0
  /\ CookieBacked(since, cookie)
  /\ \A r \in Request : RequestBacked(since, req[r])

Ages     == [Pairs -> 0..Horizon]
ReqRecord == [pc: Place, user: User \cup {NoUser}, jar: Cookie, org: Org \cup {NoOrg}, age: 0..Latency]

(***************************************************************************)
(* Nothing has been read yet.                                              *)
(***************************************************************************)
LEMMA InitSessionInv == Init => SessionInv
  BY PairsAssumption DEF Init, SessionInv, CookieBacked, RequestBacked, NoCookie, Idle

-----------------------------------------------------------------------------
(***************************************************************************)
(* When nothing grows older, what is backed stays so.                      *)
(***************************************************************************)
LEMMA BackedStays ==
  ASSUME NEW s \in Ages, NEW t \in Ages, \A p \in Pairs : t[p] <= s[p]
  PROVE  /\ \A c \in Cookie : CookieBacked(s, c) => CookieBacked(t, c)
         /\ \A q \in ReqRecord : RequestBacked(s, q) => RequestBacked(t, q)
  <1>1. ASSUME NEW u, NEW o, NEW n \in Int, Backed(s, u, o, n) PROVE Backed(t, u, o, n)
    BY <1>1, HorizonNat DEF Backed, Ages
  <1>2. ASSUME NEW c \in Cookie, CookieBacked(s, c) PROVE CookieBacked(t, c)
    <2>1. Horizon - c.left \in Int
      BY HorizonNat, TimesAssumption DEF Cookie
    <2>2. QED
      BY <1>1, <1>2, <2>1 DEF CookieBacked
  <1>3. ASSUME NEW q \in ReqRecord, RequestBacked(s, q) PROVE RequestBacked(t, q)
    <2>1. q.age \in Int /\ q.jar \in Cookie
      BY TimesAssumption DEF ReqRecord
    <2>2. QED
      BY <1>1, <1>2, <1>3, <2>1 DEF RequestBacked
  <1>4. QED
    BY <1>2, <1>3

(***************************************************************************)
(* When pairs age by one, a cookie that loses one of its ticks stays       *)
(* backed, and so does a request that ages with its cookie.                *)
(***************************************************************************)
LEMMA BackedAges ==
  ASSUME NEW s \in Ages, NEW t \in Ages, \A p \in Pairs : t[p] <= s[p] + 1
  PROVE  /\ \A u, o : \A n \in Int : Backed(s, u, o, n) => Backed(t, u, o, n + 1)
         /\ \A c \in Cookie : CookieBacked(s, c) => CookieBacked(t, Older(c))
  <1>1. ASSUME NEW u, NEW o, NEW n \in Int, Backed(s, u, o, n) PROVE Backed(t, u, o, n + 1)
    <2>1. <<u, o>> \in Pairs /\ s[<<u, o>>] <= n /\ t[<<u, o>>] <= s[<<u, o>>] + 1
      BY <1>1 DEF Backed
    <2>2. s[<<u, o>>] \in Int /\ t[<<u, o>>] \in Int
      BY <2>1, HorizonNat DEF Ages
    <2>3. QED
      BY <2>1, <2>2 DEF Backed
  <1>2. ASSUME NEW c \in Cookie, CookieBacked(s, c) PROVE CookieBacked(t, Older(c))
    <2>1. CASE c.left > 1
      <3>1. /\ Older(c).left = c.left - 1 /\ Older(c).orgs = c.orgs /\ Older(c).sub = c.sub
        BY <2>1 DEF Older, Cookie
      <3>2. c.left \in Int /\ Horizon - c.left \in Int
               /\ Horizon - (c.left - 1) = (Horizon - c.left) + 1
        BY HorizonNat, TimesAssumption DEF Cookie
      <3>3. \A o \in c.orgs : Backed(s, c.sub, o, Horizon - c.left)
        BY <1>2, <2>1, <3>2 DEF CookieBacked
      <3>4. \A o \in c.orgs : Backed(t, c.sub, o, Horizon - (c.left - 1))
        BY <1>1, <3>2, <3>3
      <3>5. QED
        BY <3>1, <3>4 DEF CookieBacked
    <2>2. CASE ~(c.left > 1)
      BY <2>2 DEF Older, NoCookie, CookieBacked
    <2>3. QED
      BY <2>1, <2>2
  <1>3. QED
    BY <1>1, <1>2

(***************************************************************************)
(* A tick ages every pair by one at most, and a request under way by one.  *)
(***************************************************************************)
LEMMA TickAges ==
  ASSUME TypeOK, TypeOK', Tick, NEW p \in Pairs
  PROVE  since'[p] <= since[p] + 1
  <1>1. since[p] \in Int
    BY HorizonNat DEF TypeOK
  <1>2. since'[p] = since[p] \/ since'[p] = since[p] + 1
    BY DEF Tick
  <1>3. QED
    BY <1>1, <1>2

(***************************************************************************)
(* The clock ages the requests and the cookies they carry, and nothing     *)
(* else of them.                                                           *)
(***************************************************************************)
LEMMA TickKeepsRequests ==
  ASSUME TypeOK, Tick, NEW r \in Request
  PROVE  /\ req'[r].pc = req[r].pc
         /\ req[r].pc = "idle" => req'[r] = req[r]
         /\ req[r].pc # "idle" => /\ req'[r].user = req[r].user /\ req'[r].org = req[r].org
                                  /\ req'[r].age = req[r].age + 1
                                  /\ req'[r].jar = IF req[r].pc = "sign" THEN req[r].jar
                                                   ELSE Older(req[r].jar)
  <1>1. req[r] \in ReqRecord
    BY DEF TypeOK, ReqRecord
  <1>2. CASE req[r].pc = "idle"
    BY <1>2 DEF Tick
  <1>3. CASE req[r].pc # "idle"
    <2>1. CASE req[r].pc = "sign"
      BY <1>1, <2>1 DEF Tick, ReqRecord
    <2>2. CASE req[r].pc # "sign"
      BY <1>1, <1>3, <2>2 DEF Tick, ReqRecord
    <2>3. QED
      BY <1>3, <2>1, <2>2
  <1>4. QED
    BY <1>2, <1>3

(***************************************************************************)
(* Time passes: nothing that was backed ages beyond what it may.           *)
(***************************************************************************)
LEMMA TickSessionInv == TypeOK /\ TypeOK' /\ SessionInv /\ Tick => SessionInv'
  <1> SUFFICES ASSUME TypeOK, TypeOK', SessionInv, Tick PROVE SessionInv'
    OBVIOUS
  <1>1. since \in Ages /\ since' \in Ages
    BY DEF TypeOK, Ages
  <1>2. \A p \in Pairs : since'[p] <= since[p] + 1
    BY TickAges
  <1>3. \A p \in member' : since'[p] = 0
    BY DEF Tick, SessionInv, TypeOK
  <1>4. CookieBacked(since', cookie')
    BY <1>1, <1>2, BackedAges DEF Tick, SessionInv, TypeOK
  <1>5. ASSUME NEW r \in Request PROVE RequestBacked(since', req'[r])
    <2>1. req[r] \in ReqRecord /\ RequestBacked(since, req[r])
      BY DEF TypeOK, SessionInv, ReqRecord
    <2>2. req[r].age \in Int /\ req[r].jar \in Cookie
      BY <2>1, TimesAssumption DEF ReqRecord
    <2>3. CASE req[r].pc = "idle"
      BY <2>1, <2>3, TickKeepsRequests DEF RequestBacked, CookieBacked
    <2>4. CASE req[r].pc = "sign"
      <3>1. /\ req'[r].pc = "sign" /\ req'[r].jar = req[r].jar /\ req'[r].age = req[r].age + 1
        BY <2>4, TickKeepsRequests
      <3>2. \A o \in req[r].jar.orgs : Backed(since', req[r].jar.sub, o, req[r].age + 1)
        BY <1>1, <1>2, <2>1, <2>2, <2>4, BackedAges DEF RequestBacked
      <3>3. QED
        BY <2>1, <2>4, <3>1, <3>2 DEF RequestBacked, CookieBacked
    <2>5. CASE req[r].pc \notin {"idle", "sign"}
      <3>1. CookieBacked(since', Older(req[r].jar))
        BY <1>1, <1>2, <2>1, <2>2, BackedAges DEF RequestBacked
      <3>2. req[r].pc = "commit" => Backed(since', req[r].user, req[r].org, req[r].age + 1)
        BY <1>1, <1>2, <2>1, <2>2, BackedAges DEF RequestBacked
      <3>3. QED
        BY <2>5, <3>1, <3>2, TickKeepsRequests DEF RequestBacked
    <2>6. QED
      BY <2>3, <2>4, <2>5
  <1>6. QED
    BY <1>3, <1>4, <1>5 DEF SessionInv

(***************************************************************************)
(* What the other steps do to one request, and to the rest.                *)
(***************************************************************************)
LEMMA Untouched ==
  ASSUME TypeOK, TypeOK', SessionInv, NEW r \in Request,
         UNCHANGED <<member, since>>, CookieBacked(since, cookie'),
         \A x \in Request \ {r} : req'[x] = req[x], RequestBacked(since, req'[r])
  PROVE  SessionInv'
  BY DEF SessionInv

(***************************************************************************)
(* A request that begins carries the browser's cookie.                     *)
(***************************************************************************)
LEMMA BeginSessionInv ==
  ASSUME TypeOK, TypeOK', SessionInv, NEW r \in Request,
         NEW place \in Place \ {"idle", "sign", "commit"},
         NEW u, NEW o, Begin(r, place, u, o)
  PROVE  SessionInv'
  <1>1. req'[r].pc = place /\ req'[r].jar = cookie
    BY DEF Begin, TypeOK, Idle
  <1>2. RequestBacked(since, req'[r])
    BY <1>1 DEF SessionInv, RequestBacked
  <1>3. QED
    BY <1>2, Untouched DEF Begin, TypeOK, SessionInv

(***************************************************************************)
(* A request that is over carries nothing.                                 *)
(***************************************************************************)
LEMMA IdleBacked == RequestBacked(since, Idle)
  BY DEF RequestBacked, CookieBacked, Idle, NoCookie

(***************************************************************************)
(* What a member may do is backed now.                                     *)
(***************************************************************************)
LEMMA MemberBacked ==
  ASSUME TypeOK, SessionInv, NEW u, NEW o, <<u, o>> \in member, NEW n \in Nat
  PROVE  Backed(since, u, o, n)
  BY DEF TypeOK, SessionInv, Backed

(***************************************************************************)
(* Every step keeps the invariant.                                         *)
(***************************************************************************)
LEMMA NextSessionInv == TypeOK /\ TypeOK' /\ SessionInv /\ [Next]_sessionVars => SessionInv'
  <1> SUFFICES ASSUME TypeOK, TypeOK', SessionInv, [Next]_sessionVars PROVE SessionInv'
    OBVIOUS
  <1>1. ASSUME Change PROVE SessionInv'
    <2>1. since \in Ages /\ since' \in Ages
      BY DEF TypeOK, Ages
    <2>2. \A p \in Pairs : since'[p] = 0 \/ since'[p] = since[p]
      BY <1>1 DEF Change, TypeOK
    <2>3. \A p \in Pairs : since'[p] <= since[p]
      BY <2>1, <2>2, HorizonNat DEF Ages
    <2>4. \A p \in member' : since'[p] = 0
      BY <1>1 DEF Change, TypeOK, SessionInv
    <2>5. cookie' = cookie /\ req' = req /\ cookie \in Cookie
            /\ \A r \in Request : req[r] \in ReqRecord
      BY <1>1 DEF Change, TypeOK, ReqRecord
    <2>6. CookieBacked(since', cookie') /\ \A r \in Request : RequestBacked(since', req'[r])
      BY <2>1, <2>3, <2>5, BackedStays DEF SessionInv
    <2>7. QED
      BY <2>4, <2>6 DEF SessionInv
  <1>2. ASSUME Tick PROVE SessionInv'
    BY <1>2, TickSessionInv
  <1>3. ASSUME NEW r \in Request, Open(r) PROVE SessionInv'
    BY <1>3, BeginSessionInv DEF Open, SignIn, SignOut, Visit, OpenPage, OpenWrite, Place
  <1>4. ASSUME NEW r \in Request, GuardPage(r) \/ CommitWrite(r) \/ FinishPage(r) PROVE SessionInv'
    <2>1. req'[r] = Idle \/ (req'[r].pc = "render" /\ req'[r].jar = req[r].jar)
      BY <1>4 DEF GuardPage, CommitWrite, FinishPage, Go, TypeOK
    <2>2. RequestBacked(since, req'[r])
      BY <2>1, IdleBacked DEF SessionInv, RequestBacked
    <2>3. QED
      BY <1>4, <2>2, Untouched DEF GuardPage, CommitWrite, FinishPage, Go, TypeOK, SessionInv
  <1>5. ASSUME NEW r \in Request, requireSessionOrg(r) PROVE SessionInv'
    <2>1. CASE <<req[r].user, req[r].org>> \in member
      <3>1. /\ req'[r].pc = "commit" /\ req'[r].jar = req[r].jar /\ req'[r].age = req[r].age
            /\ req'[r].user = req[r].user /\ req'[r].org = req[r].org
        BY <1>5, <2>1 DEF requireSessionOrg, Go, TypeOK
      <3>2. Backed(since, req[r].user, req[r].org, req[r].age)
        BY <2>1, MemberBacked, TimesAssumption DEF TypeOK
      <3>3. RequestBacked(since, req'[r])
        BY <3>1, <3>2 DEF SessionInv, RequestBacked
      <3>4. QED
        BY <1>5, <3>3, Untouched DEF requireSessionOrg, Go, TypeOK, SessionInv
    <2>2. CASE <<req[r].user, req[r].org>> \notin member
      <3>1. req'[r] = Idle
        BY <1>5, <2>2 DEF requireSessionOrg, Go, TypeOK
      <3>2. QED
        BY <1>5, <3>1, IdleBacked, Untouched DEF requireSessionOrg, Go, TypeOK, SessionInv
    <2>3. QED
      BY <2>1, <2>2
  <1>6. ASSUME NEW r \in Request, QueryOrgs(r) PROVE SessionInv'
    <2>1. /\ req'[r].pc = "sign" /\ req'[r].jar.left = 0 /\ req'[r].age = req[r].age
          /\ req'[r].jar.sub = req[r].user /\ req'[r].jar.orgs = OrgsOf(req[r].user)
      BY <1>6 DEF QueryOrgs, TypeOK
    <2>2. \A o \in OrgsOf(req[r].user) : Backed(since, req[r].user, o, req[r].age)
      BY MemberBacked, TimesAssumption DEF OrgsOf, TypeOK
    <2>3. RequestBacked(since, req'[r])
      BY <2>1, <2>2 DEF RequestBacked, CookieBacked
    <2>4. QED
      BY <1>6, <2>3, Untouched DEF QueryOrgs, TypeOK, SessionInv
  <1>7. ASSUME NEW r \in Request, signTenantToken(r) PROVE SessionInv'
    <2>1. /\ req'[r].pc = "answer" /\ req'[r].jar.left = TTL
          /\ req'[r].jar.sub = req[r].jar.sub /\ req'[r].jar.orgs = req[r].jar.orgs
      BY <1>7 DEF signTenantToken, TypeOK, Cookie
    <2>2. \A o \in req[r].jar.orgs : Backed(since, req[r].jar.sub, o, req[r].age)
      BY <1>7 DEF signTenantToken, SessionInv, RequestBacked
    <2>3. req[r].age \in Int /\ req[r].age <= Horizon - TTL
      BY TimesAssumption DEF TypeOK, Horizon
    <2>4. \A o \in req[r].jar.orgs : Backed(since, req[r].jar.sub, o, Horizon - TTL)
      <3>1. \A p \in Pairs : since[p] \in Int
        BY HorizonNat DEF TypeOK
      <3>2. Horizon - TTL \in Int
        BY HorizonNat, TimesAssumption
      <3>3. QED
        BY <2>2, <2>3, <3>1, <3>2 DEF Backed
    <2>5. RequestBacked(since, req'[r])
      BY <2>1, <2>4 DEF RequestBacked, CookieBacked
    <2>6. QED
      BY <1>7, <2>5, Untouched DEF signTenantToken, TypeOK, SessionInv
  <1>8. ASSUME NEW r \in Request,
               ReceiveSignIn(r) \/ ReceiveSignOut(r) \/ FailSignIn(r) \/ FailRequest(r)
        PROVE  SessionInv'
    <2>1. req'[r] = Idle /\ cookie' \in {cookie, NoCookie, req[r].jar}
      BY <1>8 DEF ReceiveSignIn, ReceiveSignOut, FailSignIn, FailRequest, TypeOK
    <2>2. CookieBacked(since, cookie')
      BY <2>1 DEF SessionInv, RequestBacked, CookieBacked, NoCookie
    <2>3. QED
      BY <1>8, <2>1, <2>2, IdleBacked, Untouched
         DEF ReceiveSignIn, ReceiveSignOut, FailSignIn, FailRequest, TypeOK
  <1>9. ASSUME NEW r \in Request, Land(r) PROVE SessionInv'
    <2>1. req'[r] = Idle \/ (req'[r].pc = "guard" /\ req'[r].jar = cookie)
      BY <1>9 DEF Land, TypeOK, Idle
    <2>2. RequestBacked(since, req'[r])
      BY <2>1, IdleBacked DEF SessionInv, RequestBacked
    <2>3. QED
      BY <1>9, <2>2, Untouched DEF Land, TypeOK, SessionInv
  <1>10. ASSUME NEW r \in Request, SkipEstablish(r) PROVE SessionInv'
    <2>1. req'[r].pc = "answer" /\ req'[r].jar = NoCookie
      BY <1>10 DEF SkipEstablish, TypeOK
    <2>2. RequestBacked(since, req'[r])
      BY <2>1 DEF RequestBacked, CookieBacked, NoCookie
    <2>3. QED
      BY <1>10, <2>2, Untouched DEF SkipEstablish, TypeOK, SessionInv
  <1>11. CASE UNCHANGED sessionVars
    BY <1>11 DEF sessionVars, SessionInv
  <1>12. QED
    BY <1>1, <1>2, <1>3, <1>4, <1>5, <1>6, <1>7, <1>8, <1>9, <1>10, <1>11
       DEF Next, Step, SignInStep, Fault

(***************************************************************************)
(* In every behaviour, every cookie held anywhere was read recently enough *)
(* for the ticks it has to live, and every read since its request began.   *)
(***************************************************************************)
THEOREM SessionInvariant == Spec => [](TypeOK /\ SessionInv)
  BY InitTypeOK, NextTypeOK, InitSessionInv, NextSessionInv, PTL DEF Spec

-----------------------------------------------------------------------------
(***************************************************************************)
(* A write never rests on a membership that ended before its request       *)
(* began, whatever cookie the browser holds.                               *)
(***************************************************************************)
THEOREM WritesRestOnMembership == Spec => []WritesAreLive
  <1>1. TypeOK /\ SessionInv => WritesAreLive
    BY DEF SessionInv, RequestBacked, Backed, WritesAreLive, Pair
  <1>2. QED
    BY <1>1, SessionInvariant, PTL

(***************************************************************************)
(* The page guard admits only what is Readable, and that is a membership   *)
(* now, or one a cookie with ticks to live has named.                      *)
(***************************************************************************)
LEMMA ReadableIsRecent ==
  ASSUME TypeOK, SessionInv, NEW r \in Request, req[r].org \in Readable(req[r].user, req[r].jar)
  PROVE  Pair(r) \in Pairs /\ since[Pair(r)] < Horizon
  <1>1. CASE Pair(r) \in member
    BY <1>1, HorizonNat DEF TypeOK, SessionInv
  <1>2. CASE Pair(r) \notin member
    <2>1. readTenantToken(req[r].jar, req[r].user) /\ req[r].org \in req[r].jar.orgs
      BY <1>2 DEF Readable, OrgsOf, Pair
    <2>2. Backed(since, req[r].user, req[r].org, Horizon - req[r].jar.left) /\ req[r].jar.left > 0
      BY <2>1 DEF readTenantToken, SessionInv, RequestBacked, CookieBacked
    <2>3. req[r].jar.left \in Int /\ \A p \in Pairs : since[p] \in Int
      BY HorizonNat, TimesAssumption DEF TypeOK, Cookie
    <2>4. QED
      BY <2>2, <2>3, HorizonNat DEF Backed, Pair
  <1>3. QED
    BY <1>1, <1>2

(***************************************************************************)
(* A read needs a membership that was active within a cookie's lifetime    *)
(* and one slow sign-in: for every TTL and Latency.                        *)
(***************************************************************************)
THEOREM ReadsRestOnRecentMembership == Spec => StaleReadsBounded
  <1>1. ASSUME TypeOK, SessionInv, [Next]_sessionVars, NEW r \in Request,
               req[r].pc = "guard", req'[r].pc = "render"
        PROVE  req[r].org \in Readable(req[r].user, req[r].jar)
    <2>1. ASSUME NEW x \in Request, GuardPage(x)
          PROVE  req[r].org \in Readable(req[r].user, req[r].jar)
      BY <1>1, <2>1 DEF GuardPage, Go, TypeOK, Idle
    <2>2. ASSUME NEW x \in Request, Open(x) PROVE FALSE
      BY <1>1, <2>2 DEF Open, SignIn, SignOut, Visit, OpenPage, OpenWrite, Begin, TypeOK, Idle
    <2>3. ASSUME NEW x \in Request,
                 SignInStep(x) \/ ReceiveSignOut(x) \/ Fault(x)
          PROVE  FALSE
      BY <1>1, <2>3 DEF SignInStep, QueryOrgs, signTenantToken, ReceiveSignIn, ReceiveSignOut,
                        Fault, SkipEstablish, FailSignIn, FailRequest, TypeOK, Idle
    <2>4. ASSUME NEW x \in Request,
                 Land(x) \/ requireSessionOrg(x) \/ CommitWrite(x) \/ FinishPage(x)
          PROVE  FALSE
      BY <1>1, <2>4 DEF Land, requireSessionOrg, CommitWrite, FinishPage, Go, TypeOK, Idle
    <2>5. CASE Change \/ Tick \/ UNCHANGED sessionVars
      <3>1. req'[r].pc = req[r].pc
        <4>1. CASE Tick
          BY <1>1, <4>1, TickKeepsRequests
        <4>2. CASE Change \/ UNCHANGED sessionVars
          BY <4>2 DEF Change, sessionVars
        <4>3. QED
          BY <2>5, <4>1, <4>2
      <3>2. QED
        BY <1>1, <3>1
    <2>6. QED
      BY <1>1, <2>1, <2>2, <2>3, <2>4, <2>5 DEF Next, Step
  <1>2. TypeOK /\ SessionInv /\ [Next]_sessionVars =>
          [\A r \in Request : req[r].pc = "guard" /\ req'[r].pc = "render" =>
             Pair(r) \in Pairs /\ since[Pair(r)] < Horizon]_sessionVars
    BY <1>1, ReadableIsRecent
  <1>3. QED
    BY <1>2, SessionInvariant, PTL DEF Spec, StaleReadsBounded
=============================================================================
