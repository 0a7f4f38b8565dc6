--------------------------- MODULE TenantSession ----------------------------
(***************************************************************************)
(* Who may read and write what, and for how long after a membership ends.  *)
(* One browser holds the Supabase session and the signed cookie gc_tenant, *)
(* which carries the organisations its user belonged to at sign-in         *)
(* (lib/auth/tenant-cookie.ts).  Page guards read that cookie; writes and  *)
(* the landing page ask the database.  The actors are the requests the     *)
(* browser has under way, whose cookies are those it had when they began   *)
(* and whose answers may arrive in any order, and administrators outside   *)
(* the program who grant and revoke memberships.                           *)
(* Time passes in ticks; a lifetime is a counter that runs down.           *)
(***************************************************************************)
EXTENDS Naturals

CONSTANTS
  User, NoUser,
  Org, NoOrg,      \* organisations, and the platform, whose grant is being its admin
  UeiOrg,          \* those with a UEI: their landing page is a dashboard
  Pairs,           \* the memberships (user, organisation) that can ever exist
  Request,         \* requests of the browser that can be under way at one time
  HasSecret,       \* is TENANT_COOKIE_SECRET configured?
  TTL,             \* TENANT_COOKIE_TTL_SECONDS, in ticks
  Latency,         \* bound: ticks a request can be under way
  MaxChanges,      \* bound: memberships granted or revoked
  MaxFailures      \* bound: requests that fail or lose their answer

ASSUME NamesAssumption  == NoUser \notin User /\ NoOrg \notin Org /\ UeiOrg \subseteq Org
ASSUME PairsAssumption  == Pairs \subseteq User \X Org
ASSUME TimesAssumption  == TTL \in Nat /\ Latency \in Nat \ {0} /\ Latency < TTL
ASSUME SecretAssumption == HasSecret \in BOOLEAN /\ MaxChanges \in Nat /\ MaxFailures \in Nat

VARIABLES
  member,    \* the active rows of organization_memberships (and platform_admins)
  since,     \* ticks since a pair was last a membership, counted up to Horizon
  session,   \* the user of the browser's Supabase session, or NoUser
  cookie,    \* the browser's gc_tenant, or NoCookie
  req,       \* each request: place, user and cookie it carries, organisation, age
  changes, failures   \* how much of each bound is used

sessionVars == <<member, since, session, cookie, req, changes, failures>>

Horizon == TTL + Latency

(* A signed cookie: its subject, the organisations and the ticks to its exp. *)
NoCookie == [sub |-> NoUser, orgs |-> {}, left |-> 0]
Cookie   == [sub: User \cup {NoUser}, orgs: SUBSET Org, left: 0..TTL]

Place == {"idle", "establish", "sign", "answer", "signout", "land", "guard", "render",
          "authorize", "commit"}
Idle  == [pc |-> "idle", user |-> NoUser, jar |-> NoCookie, org |-> NoOrg, age |-> 0]

OrgsOf(u) == {o \in Org : <<u, o>> \in member}     \* querySessionOrgs, activeOrgs

AnySubject(c, u)      == c.left > 0                 \* mutant: sub not compared
readTenantToken(c, u) == c.left > 0 /\ c.sub = u    \* the cookie can be trusted for u

(* getSessionOrgUeis: from the cookie if it can be trusted, else live. *)
Readable(u, c) ==
  UeiOrg \cap (IF HasSecret /\ readTenantToken(c, u) THEN c.orgs ELSE OrgsOf(u))

-----------------------------------------------------------------------------
Init ==
  /\ member \in SUBSET Pairs
  /\ since = [p \in Pairs |-> IF p \in member THEN 0 ELSE Horizon]
  /\ session = NoUser
  /\ cookie = NoCookie
  /\ req = [r \in Request |-> Idle]
  /\ changes = 0 /\ failures = 0

(* The world: administrators and the clock. *)
Change ==
  /\ changes < MaxChanges
  /\ \E p \in Pairs :
       /\ member' = IF p \in member THEN member \ {p} ELSE member \cup {p}
       /\ since' = [since EXCEPT ![p] = 0]
  /\ changes' = changes + 1
  /\ UNCHANGED <<session, cookie, req, failures>>

AgelessCookie(c) == c                         \* mutant: no setExpirationTime
ExpiredKept(c)   == [c EXCEPT !.left = @ - 1]   \* mutant: never dropped

Older(c) == IF c.left > 1 THEN [c EXCEPT !.left = @ - 1] ELSE NoCookie

(* A cookie being signed has no lifetime yet; it starts with the signature. *)
Tick ==
  /\ \A r \in Request : req[r].age < Latency
  /\ since' = [p \in Pairs |-> IF p \in member \/ since[p] = Horizon THEN since[p]
                               ELSE since[p] + 1]
  /\ cookie' = Older(cookie)
  /\ req' = [r \in Request |->
               IF req[r].pc = "idle" THEN req[r]
               ELSE [req[r] EXCEPT !.age = @ + 1,
                                   !.jar = IF req[r].pc = "sign" THEN @ ELSE Older(@)]]
  /\ UNCHANGED <<member, session, changes, failures>>

-----------------------------------------------------------------------------
(* What a request does.  Begin and Go leave everything but req alone.       *)

Begin(r, place, u, o) ==
  /\ req[r].pc = "idle"
  /\ req' = [req EXCEPT ![r] = [Idle EXCEPT !.pc = place, !.user = u, !.org = o, !.jar = cookie]]
  /\ UNCHANGED <<member, since, session, cookie, changes, failures>>

Go(r, from, to) ==
  /\ req[r].pc = from
  /\ req' = [req EXCEPT ![r] = IF to = "idle" THEN Idle ELSE [@ EXCEPT !.pc = to]]
  /\ UNCHANGED <<member, since, session, cookie, changes, failures>>

(* Password or magic link: Supabase has accepted the credentials of u. *)
SignIn(r, u) == Begin(r, "establish", u, NoOrg)

(* establishTenantSession returns early: no secret, or no verified subject. *)
SkipEstablish(r) ==
  /\ req[r].pc = "establish"
  /\ HasSecret => failures < MaxFailures
  /\ req' = [req EXCEPT ![r].pc = "answer", ![r].jar = NoCookie]
  /\ failures' = IF HasSecret THEN failures + 1 ELSE failures
  /\ UNCHANGED <<member, since, session, cookie, changes>>

QueryOrgs(r) ==
  /\ HasSecret /\ req[r].pc = "establish"
  /\ req' = [req EXCEPT ![r].pc = "sign",
                        ![r].jar = [sub |-> req[r].user, orgs |-> OrgsOf(req[r].user), left |-> 0]]
  /\ UNCHANGED <<member, since, session, cookie, changes, failures>>

signTenantToken(r) ==
  /\ req[r].pc = "sign"
  /\ req' = [req EXCEPT ![r].pc = "answer", ![r].jar.left = TTL]
  /\ UNCHANGED <<member, since, session, cookie, changes, failures>>

(* The answer's Set-Cookie headers reach the browser.  An answer that sets *)
(* no gc_tenant leaves an earlier one where it is.                         *)
ReceiveSignIn(r) ==
  /\ req[r].pc = "answer"
  /\ session' = req[r].user
  /\ cookie' = IF req[r].jar = NoCookie THEN cookie ELSE req[r].jar
  /\ req' = [req EXCEPT ![r] = Idle]
  /\ UNCHANGED <<member, since, changes, failures>>

(* establishTenantSession throws: nothing catches it, the sign-in answers  *)
(* an error, and whether the session's cookies were set is up to the       *)
(* framework.                                                              *)
FailSignIn(r) ==
  /\ req[r].pc \in {"establish", "sign"}
  /\ failures < MaxFailures
  /\ session' \in {session, req[r].user}
  /\ req' = [req EXCEPT ![r] = Idle]
  /\ failures' = failures + 1
  /\ UNCHANGED <<member, since, cookie, changes>>

SignOut(r) == session # NoUser /\ Begin(r, "signout", session, NoOrg)

(* The answer clears gc_tenant; the session goes too, unless the call to   *)
(* Supabase failed, whose error the route ignores.                         *)
ReceiveSignOut(r) ==
  /\ req[r].pc = "signout"
  /\ \/ session' = NoUser /\ failures' = failures
     \/ session' = session /\ failures < MaxFailures /\ failures' = failures + 1
  /\ cookie' = NoCookie
  /\ req' = [req EXCEPT ![r] = Idle]
  /\ UNCHANGED <<member, since, changes>>

(* app/page.tsx: the first active organisation decides where to go. *)
Visit(r) == session # NoUser /\ Begin(r, "land", session, NoOrg)

Land(r) ==
  /\ req[r].pc = "land"
  /\ \E o \in OrgsOf(req[r].user) \cup {NoOrg} :
       /\ o = NoOrg <=> OrgsOf(req[r].user) = {}
       /\ req' = [req EXCEPT ![r] =
                    IF o \in UeiOrg /\ session # NoUser   \* the browser follows the redirect
                    THEN [Idle EXCEPT !.pc = "guard", !.user = session, !.org = o,
                                      !.jar = cookie]
                    ELSE Idle]                            \* partner portal, access-expired, login
  /\ UNCHANGED <<member, since, session, cookie, changes, failures>>

(* A dashboard page: the middleware lets it through only with a session. *)
OpenPage(r, o) == session # NoUser /\ Begin(r, "guard", session, o)

(* resolveTenantUei: admitted, or 404. *)
GuardPage(r) ==
  Go(r, "guard", IF req[r].org \in Readable(req[r].user, req[r].jar) THEN "render" ELSE "idle")

FinishPage(r) == Go(r, "render", "idle")

(* A mutation: requireSessionOrg or requirePlatformAdmin, then the work. *)
OpenWrite(r, o) == session # NoUser /\ Begin(r, "authorize", session, o)

AuthorizeByCookie(r) ==    \* mutant: the write guard trusts the cookie too
  Go(r, "authorize", IF req[r].org \in Readable(req[r].user, req[r].jar) THEN "commit" ELSE "idle")

requireSessionOrg(r) ==
  Go(r, "authorize", IF <<req[r].user, req[r].org>> \in member THEN "commit" ELSE "idle")

CommitWrite(r) == Go(r, "commit", "idle")

(* A database or Auth outage, a crash, or an answer that is lost. *)
FailRequest(r) ==
  /\ req[r].pc \in {"answer", "signout", "land", "guard", "render", "authorize", "commit"}
  /\ failures < MaxFailures
  /\ req' = [req EXCEPT ![r] = Idle]
  /\ failures' = failures + 1
  /\ UNCHANGED <<member, since, session, cookie, changes>>

SignInStep(r) == QueryOrgs(r) \/ signTenantToken(r) \/ ReceiveSignIn(r)

Step(r) == \/ SignInStep(r) \/ ReceiveSignOut(r) \/ Land(r) \/ GuardPage(r)
           \/ requireSessionOrg(r) \/ CommitWrite(r)

Open(r) == \/ \E u \in User : SignIn(r, u)
           \/ SignOut(r) \/ Visit(r)
           \/ \E o \in Org : OpenPage(r, o) \/ OpenWrite(r, o)

Fault(r) == SkipEstablish(r) \/ FailSignIn(r) \/ FailRequest(r)

Next ==
  \/ Change \/ Tick
  \/ \E r \in Request : Open(r) \/ Step(r) \/ FinishPage(r) \/ Fault(r)

Spec == Init /\ [][Next]_sessionVars

(* Time passes and requests are answered.  Nobody has to sign in or out,    *)
(* and memberships and failures owe nothing.                                *)
Fairness == WF_sessionVars(Tick)
              /\ \A r \in Request : WF_sessionVars(Step(r) \/ FinishPage(r))
FairSpec == Spec /\ Fairness

-----------------------------------------------------------------------------
TypeOK ==
  /\ member \subseteq Pairs
  /\ since \in [Pairs -> 0..Horizon]
  /\ session \in User \cup {NoUser}
  /\ cookie \in Cookie
  /\ req \in [Request -> [pc: Place, user: User \cup {NoUser}, jar: Cookie,
                         org: Org \cup {NoOrg}, age: 0..Latency]]
  /\ changes \in 0..MaxChanges /\ failures \in 0..MaxFailures

Pair(r) == <<req[r].user, req[r].org>>

(***************************************************************************)
(* The 8 h window of tenant-cookie.ts:24: a page guard admits a user only  *)
(* to an organisation he belonged to less than a cookie's lifetime and one *)
(* slow sign-in ago, whatever was revoked, signed out, failed or answered  *)
(* late in between, and never through the cookie of another user.          *)
(***************************************************************************)
StaleReadsBounded ==
  [][\A r \in Request :
       req[r].pc = "guard" /\ req'[r].pc = "render" =>
         Pair(r) \in Pairs /\ since[Pair(r)] < Horizon]_sessionVars

(***************************************************************************)
(* Writes are live (session.ts:16): what a write is about to commit rests  *)
(* on a membership, or an admin's grant, that was active at some moment    *)
(* since its request began, though the browser may hold an older cookie.   *)
(***************************************************************************)
WritesAreLive ==
  \A r \in Request :
    req[r].pc = "commit" => Pair(r) \in Pairs /\ since[Pair(r)] <= req[r].age

(***************************************************************************)
(* A stale cookie denies a new member his dashboard, and landing on it     *)
(* does not help, but not for ever: a membership that stays is in the end  *)
(* honoured by every page guard of that user's browser.                    *)
(***************************************************************************)
MembersGetIn ==
  \A p \in Pairs :
    p[2] \in UeiOrg /\ <>[](p \in member) =>
      <>[](session = p[1] => p[2] \in Readable(session, cookie))
=============================================================================
