# Verification of governmentcontracted.com

TLA+ specifications of this repository: the assignment-of-claims ("factoring")
core, the sessions and reads of the signed-in portal, and the parts of both web
front ends where order, failure or a threshold decides what somebody is shown.
They are model-checked with TLC and, where it matters most, proved with TLAPS.
Paths below are relative to `src/`; `app/`, `lib/`, `components/` and
`migrations/` stand for those directories of `apps/platform-app`.

## 1. Inventory

| Component | State it keeps | Operations | Talks to |
|---|---|---|---|
| Assignment intake `app/api/assignments/route.ts` | `assignments` row, seeded `assignment_parties`, contractor stub | POST | Postgres, session guard |
| Initiate signing `app/api/assignments/[id]/initiate-signing/route.ts`, `lib/documenso/{client,envelope}.ts` | `assignment_documents`, missing parties | POST | Documenso, Postgres |
| Documenso webhook `app/api/webhooks/documenso/route.ts` | party and document status | POST | Documenso calls it; it calls `maybeAdvanceState` |
| Assignment state machine `lib/factoring/state-machine.ts` | `assignments.status`, append-only `assignment_state_transitions` | `evaluateTransition`, `maybeAdvanceState`, `applyTransition` | Postgres |
| Disbursements `app/api/disbursements/route.ts`, `lib/stripe/meter.ts` | `disbursements`, `factor_billing_events`, `audit_log` | POST | session guard, Stripe, Postgres; reads `assignments.status` |
| Factor onboarding `app/api/factors/route.ts`, `lib/stripe/setup.ts` | `organizations`, `factor_configurations` | POST | Stripe, Postgres |
| Tenant and session `lib/tenant.ts`, `lib/session.ts`, `lib/auth/*` | signed tenant cookie (8 h), memberships | guards, cookie mint and read | Supabase, Postgres |
| Sign-in, sign-out, landing `app/auth/*`, `app/page.tsx`, `lib/landing.ts`, middleware | browser session | actions, callback, redirect | Supabase, Platform API |
| Platform API `apps/platform-api` | none (read-only) | token check, ownership check, proxy of entity reads, landing | Catalyst (core-x), Postgres |
| Catalyst client and dashboard adapter `lib/catalyst/client.ts`, `lib/dashboard-adapter.ts` | none | fetch by one of two paths, overlay on the mock dashboard | Platform API or core-x |
| Factoring reads `lib/factoring/queries.ts` | none | the assignment's page, the factor's pipeline | Postgres |
| Dashboard and partner pages `app/dashboard`, `app/partner`, `components/*` | the URL | routes, links, sidebars, tiles, forms | all of the above |
| Marketing site `apps/marketing-site` | the tab: route, title, robots tag, form | routes and links, head effects, two forms | an endpoint that is not written yet |

What makes it hard. Every route is an asynchronous handler on its own database
connection. Handlers interleave at each `await`. Only the statements between
`BEGIN` and `COMMIT` are atomic, and the decisive reads and writes of the state
machine are outside any transaction. External calls (Documenso, Stripe) are
made before or inside transactions that may roll back. Documenso delivers
webhooks at least once, in any order. Clients retry. A signed cookie outlives
the membership it was made from, a page guard trusts it, and the read broker
does not. A browser has several requests under way whose answers set and clear
the same cookies in any order. A read can fail in the network, in the broker or
upstream, with a status or in the middle of a body. One UEI is normalized by
three pieces of code, and one number of days is judged by four.

Correctness wanted, by component:

- state machine and webhook: a status only on evidence; the documented
  sequence; a log that is the history; no lost signature or acknowledgement;
- disbursements: billed only for a perfected assignment; the ledger agrees with
  Stripe; once per payment;
- intake and onboarding: one organisation per slug and UEI, the documented 409;
- session: a bound on how stale a read's authority can be, live checks on
  writes, and a member is let in at last;
- read path: data on a live membership only; a failing upstream is an empty
  result, never an exception;
- factoring reads: a page never claims more than its rows account for;
- landing and pages: a member lands on a page that opens, links stay in the
  tenant, guard and broker agree on a UEI, the tiles tell one story;
- marketing site: title and robots tag are the page's; a confirmation means
  something is stored; one press, one submission.

## 2. Modules

| Module | Models | Role |
|---|---|---|
| `StateMachine` | statuses, roles, `evaluateTransition`, the legal edges | pure vocabulary |
| `FarAssignment` | what an assignment promises (FAR 32.805): a status only when the acts it stands for happened, along legal edges | abstract specification |
| `AssignmentLifecycle` | initiate-signing, Documenso, the webhook route, `maybeAdvanceState`, an operator | detailed specification; refines `FarAssignment` |
| `PaymentLedger` | what recording payments promises: the books are written in one step, after the meter event and on the evidence, never changed; who is told finds the payment there | abstract specification |
| `AssignmentReads` | the assignment's page, read while the lifecycle moves | extends `AssignmentLifecycle` |
| `Disbursement` | the disbursement route, Stripe, retrying clients | component |
| `FactoringSystem` | lifecycle and disbursements sharing `assignments.status` | composition; refines `PaymentLedger` |
| `Registry` | what onboarding and intake promise: a slug or UEI goes to its first claimant for good, an assignment is taken in once and on the holders of its keys, and a 201 is about what was asked | abstract specification |
| `Intake` | factor onboarding and assignment intake on the tables they share | component; refines `Registry` |
| `TenantSession` | memberships, the session and the tenant cookie, guards, sign-in, sign-out, landing, time | component |
| `ReadPath` | the reads of an admitted page through the broker or straight to core-x | extends `TenantSession` |
| `Navigation` | routes, links, sidebars, the landing policy and the three normalizations of a UEI | component |
| `Dashboard` | the overview's tiles: live answers laid over the mock dashboard, and the marks | component |
| `Site` | the marketing site in one tab | component |
| `MCLifecycle`, `MCReads`, `MCFactoring`, `MCIntake`, `MCWeb` | instances | for TLC |
| `AssignmentLifecycleProofs`, `AssignmentReadsProofs`, `FactoringProofs`, `IntakeProofs`, `TenantSessionProofs`, `ReadPathProofs`, `PortalPagesProofs`, `SiteProofs` | theorems | for TLAPS |

### AssignmentLifecycle

One assignment. A step is one transaction, one autocommit statement or one
external call; nothing larger is atomic in the code and nothing smaller is
visible to another handler.

| Variable | Code |
|---|---|
| `intake` | `has_surety` and the addresses of the intake request |
| `status`, `party`, `doc`, `transitions` | the four tables of `002_factoring.sql` |
| `issued`, `ipc` | envelopes at Documenso; where each initiate-signing request is |
| `pc`, `req`, `snap`, `next` | each webhook request: place, message, `status` as read, `newState` |
| `mail` | each Documenso message: unsent, pending, answered 2xx, dropped |
| `signed`, `acked` | history: who really acted (the evidence) |
| `manual` | the second half of an `applyTransition` made by hand |

| Action | Code |
|---|---|
| `CheckDrafted`, `CreateEnvelope`, `RecordEnvelope`, `FailInitiate` | initiate-signing route, lines 28-137 |
| `Emit` | external: a recipient acts and a message becomes due |
| `Receive`, `RefuseUnknownEnvelope` | webhook route 11-49 |
| `UpdateParties`, `RollbackUpdate` | its transaction 51-113, and the CHECK on the content hash that refuses it |
| `ReadStatus`, `ReadParties` | `maybeAdvanceState` 137-153: two SELECTs and the decision |
| `WriteStatus`, `WriteLog` | `applyTransition` 113-124: UPDATE, then INSERT |
| `FailWebhook` | a crash or error between any two of them, or a lost answer |
| `SetManually`, `LogManually` | external: an operator applying transitions no route performs |

The webhook's transaction reads nothing it writes later (its UPDATEs set
constants), so it is one step. A deadlock Postgres resolves by aborting a
transaction is a `FailWebhook` at "update". Message delivery: a message stays
pending until it is answered 2xx, so two requests may handle it at once; with
`Retries = FALSE` an unanswered message is dropped instead.

Addresses matter only by equality, because the webhook finds rows by e-mail:
an address is a model value, and a placeholder address is named by its role
(four distinct constants in the code). Names, reasons and timestamps are left
out. The signature check rejects a request before any state is touched and is
left out. Operators are external: the repository's only callers of
`applyTransition` outside `maybeAdvanceState` are tests (for example
`b5-state-machine.test.ts:165`), and they step along `LegalEdge`.

`AssignmentReads` adds one reader. `shown` is the status a page being built has
read; `ReadAssignment` is the first SELECT of `getAssignmentDetail`, `ReadRows`
the three that follow, which are taken as one because parties are never removed
and documents only added.

### Disbursement and FactoringSystem

A request is at "read", "authorize", "meter", "commit" or "respond", each
ending at an `await` another handler can overtake. The uncommitted INSERT is
invisible, so `Insert` only moves the request; `Commit` makes the disbursement,
billing event and audit rows appear together. `FireMeter` is Stripe recording
the event under its idempotency key; `Fail` after it is a rollback that Stripe
does not see. The id of a disbursement is drawn anew by each INSERT, and a
request makes one INSERT, so the request names the id. The foreign key's share
lock on the assignment does not conflict with an UPDATE of its status, so
nothing keeps the status from changing while the transaction is open.
`FactoringSystem` conjoins the two specifications by interleaving; the only
shared variable is `status`. Its refinement mapping to `PaymentLedger` is the
identity on the tables, `metered`, `pay` and `told`; `earned` is the evidence,
`Earned`, so that the steps of the lifecycle are the ledger's `Earn` or nothing.
`Post`, `FireMeter`, `Commit` and `Respond` are its `Ask`, `Meter`, `Enter` and
`Tell`; every refusal, failure and timeout is a stuttering step.

### Intake

Both routes look an organisation up with an autocommit SELECT and insert what
they did not find; the UNIQUE columns `slug` and `uei` decide the race. A step
is one autocommit statement or one `BEGIN ... COMMIT`: Postgres makes the
second INSERT of a key wait for the first transaction, so its outcome is the
one after that COMMIT. `pc` is where a request is, `body` what it asked,
`factor` and `contractor` the two local ids.

| Action | Code |
|---|---|
| `GuardOnboarding`, `CheckSlug`, `Onboard` | factors route: admin gate, duplicate check (409), transaction (500 on UNIQUE) |
| `GuardIntake`, `ResolveFactor`, `ResolveContractor` | assignments route: session guard, two SELECTs |
| `CreateStub` | the contractor's autocommit INSERT (500 on UNIQUE) |
| `InsertAssignment` | its transaction |
| `Post`, `Respond`, `Fail` | client; 201; error, crash or lost answer at any point |

The 422 "Factor not found" cannot be reached: a member of the named factor has
passed the guard and no route deletes organisations. Other writers of
`organizations` (the claim flow, seeds) are not in these routes and not
modelled; the tables start empty. The parties an intake seeds are the `Init` of
`AssignmentLifecycle`. The refinement mapping to `Registry` reads the holders of
the keys off the table (`HoldersOfSlug`, `HoldersOfUei`, sets of ids, so that
there being one at most is part of what is shown); `asked`, `journal` and
`confirmed` are `body`, `audit` and the requests answered 201. `Post`, `Onboard`,
`CreateStub`, `InsertAssignment` and `Respond` are its `Ask`, `Register`, `Enrol`,
`Take` and `Confirm`; look-ups, refusals and failures are stuttering steps. Two
transactions of one intake are two steps of the registry, so a UEI enrolled
without an assignment is part of the promise and only counted (`StubsAreFailures`).

### TenantSession and ReadPath

One browser. A request carries the user and the cookie the browser had when it
began; what its answer sets is applied when the answer arrives, so answers may
overtake each other. Time is a `Tick`; a lifetime is a counter that runs down,
and `since` counts the ticks since a pair was last a membership. A request is
under way for `Latency` ticks at most: the server's own limits and the
browser's patience.

| Variable | Code |
|---|---|
| `member` | active rows of `organization_memberships`; the platform's admins are members of one more organisation |
| `since` | history: how long ago a membership ended |
| `session`, `cookie` | the browser's Supabase session and `gc_tenant` |
| `req` | each request: place, user, cookie (or the one it is signing), organisation, age |
| `path`, `read` | the deployment's read path; what each surface of a page has come to |

| Action | Code |
|---|---|
| `SignIn`, `QueryOrgs`, `signTenantToken`, `ReceiveSignIn` | `app/auth/actions.ts`, `callback/route.ts`, `establishTenantSession` |
| `SkipEstablish`, `FailSignIn` | its early returns; its uncaught failures |
| `SignOut`, `ReceiveSignOut` | `app/auth/signout/route.ts`, whose call to Supabase may fail unnoticed |
| `Visit`, `Land` | `app/page.tsx`, and the browser following the redirect |
| `OpenPage`, `GuardPage`, `FinishPage` | middleware, `resolveTenantUei`, the page |
| `OpenWrite`, `requireSessionOrg`, `CommitWrite` | the guard of a mutation, and its work |
| `Change`, `Tick`, `FailRequest` | administrators, the clock, an outage or a lost answer |
| `AskSurfaces`, `AnswerPage` | the page's `Promise.all` and its render |
| `requireUser`, `ownedUeis`, `FetchThroughBff` | the broker: 401, the live check (404, 503), the proxy |
| `FetchDirect` | the client straight to core-x |

An answer over one hop is a status, no answer in time, or a 200 whose body
stalls or breaks off; `proxy` turns the last two into 502 because the broker
reads the body inside its `try`, and `getJson` throws on a body it cannot read
because the client does not. Checking credentials is Supabase's and the refresh
of its tokens is left out: a session lasts until somebody signs out.

### Navigation, Dashboard, Site

`Navigation` walks one user with fixed memberships (`orgs`, oldest first)
through URLs (`url`, `via`): `GoHome` is the landing, by the broker's
`landingFor` or the page's own copy of it; `TypeUrl` any spelling of a UEI;
`FollowSidebar` and `FollowLink` what the shown page offers. A UEI is a short
sequence over one character per class the three normalizers tell apart. The
`replace(/[^A-Z0-9]/g, "")` among them is `Allowed`, written with the places the
kept characters take (`Kept`, `Rank`) because the provers treat `SelectSeq` as
unknown; `MCWeb` assumes, and TLC evaluates, that it is that `SelectSeq` on every
spelling the run uses.
The partner's sidebar decides what to light by a test on strings
(`PartnerSidebar.tsx:87-89`): the URL is the item's, or the item's href ends in
`/spec` and starts the URL. Paths are sequences of segments here (`pathname`), so
`endsWithSpec` and `startsWith` are those tests. Two things follow that the
code's author may not have meant, and `OneItemLit` states both: in the portal of
a partner whose slug is `spec` (`factors/route.ts:14` allows it) the overview's
href passes the test and is lit on every page beside the page's own item; and a
dashboard URL in another spelling than the layout's lights nothing.

`Dashboard` has one action, `OpenOverview`: both reads are made anew, each null
or with fields missing, and `Render` lays them over the mock figures. The
properties speak of what is on the screen, not of the functions that put it
there. Mock rows carry no `isMock` and are marked by the component that shows
them, live rows carry `FALSE`.

`Site` has `Load`, `FollowSiteLink` and `Traverse` (back and forward), whose
effects write and give back the title (`saved` holds what each mounted hook
found) and the robots tag. Without a new document back and forward may reach any
path the tab once showed, from before a reload too, so `Traverse` goes to any
path and no history is kept; a document the browser revives from its cache after
another was loaded is not modelled. The form's actions are `RejectInput`,
`Submit`, `Serve` and `ReceiveOutcome`. A submission whose page has gone is on its own. The endpoint
does not exist yet, so it may store or refuse whatever reaches it, also after
the browser has given up.

## 3. Runs

`CHECK_DEADLOCK FALSE` stands in the runs of the factoring core only: an
assignment may really come to rest (perfected, terminated, or waiting for
people), and the clients' requests are a finite set. `web` and `outage` check
for deadlock: a browser can always do something.

| Run | Instance | Shows |
|---|---|---|
| `lifecycle_concurrent` | 2 webhooks at once, one failure, no retries, no intake addresses | `TypeOK`, `PerfectedJustified`, `StatusIsLogged`, `AcknowledgementsStick` and the refinement `StatusHasEvidence` in every interleaving |
| `lifecycle_serial` | 1 webhook at a time, 2 envelopes, one failure, one redelivery, with and without surety | `FollowsLegalSequence` (refinement), `LogIsSound`, `LogIsHistory`, `RetryPerfects` |
| `lifecycle_signing` | 2 webhooks at once bring one signature each, one may crash | `SignedIsExecuted` |
| `billing` | two parts: 3 disbursement requests for a payment beside one webhook at a time, one failure or timeout, terminations; or a reader of the assignment's page beside 2 webhooks | `BillingTypeOK`, `LedgerComplete`, `OrphansAreFailures`, `BilledOnce`, `BilledOnEvidence`, `DisbursementIsTraceable` and the refinement `KeepsTheBooks`; `ShownStatusIsBacked` |
| `intake` | 3 onboardings and 3 intakes at once, 2 slugs, 2 UEIs, one failure | `DuplicateNeverCreates`, `SameContractor`, `StubsAreFailures` and the refinement `KeepsRegistry` |
| `web` | four parts: a browser with 2 requests, a user's walk, the overview, a tab of the site | sessions: `WritesAreLive`, `StaleReadsBounded`, `MembersGetIn`; reads: `PortalTypeOK`, `DataIsLive`; walk: `LandingOpens`, `GuardsAgree`, `OneItemLit`, `LinksKeepTenant`; overview: `RenewalClusterAgrees`, `UrgencyAgrees`; site: `HeadMatchesPage`, `LinksResolve`, `ConfirmedIsStored`, `DuplicatesOnlyAfterFailure` |
| `lifecycle_regress` | as concurrent, no failure | violates `PerfectedStays` |
| `lifecycle_unserved` | no operator | violates `ExecutedIsServed` |
| `lifecycle_opened` | events the handler does not list | violates `ExecutedJustified` |
| `stale_disbursement` | a termination while a request is in progress | violates `DisbursedWhilePerfected` |
| `unledgered` | one failure | violates `EveryMeterEventLedgered` |
| `outage` | the requests of `web` | violates `OutageNeverFailsRender` |

Bounds of the factoring core. Two webhook requests are enough for every
pairwise race on the status, and the hazards here are pairwise: one read, one
overwrite. One failure places a crash at each point of each request. One
envelope, except in `lifecycle_serial`, where two initiate-signing requests
race for the same assignment: a second envelope only adds messages for the same
rows, and the proofs have no such bound. Three intakes let two race for one UEI
while a third comes later. Three disbursement requests allow a retry of a
retry. In `billing` the reader and the requests share no variable, so each part
is explored by itself (`MCReads!part`): beside the requests a single webhook
runs (`OneWebhook`), since their hazard is a status that changes after it was
read and one writer changes it; beside the reader two do, and nothing is
terminated (`NeverTerminated`), since the termination accounts for nothing a
page could show. Both parts are symmetric in workers and requests, which are
only compared with each other. The bounds are the constants `MaxFailures`,
`MaxDuplicates`, `MaxBillingFailures` and the sizes of `Worker`, `Envelope`,
`Mail`, `Request` and `Payment`.

Bounds of `web`. The four parts share no variable, so one run explores each by
itself (`MCWeb!part`); their products would add nothing. Two users share the
browser, one organisation has one member who comes and goes (`MaxChanges` 2: a
revocation and a grant, either order), cookies live 2 ticks and requests 1
(`TTL`, `Latency`): a cookie can be read before, and used after, each change,
and a sign-in can straddle a tick. Two requests overlap where pages do not read,
one where they do (`Busy`): the reads of one page already interleave with each
other, with changes and with time. One failure. In the walk a UEI has 2
characters instead of 12 (`UeiLength`) and people type every spelling up to one
character too long, which is what cutting before or after cleaning turns on; the
stored forms are canonical, lower case, with an excluded letter, and too long.
Partners have the slug `spec` or another.
The overview sees days on both sides of 0, 60 and 90. The site has 2 categories,
a stray path at each level, and 2 submissions.

What the violations mean.

1. *Regression.* Webhook A reads served with one acknowledgement; webhook B
   reads served with both, writes perfected; A writes acknowledged. The log
   then has two rows out of served. No later event repairs it unless one more
   message arrives. The status still only claims what happened
   (`StatusHasEvidence`), which is why the damage is delay and not a false
   perfection.
2. *Unserved.* No code performs executed -> served, against the comment that
   the API does.
3. *Opened.* Unknown event names are taken for signatures. The two runs that
   check evidence, and the proofs, therefore assume `FaithfulMail`: only events
   the handler lists.
4. *Stale disbursement.* The status is checked once, before two awaits and
   outside the transaction.
5. *Unledgered.* The meter event survives the rollback of its ledger row, and
   the retry is metered under a new key.
6. *Outage.* The client reads a body outside the `try` around its `fetch`; a
   body that stalls past the time limit or breaks off is an exception in the
   render, which has no error boundary.

Weaker facts that do hold are stated beside each: `BilledOnEvidence` and
`DisbursementIsTraceable` for 4; `OrphansAreFailures` and `BilledOnce` for 5,
which bound the damage by the number of failures.

`StatusIsLogged` and `LogIsHistory` are stated for behaviours without a
failure: a crash between `WriteStatus` and `WriteLog` loses the row for good.
`LogIsSound` is what such a crash leaves: the rows there are each a legal move,
inserted once.

Fairness. `FairSpec` of the lifecycle has weak fairness on each accepted webhook
request (the event loop runs every ready continuation), on accepting each
pending message (Documenso keeps retrying) and on the operator finishing a
transition begun. Nobody is made to sign, acknowledge or serve, and failures are
never fair. `ExecutedIsServed` is violated under that fairness. `WebFairness`
makes time pass and every request be answered. Nobody has to sign in or out, and
failures and changes of memberships owe nothing. `MembersGetIn` needs both: the
stale cookie that keeps a new member out goes only by its expiry, and a slow
sign-in must not bring one back for ever.

### Where code and text differ without a run

- `factors/route.ts:4` documents a 409 for a duplicate slug; the loser of a race
  passes the check and gets 500 from the UNIQUE constraint. Its data are right
  (`DuplicateNeverCreates`).
- `app/auth/actions.ts:53` and `callback/route.ts:45` call the tenant cookie
  best effort; a failure of the query behind it is not caught and fails the
  sign-in, and a sign-in that sets no cookie leaves an older one in place.
- A UEI is stored as intake received it (`assignments/route.ts:13`). One that is
  not of the form `normalizeUei` keeps lands its member on a 404 for good.
- The landing asks the database and the page guard trusts the cookie, so a new
  member can be sent to a page that refuses him until the cookie expires. The
  converse, a former member admitted, ends at the broker (`DataIsLive`).
- When the profile or the overview cannot be read, the SAM tile, the identity
  strip and the contract count show the mock company's figures with no badge.
- The SAM tile warns from 60 days, the compliance tile, deadline and feed from
  90. `UrgencyAgrees` says what that leaves in agreement.
- The HTML forms of `factor-setup/page.tsx:20`, `capital/factor/page.tsx:22` and
  `capital/factor/[assignment_id]/page.tsx:125` send urlencoded bodies to routes
  that call `req.json()`. No link of the portal leads to these pages or to
  `factor-pipeline`.

## 4. Proofs

`AssignmentLifecycleProofs`, for all values of the constants allowed by the
named assumptions:

- `TypeCorrect`: `Spec => []TypeOK`.
- `EvaluateFollowsSequence`: the pure decision proposes legal edges only.
- `EvidenceInvariant`: `EvidenceInv` is inductive. It is needed because
  `PerfectedJustified` says nothing of statuses still in flight. It has three
  parts: `MailReported` (a message due reports acts that happened),
  `RowsTruthful` (a party row says signed or acknowledged only if the role
  did) and `StatusesJustified` (the status, and every status a webhook has
  read or will write, is justified by the acts). Acts only grow, so whatever a
  webhook read stays justified however long it is delayed: that is why blind
  writes cannot produce a false perfection.
- `PerfectedIsJustified` and `LifecycleHasEvidence` (the refinement of
  `FarAssignment`) follow from it.
- `StatusHasRow`: until something fails, the status is in the log, or a webhook
  or operator is about to log it (`LoggedInv`).
- `LifecycleFollowsSequence`, `LogIsNeverWrong`, `LogIsTheHistory`: with one
  webhook at a time (`OneAtATime`) and an operator who only serves
  (`OperatorOnlyServes`). Neither assumption can be dropped: `lifecycle_regress`
  is a counterexample with a second webhook, and a termination by hand between
  a webhook's read and its blind write is overwritten in the same way. Crashes,
  retries, redeliveries and any number of initiate-signing requests remain.
  `SerialInv` is the inductive invariant: what the webhook read is the present
  status, unless it read executed and the operator served since; but out of
  executed a webhook proposes nothing (`WebhookEdges`), so what it writes over is
  what it read. The refinement of `FarAssignment!LegalSpec` joins it with
  `EvidenceInv`. `HistoryInv` adds for the log that rows lead only into statuses
  entered so far (`Entered`): a legal move enters a new one, so its row is not
  there yet, and a retry after a crash cannot insert it again. A failure may lose
  the row in flight (`RowLost`) and then only the absence of gaps is lost with it.

TLC checked `SerialInv`, `HistoryInv` and, for the ledger below, `BooksInv` as
invariants before they were proved.

`EvidenceInvariant` and what follows from it, `LifecycleFollowsSequence` included, assume `DistinctAddresses` (parties
of one assignment have different e-mail addresses; the webhook updates rows by
address, so with a shared address one person's event is recorded for both roles)
and `FaithfulMail` (violation 3).

`AssignmentReadsProofs` assumes `SignersSign` as well (Documenso reports
signatures of signers only). Then a row only advances: a signature event never
reaches an addressee's row (`AcknowledgementsNeverLost`). `StatusesAccounted`
is the inductive invariant behind the page: every status anywhere - stored, read
by a webhook, about to be written, or read by the page - is accounted for by
rows that are there now. The rows read later account for it too, because they
only advance: `PageShowsBackedStatus`.

`FactoringProofs`: `SystemRunsLifecycle` carries the lifecycle's theorems over to
the composed system; `BillingTypeCorrect` types the
requests; `LedgerIsComplete` is proved from `LedgerInv` (tables
determined by the disbursements; a live request about to commit is metered);
`BillingRestsOnEvidence` from `BillingEvidence` (whoever read perfected did so
when all acts were there). `DisbursementsAreTraced`
needs only that a row of the log, written or on its way, never goes away
(`TraceInv`), so it survives the regressions of violation 1. Two theorems count.
`OrphansNeedFailures`: a request has a meter event and no disbursement only while
it is committing or after it failed there. `BilledOncePerFailure` rests on
`OnceFor`: a client waits for one request for a payment at a time and for none once
it was told, so every other request that has billed or may still bill it was given
up at the cost of a failure or a timeout. All hold for any number of requests,
payments and failures; `Checked` (only a request that read "perfected" and passed
its guard has any effect) carries the tracing and the billing theorem. `BooksAreKept`
is the refinement of `PaymentLedger`, step by step (`StepKeepsBooks`) from
`LedgerInv`, `Checked`, `BillingEvidence` and `BooksInv` (an unused id has no
payment; a request is in the books exactly from its COMMIT on). It says more than
the invariants together: no row of the books ever goes away, no id is metered or
entered twice, and a 201 comes after the COMMIT. It assumes what
`BillingRestsOnEvidence` does, and covers fixture mode, which the run does not.

`IntakeProofs`: `IntakeInv` (inductive: `IntakeInvariant`) says that a row belongs to the request whose place
shows it wrote it, that keys are unique, and that every id a request carries or
an assignment stores is in the table under the key it was found by. It is
needed because a look-up may be stale when it is used: an id found stays
right (rows are only added), an absence found does not, and only the UNIQUE
columns save it. `DuplicatesNeverCreate`, `IntakesShareContractor` and
`IntakeTypeCorrect` follow for any number of requests, slugs and UEIs, assuming
only that the two kinds of requests are disjoint and NULL is not a key.
`StubsNeedFailures` counts: an intake stops using the contractor it holds only by
failing between the stub and its INSERT, and its id names one row.
`RegistryIsKept` is the refinement of `Registry` (`StepKeepsRegistry`, one lemma
for each kind of step) from `IntakeInv` and `AsksTrue`: an unused request has
asked for nothing, an intake about to answer 201 has its assignment. It says
more than the invariants together: the holder of a key never changes, an
assignment is never changed or taken in twice, the audit row appears in the step
it is about, and no 201 precedes what it confirms.

`TenantSessionProofs`: for any users, organisations, lifetimes and number of
concurrent requests. `SessionInv` (inductive, with the types
`SessionTypeCorrect`: `SessionInvariant`) says of every cookie held anywhere - by the
browser, carried by a request, or on its way back - that a membership it names
was active no longer ago than `Horizon` less the ticks it has left; a cookie
being signed was read since its request began. Time takes a tick off a cookie
for every tick it adds to the age of a membership, and signing starts the
lifetime at most `Latency` after the read: so `ReadsRestOnRecentMembership`
holds with `Horizon = TTL + Latency`, and not with `TTL` alone.
`WritesRestOnMembership` follows from the same invariant. The assumptions are
those of the module: a request is shorter than a cookie's lifetime.

`ReadPathProofs`: `PortalRunsSessions` shows that the reads leave the session's
specification as it is, so its theorems hold of the portal; `PortalTypeCorrect` types the reads, and
`BrokerReadsLive`
adds that what was allowed, or handed over, behind the broker rests on a
membership active since the page was opened, in any deployment.

`SiteProofs`: `HeadIsThePages` needs no strengthening. `ConfirmationsAreStored`
and `NoDuplicateWithoutFailure` rest on `FormInvariant`: at most one submission
of the mounted form is unanswered, exactly while the form is pending, and a
form that says done heard so from a submission that is stored. `LinksAreGood`:
whatever a page of the site links to (`LinkTargets`) is a page of the site, and
none of it is the brand preview, which no page lists.

`PortalPagesProofs`: two components, each for every value of its constants.

- The walk. `WalkInv` (inductive: `WalkInvariant`) says that the browser is at a
  page of the portal or at access-expired, and right after landing where the
  landing policy sends the member. That the broker's policy and the page's own
  copy agree is `LandingsAreOne`. `LandingsOpen`, `GuardsAlwaysAgree`,
  `OneItemIsLit` and the action property `LinksAlwaysKeepTenant` follow, for UEIs
  of any length and any number of organisations. They turn on lemmas about the
  normalizers: what `Allowed` keeps (`AllowedIsClean`, by counting ranks), that
  what is short enough is not cut (`SliceCuts`), and that normalizing what the
  layout cleaned, or what is normalized already, finds the same UEI
  (`NormalizationsAgree`). `OneItemIsLit` needs what the two tests on paths say
  of a partner's pages, for any slug (`PartnerPaths`, `PartnerItems`). For
  `LinksKeepTenant` that cutting comes last is the point: `layout.tsx` does not
  cut at all, and its longer links are cut by the guard to the same tenant; a
  layout that cut before cleaning (the mutant) would lead elsewhere.
- The overview. `BoardInv` (`BoardInvariant`) says the screen is the rendering of
  the last answers. `ClusterAlwaysAgrees` and `UrgencyAlwaysAgrees` then hold for
  every integer number of days, where the run has days around the thresholds.
  `LiveOnScreen` and `MockOnScreen` are the case distinction both rest on: the
  overlay replaces one known row, and the mark tells it from the others. They
  assume `NullAssumption`: null is none of the values it stands in for.

Every invariant and every safety property of the runs that pass is thus a
theorem. Only model-checked: the liveness properties `RetryPerfects`,
`SignedIsExecuted` and `MembersGetIn`, which the proof system cannot treat under
fairness. The properties of the runs that expect a violation are not theorems of
the code.

## 5. Not modelled, and what is left

Not modelled, because no state, order or threshold is involved: wording, layout
and the collapsing sidebar; the mock partner data; the design system's
components and the marketing site's menu; the field checks of the forms'
schemas; configuration and deployment files. `document-hash.ts` has no caller
(the lifecycle models the consequence: the content hash is never set).
`lib/stripe/setup.ts` creates the Stripe meter from a script. `clampLimit` and
the validation of the broker's environment at start are functions of one string
with unit tests of their own. The health route and the factor's pipeline are a
single statement each. Of the database triggers only the consequences a route
can meet are modelled.

Left:

1. An operator's service step as a process of its own, and the progress
   property for acknowledgements that arrive before service.
2. An abstract specification for the sessions, and its refinement.
3. Several assignments of one contract, once a route compares them.
