----------------------------- MODULE Navigation -----------------------------
(***************************************************************************)
(* The signed-in portal as its user walks it: where the landing page sends *)
(* him, which URL shows a page, where the links of a page lead, and which  *)
(* sidebar item is lit.  The UEI in a dashboard's URL is normalized by the *)
(* page guard, cleaned otherwise by the layout that builds the sidebar,    *)
(* passed on as typed by the placeholder pages, and normalized a third way *)
(* by the read broker; stored UEIs have whatever spelling intake was sent. *)
(* A UEI is a sequence of characters, one per class the code tells apart.  *)
(* Memberships do not change here: TenantSession is about their changes.   *)
(***************************************************************************)
EXTENDS Naturals, Sequences, FiniteSets

Ext == INSTANCE SequencesExt

CONSTANTS
  UeiLength,       \* 12
  Typed,           \* what users type, or are sent, as the UEI in a URL
  Stored,          \* UEIs in the organizations table
  Slug, NoUei, NoSlug,
  MaxOrgs          \* bound: active memberships of the user

(* Letters and digits a UEI may have, a lower-case one, the excluded letters *)
(* I and O, and everything that is neither letter nor digit.                 *)
Char == {"A", "B", "a", "I", "i", "-"}

ASSUME UeiAssumption  == UeiLength \in Nat \ {0} /\ Stored \subseteq Seq(Char) \ {<<>>}
                           /\ Typed \subseteq Seq(Char) \ {<<>>}
ASSUME OrgsAssumption == MaxOrgs \in Nat /\ NoSlug \notin Slug /\ NoUei \notin Stored

VARIABLES
  orgs,    \* the user's active organizations, oldest membership first
  url,     \* where the browser is
  via      \* how it got there: "land", "typed" or "link"

walkVars == <<orgs, url, via>>

-----------------------------------------------------------------------------
(* UEIs *)

toUpperCase(c) == CASE c = "a" -> "A" [] c = "i" -> "I" [] OTHER -> c
Upper(s)  == [k \in DOMAIN s |-> toUpperCase(s[k])]
Slice(s)  == SubSeq(s, 1, IF Len(s) < UeiLength THEN Len(s) ELSE UeiLength)

(* Upper(s) without the characters a UEI may not have: the j-th that stays is *)
(* the one with rank j among those that stay.                                *)
Kept(s)    == {k \in DOMAIN s : toUpperCase(s[k]) \in {"A", "B"}}
Rank(s, k) == Cardinality({i \in Kept(s) : i <= k})
Allowed(s) == [j \in 1 .. Cardinality(Kept(s)) |->
                 toUpperCase(s[CHOOSE k \in Kept(s) : Rank(s, k) = j])]

normalizeUei(raw) == Slice(Allowed(raw))

SliceFirst(raw) == Allowed(Slice(raw))   \* mutant: cut to length before cleaning
layoutUei(raw)  == Allowed(raw)          \* the layout does not cut at all

WellFormed(s) == Len(s) = UeiLength /\ \A k \in DOMAIN s : s[k] # "-"    \* UEI_RE

WithUei == {o \in {orgs[k] : k \in DOMAIN orgs} : o.uei # NoUei}
ueisOf  == {Upper(o.uei) : o \in WithUei}          \* the page guard's set

StoredSpelling == {o.uei : o \in WithUei}          \* mutant: not upper-cased
ueiSet         == {Upper(o.uei) : o \in WithUei}   \* the broker's set

(* The broker answers a read of this UEI with something other than 400 or 404. *)
brokerReads(uei) == WellFormed(uei) /\ Upper(uei) \in ueiSet

-----------------------------------------------------------------------------
(* Pages *)

DashboardNav == {"overview", "profile", "compliance", "past-performance", "active-contracts",
                 "opportunities", "surety", "capital", "vendor-programs", "equipment",
                 "inbox", "settings"}
PartnerNav   == {"overview", "transfers", "pipeline", "spec", "audience", "reports", "team",
                 "billing"}
SpecPages    == {"spec/new", "spec/id"}

Routes == [dashboard |-> DashboardNav \cup {"capital/factor", "capital/factor/id"},
           partner   |-> PartnerNav \cup SpecPages \cup {"factor-setup", "factor-pipeline"}]

At(area, id, page) == [area |-> area, id |-> id, page |-> page]
AccessExpired      == At("access-expired", <<>>, "overview")

Guarded == {"overview", "profile", "past-performance", "active-contracts"}   \* resolveTenantUei

Exists(u) == u.area \in DOMAIN Routes /\ u.page \in Routes[u.area] /\ u.id # <<>>
Shown(u) ==
  /\ Exists(u)
  /\ u.area = "dashboard" /\ u.page \in Guarded =>
       /\ WellFormed(normalizeUei(u.id))
       /\ normalizeUei(u.id) \in ueisOf

(* The sidebar of the page at u. *)
buildNav(u) ==
  IF u.area = "dashboard" THEN {At("dashboard", layoutUei(u.id), p) : p \in DashboardNav}
                          ELSE {At("partner", u.id, p) : p \in PartnerNav}

(* The segments of a partner's path, after /partner. *)
PagePath(page) ==
  CASE page = "overview" -> <<>>
    [] page = "spec/new" -> <<"spec", "new">>
    [] page = "spec/id"  -> <<"spec", "id">>
    [] OTHER             -> <<page>>
pathname(u) == u.id \o PagePath(u.page)

startsWith(u, item) == Ext!IsPrefix(pathname(item), pathname(u))
endsWithSpec(item)  == pathname(item)[Len(pathname(item))] = "spec"

PrefixActive(u, item) == startsWith(u, item)   \* mutant: every item is lit for the pages below it
active(u, item) ==
  u = item \/ (u.area = "partner" /\ endsWithSpec(item) /\ startsWith(u, item))

(* The links of the overview: shortcuts, deadlines, inbox and the feed.  The *)
(* feed shows four of its five events.                                       *)
ActionShortcuts == {"opportunities", "surety", "capital", "compliance"}
FeedActions     == {"active-contracts", "opportunities", "compliance", "past-performance"}

backHref(u) ==
  IF u.area = "dashboard" THEN At("dashboard", u.id, "overview")
  ELSE At("partner", u.id,
          CASE u.page \in SpecPages -> "spec"
            [] u.page = "overview"  -> "transfers"
            [] OTHER                -> "overview")

PageLinks(u) ==
  CASE u.area = "dashboard" /\ u.page = "overview" ->
         {At("dashboard", normalizeUei(u.id), p) :
            p \in ActionShortcuts \cup FeedActions \cup {"inbox"}}
    [] u.area = "dashboard" /\ u.page \in Guarded \ {"overview"} ->
         {At("dashboard", normalizeUei(u.id), "overview")}
    [] u.page \in {"capital/factor", "capital/factor/id", "factor-setup", "factor-pipeline"} -> {}
    [] OTHER -> {backHref(u)}

-----------------------------------------------------------------------------
(* Where the landing page sends a member; the broker's policy is a copy. *)

SlugFirst(os) ==           \* mutant
  IF os = <<>> THEN AccessExpired
  ELSE IF os[1].slug # NoSlug THEN At("partner", <<os[1].slug>>, "spec")
  ELSE IF os[1].uei # NoUei THEN At("dashboard", os[1].uei, "overview")
  ELSE AccessExpired

landingFor(os) ==
  IF os = <<>> THEN AccessExpired
  ELSE IF os[1].uei # NoUei THEN At("dashboard", os[1].uei, "overview")
  ELSE IF os[1].slug # NoSlug THEN At("partner", <<os[1].slug>>, "spec")
  ELSE AccessExpired

RootPage(os) ==
  LET first == {os[k] : k \in {1} \cap DOMAIN os}
  IN  IF \E o \in first : o.uei # NoUei THEN At("dashboard", os[1].uei, "overview")
      ELSE IF \E o \in first : o.slug # NoSlug THEN At("partner", <<os[1].slug>>, "spec")
      ELSE AccessExpired

Landings == {landingFor(orgs), RootPage(orgs)}   \* the broker's answer, or its fallback

Orgs == [uei: Stored \cup {NoUei}, slug: Slug \cup {NoSlug}]

(* organizations.uei and slug are UNIQUE, a membership is one per organization. *)
Rows == {os \in UNION {[1..n -> Orgs] : n \in 0..MaxOrgs} :
           \A j, k \in DOMAIN os : j # k =>
             /\ os[j].uei = os[k].uei => os[j].uei = NoUei
             /\ os[j].slug = os[k].slug => os[j].slug = NoSlug}

WalkInit == orgs \in Rows /\ url \in Landings /\ via = "land"

Goto(u, how) == url' = u /\ via' = how /\ UNCHANGED orgs

(* "/", by the wordmark or the 404 page's Home. *)
GoHome == via # "land" /\ \E u \in Landings : Goto(u, "land")

(* From a landing: typing elsewhere leads to the same states. *)
TypeUrl ==
  via = "land" /\ \E id \in Typed, p \in Routes.dashboard : Goto(At("dashboard", id, p), "typed")

FollowSidebar == Shown(url) /\ \E u \in buildNav(url) : Goto(u, "link")
FollowLink    == Shown(url) /\ \E u \in PageLinks(url) : Goto(u, "link")

WalkNext == GoHome \/ TypeUrl \/ FollowSidebar \/ FollowLink

WalkSpec == WalkInit /\ [][WalkNext]_walkVars

-----------------------------------------------------------------------------
WalkTypeOK ==
  /\ orgs \in Rows /\ via \in {"land", "typed", "link"}
  /\ url = AccessExpired \/ Exists(url) \/ url.id = <<>>

(***************************************************************************)
(* Whoever lands, by the broker's answer or by the page's own query, is    *)
(* where his oldest membership belongs, and a page is there: a dashboard   *)
(* for a UEI of the form normalizeUei keeps, the partner portal without a  *)
(* UEI, access-expired without either.  A UEI stored in another form       *)
(* (route.ts:13 accepts any) has no such promise: its landing is a 404.    *)
(***************************************************************************)
LandingOpens ==
  via = "land" =>
    IF orgs = <<>> \/ orgs[1] = [uei |-> NoUei, slug |-> NoSlug] THEN url = AccessExpired
    ELSE IF orgs[1].uei = NoUei THEN url.area = "partner" /\ Shown(url) /\ url.id = <<orgs[1].slug>>
    ELSE WellFormed(orgs[1].uei) /\ normalizeUei(orgs[1].uei) = Upper(orgs[1].uei) =>
           /\ url.area = "dashboard" /\ Shown(url)
           /\ normalizeUei(url.id) = Upper(orgs[1].uei)

(* Whose page is at u: the tenant its guard finds, or the partner's slug. *)
Tenant(u) == IF u.area = "dashboard" THEN normalizeUei(u.id) ELSE u.id

(***************************************************************************)
(* A link never leaves the tenant (layout.tsx:12 beside tenant.ts:17): from *)
(* a member's page, however its URL was spelled, every link of the page and *)
(* of the sidebar leads to a page that exists, is shown, and is that        *)
(* tenant's.                                                                *)
(***************************************************************************)
LinksKeepTenant ==
  [][via' = "link" /\ Shown(url) /\ (url.area = "dashboard" => Tenant(url) \in ueisOf
                                                               /\ WellFormed(Tenant(url))) =>
       Shown(url') /\ url'.area = url.area /\ Tenant(url') = Tenant(url)]_walkVars

(***************************************************************************)
(* The UEI a shown page reads with is one the broker lets its user read,   *)
(* whatever the spelling of the URL and of the stored UEI                  *)
(* (entities.ts:63-67): nobody passes the page's guard only to be told 404 *)
(* by the broker.                                                          *)
(***************************************************************************)
GuardsAgree ==
  url.area = "dashboard" /\ url.page \in Guarded /\ Shown(url) => brokerReads(normalizeUei(url.id))

(***************************************************************************)
(* What the sidebar lights: the item of the page, for the pages below the  *)
(* specs theirs; nothing if the URL spells the UEI otherwise than the      *)
(* layout does (layout.tsx:12); and one item more in the portal of a       *)
(* partner whose slug is "spec", which factors/route.ts:14 allows: the     *)
(* overview's href then ends in /spec and starts every pathname.           *)
(***************************************************************************)
OwnItem(u)    == {item \in buildNav(u) : item.page = IF u.page \in SpecPages THEN "spec" ELSE u.page}
Spelled(u)    == u.area = "partner" \/ u.id = layoutUei(u.id)
ShadowItem(u) == {item \in buildNav(u) : item = At("partner", <<"spec">>, "overview")}

OneItemLit ==
  url.area \in DOMAIN Routes =>
    {item \in buildNav(url) : active(url, item)} =
      IF Spelled(url) THEN OwnItem(url) \cup ShadowItem(url) ELSE {}
=============================================================================
