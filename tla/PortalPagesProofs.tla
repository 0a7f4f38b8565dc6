------------------------- MODULE PortalPagesProofs --------------------------
(***************************************************************************)
(* Proofs about the portal's pages: where the landing, the links and the   *)
(* sidebar lead (Navigation), and what the overview shows (Dashboard), for *)
(* UEIs of any length and spelling, any memberships and any answers.       *)
(***************************************************************************)
EXTENDS Navigation, Dashboard, FiniteSetTheorems, SequenceTheorems, TLAPS

-----------------------------------------------------------------------------
(***************************************************************************)
(* The ranks of the characters that stay are 1, 2, ... up to how many they *)
(* are, each taken once.                                                   *)
(***************************************************************************)
LEMMA KeptFinite ==
  ASSUME NEW s \in Seq(Char)
  PROVE  /\ Kept(s) \subseteq 1 .. Len(s) /\ IsFiniteSet(Kept(s))
         /\ Cardinality(Kept(s)) \in Nat
  <1>1. Len(s) \in Nat /\ DOMAIN s = 1 .. Len(s)
    OBVIOUS
  <1>2. IsFiniteSet(1 .. Len(s))
    BY <1>1, FS_Interval
  <1>3. Kept(s) \subseteq 1 .. Len(s)
    BY <1>1 DEF Kept
  <1>4. QED
    BY <1>2, <1>3, FS_Subset, FS_CardinalityType

(***************************************************************************)
(* Characters that are kept keep their order, so no two share a place.     *)
(***************************************************************************)
LEMMA RankIsInjective ==
  ASSUME NEW s \in Seq(Char), NEW k \in Kept(s), NEW l \in Kept(s), k < l
  PROVE  Rank(s, k) < Rank(s, l)
  <1> DEFINE Upto(j) == {i \in Kept(s) : i <= j}
  <1>1. IsFiniteSet(Upto(l)) /\ IsFiniteSet(Upto(k))
    BY KeptFinite, FS_Subset
  <1>2. Upto(k) \subseteq Upto(l) /\ l \in Upto(l) /\ l \notin Upto(k)
    BY KeptFinite
  <1>3. Cardinality(Upto(k)) <= Cardinality(Upto(l)) /\ Cardinality(Upto(k)) # Cardinality(Upto(l))
    BY <1>1, <1>2, FS_Subset
  <1>4. Cardinality(Upto(k)) \in Nat /\ Cardinality(Upto(l)) \in Nat
    BY <1>1, FS_CardinalityType
  <1>5. QED
    BY <1>3, <1>4 DEF Rank

(***************************************************************************)
(* Every place up to the number of kept characters is somebody's.          *)
(***************************************************************************)
LEMMA RankReaches ==
  ASSUME NEW s \in Seq(Char), NEW j \in 1 .. Cardinality(Kept(s))
  PROVE  \E k \in Kept(s) : Rank(s, k) = j
  <1> DEFINE n == Cardinality(Kept(s))
             ranks == [k \in Kept(s) |-> Rank(s, k)]
  <1>1. n \in Nat /\ IsFiniteSet(1 .. n) /\ Cardinality(1 .. n) = n
    BY KeptFinite, FS_Interval
  <1>2. ASSUME NEW k \in Kept(s) PROVE Rank(s, k) \in 1 .. n
    <2> DEFINE upto == {i \in Kept(s) : i <= k}
    <2>1. k \in upto /\ upto \subseteq Kept(s)
      BY KeptFinite
    <2>2. IsFiniteSet(upto) /\ Cardinality(upto) <= n /\ Cardinality(upto) \in Nat
      BY <2>1, KeptFinite, FS_Subset, FS_CardinalityType
    <2>3. Cardinality(upto) # 0
      BY <2>1, <2>2, FS_EmptySet
    <2>4. QED
      BY <2>2, <2>3 DEF Rank
  <1>3. \A k, l \in Kept(s) : Rank(s, k) = Rank(s, l) => k = l
    <2>1. Kept(s) \subseteq Int /\ \A k \in Kept(s) : Rank(s, k) \in Int
      BY <1>2, KeptFinite
    <2>2. \A k, l \in Kept(s) : k < l => Rank(s, k) < Rank(s, l)
      BY RankIsInjective
    <2>3. QED
      BY <2>1, <2>2
  <1>4. ranks \in Injection(Kept(s), 1 .. n)
    BY <1>2, <1>3 DEF Injection, IsInjective
  <1>5. ranks \in Surjection(Kept(s), 1 .. n)
    BY <1>1, <1>4, FS_Injection
  <1>6. QED
    BY <1>5 DEF Surjection

(***************************************************************************)
(* So the filter returns letters a UEI may have, one for each it keeps.    *)
(***************************************************************************)
LEMMA AllowedIsClean ==
  ASSUME NEW s \in Seq(Char)
  PROVE  Allowed(s) \in Seq({"A", "B"}) /\ Len(Allowed(s)) = Cardinality(Kept(s))
  <1>1. ASSUME NEW j \in 1 .. Cardinality(Kept(s)) PROVE Allowed(s)[j] \in {"A", "B"}
    <2>1. (CHOOSE k \in Kept(s) : Rank(s, k) = j) \in Kept(s)
      BY RankReaches
    <2>2. QED
      BY <2>1 DEF Allowed, Kept
  <1>2. QED
    BY <1>1, KeptFinite DEF Allowed

(***************************************************************************)
(* A name that has only allowed characters is left as it is.               *)
(***************************************************************************)
LEMMA AllowedKeepsClean ==
  ASSUME NEW s \in Seq({"A", "B"})
  PROVE  Allowed(s) = s
  <1>1. s \in Seq(Char) /\ Kept(s) = 1 .. Len(s) /\ \A k \in 1 .. Len(s) : toUpperCase(s[k]) = s[k]
    BY DEF Char, Kept, toUpperCase
  <1>2. \A k \in Nat : Cardinality(1 .. k) = k
    <2> TAKE k \in Nat
    <2>1. Cardinality(1 .. k) = IF 1 > k THEN 0 ELSE k - 1 + 1
      BY FS_Interval
    <2>2. QED
      BY <2>1
  <1>3. ASSUME NEW k \in 1 .. Len(s) PROVE Rank(s, k) = k
    <2>1. {i \in Kept(s) : i <= k} = 1 .. k
      BY <1>1
    <2>2. Rank(s, k) = Cardinality(1 .. k)
      BY <2>1, Zenon DEF Rank
    <2>3. k \in Nat
      OBVIOUS
    <2>4. QED
      BY <1>2, <2>2, <2>3
  <1>4. ASSUME NEW j \in 1 .. Len(s) PROVE (CHOOSE k \in Kept(s) : Rank(s, k) = j) = j
    BY <1>1, <1>3
  <1>5. Cardinality(Kept(s)) = Len(s)
    BY <1>1, <1>2
  <1>6. Allowed(s) = [j \in 1 .. Len(s) |-> s[j]]
    BY <1>1, <1>4, <1>5 DEF Allowed
  <1>7. QED
    BY <1>6

-----------------------------------------------------------------------------
(***************************************************************************)
(* Cutting to length: what is short enough is left alone.                  *)
(***************************************************************************)
LEMMA SliceCuts ==
  ASSUME NEW S, NEW s \in Seq(S)
  PROVE  /\ Slice(s) \in Seq(S) /\ Len(Slice(s)) <= UeiLength
         /\ Len(s) <= UeiLength => Slice(s) = s
         /\ s = <<>> => Slice(s) = <<>>
  <1> DEFINE n == IF Len(s) < UeiLength THEN Len(s) ELSE UeiLength
  <1>1. n \in Nat /\ n <= Len(s) /\ n <= UeiLength /\ Slice(s) = SubSeq(s, 1, n)
    BY UeiAssumption DEF Slice
  <1>2. \A i \in 1 .. n : s[i] \in S
    BY <1>1
  <1> HIDE DEF n
  <1>3. Slice(s) \in Seq(S) /\ Len(Slice(s)) = IF 1 <= n THEN n - 1 + 1 ELSE 0
    BY <1>1, <1>2, SubSeqProperties
  <1>4. Len(s) <= UeiLength => n = Len(s)
    BY UeiAssumption DEF n
  <1>5. QED
    BY <1>1, <1>3, <1>4, SubSeqFull

(***************************************************************************)
(* The three normalizations agree: normalizing what the layout has cleaned *)
(* (uncut), or what is normalized already, finds the same UEI.             *)
(***************************************************************************)
LEMMA NormalizationsAgree ==
  ASSUME NEW s \in Seq(Char)
  PROVE  /\ normalizeUei(s) \in Seq({"A", "B"}) /\ Allowed(s) \in Seq({"A", "B"})
         /\ normalizeUei(Allowed(s)) = normalizeUei(s)
         /\ normalizeUei(normalizeUei(s)) = normalizeUei(s)
         /\ normalizeUei(s) # <<>> => Allowed(s) # <<>>
  <1>1. Allowed(s) \in Seq({"A", "B"})
    BY AllowedIsClean
  <1>2. Allowed(Allowed(s)) = Allowed(s)
    BY <1>1, AllowedKeepsClean
  <1>3. /\ normalizeUei(s) \in Seq({"A", "B"}) /\ Len(normalizeUei(s)) <= UeiLength
        /\ Allowed(s) = <<>> => normalizeUei(s) = <<>>
    BY <1>1, SliceCuts DEF normalizeUei
  <1>4. Allowed(normalizeUei(s)) = normalizeUei(s)
    BY <1>3, AllowedKeepsClean
  <1>5. normalizeUei(normalizeUei(s)) = normalizeUei(s)
    BY <1>3, <1>4, SliceCuts DEF normalizeUei
  <1>6. QED
    BY <1>1, <1>2, <1>3, <1>5 DEF normalizeUei

(***************************************************************************)
(* Upper-casing twice is upper-casing once, and changes no form.           *)
(***************************************************************************)
LEMMA UpperKeepsForm ==
  ASSUME NEW s \in Seq(Char)
  PROVE  Upper(Upper(s)) = Upper(s) /\ (WellFormed(s) => WellFormed(Upper(s)))
  <1>1. \A c \in Char : /\ toUpperCase(c) \in Char /\ toUpperCase(toUpperCase(c)) = toUpperCase(c)
                        /\ c # "-" => toUpperCase(c) # "-"
    BY DEF Char, toUpperCase
  <1>2. /\ Upper(s) \in Seq(Char) /\ DOMAIN Upper(s) = DOMAIN s /\ Len(Upper(s)) = Len(s)
        /\ \A k \in DOMAIN s : Upper(s)[k] = toUpperCase(s[k]) /\ s[k] \in Char
    BY <1>1 DEF Upper
  <1>3. Upper(Upper(s)) = Upper(s)
    BY <1>1, <1>2 DEF Upper
  <1>4. QED
    BY <1>1, <1>2, <1>3 DEF WellFormed

-----------------------------------------------------------------------------
(***************************************************************************)
(* The inductive invariant of the walk: the browser is on a page of one of *)
(* the two areas, or has been told that access expired, and after landing  *)
(* it is where one of the two landing computations sent it.                *)
(***************************************************************************)
InPortal(u) ==
  /\ u = At(u.area, u.id, u.page)
  /\ u.area \in DOMAIN Routes /\ u.page \in Routes[u.area]
  /\ u.area = "dashboard" => u.id \in Seq(Char)
  /\ u.area = "partner" => \E s \in Slug : u.id = <<s>>

WalkInv ==
  /\ orgs \in Rows /\ via \in {"land", "typed", "link"}
  /\ url = AccessExpired \/ InPortal(url)
  /\ via = "land" => url \in Landings

(***************************************************************************)
(* A member's rows are organizations, with UEIs spelled as they are stored.*)
(***************************************************************************)
LEMMA OrgsTyped ==
  ASSUME orgs \in Rows
  PROVE  /\ \A k \in DOMAIN orgs : orgs[k] \in Orgs
         /\ orgs # <<>> => 1 \in DOMAIN orgs
         /\ \A o \in Orgs : o.uei # NoUei => o.uei \in Seq(Char) /\ o.uei # <<>>
         /\ \A o \in WithUei : o.uei \in Seq(Char)
  <1>1. PICK n \in 0 .. MaxOrgs : orgs \in [1 .. n -> Orgs]
    BY DEF Rows
  <1>2. n \in Nat
    BY <1>1, OrgsAssumption
  <1>3. \A k \in DOMAIN orgs : orgs[k] \in Orgs
    BY <1>1
  <1>4. orgs # <<>> => 1 \in DOMAIN orgs
    BY <1>1, <1>2
  <1>5. \A o \in Orgs : o.uei # NoUei => o.uei \in Seq(Char) /\ o.uei # <<>>
    BY UeiAssumption DEF Orgs
  <1>6. QED
    BY <1>3, <1>4, <1>5 DEF WithUei

(***************************************************************************)
(* The routes the sidebars, the links and the landings name.               *)
(***************************************************************************)
LEMMA RoutesNamed ==
  /\ DOMAIN Routes = {"dashboard", "partner"}
  /\ DashboardNav \subseteq Routes["dashboard"] /\ PartnerNav \subseteq Routes["partner"]
  /\ "overview" \in DashboardNav /\ {"overview", "transfers", "spec"} \subseteq PartnerNav
  /\ ActionShortcuts \cup FeedActions \cup {"inbox"} \subseteq DashboardNav
  BY DEF Routes, DashboardNav, PartnerNav, ActionShortcuts, FeedActions

(***************************************************************************)
(* The two landing computations give one answer, and it is in the portal.  *)
(***************************************************************************)
LEMMA LandingsAreOne ==
  ASSUME orgs \in Rows
  PROVE  RootPage(orgs) = landingFor(orgs)
  <1>1. CASE orgs = <<>>
    BY <1>1 DEF RootPage, landingFor
  <1>2. CASE orgs # <<>>
    <2>1. {1} \cap DOMAIN orgs = {1}
      BY <1>2, OrgsTyped
    <2>2. {orgs[k] : k \in {1} \cap DOMAIN orgs} = {orgs[1]}
      BY <2>1
    <2>3. QED
      BY <1>2, <2>2 DEF RootPage, landingFor
  <1>3. QED
    BY <1>1, <1>2

(***************************************************************************)
(* A landing is a page of the portal, or the page that says there is none. *)
(***************************************************************************)
LEMMA LandingsInPortal ==
  ASSUME orgs \in Rows, NEW u \in Landings
  PROVE  u = AccessExpired \/ InPortal(u)
  <1>1. u = landingFor(orgs)
    BY LandingsAreOne DEF Landings
  <1>2. CASE orgs # <<>> /\ orgs[1].uei # NoUei
    <2>1. u = At("dashboard", orgs[1].uei, "overview") /\ orgs[1].uei \in Seq(Char)
      BY <1>1, <1>2, OrgsTyped DEF landingFor
    <2>2. QED
      BY <2>1, RoutesNamed DEF InPortal, At
  <1>3. CASE orgs # <<>> /\ orgs[1].uei = NoUei /\ orgs[1].slug # NoSlug
    <2>1. u = At("partner", <<orgs[1].slug>>, "spec")
      BY <1>1, <1>3 DEF landingFor
    <2>2. orgs[1].slug \in Slug
      BY <1>3, OrgsTyped DEF Orgs
    <2>3. QED
      BY <2>1, <2>2, RoutesNamed DEF InPortal, At
  <1>4. QED
    BY <1>1, <1>2, <1>3 DEF landingFor

(***************************************************************************)
(* Where a link of a page, or of its sidebar, can lead: to the same area,  *)
(* with the UEI as it was spelled, cleaned or normalized, or the same slug.*)
(***************************************************************************)
LEMMA LinkTargets ==
  ASSUME NEW v, InPortal(v), NEW u \in buildNav(v) \cup PageLinks(v)
  PROVE  /\ u = At(v.area, u.id, u.page) /\ u.page \in Routes[v.area]
         /\ v.area = "dashboard" => u.id \in {v.id, Allowed(v.id), normalizeUei(v.id)}
         /\ v.area # "dashboard" => u.id = v.id
  <1>1. v.area \in {"dashboard", "partner"}
    BY RoutesNamed DEF InPortal
  <1>2. CASE u = backHref(v)
    BY <1>1, <1>2, RoutesNamed DEF backHref, At
  <1>3. CASE u \in buildNav(v)
    BY <1>1, <1>3, RoutesNamed DEF buildNav, layoutUei, At
  <1>4. ASSUME v.area = "dashboard", NEW p \in DashboardNav, u = At("dashboard", normalizeUei(v.id), p)
        PROVE  /\ u = At(v.area, u.id, u.page) /\ u.page \in Routes[v.area]
               /\ u.id = normalizeUei(v.id)
    BY <1>4, RoutesNamed DEF At
  <1>5. CASE u \in PageLinks(v)
    <2>1. \/ u = backHref(v)
          \/ v.area = "dashboard" /\ \E p \in DashboardNav : u = At("dashboard", normalizeUei(v.id), p)
      BY <1>5, RoutesNamed DEF PageLinks
    <2>2. QED
      BY <1>2, <1>4, <2>1
  <1>6. QED
    BY <1>3, <1>5

(***************************************************************************)
(* So a link stays in the portal, and in the tenant's part of it.          *)
(***************************************************************************)
LEMMA LinksStay ==
  ASSUME NEW v, InPortal(v), NEW u \in buildNav(v) \cup PageLinks(v)
  PROVE  InPortal(u) /\ u.area = v.area /\ Tenant(u) = Tenant(v)
  <1>1. u.area = v.area
    BY LinkTargets DEF At
  <1>2. CASE v.area = "dashboard"
    <2>1. v.id \in Seq(Char) /\ Seq({"A", "B"}) \subseteq Seq(Char)
      BY <1>2 DEF InPortal, Char
    <2>2. u.id \in Seq(Char) /\ normalizeUei(u.id) = normalizeUei(v.id)
      BY <1>2, <2>1, LinkTargets, NormalizationsAgree
    <2>3. QED
      BY <1>1, <1>2, <2>2, LinkTargets DEF InPortal, Tenant
  <1>3. CASE v.area # "dashboard"
    BY <1>1, <1>3, LinkTargets DEF InPortal, Tenant
  <1>4. QED
    BY <1>2, <1>3

(***************************************************************************)
(* The walk keeps its invariant, and with it its types.                    *)
(***************************************************************************)
THEOREM WalkInvariant == WalkSpec => [](WalkInv /\ WalkTypeOK)
  <1>1. WalkInit => WalkInv
    BY LandingsInPortal DEF WalkInit, WalkInv
  <1>2. WalkInv /\ [WalkNext]_walkVars => WalkInv'
    <2> SUFFICES ASSUME WalkInv, [WalkNext]_walkVars PROVE WalkInv'
      OBVIOUS
    <2>1. CASE GoHome
      <3>1. PICK u \in Landings : Goto(u, "land")
        BY <2>1 DEF GoHome
      <3>2. u = AccessExpired \/ InPortal(u)
        BY LandingsInPortal DEF WalkInv
      <3>3. QED
        BY <3>1, <3>2 DEF Goto, WalkInv, Landings
    <2>2. CASE TypeUrl
      <3>1. PICK id \in Typed, p \in Routes.dashboard : Goto(At("dashboard", id, p), "typed")
        BY <2>2 DEF TypeUrl
      <3>2. InPortal(At("dashboard", id, p))
        BY UeiAssumption, RoutesNamed DEF InPortal, At
      <3>3. QED
        BY <3>1, <3>2 DEF Goto, WalkInv
    <2>3. CASE FollowSidebar \/ FollowLink
      <3>1. PICK u \in buildNav(url) \cup PageLinks(url) : Shown(url) /\ Goto(u, "link")
        BY <2>3 DEF FollowSidebar, FollowLink
      <3>2. url # AccessExpired
        BY <3>1, RoutesNamed DEF Shown, Exists, AccessExpired, At
      <3>3. InPortal(u)
        BY <3>2, LinksStay DEF WalkInv
      <3>4. QED
        BY <3>1, <3>3 DEF Goto, WalkInv
    <2>4. CASE UNCHANGED walkVars
      BY <2>4 DEF walkVars, WalkInv, Landings
    <2>5. QED
      BY <2>1, <2>2, <2>3, <2>4 DEF WalkNext
  <1>3. WalkInv => WalkTypeOK
    BY DEF WalkInv, WalkTypeOK, InPortal, Exists
  <1>4. QED
    BY <1>1, <1>2, <1>3, PTL DEF WalkSpec

-----------------------------------------------------------------------------
(***************************************************************************)
(* Whoever lands, by the broker's answer or the page's own query, is where *)
(* his oldest membership belongs, and a page is there.                     *)
(***************************************************************************)
THEOREM LandingsOpen == WalkSpec => []LandingOpens
  <1>1. WalkInv => LandingOpens
    <2> SUFFICES ASSUME WalkInv, via = "land"
                 PROVE  LandingOpens
      BY DEF LandingOpens
    <2>1. url = landingFor(orgs)
      BY LandingsAreOne DEF WalkInv, Landings
    <2>2. CASE orgs = <<>>
      BY <2>1, <2>2 DEF LandingOpens, landingFor
    <2>3. CASE orgs # <<>>
      <3> DEFINE o == orgs[1]
      <3>1. o \in Orgs /\ 1 \in DOMAIN orgs
        BY <2>3, OrgsTyped DEF WalkInv
      <3>2. CASE o.uei # NoUei
        <4>1. /\ url = At("dashboard", o.uei, "overview")
              /\ o.uei \in Seq(Char) /\ o.uei # <<>> /\ o \in WithUei
          BY <2>1, <2>3, <3>1, <3>2, OrgsTyped DEF landingFor, WithUei, WalkInv
        <4>2. Exists(url)
          BY <4>1, RoutesNamed DEF Exists, At
        <4>3. ASSUME WellFormed(o.uei), normalizeUei(o.uei) = Upper(o.uei)
              PROVE  Shown(url)
          BY <4>1, <4>2, <4>3, UpperKeepsForm DEF Shown, ueisOf, At
        <4>4. QED
          BY <2>3, <3>2, <4>1, <4>3 DEF LandingOpens, At
      <3>3. CASE o.uei = NoUei /\ o.slug # NoSlug
        <4>1. url = At("partner", <<o.slug>>, "spec")
          BY <2>1, <2>3, <3>3 DEF landingFor
        <4>2. Shown(url)
          BY <4>1, RoutesNamed DEF Shown, Exists, At
        <4>3. QED
          BY <2>3, <3>3, <4>1, <4>2 DEF LandingOpens, At
      <3>4. CASE o.uei = NoUei /\ o.slug = NoSlug
        <4>1. o = [uei |-> NoUei, slug |-> NoSlug]
          BY <3>1, <3>4 DEF Orgs
        <4>2. QED
          BY <2>1, <2>3, <3>4, <4>1 DEF LandingOpens, landingFor
      <3>5. QED
        BY <3>2, <3>3, <3>4
    <2>4. QED
      BY <2>2, <2>3
  <1>2. QED
    BY <1>1, WalkInvariant, PTL

(***************************************************************************)
(* Nobody passes the page's guard only to be told 404 by the broker,       *)
(* whatever the spelling of the URL and of the stored UEI.                 *)
(***************************************************************************)
THEOREM GuardsAlwaysAgree == WalkSpec => []GuardsAgree
  <1>1. WalkInv => GuardsAgree
    <2> SUFFICES ASSUME WalkInv, url.area = "dashboard", url.page \in Guarded, Shown(url)
                 PROVE  brokerReads(normalizeUei(url.id))
      BY DEF GuardsAgree
    <2>1. WellFormed(normalizeUei(url.id)) /\ normalizeUei(url.id) \in ueisOf
      BY DEF Shown
    <2>2. PICK o \in WithUei : normalizeUei(url.id) = Upper(o.uei)
      BY <2>1 DEF ueisOf
    <2>3. Upper(Upper(o.uei)) = Upper(o.uei)
      BY OrgsTyped, UpperKeepsForm DEF WalkInv
    <2>4. QED
      BY <2>1, <2>2, <2>3 DEF brokerReads, ueiSet
  <1>2. QED
    BY <1>1, WalkInvariant, PTL

(***************************************************************************)
(* The elements of a segment followed by a path.  This lemma and the four  *)
(* after it are about paths of one to three segments.                      *)
(***************************************************************************)
LEMMA SegmentFirst ==
  ASSUME NEW T, NEW a \in Seq(T), NEW b \in Seq(T), NEW n \in Nat, Len(a) = 1, Len(b) = n
  PROVE  /\ a \o b \in Seq(T) /\ Len(a \o b) = n + 1
         /\ (a \o b)[1] = a[1]
         /\ \A i \in 1 .. n : (a \o b)[i + 1] = b[i]
  <1>1. \A i \in 1 .. Len(a) + Len(b) : (a \o b)[i] = IF i <= Len(a) THEN a[i] ELSE b[i - Len(a)]
    BY ConcatProperties, Zenon
  <1>2. a \o b \in Seq(T) /\ Len(a \o b) = n + 1
    <2>1. a \o b \in Seq(T) /\ Len(a \o b) = Len(a) + Len(b)
      BY ConcatProperties, Zenon
    <2>2. QED
      BY <2>1
  <1>3. 1 \in 1 .. Len(a) + Len(b) /\ 1 <= Len(a)
    OBVIOUS
  <1>4. (a \o b)[1] = a[1]
    BY <1>1, <1>3
  <1>5. ASSUME NEW i \in 1 .. n PROVE (a \o b)[i + 1] = b[i]
    <2>1. i + 1 \in 1 .. Len(a) + Len(b) /\ ~(i + 1 <= Len(a)) /\ (i + 1) - Len(a) = i
      OBVIOUS
    <2>2. (a \o b)[i + 1] = b[(i + 1) - Len(a)]
      BY <1>1, <2>1
    <2>3. QED
      BY <2>1, <2>2
  <1>6. QED
    BY <1>2, <1>4, <1>5

(***************************************************************************)
(* A path is its segments.                                                 *)
(***************************************************************************)
LEMMA PathOfTwo ==
  ASSUME NEW T, NEW s \in Seq(T), Len(s) = 2
  PROVE  s = <<s[1], s[2]>>
  OBVIOUS

(***************************************************************************)
(* So is one of three.                                                     *)
(***************************************************************************)
LEMMA PathOfThree ==
  ASSUME NEW T, NEW s \in Seq(T), Len(s) = 3
  PROVE  s = <<s[1], s[2], s[3]>>
  OBVIOUS

(***************************************************************************)
(* What the provers know of short tuples.                                  *)
(***************************************************************************)
LEMMA ShortPaths ==
  ASSUME NEW T, NEW x \in T, NEW y \in T, NEW z \in T
  PROVE  /\ <<x>> \in Seq(T) /\ Len(<<x>>) = 1 /\ <<x>>[1] = x
         /\ <<x, y>> \in Seq(T) /\ Len(<<x, y>>) = 2 /\ <<x, y>>[1] = x /\ <<x, y>>[2] = y
         /\ <<x, y, z>> \in Seq(T) /\ Len(<<x, y, z>>) = 3
         /\ <<x, y, z>>[1] = x /\ <<x, y, z>>[2] = y
  OBVIOUS

(***************************************************************************)
(* A segment before one or two others.                                     *)
(***************************************************************************)
LEMMA SegmentBefore ==
  ASSUME NEW T, NEW x \in T, NEW y \in T, NEW z \in T
  PROVE  <<x>> \o <<y>> = <<x, y>> /\ <<x>> \o <<y, z>> = <<x, y, z>>
  <1> DEFINE a == <<x>>
             b == <<y>>
             c == <<y, z>>
             ab == a \o b
             ac == a \o c
  <1>1. /\ a \in Seq(T) /\ Len(a) = 1 /\ a[1] = x
        /\ b \in Seq(T) /\ Len(b) = 1 /\ b[1] = y
        /\ c \in Seq(T) /\ Len(c) = 2 /\ c[1] = y /\ c[2] = z
    OBVIOUS
  <1> HIDE DEF a, b, c
  <1>2. 1 \in Nat /\ 2 \in Nat
    OBVIOUS
  <1>3. ASSUME NEW d \in Seq(T), NEW n \in Nat, Len(d) = n
        PROVE  /\ a \o d \in Seq(T) /\ Len(a \o d) = n + 1 /\ (a \o d)[1] = x
               /\ \A i \in 1 .. n : (a \o d)[i + 1] = d[i]
    BY <1>1, <1>3, SegmentFirst
  <1>4. ab \in Seq(T) /\ Len(ab) = 1 + 1 /\ ab[1] = x /\ \A i \in 1 .. 1 : ab[i + 1] = b[i]
    BY <1>1, <1>2, <1>3, Zenon
  <1>5. ac \in Seq(T) /\ Len(ac) = 2 + 1 /\ ac[1] = x /\ \A i \in 1 .. 2 : ac[i + 1] = c[i]
    BY <1>1, <1>2, <1>3, Zenon
  <1> HIDE DEF ab, ac
  <1>6. ab[2] = y /\ ac[2] = y /\ ac[3] = z
    BY <1>1, <1>4, <1>5
  <1>7. ab = <<x, y>>
    BY <1>1, <1>4, <1>6, PathOfTwo
  <1>8. ac = <<x, y, z>>
    BY <1>1, <1>5, <1>6, PathOfThree
  <1>9. QED
    BY <1>7, <1>8 DEF a, b, c, ab, ac

(***************************************************************************)
(* A path of one segment starts every path with that first segment.        *)
(***************************************************************************)
LEMMA FirstSegment ==
  ASSUME NEW T, NEW s \in Seq(T), Len(s) >= 1
  PROVE  SubSeq(s, 1, 1) = <<s[1]>>
  <1> DEFINE t == <<s[1]>>
  <1>1. t \in Seq(T) /\ Len(t) = 1 /\ t[1] = s[1]
    OBVIOUS
  <1> HIDE DEF t
  <1>2. SubSeq(s, 1, 1) \in Seq(T) /\ Len(SubSeq(s, 1, 1)) = 1 /\ SubSeq(s, 1, 1)[1] = s[1]
    OBVIOUS
  <1>3. \A i \in 1 .. Len(t) : t[i] = SubSeq(s, 1, 1)[i]
    BY <1>1, <1>2
  <1>4. t = SubSeq(s, 1, 1)
    BY <1>1, <1>2, <1>3, SeqEqual
  <1>5. QED
    BY <1>4 DEF t

(***************************************************************************)
(* A path of two starts every path with those two.                         *)
(***************************************************************************)
LEMMA TwoSegments ==
  ASSUME NEW T, NEW s \in Seq(T), Len(s) >= 2
  PROVE  SubSeq(s, 1, 2) = <<s[1], s[2]>>
  <1> DEFINE t == <<s[1], s[2]>>
  <1>1. t \in Seq(T) /\ Len(t) = 2 /\ t[1] = s[1] /\ t[2] = s[2]
    OBVIOUS
  <1> HIDE DEF t
  <1>2. /\ SubSeq(s, 1, 2) \in Seq(T) /\ Len(SubSeq(s, 1, 2)) = 2
        /\ SubSeq(s, 1, 2)[1] = s[1] /\ SubSeq(s, 1, 2)[2] = s[2]
    OBVIOUS
  <1>3. \A i \in 1 .. Len(t) : t[i] = SubSeq(s, 1, 2)[i]
    BY <1>1, <1>2
  <1>4. t = SubSeq(s, 1, 2)
    BY <1>1, <1>2, <1>3, SeqEqual
  <1>5. QED
    BY <1>4 DEF t

(***************************************************************************)
(* The pathnames of a partner's pages, of which the items' are some.       *)
(***************************************************************************)
LEMMA PartnerPaths ==
  ASSUME NEW s, NEW p \in Routes["partner"]
  PROVE  LET path == pathname(At("partner", <<s>>, p))
         IN  /\ p = "overview" => path = <<s>>
             /\ p = "spec/new" => path = <<s, "spec", "new">>
             /\ p = "spec/id"  => path = <<s, "spec", "id">>
             /\ p \notin {"overview", "spec/new", "spec/id"} => path = <<s, p>>
  <1>1. pathname(At("partner", <<s>>, p)) = <<s>> \o PagePath(p)
    BY DEF pathname, At
  <1>2. <<s>> \o <<>> = <<s>>
    OBVIOUS
  <1>3. /\ <<s>> \o <<"spec", "new">> = <<s, "spec", "new">>
        /\ <<s>> \o <<"spec", "id">> = <<s, "spec", "id">>
        /\ <<s>> \o <<p>> = <<s, p>>
    <2> DEFINE T == {s, p, "spec", "new", "id"}
    <2>1. s \in T /\ p \in T /\ "spec" \in T /\ "new" \in T /\ "id" \in T
      OBVIOUS
    <2> HIDE DEF T
    <2>2. QED
      BY <2>1, SegmentBefore
  <1>4. /\ p = "overview" => PagePath(p) = <<>>
        /\ p = "spec/new" => PagePath(p) = <<"spec", "new">>
        /\ p = "spec/id"  => PagePath(p) = <<"spec", "id">>
        /\ p \notin {"overview", "spec/new", "spec/id"} => PagePath(p) = <<p>>
    BY DEF PagePath
  <1>5. QED
    BY <1>1, <1>2, <1>3, <1>4

(***************************************************************************)
(* An item ends in /spec if it is the specs', or the overview of the slug  *)
(* "spec"; the overview's path starts every path, the specs' the paths of  *)
(* the specs, another item's its own only.                                 *)
(***************************************************************************)
LEMMA PartnerItems ==
  ASSUME NEW s, NEW p \in PartnerNav, NEW q \in Routes["partner"]
  PROVE  LET item == At("partner", <<s>>, p)
             u    == At("partner", <<s>>, q)
         IN  /\ endsWithSpec(item) <=> p = "spec" \/ (p = "overview" /\ s = "spec")
             /\ p = "overview" => startsWith(u, item)
             /\ p = "spec" => (startsWith(u, item) <=> q \in {"spec"} \cup SpecPages)
  <1> DEFINE item == At("partner", <<s>>, p)
             u    == At("partner", <<s>>, q)
             a    == pathname(item)
             b    == pathname(u)
             T    == {s, p, q, "spec", "new", "id"}
  <1>1. p \in Routes["partner"] /\ p \notin {"spec/new", "spec/id"}
    BY DEF Routes, PartnerNav
  <1>2. /\ p = "overview" => a = <<s>>
        /\ p # "overview" => a = <<s, p>>
    BY <1>1, PartnerPaths
  <1>3. /\ q = "overview" => b = <<s>>
        /\ q = "spec/new" => b = <<s, "spec", "new">>
        /\ q = "spec/id"  => b = <<s, "spec", "id">>
        /\ q \notin {"overview", "spec/new", "spec/id"} => b = <<s, q>>
    BY PartnerPaths
  <1> HIDE DEF a, b
  <1>4. s \in T /\ p \in T /\ q \in T /\ "spec" \in T /\ "new" \in T /\ "id" \in T
    OBVIOUS
  <1> HIDE DEF T
  <1>5. /\ a \in Seq(T) /\ Len(a) = (IF p = "overview" THEN 1 ELSE 2)
        /\ a[1] = s /\ (p # "overview" => a[2] = p)
    <2>1. CASE p = "overview"
      <3>1. a = <<s>>
        BY <1>2, <2>1
      <3>2. a \in Seq(T) /\ Len(a) = 1 /\ a[1] = s
        BY <1>4, <3>1, ShortPaths
      <3>3. QED
        BY <2>1, <3>2
    <2>2. CASE p # "overview"
      <3>1. a = <<s, p>>
        BY <1>2, <2>2
      <3>2. QED
        BY <1>4, <2>2, <3>1, ShortPaths
    <2>3. QED
      BY <2>1, <2>2
  <1>6. /\ b \in Seq(T) /\ b[1] = s
        /\ q = "overview" => Len(b) = 1
        /\ q \in SpecPages => Len(b) = 3 /\ b[2] = "spec"
        /\ q \notin {"overview"} \cup SpecPages => Len(b) = 2 /\ b[2] = q
    <2>1. CASE q = "overview"
      <3>1. b = <<s>>
        BY <1>3, <2>1
      <3>2. QED
        BY <1>4, <2>1, <3>1, ShortPaths DEF SpecPages
    <2>2. CASE q = "spec/new"
      <3>1. b = <<s, "spec", "new">>
        BY <1>3, <2>2
      <3>2. QED
        BY <1>4, <2>2, <3>1, ShortPaths DEF SpecPages
    <2>3. CASE q = "spec/id"
      <3>1. b = <<s, "spec", "id">>
        BY <1>3, <2>3
      <3>2. QED
        BY <1>4, <2>3, <3>1, ShortPaths DEF SpecPages
    <2>4. CASE q \notin {"overview", "spec/new", "spec/id"}
      <3>1. b = <<s, q>>
        BY <1>3, <2>4
      <3>2. QED
        BY <1>4, <2>4, <3>1, ShortPaths DEF SpecPages
    <2>5. QED
      BY <2>1, <2>2, <2>3, <2>4
  <1>7. Len(b) >= 1 /\ (q = "overview" \/ Len(b) >= 2)
    BY <1>6
  <1>8. a[Len(a)] = "spec" <=> p = "spec" \/ (p = "overview" /\ s = "spec")
    BY <1>5
  <1>9. p = "overview" => Ext!IsPrefix(a, b)
    <2> SUFFICES ASSUME p = "overview" PROVE Ext!IsPrefix(a, b)
      OBVIOUS
    <2>1. Len(a) = 1 /\ SubSeq(a, 1, 1) = <<s>>
      BY <1>5, FirstSegment
    <2>2. SubSeq(b, 1, 1) = <<s>>
      BY <1>6, <1>7, FirstSegment
    <2>3. QED
      BY <1>6, <1>7, <2>1, <2>2 DEF Ext!IsPrefix
  <1>10. p = "spec" => (Ext!IsPrefix(a, b) <=> q \in {"spec"} \cup SpecPages)
    <2> SUFFICES ASSUME p = "spec" PROVE Ext!IsPrefix(a, b) <=> q \in {"spec"} \cup SpecPages
      OBVIOUS
    <2>1. Len(a) = 2 /\ SubSeq(a, 1, 2) = <<s, "spec">>
      BY <1>5, TwoSegments
    <2>2. CASE q = "overview"
      <3>1. ~Ext!IsPrefix(a, b)
        BY <1>6, <2>1, <2>2 DEF Ext!IsPrefix
      <3>2. QED
        BY <2>2, <3>1 DEF SpecPages
    <2>3. CASE q # "overview"
      <3>1. Len(b) >= 2 /\ SubSeq(b, 1, 2) = <<s, b[2]>>
        BY <1>6, <1>7, <2>3, TwoSegments
      <3>2. <<s, "spec">> = <<s, b[2]>> <=> b[2] = "spec"
        OBVIOUS
      <3>3. Ext!IsPrefix(a, b) <=> b[2] = "spec"
        BY <1>6, <2>1, <3>1, <3>2 DEF Ext!IsPrefix
      <3>4. QED
        BY <1>6, <2>3, <3>3
    <2>4. QED
      BY <2>2, <2>3
  <1>11. QED
    BY <1>8, <1>9, <1>10 DEF endsWithSpec, startsWith, a, b

(***************************************************************************)
(* What the sidebar lights, for every slug and every spelling of a UEI.    *)
(* For a partner the tests of PartnerSidebar.tsx:87-89 come out as one     *)
(* item, and as two for the slug that is itself the suffix it tests for.   *)
(***************************************************************************)
THEOREM OneItemIsLit == WalkSpec => []OneItemLit
  <1>1. WalkInv => OneItemLit
    <2> SUFFICES ASSUME WalkInv, url.area \in DOMAIN Routes PROVE OneItemLit
      BY DEF OneItemLit
    <2> DEFINE lit == {item \in buildNav(url) : active(url, item)}
    <2>1. InPortal(url) /\ url.area \in {"dashboard", "partner"}
      BY RoutesNamed DEF WalkInv, InPortal, AccessExpired, At
    <2>2. CASE url.area = "dashboard"
      <3>1. /\ buildNav(url) = {At("dashboard", layoutUei(url.id), p) : p \in DashboardNav}
            /\ url = At("dashboard", url.id, url.page) /\ url.page \in Routes["dashboard"]
        BY <2>1, <2>2 DEF InPortal, buildNav
      <3>2. lit = {item \in buildNav(url) : item = url}
        BY <2>2 DEF active
      <3>3. ShadowItem(url) = {}
        BY <3>1 DEF ShadowItem, At
      <3>4. url.page \notin SpecPages
        BY <3>1 DEF Routes, DashboardNav, SpecPages
      <3>5. OwnItem(url) = {item \in buildNav(url) : item.page = url.page}
        BY <3>4 DEF OwnItem
      <3>6. CASE url.id = layoutUei(url.id)
        <4>1. \A item \in buildNav(url) : item = url <=> item.page = url.page
          BY <3>1, <3>6 DEF At
        <4>2. QED
          BY <3>2, <3>3, <3>5, <3>6, <4>1 DEF OneItemLit, Spelled
      <3>7. CASE url.id # layoutUei(url.id)
        <4>1. \A item \in buildNav(url) : item # url
          BY <3>1, <3>7 DEF At
        <4>2. QED
          BY <2>2, <3>2, <3>7, <4>1 DEF OneItemLit, Spelled
      <3>8. QED
        BY <3>6, <3>7
    <2>3. CASE url.area = "partner"
      <3>1. PICK s \in Slug : url.id = <<s>>
        BY <2>1, <2>3 DEF InPortal
      <3>2. url = At("partner", <<s>>, url.page) /\ url.page \in Routes["partner"]
        BY <2>1, <2>3, <3>1 DEF InPortal
      <3>3. buildNav(url) = {At("partner", <<s>>, p) : p \in PartnerNav}
        BY <2>3, <3>1 DEF buildNav
      <3>4. ASSUME NEW p \in PartnerNav
            PROVE  active(url, At("partner", <<s>>, p)) <=>
                     At("partner", <<s>>, p) \in OwnItem(url) \cup ShadowItem(url)
        <4> DEFINE item == At("partner", <<s>>, p)
        <4>1. item \in buildNav(url) /\ item.page = p
          BY <3>3 DEF At
        <4>2. item \in OwnItem(url) <=> p = IF url.page \in SpecPages THEN "spec" ELSE url.page
          BY <4>1 DEF OwnItem
        <4>3. item \in ShadowItem(url) <=> p = "overview" /\ s = "spec"
          <5>1. <<s>> = <<"spec">> <=> s = "spec"
            OBVIOUS
          <5>2. QED
            BY <4>1, <5>1 DEF ShadowItem, At
        <4>4. active(url, item) <=> url.page = p \/ (endsWithSpec(item) /\ startsWith(url, item))
          <5>1. url = item <=> url.page = p
            BY <3>2 DEF At
          <5> HIDE DEF item
          <5>2. QED
            BY <2>3, <5>1 DEF active
        <4>5. /\ endsWithSpec(item) <=> p = "spec" \/ (p = "overview" /\ s = "spec")
              /\ p = "overview" => startsWith(url, item)
              /\ p = "spec" => (startsWith(url, item) <=> url.page \in {"spec"} \cup SpecPages)
          BY <3>2, PartnerItems
        <4>6. PartnerNav \cap SpecPages = {}
          BY DEF PartnerNav, SpecPages
        <4> HIDE DEF item
        <4>7. QED
          BY <4>2, <4>3, <4>4, <4>5, <4>6 DEF item
      <3>5. lit = OwnItem(url) \cup ShadowItem(url)
        <4>1. OwnItem(url) \cup ShadowItem(url) \subseteq buildNav(url)
          BY DEF OwnItem, ShadowItem
        <4>2. QED
          BY <3>3, <3>4, <4>1
      <3>6. QED
        BY <2>3, <3>5 DEF OneItemLit, Spelled
    <2>4. QED
      BY <2>1, <2>2, <2>3
  <1>2. QED
    BY <1>1, WalkInvariant, PTL

(***************************************************************************)
(* From a member's page, however its URL was spelled, every link leads to  *)
(* a page that exists, is shown, and is the same tenant's.                 *)
(***************************************************************************)
THEOREM LinksAlwaysKeepTenant == WalkSpec => LinksKeepTenant
  <1> DEFINE Member(u) == u.area = "dashboard" => Tenant(u) \in ueisOf /\ WellFormed(Tenant(u))
  <1>1. ASSUME WalkInv, WalkNext, via' = "link", Shown(url), Member(url)
        PROVE  Shown(url') /\ url'.area = url.area /\ Tenant(url') = Tenant(url)
    <2>1. PICK u \in buildNav(url) \cup PageLinks(url) : Goto(u, "link")
      BY <1>1 DEF WalkNext, walkVars, GoHome, TypeUrl, Goto, FollowSidebar, FollowLink
    <2>2. url' = u /\ orgs' = orgs
      BY <2>1 DEF Goto
    <2>3. InPortal(url) /\ url.id # <<>>
      BY <1>1, RoutesNamed DEF WalkInv, Shown, Exists, AccessExpired, At
    <2>4. InPortal(u) /\ u.area = url.area /\ Tenant(u) = Tenant(url)
      BY <2>3, LinksStay
    <2>5. CASE url.area = "dashboard"
      <3>1. url.id \in Seq(Char) /\ normalizeUei(url.id) # <<>>
        BY <1>1, <2>3, <2>5, UeiAssumption DEF InPortal, Tenant, WellFormed
      <3>2. u.id # <<>>
        BY <2>3, <2>5, <3>1, LinkTargets, NormalizationsAgree
      <3>3. QED
        BY <1>1, <2>2, <2>4, <2>5, <3>2 DEF Shown, Exists, InPortal, Tenant, ueisOf, WithUei
    <2>6. CASE url.area # "dashboard"
      <3>1. u.id # <<>>
        BY <2>3, <2>6, LinkTargets
      <3>2. QED
        BY <2>2, <2>4, <2>6, <3>1 DEF Shown, Exists, InPortal
    <2>7. QED
      BY <2>5, <2>6
  <1>2. WalkInv /\ [WalkNext]_walkVars =>
          [via' = "link" /\ Shown(url) /\ Member(url) =>
             Shown(url') /\ url'.area = url.area /\ Tenant(url') = Tenant(url)]_walkVars
    BY <1>1
  <1>3. QED
    BY <1>2, WalkInvariant, PTL DEF WalkSpec, LinksKeepTenant

-----------------------------------------------------------------------------
(***************************************************************************)
(* The overview shows what its last two reads answered; nothing of an      *)
(* earlier reading is left.                                                *)
(***************************************************************************)
BoardInv ==
  /\ sam \in SamProfile \cup {Null} /\ overview \in Overview \cup {Null}
  /\ screen = Render(overview, sam)

(***************************************************************************)
(* The overview shows the last answers read, in every behaviour.           *)
(***************************************************************************)
THEOREM BoardInvariant == BoardSpec => []BoardInv
  <1>1. BoardInit => BoardInv
    BY DEF BoardInit, BoardInv
  <1>2. BoardInv /\ [OpenOverview]_boardVars => BoardInv'
    <2> SUFFICES ASSUME BoardInv, [OpenOverview]_boardVars PROVE BoardInv'
      OBVIOUS
    <2>1. CASE OpenOverview
      BY <2>1, Zenon DEF OpenOverview, BoardInv
    <2>2. CASE UNCHANGED boardVars
      BY <2>2 DEF boardVars, BoardInv
    <2>3. QED
      BY <2>1, <2>2
  <1>3. QED
    BY <1>1, <1>2, PTL DEF BoardSpec

(***************************************************************************)
(* Marking sets the mark of a row that has none and leaves a live row be.  *)
(***************************************************************************)
IsLive(row) == row.isMock = FALSE /\ row = [row EXCEPT !.isMock = FALSE]
IsMock(row) == row.isMock = Null /\ "isMock" \in DOMAIN row

(***************************************************************************)
(* Of rows of which one is live, exactly that one is shown without a       *)
(* badge.                                                                  *)
(***************************************************************************)
LEMMA MarkedRows ==
  ASSUME NEW n \in Nat, NEW rows, DOMAIN rows = 1 .. n, NEW at \in 1 .. n, IsLive(rows[at]),
         \A k \in (1 .. n) \ {at} : IsMock(rows[k])
  PROVE  Marked(rows)[at] = rows[at] /\ Live(Marked(rows)) = {at}
  <1>1. DOMAIN Marked(rows) = 1 .. n
    BY DEF Marked
  <1>2. Marked(rows)[at] = rows[at]
    <2>1. Or(FALSE, SHOW_MOCK_MARKERS) = FALSE
      BY NullAssumption DEF Or
    <2>2. QED
      BY <2>1 DEF Marked, IsLive
  <1>3. ASSUME NEW k \in 1 .. n, k # at PROVE Marked(rows)[k].isMock = TRUE
    <2>1. Marked(rows)[k] = [rows[k] EXCEPT !.isMock = Or(@, SHOW_MOCK_MARKERS)]
      BY DEF Marked
    <2>2. Or(rows[k].isMock, SHOW_MOCK_MARKERS) = TRUE
      BY <1>3 DEF Or, SHOW_MOCK_MARKERS, IsMock
    <2>3. QED
      BY <1>3, <2>1, <2>2 DEF IsMock
  <1>4. QED
    BY <1>1, <1>2, <1>3 DEF Live, IsLive

(***************************************************************************)
(* Of rows none of which is live, none is.                                 *)
(***************************************************************************)
LEMMA MockRows ==
  ASSUME NEW n \in Nat, NEW rows, DOMAIN rows = 1 .. n,
         \A k \in 1 .. n : IsMock(rows[k])
  PROVE  Live(Marked(rows)) = {}
  <1>1. ASSUME NEW k \in 1 .. n PROVE Marked(rows)[k].isMock = TRUE
    <2>1. Marked(rows)[k] = [rows[k] EXCEPT !.isMock = Or(@, SHOW_MOCK_MARKERS)]
      BY DEF Marked
    <2>2. Or(rows[k].isMock, SHOW_MOCK_MARKERS) = TRUE
      BY DEF Or, SHOW_MOCK_MARKERS, IsMock
    <2>3. QED
      BY <2>1, <2>2 DEF IsMock
  <1>2. QED
    BY <1>1 DEF Live, Marked

(***************************************************************************)
(* The live rows there can be are rows, not null.                          *)
(***************************************************************************)
LEMMA LiveRows ==
  ASSUME NEW s \in SamProfile, hasRenewalFields(s)
  PROVE  /\ s.days \in Int /\ s.date \in Int
         /\ renewalCheck(s) = renewalStatus(s.days) /\ renewalCheck(s) # Null
         /\ renewalDeadline(s) # Null /\ IsLive(renewalDeadline(s))
         /\ renewalFeedEvent(s) # Null /\ IsLive(renewalFeedEvent(s))
  <1>1. s.days \in Int /\ s.date \in Int
    BY DayAssumption DEF SamProfile, hasRenewalFields
  <1>2. /\ renewalStatus(s.days) \in HealthStatus
        /\ s.days - Window \in Int /\ s.date - Window \in Int
    BY <1>1 DEF renewalStatus, Window, HealthStatus
  <1>3. renewalDeadline(s) \in LiveDeadline
    BY <1>2 DEF renewalDeadline, LiveDeadline, HealthStatus
  <1>4. renewalFeedEvent(s) \in LiveEvent
    BY <1>2 DEF renewalFeedEvent, FeedEvent, LiveEvent
  <1>5. IsLive(renewalDeadline(s))
    BY <1>3 DEF LiveDeadline, IsLive
  <1>6. IsLive(renewalFeedEvent(s))
    BY <1>4 DEF LiveEvent, IsLive
  <1>7. renewalDeadline(s) # Null /\ renewalFeedEvent(s) # Null /\ renewalStatus(s.days) # Null
    BY <1>2, <1>3, <1>4, NullAssumption
  <1>8. QED
    BY <1>1, <1>5, <1>6, <1>7 DEF renewalCheck

(***************************************************************************)
(* The mock rows carry no mark.  The deadline is laid over the first one,  *)
(* and the feed item over the third, which is among the four that are      *)
(* shown.                                                                  *)
(***************************************************************************)
LEMMA MockHasNoMarks ==
  /\ DOMAIN MockDeadlines = 1 .. 3
  /\ \A k \in 1 .. 3 : IsMock(MockDeadlines[k])
  /\ DOMAIN MockFeed = 1 .. 5
  /\ \A k \in 1 .. 4 : IsMock(MockFeed[k])
  <1>1. DOMAIN MockDeadlines = 1 .. 3
    BY DEF MockDeadlines
  <1>2. IsMock(MockDeadlines[1])
    BY DEF MockDeadlines, IsMock
  <1>3. IsMock(MockDeadlines[2])
    BY DEF MockDeadlines, IsMock
  <1>4. IsMock(MockDeadlines[3])
    BY DEF MockDeadlines, IsMock
  <1>5. \A k \in 1 .. 4 : IsMock(MockFeed[k])
    BY DEF MockFeed, IsMock
  <1>6. DOMAIN MockFeed = 1 .. 5
    BY DEF MockFeed
  <1>7. QED
    BY <1>1, <1>2, <1>3, <1>4, <1>5, <1>6

(***************************************************************************)
(* The deadlines shown are the mock ones, the renewal replaced if it is    *)
(* live.                                                                   *)
(***************************************************************************)
LEMMA DeadlinesShown ==
  ASSUME NEW live
  PROVE  LET rows == Overlay(MockDeadlines, "type", "SAM Renewal", live) IN
         /\ DOMAIN rows = 1 .. 3
         /\ rows[1] = (IF live # Null THEN live ELSE MockDeadlines[1])
         /\ \A k \in (1 .. 3) \ {1} : rows[k] = MockDeadlines[k]
  <1> DEFINE rows == Overlay(MockDeadlines, "type", "SAM Renewal", live)
  <1>1. DOMAIN rows = 1 .. 3
    BY MockHasNoMarks DEF Overlay
  <1>2. \A k \in 1 .. 3 : rows[k] = IF live # Null /\ MockDeadlines[k].type = "SAM Renewal"
                                   THEN live ELSE MockDeadlines[k]
    BY MockHasNoMarks DEF Overlay
  <1>3. MockDeadlines[1].type = "SAM Renewal"
    BY DEF MockDeadlines
  <1>4. MockDeadlines[2].type # "SAM Renewal"
    BY DEF MockDeadlines
  <1>5. MockDeadlines[3].type # "SAM Renewal"
    BY DEF MockDeadlines
  <1>6. {1, 2, 3} \subseteq 1 .. 3 /\ (1 .. 3) \ {1} = {2, 3}
    OBVIOUS
  <1> HIDE DEF rows
  <1>7. rows[1] = IF live # Null THEN live ELSE MockDeadlines[1]
    BY <1>2, <1>3, <1>6
  <1>8. rows[2] = MockDeadlines[2] /\ rows[3] = MockDeadlines[3]
    BY <1>2, <1>4, <1>5, <1>6
  <1>9. QED
    BY <1>1, <1>6, <1>7, <1>8 DEF rows

(***************************************************************************)
(* So are the first four items of the feed, with the compliance item       *)
(* third.                                                                  *)
(***************************************************************************)
LEMMA FeedShown ==
  ASSUME NEW live
  PROVE  LET all  == Overlay(MockFeed, "category", "compliance", live)
             rows == SubSeq(all, 1, 4) IN
         /\ DOMAIN rows = 1 .. 4
         /\ rows[3] = (IF live # Null THEN live ELSE MockFeed[3])
         /\ \A k \in (1 .. 4) \ {3} : rows[k] = MockFeed[k]
  <1> DEFINE all  == Overlay(MockFeed, "category", "compliance", live)
             rows == SubSeq(all, 1, 4)
  <1>1. \A k \in 1 .. 5 : all[k] = IF live # Null /\ MockFeed[k].category = "compliance"
                                   THEN live ELSE MockFeed[k]
    BY MockHasNoMarks DEF Overlay
  <1>2. MockFeed[3].category = "compliance"
    BY DEF MockFeed
  <1>3. \A k \in {1, 2, 4} : MockFeed[k].category # "compliance"
    BY DEF MockFeed
  <1> HIDE DEF all
  <1>4. all[3] = (IF live # Null THEN live ELSE MockFeed[3])
    BY <1>1, <1>2
  <1>5. \A k \in (1 .. 4) \ {3} : all[k] = MockFeed[k]
    BY <1>1, <1>3
  <1>6. /\ rows \in Seq({all[i] : i \in 1 .. 4})
        /\ Len(rows) = IF 1 <= 4 THEN 4 - 1 + 1 ELSE 0
        /\ \A i \in 1 .. 4 - 1 + 1 : rows[i] = all[1 + i - 1]
    <2>1. \A i \in 1 .. 4 : all[i] \in {all[j] : j \in 1 .. 4}
      OBVIOUS
    <2>2. QED
      BY <2>1, SubSeqProperties
  <1> HIDE DEF rows
  <1>7. DOMAIN rows = 1 .. 4 /\ \A i \in 1 .. 4 : rows[i] = all[i]
    BY <1>6
  <1>8. QED
    BY <1>4, <1>5, <1>7 DEF all, rows

(***************************************************************************)
(* What is live on the screen.                                             *)
(***************************************************************************)
LEMMA LiveOnScreen ==
  ASSUME BoardInv, hasRenewalFields(sam)
  PROVE  /\ sam \in SamProfile
         /\ Live(screen.deadlines) = {1} /\ screen.deadlines[1] = renewalDeadline(sam)
         /\ Live(screen.feed) = {3} /\ screen.feed[3] = renewalFeedEvent(sam)
  <1>1. sam \in SamProfile
    BY DEF BoardInv, hasRenewalFields
  <1> DEFINE deadline  == renewalDeadline(sam)
             event     == renewalFeedEvent(sam)
             deadlines == Overlay(MockDeadlines, "type", "SAM Renewal", deadline)
             feed      == SubSeq(Overlay(MockFeed, "category", "compliance", event), 1, 4)
  <1>2. screen.deadlines = Marked(deadlines) /\ screen.feed = Marked(feed)
    BY DEF BoardInv, Render, NextDeadlines, EventFeed
  <1>3. \A k \in 1 .. 3 : IsMock(MockDeadlines[k])
    BY MockHasNoMarks
  <1>4. \A k \in 1 .. 4 : IsMock(MockFeed[k])
    BY MockHasNoMarks
  <1>5. /\ DOMAIN deadlines = 1 .. 3 /\ deadlines[1] = deadline
        /\ \A k \in (1 .. 3) \ {1} : deadlines[k] = MockDeadlines[k]
    <2>1. deadline # Null
      BY <1>1, LiveRows
    <2> HIDE DEF deadline
    <2>2. QED
      BY <2>1, DeadlinesShown
  <1>6. /\ DOMAIN feed = 1 .. 4 /\ feed[3] = event
        /\ \A k \in (1 .. 4) \ {3} : feed[k] = MockFeed[k]
    <2>1. event # Null
      BY <1>1, LiveRows
    <2> HIDE DEF event
    <2>2. QED
      BY <2>1, FeedShown
  <1>7. IsLive(deadline) /\ IsLive(event)
    BY <1>1, LiveRows
  <1> HIDE DEF deadline, event, deadlines, feed
  <1>8. Marked(deadlines)[1] = deadline /\ Live(Marked(deadlines)) = {1}
    <2>1. \A k \in (1 .. 3) \ {1} : IsMock(deadlines[k])
      BY <1>3, <1>5
    <2>2. 3 \in Nat /\ 1 \in 1 .. 3
      OBVIOUS
    <2>3. QED
      BY <1>5, <1>7, <2>1, <2>2, MarkedRows
  <1>9. Marked(feed)[3] = event /\ Live(Marked(feed)) = {3}
    <2>1. \A k \in (1 .. 4) \ {3} : IsMock(feed[k])
      BY <1>4, <1>6
    <2>2. DOMAIN feed = 1 .. 4 /\ feed[3] = event /\ IsLive(feed[3])
      BY <1>6, <1>7
    <2>3. Marked(feed)[3] = feed[3] /\ Live(Marked(feed)) = {3}
      <3>1. 4 \in Nat /\ 3 \in 1 .. 4
        OBVIOUS
      <3>2. DOMAIN feed = 1 .. 4 /\ IsLive(feed[3])
        BY <2>2
      <3>3. QED
        BY <2>1, <3>1, <3>2, MarkedRows, Zenon
    <2>4. QED
      BY <2>2, <2>3
  <1>10. QED
    BY <1>1, <1>2, <1>8, <1>9 DEF deadline, event

(***************************************************************************)
(* Without renewal fields in the profile, nothing on the screen is live.   *)
(***************************************************************************)
LEMMA MockOnScreen ==
  ASSUME BoardInv, ~hasRenewalFields(sam)
  PROVE  Live(screen.deadlines) = {} /\ Live(screen.feed) = {}
  <1> DEFINE deadlines == Overlay(MockDeadlines, "type", "SAM Renewal", Null)
             feed      == SubSeq(Overlay(MockFeed, "category", "compliance", Null), 1, 4)
  <1>1. screen.deadlines = Marked(deadlines) /\ screen.feed = Marked(feed)
    BY DEF BoardInv, Render, NextDeadlines, EventFeed, renewalDeadline, renewalFeedEvent
  <1>2. DOMAIN deadlines = 1 .. 3 /\ \A k \in 1 .. 3 : deadlines[k] = MockDeadlines[k]
    BY DeadlinesShown
  <1>3. DOMAIN feed = 1 .. 4 /\ \A k \in 1 .. 4 : feed[k] = MockFeed[k]
    BY FeedShown
  <1>4. \A k \in 1 .. 3 : IsMock(MockDeadlines[k])
    BY MockHasNoMarks
  <1>5. \A k \in 1 .. 4 : IsMock(MockFeed[k])
    BY MockHasNoMarks
  <1> HIDE DEF deadlines, feed
  <1>6. Live(Marked(deadlines)) = {}
    <2>1. \A k \in 1 .. 3 : IsMock(deadlines[k])
      BY <1>2, <1>4
    <2>2. QED
      BY <1>2, <2>1, MockRows
  <1>7. Live(Marked(feed)) = {}
    <2>1. \A k \in 1 .. 4 : IsMock(feed[k])
      BY <1>3, <1>5
    <2>2. QED
      BY <1>3, <2>1, MockRows
  <1>8. QED
    BY <1>1, <1>6, <1>7

(***************************************************************************)
(* The renewal cluster is live together or mock together, at any number of *)
(* days and with any part of the profile missing.                          *)
(***************************************************************************)
THEOREM ClusterAlwaysAgrees == BoardSpec => []RenewalClusterAgrees
  <1>1. BoardInv => RenewalClusterAgrees
    <2> SUFFICES ASSUME BoardInv PROVE RenewalClusterAgrees
      OBVIOUS
    <2>1. screen.health.compliance.mock = (renewalCheck(sam) = Null)
      BY DEF BoardInv, Render, HealthRow, SHOW_MOCK_MARKERS
    <2>2. CASE hasRenewalFields(sam)
      <3>1. renewalCheck(sam) # Null
        BY <2>2, LiveOnScreen, LiveRows
      <3>2. QED
        BY <2>1, <2>2, <3>1, LiveOnScreen DEF RenewalClusterAgrees
    <2>3. CASE ~hasRenewalFields(sam)
      <3>1. renewalCheck(sam) = Null
        BY <2>3 DEF renewalCheck
      <3>2. QED
        BY <2>1, <2>3, <3>1, MockOnScreen DEF RenewalClusterAgrees
    <2>4. QED
      BY <2>2, <2>3
  <1>2. QED
    BY <1>1, BoardInvariant, PTL

(***************************************************************************)
(* What the surfaces that are always there show.                           *)
(***************************************************************************)
LEMMA TilesShown ==
  ASSUME BoardInv
  PROVE  /\ screen.strip.active = screen.health.contracts
         /\ screen.health.sam.value = "Expired" <=> screen.health.sam.status = "alert"
  <1>1. /\ screen.strip.active = hydrateContractor(overview).activeContracts
        /\ screen.health.contracts =
             IF overview = Null THEN Mock.count ELSE Or(overview.contracts, Mock.count)
        /\ screen.health.sam = [value  |-> IF hydrateSam(sam).days <= 0 THEN "Expired" ELSE "days",
                                status |-> hydrateSam(sam).status]
    BY DEF BoardInv, Render, HealthRow, IdentityStrip
  <1>2. screen.strip.active = screen.health.contracts
    BY <1>1 DEF hydrateContractor, Mock
  <1>3. hydrateSam(sam).days <= 0 <=> hydrateSam(sam).status = "alert"
    <2>1. CASE sam = Null
      BY <2>1 DEF hydrateSam, Mock
    <2>2. CASE sam # Null /\ sam.days = Null
      BY <2>2 DEF hydrateSam, Mock, Or, healthFromDays
    <2>3. CASE sam # Null /\ sam.days # Null
      <3>1. sam.days \in Int
        BY <2>3, DayAssumption DEF BoardInv, SamProfile
      <3>2. QED
        BY <2>3, <3>1 DEF hydrateSam, Or, healthFromDays
    <2>4. QED
      BY <2>1, <2>2, <2>3
  <1>4. QED
    BY <1>1, <1>2, <1>3

(***************************************************************************)
(* Two thresholds, four surfaces, one story: for every number of days, not *)
(* only around the boundaries TLC is given.                                *)
(***************************************************************************)
THEOREM UrgencyAlwaysAgrees == BoardSpec => []UrgencyAgrees
  <1>1. BoardInv => UrgencyAgrees
    <2> SUFFICES ASSUME BoardInv PROVE UrgencyAgrees
      OBVIOUS
    <2>1. CASE ~hasRenewalFields(sam)
      BY <2>1, TilesShown, MockOnScreen DEF UrgencyAgrees
    <2>2. CASE hasRenewalFields(sam)
      <3> DEFINE reg      == screen.health.sam
                 tile     == screen.health.compliance
                 deadline == screen.deadlines[1]
                 event    == screen.feed[3]
                 d        == sam.days
      <3>1. sam \in SamProfile /\ d \in Int /\ sam.date \in Int /\ sam # Null /\ d # Null
        BY <2>2, LiveOnScreen, LiveRows DEF hasRenewalFields
      <3>2. deadline = renewalDeadline(sam) /\ event = FeedEvent(d)
        BY <2>2, LiveOnScreen DEF renewalFeedEvent
      <3>3. tile.status = renewalStatus(d)
              /\ tile.value = (CASE renewalStatus(d) = "good" -> "OK"
                                [] renewalStatus(d) = "warn" -> "Watch"
                                [] OTHER -> "Action")
        <4>1. renewalCheck(sam) = renewalStatus(d) /\ renewalCheck(sam) # Null
          BY <2>2, <3>1, LiveRows
        <4>2. Or(renewalCheck(sam), Mock.check) = renewalStatus(d)
          BY <4>1 DEF Or
        <4>3. QED
          BY <4>2 DEF BoardInv, Render, HealthRow
      <3>4. reg.value = (IF d <= 0 THEN "Expired" ELSE "days") /\ reg.status = healthFromDays(d)
        BY <3>1 DEF BoardInv, Render, HealthRow, hydrateSam, Or
      <3>5. /\ deadline.daysToDue = d - Window /\ deadline.due = sam.date - Window
            /\ deadline.status = IF d - Window <= 0 THEN "warn" ELSE "good"
        <4>1. renewalDeadline(sam).daysToDue = d - Window
          BY <2>2 DEF renewalDeadline
        <4>2. renewalDeadline(sam).due = sam.date - Window
          BY <2>2 DEF renewalDeadline
        <4>3. renewalDeadline(sam).status = IF d - Window <= 0 THEN "warn" ELSE "good"
          BY <2>2 DEF renewalDeadline
        <4> HIDE DEF deadline, d
        <4>4. QED
          BY <3>2, <4>1, <4>2, <4>3
      <3>6. /\ event.status = renewalStatus(d)
            /\ event.title = IF d <= 0 THEN "expired" ELSE IF d > Window THEN "opens" ELSE "open"
        BY <3>2 DEF FeedEvent
      <3>7. /\ Live(screen.deadlines) = {1} /\ Live(screen.feed) = {3}
        BY <2>2, LiveOnScreen
      <3> HIDE DEF reg, tile, deadline, event, d
      <3>8. /\ reg.value = "Expired" <=> tile.value = "Action"
            /\ reg.status = "warn" => tile.value = "Watch"
            /\ event.status = tile.status
            /\ event.title = "expired" <=> tile.value = "Action"
            /\ event.title = "opens" <=> deadline.daysToDue > 0
            /\ deadline.status = "good" <=> tile.value = "OK"
            /\ d = sam.date => deadline.due = deadline.daysToDue
        BY <3>1, <3>3, <3>4, <3>5, <3>6 DEF renewalStatus, healthFromDays, Window
      <3>9. QED
        BY <3>7, <3>8, TilesShown DEF UrgencyAgrees, reg, tile, deadline, event, d
    <2>3. QED
      BY <2>1, <2>2
  <1>2. QED
    BY <1>1, BoardInvariant, PTL

=============================================================================
