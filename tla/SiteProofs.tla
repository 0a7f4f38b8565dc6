----------------------------- MODULE SiteProofs -----------------------------
(***************************************************************************)
(* Proofs about Site, for any categories, stray paths and submissions.     *)
(***************************************************************************)
EXTENDS Site, TLAPS

(***************************************************************************)
(* What a step can be: another document, another route, or the form's.     *)
(***************************************************************************)
FormStep == RejectInput \/ \E p \in Post : Submit(p) \/ Serve(p) \/ ReceiveOutcome(p)

(***************************************************************************)
(* Links and the history are navigations.                                  *)
(***************************************************************************)
LEMMA SiteSteps ==
  ASSUME SiteNext
  PROVE  (\E u : Load(u)) \/ (\E u : Navigate(u)) \/ FormStep
  BY DEF SiteNext, FormStep, FollowSiteLink, Traverse

(***************************************************************************)
(* The title and the robots tag are the page's after any walk through the  *)
(* site, by links, history or reloads.  A hook that gives back what it     *)
(* found would restore the wrong title if the page that comes did not set  *)
(* its own; every page does, at every change of its dependencies.          *)
(***************************************************************************)
THEOREM HeadIsThePages == SiteSpec => []HeadMatchesPage
  <1>1. SiteInit => HeadMatchesPage
    BY DEF SiteInit, HeadMatchesPage
  <1>2. HeadMatchesPage /\ [SiteNext]_siteVars => HeadMatchesPage'
    <2> SUFFICES ASSUME HeadMatchesPage, [SiteNext]_siteVars PROVE HeadMatchesPage'
      OBVIOUS
    <2>1. ASSUME NEW u, Load(u) PROVE HeadMatchesPage'
      BY <2>1 DEF Load, Mount, HeadMatchesPage, Title, Found, Match, useNoindex
    <2>2. ASSUME NEW u, Navigate(u) PROVE HeadMatchesPage'
      <3>1. title' = Title(u)
        BY <2>2 DEF Navigate, Mount, usePageTitle, HeadMatchesPage
      <3>2. robots' = useNoindex(u)
        <4>1. \A v : useNoindex(v) \in {0, 1}
          BY DEF useNoindex
        <4>2. CASE Match(u) # Match(location)
          <5>1. robots' = robots - useNoindex(location) + useNoindex(u)
            BY <2>2, <4>2 DEF Navigate
          <5>2. QED
            BY <4>1, <5>1 DEF HeadMatchesPage
        <4>3. CASE Match(u) = Match(location)
          BY <2>2, <4>3 DEF Navigate, HeadMatchesPage, useNoindex
        <4>4. QED
          BY <4>2, <4>3
      <3>3. location' = u
        BY <2>2 DEF Navigate
      <3>4. QED
        BY <3>1, <3>2, <3>3 DEF HeadMatchesPage
    <2>3. CASE FormStep \/ UNCHANGED siteVars
      <3>1. UNCHANGED <<location, title, robots>>
        BY <2>3 DEF FormStep, RejectInput, Submit, Serve, ReceiveOutcome, headVars, siteVars
      <3>2. QED
        BY <3>1 DEF HeadMatchesPage, Title, Found, Match, useNoindex
    <2>4. QED
      BY <2>1, <2>2, <2>3, SiteSteps
  <1>3. QED
    BY <1>1, <1>2, PTL DEF SiteSpec

(***************************************************************************)
(* Every link of the site, on whatever page it stands, leads to a page     *)
(* that exists, and none of them to the brand preview.                     *)
(***************************************************************************)
LEMMA LinkTargets ==
  ASSUME NEW v, NEW u \in LinksOn(v)
  PROVE  Found(u) /\ Match(u) # "brand-preview"
  <1>1. LinksOn(v) \subseteq {Home} \cup CategoryUrls
          \cup {To(p) : p \in {"opportunities", "resources", "about", "contact", "claim"}}
    BY DEF LinksOn, SiteHeaderLinks, HomeLinks, CategoryGridLinks, ManifestoLinks, CtaCloseLink,
           OpportunitiesLinks, CategoryLinks, AboutLinks, ResourcesLinks, BrandPreviewLinks,
           NotFoundLinks
  <1>2. CASE u = Home
    BY <1>2 DEF Found, Match, Home, To
  <1>3. ASSUME NEW p \in {"opportunities", "resources", "about", "contact", "claim"}, u = To(p)
        PROVE  Found(u) /\ Match(u) # "brand-preview"
    <2>1. p \in StaticPages /\ u # Home /\ u[1] = p /\ Len(u) = 1
      BY <1>3 DEF StaticPages, Home, To
    <2>2. u \in {To(q) : q \in StaticPages}
      BY <1>3, <2>1
    <2>3. Match(u) = p
      BY <2>1, <2>2 DEF Match
    <2>4. QED
      BY <2>3 DEF Found
  <1>4. ASSUME NEW c \in Category, u = <<"opportunities", c>>
        PROVE  Found(u) /\ Match(u) # "brand-preview"
    <2>1. Len(u) = 2 /\ u[1] = "opportunities" /\ u[2] = c
      BY <1>4
    <2>2. u # Home /\ u \notin {To(p) : p \in StaticPages}
      BY <2>1, <1>4 DEF Home, To
    <2>3. Match(u) = "category"
      BY <2>1, <2>2 DEF Match
    <2>4. QED
      BY <2>1, <2>3 DEF Found
  <1>5. QED
    BY <1>1, <1>2, <1>3, <1>4 DEF CategoryUrls

(***************************************************************************)
(* However a visitor walks through the site, for any categories and stray  *)
(* paths, no link in front of him is dead or leads to the unlisted preview *)
(* (App.tsx:14-34 beside the links of the pages).                          *)
(***************************************************************************)
THEOREM LinksAreGood == SiteSpec => []LinksResolve
  <1>1. LinksResolve
    BY LinkTargets DEF LinksResolve
  <1>2. QED
    BY <1>1, PTL DEF SiteSpec

-----------------------------------------------------------------------------
(***************************************************************************)
(* What the form and the submissions can be.                               *)
(***************************************************************************)
FormTyped ==
  /\ form \in [view: {"blank", "invalid", "failed", "done"}, pending: BOOLEAN]
  /\ post \in [Post -> [of: {"unused", "form", "gone"}, server: {"none", "stored", "refused"},
                        told: {"nothing", "done", "failed"}]]

(***************************************************************************)
(* The forms start with their types.                                       *)
(***************************************************************************)
LEMMA InitFormTyped == SiteInit => FormTyped
  BY DEF SiteInit, FormTyped, BlankForm, Unsent

(***************************************************************************)
(* A page change either leaves the form alone or takes it away.            *)
(***************************************************************************)
LEMMA PageSteps ==
  ASSUME NEW u, Load(u) \/ Navigate(u)
  PROVE  Unmount \/ UNCHANGED <<form, post>>
  BY DEF Load, Navigate

(***************************************************************************)
(* A form that goes away is blank, and nothing sent from it is still       *)
(* awaited.                                                                *)
(***************************************************************************)
LEMMA UnmountTyped ==
  ASSUME FormTyped, Unmount
  PROVE  /\ FormTyped' /\ form' = BlankForm
         /\ \A p \in Post : /\ post'[p].of # "form"
                            /\ post'[p].server = post[p].server /\ post'[p].told = post[p].told
  BY DEF FormTyped, Unmount, BlankForm

(***************************************************************************)
(* Every step keeps the forms' types.                                      *)
(***************************************************************************)
LEMMA NextFormTyped == FormTyped /\ [SiteNext]_siteVars => FormTyped'
  <1> SUFFICES ASSUME FormTyped, [SiteNext]_siteVars PROVE FormTyped'
    OBVIOUS
  <1>1. ASSUME NEW u, Load(u) \/ Navigate(u) PROVE FormTyped'
    BY <1>1, PageSteps, UnmountTyped DEF FormTyped
  <1>2. ASSUME RejectInput PROVE FormTyped'
    BY <1>2 DEF RejectInput, FormTyped
  <1>3. ASSUME NEW p \in Post, Submit(p) PROVE FormTyped'
    BY <1>3 DEF Submit, FormTyped
  <1>4. ASSUME NEW p \in Post, Serve(p) PROVE FormTyped'
    BY <1>4 DEF Serve, FormTyped
  <1>5. ASSUME NEW p \in Post, ReceiveOutcome(p) PROVE FormTyped'
    BY <1>5 DEF ReceiveOutcome, FormTyped
  <1>6. CASE UNCHANGED siteVars
    BY <1>6 DEF siteVars, FormTyped
  <1>7. QED
    BY <1>1, <1>2, <1>3, <1>4, <1>5, <1>6, SiteSteps DEF FormStep

(***************************************************************************)
(* The inductive invariant of a form: at most one of its submissions is    *)
(* unanswered, and only while the form is pending; at most one was         *)
(* confirmed, it is stored, and the form then shows that and nothing else  *)
(* can be sent.                                                            *)
(***************************************************************************)
Pending(p)      == post[p].of = "form" /\ post[p].told = "nothing"
Confirmed(p) == post[p].of = "form" /\ post[p].told = "done"

FormInv ==
  /\ form.view = "done" => ~form.pending
  /\ form.view = "done" <=> \E p \in Post : Confirmed(p)
  /\ \A p \in Post : Pending(p) => form.pending
  /\ \A p, q \in Post : Pending(p) /\ Pending(q) => p = q
  /\ \A p, q \in Post : Confirmed(p) /\ Confirmed(q) => p = q
  /\ \A p \in Post : Confirmed(p) => post[p].server = "stored"
  /\ \A p \in Post : post[p].of = "unused" => post[p] = Unsent

(***************************************************************************)
(* Every step keeps it.                                                    *)
(***************************************************************************)
LEMMA NextFormInv == FormTyped /\ FormInv /\ [SiteNext]_siteVars => FormInv'
  <1> SUFFICES ASSUME FormTyped, FormInv, [SiteNext]_siteVars PROVE FormInv'
    OBVIOUS
  <1>1. ASSUME Unmount PROVE FormInv'
    <2>1. /\ form' = BlankForm
          /\ \A p \in Post : post'[p].of # "form" /\ (post[p].of # "form" => post'[p] = post[p])
                             /\ (post[p].of = "form" => post'[p].of = "gone")
      BY <1>1 DEF Unmount, FormTyped
    <2>2. QED
      BY <2>1 DEF BlankForm, FormInv, Pending, Confirmed
  <1>2. ASSUME UNCHANGED <<form, post>> PROVE FormInv'
    BY <1>2 DEF FormInv, Pending, Confirmed
  <1>3. ASSUME RejectInput PROVE FormInv'
    BY <1>3 DEF RejectInput, Submitable, FormTyped, FormInv, Pending, Confirmed
  <1>4. ASSUME NEW p \in Post, Submit(p) PROVE FormInv'
    <2>1. /\ form.view # "done" /\ ~form.pending /\ post[p] = Unsent
          /\ form'.view = form.view /\ form'.pending
          /\ post' = [post EXCEPT ![p].of = "form"]
      BY <1>4 DEF Submit, Submitable, FormTyped
    <2>2. /\ \A q \in Post \ {p} : post'[q] = post[q]
          /\ post'[p].of = "form" /\ post'[p].told = "nothing" /\ post'[p].server = "none"
      BY <2>1 DEF FormTyped, Unsent
    <2>3. QED
      BY <2>1, <2>2 DEF FormInv, Pending, Confirmed
  <1>5. ASSUME NEW p \in Post, Serve(p) PROVE FormInv'
    <2>1. PICK a \in {"stored", "refused"} : post' = [post EXCEPT ![p].server = a]
      BY <1>5 DEF Serve
    <2>2. /\ post[p].of # "unused" /\ post[p].server = "none" /\ form' = form
          /\ \A q \in Post \ {p} : post'[q] = post[q]
          /\ post'[p].of = post[p].of /\ post'[p].told = post[p].told
      BY <1>5, <2>1 DEF Serve, FormTyped
    <2>3. QED
      BY <2>2 DEF FormInv, Pending, Confirmed
  <1>6. ASSUME NEW p \in Post, ReceiveOutcome(p) PROVE FormInv'
    <2>1. PICK a \in Outcomes(p) :
            /\ form' = [view |-> IF postSucceeded(a) THEN "done" ELSE "failed", pending |-> FALSE]
            /\ post' = [post EXCEPT ![p].told = IF postSucceeded(a) THEN "done" ELSE "failed"]
      BY <1>6 DEF ReceiveOutcome
    <2>2. /\ Pending(p) /\ form.pending /\ form.view # "done"
          /\ \A q \in Post \ {p} : post'[q] = post[q]
          /\ post'[p].of = "form" /\ post'[p].server = post[p].server
      BY <1>6, <2>1 DEF ReceiveOutcome, FormTyped, FormInv, Pending
    <2>3. CASE postSucceeded(a)
      <3>1. post'[p].told = "done" /\ form'.view = "done" /\ ~form'.pending /\ post[p].server = "stored"
        BY <2>1, <2>3 DEF FormTyped, postSucceeded, Outcomes
      <3>2. QED
        BY <2>2, <3>1 DEF FormInv, Pending, Confirmed
    <2>4. CASE ~postSucceeded(a)
      <3>1. post'[p].told = "failed" /\ form'.view = "failed" /\ ~form'.pending
        BY <2>1, <2>4 DEF FormTyped
      <3>2. QED
        BY <2>2, <3>1 DEF FormInv, Pending, Confirmed
    <2>5. QED
      BY <2>3, <2>4
  <1>7. CASE UNCHANGED siteVars
    BY <1>2, <1>7 DEF siteVars
  <1>8. QED
    BY <1>1, <1>2, <1>3, <1>4, <1>5, <1>6, <1>7, SiteSteps, PageSteps DEF FormStep

(***************************************************************************)
(* The form's invariant in every behaviour.                                *)
(***************************************************************************)
THEOREM FormInvariant == SiteSpec => [](FormTyped /\ FormInv)
  <1>1. SiteInit => FormInv
    BY DEF SiteInit, BlankForm, Unsent, FormInv, Pending, Confirmed
  <1>2. QED
    BY <1>1, InitFormTyped, NextFormTyped, NextFormInv, PTL DEF SiteSpec

(***************************************************************************)
(* A visitor who reads that he has been heard has been.                    *)
(***************************************************************************)
THEOREM ConfirmationsAreStored == SiteSpec => []ConfirmedIsStored
  <1>1. FormTyped /\ FormInv => ConfirmedIsStored
    <2> SUFFICES ASSUME FormTyped, FormInv, form.view = "done"
                 PROVE  ~form.pending /\ \E p \in Post :
                          post[p] = [of |-> "form", server |-> "stored", told |-> "done"]
      BY DEF ConfirmedIsStored
    <2>1. PICK p \in Post : Confirmed(p)
      BY DEF FormInv
    <2>2. post[p].of = "form" /\ post[p].server = "stored" /\ post[p].told = "done"
      BY <2>1 DEF FormInv, Confirmed
    <2>3. post[p] = [of |-> "form", server |-> "stored", told |-> "done"]
      BY <2>2 DEF FormTyped
    <2>4. QED
      BY <2>3 DEF FormInv
  <1>2. QED
    BY <1>1, FormInvariant, PTL

(***************************************************************************)
(* Any number of submissions of one form store twice only after one of     *)
(* them was reported to have failed.                                       *)
(***************************************************************************)
THEOREM NoDuplicateWithoutFailure == SiteSpec => []DuplicatesOnlyAfterFailure
  <1>1. FormTyped /\ FormInv => DuplicatesOnlyAfterFailure
    <2> SUFFICES ASSUME FormTyped, FormInv, NEW p \in Post, NEW q \in Post, p # q,
                        post[p].of = "form", post[q].of = "form"
                 PROVE  "failed" \in {post[p].told, post[q].told}
      BY DEF DuplicatesOnlyAfterFailure
    <2>1. (Pending(p) \/ Confirmed(p) \/ post[p].told = "failed")
            /\ (Pending(q) \/ Confirmed(q) \/ post[q].told = "failed")
      BY DEF Pending, Confirmed, FormTyped
    <2>2. ~(Pending(p) /\ Pending(q)) /\ ~(Confirmed(p) /\ Confirmed(q))
      BY DEF FormInv
    <2>3. ~(Pending(p) /\ Confirmed(q)) /\ ~(Confirmed(p) /\ Pending(q))
      BY DEF FormInv
    <2>4. QED
      BY <2>1, <2>2, <2>3
  <1>2. QED
    BY <1>1, FormInvariant, PTL
=============================================================================
