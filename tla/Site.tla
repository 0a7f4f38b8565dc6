-------------------------------- MODULE Site --------------------------------
(***************************************************************************)
(* The marketing site in one browser tab: a single-page application with   *)
(* its routes and links, the title and robots tag that the effects of its  *)
(* pages write and take back (lib/usePageTitle.ts, lib/useNoindex.ts), and *)
(* the two forms that post to the API, whose answers can be lost or come   *)
(* after the page has gone (components/forms, lib/submit.ts).              *)
(* Texts are left out; a title is named after its page.                    *)
(***************************************************************************)
EXTENDS Naturals, Sequences

CONSTANTS
  Category,      \* lib/opportunities.ts
  Stray,         \* paths people come with that no page or category has
  Post           \* bound: submissions sent

ASSUME StrayAssumption == Category \cap Stray = {}

Home == <<>>
To(page) == <<page>>
CategoryUrls == {<<"opportunities", c>> : c \in Category}

StaticPages == {"about", "contact", "claim", "opportunities", "resources", "brand-preview"}

Urls == {Home} \cup {To(p) : p \in StaticPages \cup Stray}
          \cup {<<"opportunities", c>> : c \in Category \cup Stray}

VARIABLES
  location,       \* where the tab is
  title, saved,   \* document.title; `previous' of the mounted hooks, outer first
  robots,         \* number of noindex tags in the head
  form,           \* state of the form on the page
  post            \* the submissions: of the mounted form or one that has gone,
                  \* what the server made of them, what the browser was told

headVars == <<location, title, saved, robots>>
siteVars == <<headVars, form, post>>

-----------------------------------------------------------------------------
(* Routes (App.tsx).  The host answers every path with index.html. *)

Unrouted(u) == IF u \in {To(p) : p \in StaticPages} THEN u[1] ELSE "notfound"   \* mutant

Match(u) ==
  CASE u = Home -> "home"
    [] u \in {To(p) : p \in StaticPages} -> u[1]
    [] Len(u) = 2 /\ u[1] = "opportunities" -> "category"
    [] OTHER -> "notfound"

(* CategoryPage renders NotFoundPage inside itself for an unknown category. *)
Found(u)  == Match(u) # "notfound" /\ (Match(u) = "category" => u[2] \in Category)
Nested(u) == Match(u) = "category" /\ ~Found(u)
Title(u)  == IF ~Found(u) THEN "notfound" ELSE IF Len(u) = 2 THEN u[2] ELSE Match(u)

(* Links.  A query (?next=) changes neither route nor page. *)

SiteHeaderLinks == {Home} \cup {To(p) : p \in {"opportunities", "resources", "about", "contact",
                                               "claim"}}
HomeLinks          == {To("claim"), To("opportunities")}
CategoryGridLinks  == CategoryUrls
ManifestoLinks     == {To("contact"), To("claim")}
CtaCloseLink(to)   == {to}
OpportunitiesLinks == CategoryUrls \cup CtaCloseLink(To("claim"))
CategoryLinks      == {To("claim")} \cup CtaCloseLink(To("claim"))
AboutLinks         == CtaCloseLink(To("claim"))
ResourcesLinks     == CtaCloseLink(To("claim"))
BrandPreviewLinks  == {To("claim")}
NotFoundLinks      == {Home, To("claim")}

LinksOn(u) ==
  SiteHeaderLinks \cup
    CASE ~Found(u) -> NotFoundLinks
      [] Match(u) = "home"          -> HomeLinks \cup CategoryGridLinks \cup ManifestoLinks
      [] Match(u) = "opportunities" -> OpportunitiesLinks
      [] Match(u) = "category"      -> CategoryLinks
      [] Match(u) = "about"         -> AboutLinks
      [] Match(u) = "resources"     -> ResourcesLinks
      [] Match(u) = "brand-preview" -> BrandPreviewLinks
      [] OTHER -> {}

-----------------------------------------------------------------------------
(* Effects.  React runs the clean-ups of what goes before the effects of    *)
(* what comes; of nested components the outer one's clean-up first when     *)
(* both go, the inner one's effect first when both come.                    *)

NeverAgain(u, v)    == FALSE                   \* mutant: useEffect(..., [])
usePageTitle(u, v)  == Title(u) # Title(v)     \* the dependency of a page that stays

(* The title that the hooks of a page going to v leave behind. *)
Restored(v) == saved[IF Match(v) = Match(location) THEN 1 ELSE Len(saved)]

Mount(v, old) ==
  /\ title' = Title(v)
  /\ saved' = IF Nested(v) THEN <<"notfound", old>> ELSE <<old>>

useNoindex(u) == IF Match(u) = "brand-preview" THEN 1 ELSE 0

HasForm(u) == Match(u) \in {"claim", "contact"}
BlankForm  == [view |-> "blank", pending |-> FALSE]

(* The form goes with its page; what it sent is on its own. *)
Unmount == /\ form' = BlankForm
           /\ post' = [p \in Post |-> [post[p] EXCEPT !.of = IF @ = "form" THEN "gone" ELSE @]]

Unsent == [of |-> "unused", server |-> "none", told |-> "nothing"]

-----------------------------------------------------------------------------
SiteInit ==
  /\ location \in Urls
  /\ title = Title(location)
  /\ saved = IF Nested(location) THEN <<"notfound", "default">> ELSE <<"default">>
  /\ robots = useNoindex(location)
  /\ form = BlankForm
  /\ post = [p \in Post |-> Unsent]

(* A path is typed, or the page reloaded: a new document. *)
Load(u) ==
  /\ location' = u
  /\ Mount(u, "default")
  /\ robots' = useNoindex(u)
  /\ Unmount

(* The router shows another page, or the same page with other parameters. *)
Navigate(u) ==
  /\ location' = u
  /\ IF Match(u) # Match(location) \/ usePageTitle(location, u) THEN Mount(u, Restored(u))
                                                      ELSE UNCHANGED <<title, saved>>
  /\ IF Match(u) # Match(location)
     THEN robots' = robots - useNoindex(location) + useNoindex(u) /\ Unmount
     ELSE UNCHANGED <<robots, form, post>>

FollowSiteLink == \E u \in LinksOn(location) : Navigate(u)

(* Back and forward within a document.  A document keeps the entries of the *)
(* history when it is reloaded, so any path that was ever loaded in the tab *)
(* can be among them, and jumps skip those in between.                      *)
Traverse == \E u \in Urls : Navigate(u)

-----------------------------------------------------------------------------
(* ClaimForm and ContactForm. *)

Impatient  == HasForm(location) /\ form.view # "done"       \* mutant: the button stays enabled
Submitable == HasForm(location) /\ form.view # "done" /\ ~form.pending

(* The schema refuses what was typed; nothing is sent. *)
RejectInput ==
  /\ Submitable
  /\ form' = [form EXCEPT !.view = "invalid"]
  /\ UNCHANGED <<headVars, post>>

Submit(p) ==
  /\ Submitable /\ post[p] = Unsent
  /\ form' = [form EXCEPT !.pending = TRUE]
  /\ post' = [post EXCEPT ![p].of = "form"]
  /\ UNCHANGED headVars

(* The endpoint does not exist yet: it may store or refuse what reaches it, *)
(* also after the browser has given up on the answer.                       *)
Serve(p) ==
  /\ post[p].of # "unused" /\ post[p].server = "none"
  /\ \E a \in {"stored", "refused"} : post' = [post EXCEPT ![p].server = a]
  /\ UNCHANGED <<headVars, form>>

(* What the browser can be told: the server's answer, or that there is none. *)
Outcomes(p) == {"none"} \cup {post[p].server}

AnyAnswer(a) == a # "none"       \* mutant: res.ok is not looked at
postSucceeded(a) == a = "stored"

(* The mounted form takes the outcome; React ignores one that has gone. *)
ReceiveOutcome(p) ==
  /\ post[p].of = "form" /\ post[p].told = "nothing"
  /\ \E a \in Outcomes(p) :
       /\ form' = [view |-> IF postSucceeded(a) THEN "done" ELSE "failed", pending |-> FALSE]
       /\ post' = [post EXCEPT ![p].told = IF postSucceeded(a) THEN "done" ELSE "failed"]
  /\ UNCHANGED headVars

SiteNext ==
  \/ \E u \in Urls : Load(u)
  \/ FollowSiteLink \/ Traverse \/ RejectInput
  \/ \E p \in Post : Submit(p) \/ Serve(p) \/ ReceiveOutcome(p)

SiteSpec == SiteInit /\ [][SiteNext]_siteVars

-----------------------------------------------------------------------------
(***************************************************************************)
(* The head is the page's (usePageTitle.ts:3, useNoindex.ts:3): whatever   *)
(* path through pages, categories and not-found pages, nested or not, led  *)
(* here, the title is this page's, and the page is kept from search        *)
(* engines exactly when it is the brand preview.                           *)
(***************************************************************************)
HeadMatchesPage == title = Title(location) /\ robots = useNoindex(location)

(***************************************************************************)
(* No page of the site, the not-found page included, links to a path that  *)
(* has no page or to the brand preview, which is kept out of search        *)
(* results and is for those who type its path (useNoindex.ts:3-7).         *)
(***************************************************************************)
LinksResolve == \A u \in LinksOn(location) : Found(u) /\ Match(u) # "brand-preview"

(***************************************************************************)
(* "Entity claimed.", "Sent.": a visitor who reads it sent something that  *)
(* is stored, and nothing of his form is still under way.                  *)
(***************************************************************************)
ConfirmedIsStored ==
  form.view = "done" =>
    /\ ~form.pending
    /\ \E p \in Post : post[p] = [of |-> "form", server |-> "stored", told |-> "done"]

(***************************************************************************)
(* One form stores twice only when it was told that the first had failed:  *)
(* an answer lost after the write is retried without an idempotency key    *)
(* (submit.ts:86), a visitor pressing twice is not.                        *)
(***************************************************************************)
DuplicatesOnlyAfterFailure ==
  \A p, q \in Post :
    p # q /\ post[p].of = "form" /\ post[q].of = "form"
      /\ post[p].server = "stored" /\ post[q].server = "stored" =>
        "failed" \in {post[p].told, post[q].told}
=============================================================================
