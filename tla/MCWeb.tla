------------------------------- MODULE MCWeb --------------------------------
(***************************************************************************)
(* Small instances for TLC of what happens in browsers: the requests of a  *)
(* signed-in portal user, his walk through its pages, the overview's       *)
(* tiles, and the marketing site.  The four share no state; `part' says    *)
(* which of them a behaviour is about, the others' variables staying where *)
(* a fixed initial state puts them.                                        *)
(***************************************************************************)
EXTENDS ReadPath, Navigation, Dashboard, Site

CONSTANTS ann, ben, acme, r1, r2, s1, Parts

VARIABLE part

Memberships == {<<ann, acme>>}

(* One request at a time where pages read, two where they do not. *)
BusyIn == [p \in Paths |-> IF p = "none" THEN {r1, r2} ELSE {r1}]

(* All spellings up to one character too many; stored: the canonical form, *)
(* lower case, an excluded letter, and one of another length.              *)
Spellings   == UNION {[1..n -> {"A", "a", "I", "-"}] : n \in 1..3}
StoredForms == {<<"A", "A">>, <<"a", "B">>, <<"A", "I">>, <<"A", "A", "B">>}

(* Allowed is the filter that normalizeUei's replace is. *)
ASSUME AllowedFilters ==
  \A s \in Spellings : LET allowed(c) == c \in {"A", "B"} IN Allowed(s) = SelectSeq(Upper(s), allowed)

(* Both sides of today, of 60 and of 90 days. *)
Boundaries == {-1, 0, 1, 59, 60, 61, 89, 90, 91, 126}

webVars == <<part, portalVars, walkVars, boardVars, siteVars>>

(* Where a part that is not looked at stays. *)
QuietRequests ==
  /\ member = {} /\ since = [p \in Pairs |-> Horizon]
  /\ session = NoUser /\ cookie = NoCookie /\ req = [r \in Request |-> Idle]
  /\ changes = 0 /\ failures = 0 /\ path = "none" /\ read = [r \in Request |-> NoReads]
QuietWalk  == orgs = <<>> /\ url = AccessExpired /\ via = "land"
QuietBoard == BoardInit
QuietSite  == SiteInit /\ location = Home

WebInit ==
  /\ part \in Parts
  /\ IF part = "requests" THEN PortalInit ELSE QuietRequests
  /\ IF part = "walk"     THEN WalkInit   ELSE QuietWalk
  /\ QuietBoard
  /\ IF part = "site"     THEN SiteInit   ELSE QuietSite

Requests == part = "requests" /\ PortalNext   /\ UNCHANGED <<part, walkVars, boardVars, siteVars>>
Walk     == part = "walk"     /\ WalkNext     /\ UNCHANGED <<part, portalVars, boardVars, siteVars>>
Board    == part = "board"    /\ OpenOverview /\ UNCHANGED <<part, portalVars, walkVars, siteVars>>
SiteStep == part = "site"     /\ SiteNext     /\ UNCHANGED <<part, portalVars, walkVars, boardVars>>

WebNext == Requests \/ Walk \/ Board \/ SiteStep

(* PortalFairness, for the behaviours that are about the requests. *)
WebFairness ==
  /\ WF_portalVars(part = "requests" /\ Tick /\ UNCHANGED readVars)
  /\ \A r \in Request : WF_portalVars(part = "requests" /\ Progress(r))

WebSpec == WebInit /\ [][WebNext]_webVars /\ WebFairness
=============================================================================
