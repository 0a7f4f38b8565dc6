----------------------------- MODULE Dashboard ------------------------------
(***************************************************************************)
(* What the overview shows.  It is built on a mock dashboard; the answers  *)
(* to two reads, each of which may be null, are laid over it field by      *)
(* field, and whatever is still mock must say so (lib/flags.ts).  The live *)
(* expiration of the SAM registration appears in four places, built by     *)
(* four functions with two thresholds (lib/dashboard-adapter.ts).          *)
(* Days are integers; a date is the day it falls on, today being day 0.    *)
(* Texts, addresses and amounts are left out.                              *)
(***************************************************************************)
EXTENDS Integers, Sequences

CONSTANTS
  Day,         \* days to expiration considered
  Count,       \* active contracts considered
  Null

(* Live rows of the two lists; a row of the mock dashboard has Null for isMock. *)
HealthStatus == {"alert", "warn", "good"}
LiveDeadline == [type: {"SAM Renewal"}, daysToDue: Int, due: Int, status: HealthStatus, isMock: {FALSE}]
LiveEvent    == [category: {"compliance"}, status: HealthStatus, isMock: {FALSE},
                 title: {"expired", "open", "opens"}]

ASSUME DayAssumption  == Day \subseteq Int /\ Count \subseteq Nat
ASSUME NullAssumption == Null \notin Int \cup BOOLEAN \cup HealthStatus \cup LiveDeadline \cup LiveEvent

VARIABLES sam, overview, screen    \* the two answers, and what is shown

boardVars == <<sam, overview, screen>>

Window == 90                       \* RENEWAL_WINDOW_DAYS

(* The mock dashboard, as far as it is overlaid.  Its rows carry no isMock; *)
(* a live row carries FALSE.                                                *)
Checks == <<"warn", "warn", "good", "good", "good">>
worstCompliance == IF \E k \in DOMAIN Checks : Checks[k] = "alert" THEN "alert"
                   ELSE IF \E k \in DOMAIN Checks : Checks[k] = "warn" THEN "warn"
                   ELSE Checks[1]

Mock == [days |-> 126, tile |-> "warn", check |-> worstCompliance, activeContracts |-> 3, count |-> 3]
MockDeadlines ==
  <<[type |-> "SAM Renewal", daysToDue |-> 36, status |-> "warn", isMock |-> Null],
    [type |-> "Option Exercise", daysToDue |-> 19, status |-> "warn", isMock |-> Null],
    [type |-> "Reps & Certs", daysToDue |-> 126, status |-> "good", isMock |-> Null]>>
MockFeed == <<[category |-> "active_contracts", status |-> "good", isMock |-> Null],
              [category |-> "opportunities",    status |-> "none", isMock |-> Null],
              [category |-> "compliance",       status |-> "warn", isMock |-> Null],
              [category |-> "past_performance", status |-> "good", isMock |-> Null],
              [category |-> "surety",           status |-> "none", isMock |-> Null]>>

(* The payloads; either field of the profile may be missing. *)
SamProfile == [date: Day \cup {Null}, days: Day \cup {Null}]
Overview   == [contracts: Count \cup {Null}]

Or(a, b) == IF a = Null THEN b ELSE a     \* a ?? b

-----------------------------------------------------------------------------
(* lib/dashboard-adapter.ts *)

healthFromDays(d) == IF d = Null THEN "good"
                     ELSE IF d <= 0 THEN "alert" ELSE IF d <= 60 THEN "warn" ELSE "good"

StrictWindow(d)  == IF d = Null THEN "good"      \* mutant: the last day is not expired yet
                    ELSE IF d < 0 THEN "alert" ELSE IF d < Window THEN "warn" ELSE "good"
renewalStatus(d) == IF d = Null THEN "good"
                    ELSE IF d <= 0 THEN "alert" ELSE IF d <= Window THEN "warn" ELSE "good"

hydrateContractor(o) ==
  [activeContracts |-> IF o = Null THEN Mock.activeContracts ELSE Or(o.contracts, Mock.activeContracts)]

hydrateSam(s) ==
  IF s = Null THEN [days |-> Mock.days, status |-> Mock.tile]
  ELSE [days |-> Or(s.days, Mock.days), status |-> healthFromDays(s.days)]

hasRenewalFields(s) == s # Null /\ s.date # Null /\ s.days # Null

renewalCheck(s) == IF hasRenewalFields(s) THEN renewalStatus(s.days) ELSE Null

renewalDeadline(s) ==
  IF ~hasRenewalFields(s) THEN Null
  ELSE LET daysToDue == s.days - Window IN
       [type |-> "SAM Renewal", daysToDue |-> daysToDue, due |-> s.date - Window,
        status |-> IF daysToDue <= 0 THEN "warn" ELSE "good", isMock |-> FALSE]

FeedEvent(d) == [category |-> "compliance", status |-> renewalStatus(d), isMock |-> FALSE,
                 title |-> IF d <= 0 THEN "expired" ELSE IF d > Window THEN "opens" ELSE "open"]

DaysSuffice(s)      == IF s # Null /\ s.days # Null THEN FeedEvent(s.days) ELSE Null   \* mutant
renewalFeedEvent(s) == IF hasRenewalFields(s) THEN FeedEvent(s.days) ELSE Null

-----------------------------------------------------------------------------
(* The components, and the marks they put on what is still mock. *)

SHOW_MOCK_MARKERS == TRUE

Marked(rows) == [k \in DOMAIN rows |-> [rows[k] EXCEPT !.isMock = Or(@, SHOW_MOCK_MARKERS)]]

HealthRow(tile, check, count, complianceMock) ==
  [sam        |-> [value |-> IF tile.days <= 0 THEN "Expired" ELSE "days", status |-> tile.status],
   contracts  |-> count,
   compliance |-> [value |-> CASE check = "good" -> "OK" [] check = "warn" -> "Watch" [] OTHER -> "Action",
                   status |-> check, mock |-> complianceMock]]

IdentityStrip(contractor) == [active |-> contractor.activeContracts]
NextDeadlines(deadlines) == Marked(deadlines)
EventFeed(events) == Marked(events)

(* DashboardPage. *)

Overlay(rows, key, value, live) ==
  [k \in DOMAIN rows |-> IF live # Null /\ rows[k][key] = value THEN live ELSE rows[k]]

Render(o, s) ==
  [strip     |-> IdentityStrip(hydrateContractor(o)),
   health    |-> HealthRow(hydrateSam(s),
                           Or(renewalCheck(s), Mock.check),
                           IF o = Null THEN Mock.count ELSE Or(o.contracts, Mock.count),
                           SHOW_MOCK_MARKERS /\ renewalCheck(s) = Null),
   deadlines |-> NextDeadlines(Overlay(MockDeadlines, "type", "SAM Renewal", renewalDeadline(s))),
   feed      |-> EventFeed(SubSeq(Overlay(MockFeed, "category", "compliance", renewalFeedEvent(s)),
                                  1, 4))]

BoardInit == sam = Null /\ overview = Null /\ screen = Render(Null, Null)

(* The page is opened again, later: both reads are made anew. *)
OpenOverview ==
  /\ sam' \in SamProfile \cup {Null}
  /\ overview' \in Overview \cup {Null}
  /\ screen' = Render(overview', sam')

BoardSpec == BoardInit /\ [][OpenOverview]_boardVars

-----------------------------------------------------------------------------
Live(rows) == {k \in DOMAIN rows : ~rows[k].isMock}     \* without the MOCK badge

(***************************************************************************)
(* The renewal cluster is live together or mock together                   *)
(* (dashboard-adapter.ts:73-76): never does the compliance tile count real *)
(* days beside a deadline or a feed item with a MOCK badge, and the live   *)
(* feed item is among the four that are shown.                             *)
(***************************************************************************)
RenewalClusterAgrees ==
  /\ ~screen.health.compliance.mock <=> Live(screen.deadlines) # {}
  /\ ~screen.health.compliance.mock <=> Live(screen.feed) # {}

(***************************************************************************)
(* Two thresholds, four surfaces: at every number of days, zero and both   *)
(* boundaries included, the overview tells one story.  The SAM tile reads  *)
(* "Expired" exactly when it is in alert; with live data that is when the  *)
(* compliance tile asks for action and the feed says expired; the tile     *)
(* never warns before they do, they warn exactly from the day the deadline *)
(* counts down to, and that day is 90 days before the expiration.  The     *)
(* strip and the tile count the same contracts.                            *)
(***************************************************************************)
UrgencyAgrees ==
  LET reg  == screen.health.sam
      tile == screen.health.compliance
  IN
  /\ screen.strip.active = screen.health.contracts
  /\ reg.value = "Expired" <=> reg.status = "alert"
  /\ \A d \in Live(screen.deadlines), f \in Live(screen.feed) :
       LET deadline == screen.deadlines[d]
           event    == screen.feed[f]
       IN  /\ reg.value = "Expired" <=> tile.value = "Action"
           /\ reg.status = "warn" => tile.value = "Watch"
           /\ event.status = tile.status
           /\ event.title = "expired" <=> tile.value = "Action"
           /\ event.title = "opens" <=> deadline.daysToDue > 0
           /\ deadline.status = "good" <=> tile.value = "OK"
           /\ sam.days = sam.date => deadline.due = deadline.daysToDue
=============================================================================
