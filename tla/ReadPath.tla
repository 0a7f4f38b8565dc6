------------------------------ MODULE ReadPath ------------------------------
(***************************************************************************)
(* What an admitted dashboard page reads, and what it makes of the answer. *)
(* The page asks for its surfaces at once (Promise.all); each read goes    *)
(*   - through the platform API, which checks the caller's token and, in   *)
(*     the database, his memberships, and asks core-x in turn ("bff"), or  *)
(*   - straight to core-x ("direct"), or nowhere ("none"),                 *)
(* by the configuration of the deployment (lib/catalyst/client.ts).        *)
(* An answer is kept as what the client makes of it: data, nothing, or an  *)
(* exception, raised by a status or by a body that cannot be read.         *)
(***************************************************************************)
EXTENDS TenantSession

CONSTANTS
  Paths, Pages,    \* the deployments and the pages considered
  Busy             \* bound: the requests that can be under way in each deployment

Surface == {"overview", "sam-profile", "active-contracts", "past-performance"}

(* The reads of each page that has any. *)
Reads == [dashboard        |-> {"overview", "sam-profile"},
          profile          |-> {"sam-profile"},
          active_contracts |-> {"active-contracts"},
          past_performance |-> {"past-performance"}]

ASSUME PathsAssumption == Paths \subseteq {"bff", "direct", "none"} /\ Pages \subseteq DOMAIN Reads
                            /\ Busy \in [Paths -> SUBSET Request]

VARIABLES path, read

readVars   == <<path, read>>
portalVars == <<sessionVars, readVars>>

NoReads   == [s \in Surface |-> "none"]
Result    == {"data", "empty", "error", "cut"}
ReadState == {"none", "asked", "allowed"} \cup Result

(***************************************************************************)
(* What comes over one hop: a status, no answer within the time limit      *)
(* ("unreachable"), or a 200 whose body stalls or breaks off ("cut").      *)
(***************************************************************************)
CoreX == {"200", "404", "500", "503"}
Wire(status) == {status, "unreachable"} \cup {a \in {"cut"} : status = "200"}

(* The broker reads the whole body inside its try and passes a status on. *)
proxy(a) == IF a \in {"unreachable", "cut"} THEN "502" ELSE a

Degraded == IF path = "bff" THEN {"404", "401", "502", "503", "504"} ELSE {"404"}

(* getJson, getJsonViaBff: the caller gets the payload, null or a throw. *)
getJson(a) ==
  CASE a = "200" -> "data"
    [] a = "cut" -> "cut"
    [] a \in Degraded \cup {"unreachable"} -> "empty"
    [] OTHER -> "error"

Asked(r)    == {s \in Surface : read[r][s] # "none"}
Thrown(r)   == {s \in Surface : read[r][s] \in {"error", "cut"}}
Resolved(r) == Asked(r) # {} /\ \A s \in Asked(r) : read[r][s] \in Result

-----------------------------------------------------------------------------
PortalInit ==
  /\ Init
  /\ path \in Paths
  /\ read = [r \in Request |-> NoReads]

(* The page calls for its surfaces; without a gateway each call is null. *)
AskSurfaces(r) ==
  /\ req[r].pc = "render" /\ Asked(r) = {}
  /\ \E p \in Pages :
       read' = [read EXCEPT ![r] =
                  [s \in Surface |-> IF s \notin Reads[p] THEN "none"
                                     ELSE IF path = "none" THEN "empty" ELSE "asked"]]
  /\ UNCHANGED <<sessionVars, path>>

Answer(r, s, from, a) ==
  /\ read[r][s] = from
  /\ read' = [read EXCEPT ![r][s] = IF a = "allowed" THEN a ELSE getJson(a)]
  /\ UNCHANGED <<sessionVars, path>>

(* The broker rejects the token, or cannot reach the key set: 401. *)
requireUser(r, s) == path = "bff" /\ Answer(r, s, "asked", "401")

TrustTheApp(r, s) ==       \* mutant: the broker leaves authorization to the page guard
  /\ path = "bff"
  /\ Answer(r, s, "asked", "allowed")

(* Authorization against the live memberships; 503 without a database. *)
ownedUeis(r, s) ==
  /\ path = "bff"
  /\ \/ Answer(r, s, "asked", IF <<req[r].user, req[r].org>> \in member /\ req[r].org \in UeiOrg
                             THEN "allowed" ELSE "404")
     \/ Answer(r, s, "asked", "503")

(* core-x answers the broker and the broker the page, a hop each. *)
FetchThroughBff(r, s) ==
  \E status \in CoreX : \E inner \in Wire(status) : \E outer \in Wire(proxy(inner)) :
    Answer(r, s, "allowed", outer)

FetchDirect(r, s) ==
  path = "direct" /\ \E status \in CoreX : \E a \in Wire(status) : Answer(r, s, "asked", a)

Read(r, s) == requireUser(r, s) \/ ownedUeis(r, s) \/ FetchThroughBff(r, s) \/ FetchDirect(r, s)

(* A page is answered when every read is resolved, or at the first throw. *)
AnswerPage(r) == (Resolved(r) \/ Thrown(r) # {}) /\ FinishPage(r)

(* Reads belong to the rendering of their page and end with it. *)
EndReads == read' = [r \in Request |-> IF req'[r].pc = "render" THEN read[r] ELSE NoReads]

PortalNext ==
  \/ (Change \/ Tick) /\ UNCHANGED readVars
  \/ \E r \in Busy[path] :
       \/ (Open(r) \/ Step(r) \/ Fault(r) \/ AnswerPage(r)) /\ EndReads /\ UNCHANGED path
       \/ AskSurfaces(r)
       \/ \E s \in Surface : Read(r, s)

PortalSpec == PortalInit /\ [][PortalNext]_portalVars

Progress(r) == \/ (Step(r) \/ AnswerPage(r)) /\ EndReads /\ UNCHANGED path
               \/ AskSurfaces(r)
               \/ \E s \in Surface : Read(r, s)

PortalFairness == /\ WF_portalVars(Tick /\ UNCHANGED readVars)
                  /\ \A r \in Request : WF_portalVars(Progress(r))

-----------------------------------------------------------------------------
PortalTypeOK ==
  /\ TypeOK
  /\ path \in {"bff", "direct", "none"}
  /\ read \in [Request -> [Surface -> ReadState]]

(***************************************************************************)
(* Defence in depth (client.ts:61): behind the broker, the page guard's    *)
(* stale cookie admits a former member to an empty page only.  Whatever    *)
(* data a page is handed rests on a membership active since it was opened. *)
(***************************************************************************)
DataIsLive ==
  path = "bff" => \A r \in Request :
    (\E s \in Surface : read[r][s] \in {"allowed", "data"}) =>
      Pair(r) \in Pairs /\ since[Pair(r)] <= req[r].age

(***************************************************************************)
(* client.ts:94-97: a transient upstream blip must degrade the surface,    *)
(* never 500 the dashboard render.  The overview has no error boundary; it *)
(* may fail for a status nobody expected, but not for an outage.           *)
(***************************************************************************)
OutageNeverFailsRender ==
  \A r \in Request :
    "overview" \in Asked(r) /\ Thrown(r) # {} => \E s \in Surface : read[r][s] = "error"

=============================================================================
