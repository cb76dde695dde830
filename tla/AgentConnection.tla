---------------------------- MODULE AgentConnection ----------------------------
(***************************************************************************)
(* Which agent the console talks to: the persisted store, the Workspace's  *)
(* connect form that probes a URL before saving it, the Simulator page's   *)
(* gate, and what the sidebar's indicator is told.                         *)
(***************************************************************************)
EXTENDS Naturals

CONSTANTS Urls,    \* the default URL of an agent, and others
          NoUrl

ASSUME AgentConnectionAssumption == Urls # {} /\ NoUrl \notin Urls

VARIABLES
  agentUrl, agentStatus, agentError,    \* the store
  standalone,   \* AppConfig: the server enables the simulator
  page,         \* "workspace", "simulator", "other"
  draft, editing,                       \* AgentSection
  probe,        \* connectMut: NoUrl, or the URL it asks
  gate,         \* agent-health-gate: the query of each URL
  answered      \* history: URLs that have answered a probe

agentSection == <<draft, editing>>
agentStore == <<agentUrl, agentStatus, agentError>>
connVars == <<agentUrl, agentStatus, agentError, standalone, page, draft, editing,
              probe, gate, answered>>

\* Only the URL survives a reload; a blank draft is NoUrl.
ConnInit ==
  /\ agentUrl \in Urls \cup {NoUrl}
  /\ agentStatus = "idle" /\ agentError = FALSE
  /\ standalone \in BOOLEAN /\ page = "other"
  /\ draft = NoUrl /\ editing = FALSE /\ probe = NoUrl
  /\ gate = [u \in Urls |-> "none"]
  /\ answered = IF agentUrl = NoUrl THEN {} ELSE {agentUrl}

\* The hint, or the default URL, when none is saved.
SeedUrl(u) == IF u # NoUrl THEN u ELSE CHOOSE d \in Urls : TRUE

OpenWorkspace ==
  /\ page # "workspace" /\ page' = "workspace"
  /\ draft' = SeedUrl(agentUrl) /\ editing' = (agentUrl = NoUrl)
  /\ UNCHANGED <<agentStore, standalone, probe, gate, answered>>

\* The mirror effect: the outcome of the gate's query, if it has one.
Mirrored(u, g) ==
  CASE g = "ok"    -> agentStatus' = "connected" /\ agentError' = FALSE
    [] g = "error" -> agentStatus' = "error" /\ agentError' = TRUE
    [] OTHER       -> UNCHANGED <<agentStatus, agentError>>

AskGate(u) == [gate EXCEPT ![u] = IF @ = "ok" THEN @ ELSE "pending"]

\* An answer is kept for the life of the tab; without one the URL is asked.
OpenSimulator ==
  /\ page # "simulator" /\ page' = "simulator"
  /\ IF agentUrl = NoUrl THEN UNCHANGED <<gate, agentStatus, agentError>>
     ELSE /\ gate' = AskGate(agentUrl)
          /\ Mirrored(agentUrl, gate'[agentUrl])
  /\ UNCHANGED <<agentUrl, standalone, draft, editing, probe, answered>>

OpenOther ==
  /\ page # "other" /\ page' = "other"
  /\ UNCHANGED <<agentStore, standalone, draft, editing, probe, gate, answered>>

\* Mutant of GateAnswers: any answer is mirrored.
GateAnswersAnyUrl(u) ==
  /\ gate[u] = "pending"
  /\ \E g \in {"ok", "error"} : gate' = [gate EXCEPT ![u] = g] /\ Mirrored(u, g)
  /\ UNCHANGED <<agentUrl, standalone, page, draft, editing, probe, answered>>

\* The gate's probe; the page mirrors it only while it is there, for its URL.
GateAnswers(u) ==
  /\ gate[u] = "pending"
  /\ \E g \in {"ok", "error"} :
       /\ gate' = [gate EXCEPT ![u] = g]
       /\ answered' = IF g = "ok" THEN answered \cup {u} ELSE answered
       /\ IF page = "simulator" /\ u = agentUrl THEN Mirrored(u, g)
          ELSE UNCHANGED <<agentStatus, agentError>>
  /\ UNCHANGED <<agentUrl, standalone, page, draft, editing, probe>>

\* What the Simulator page shows: the live UI already while the gate is asking.
SimulatorShows ==
  CASE ~standalone             -> "locked"
    [] agentUrl = NoUrl        -> "not configured"
    [] gate[agentUrl] = "error" -> "not reachable"
    [] OTHER                   -> "live"

InSection == page = "workspace" /\ standalone
ShowsForm == InSection /\ (editing \/ agentStatus # "connected" \/ agentUrl = NoUrl)

EditDraft ==
  /\ ShowsForm /\ draft' \in Urls \cup {NoUrl}
  /\ UNCHANGED <<agentStore, standalone, page, editing, probe, gate, answered>>

\* connectMut.onMutate; the button is disabled while it is pending or blank.
OnConnect ==
  /\ ShowsForm /\ draft # NoUrl /\ probe = NoUrl
  /\ probe' = draft /\ agentStatus' = "testing" /\ agentError' = FALSE
  /\ UNCHANGED <<agentUrl, standalone, page, draft, editing, gate, answered>>

\* The mutation's own callbacks run wherever the user is by now; an open
\* Simulator page asks its gate for the new URL.
ProbeSucceeds ==
  /\ probe # NoUrl /\ probe' = NoUrl
  /\ agentUrl' = probe /\ agentStatus' = "connected" /\ editing' = FALSE
  /\ answered' = answered \cup {probe}
  /\ gate' = IF page = "simulator" /\ agentUrl # probe THEN AskGate(probe) ELSE gate
  /\ UNCHANGED <<agentError, standalone, page, draft>>

\* The URL saved before stays.
ProbeFails ==
  /\ probe # NoUrl /\ probe' = NoUrl
  /\ agentStatus' = "error" /\ agentError' = TRUE
  /\ UNCHANGED <<agentUrl, standalone, page, draft, editing, gate, answered>>

EditConnection ==
  /\ InSection /\ ~ShowsForm /\ editing' = TRUE
  /\ UNCHANGED <<agentStore, standalone, page, draft, probe, gate, answered>>

CancelEdit ==
  /\ ShowsForm /\ agentUrl # NoUrl
  /\ editing' = FALSE /\ draft' = agentUrl /\ agentError' = FALSE
  /\ UNCHANGED <<agentUrl, agentStatus, standalone, page, probe, gate, answered>>

OnDisconnect ==
  /\ InSection /\ ~ShowsForm
  /\ agentUrl' = NoUrl /\ agentStatus' = "idle" /\ agentError' = FALSE
  /\ draft' = SeedUrl(NoUrl) /\ editing' = TRUE
  /\ UNCHANGED <<standalone, page, probe, gate, answered>>

\* The browser reloads the page: the queries and the mutation go with it.
Reload ==
  /\ agentStatus' = "idle" /\ agentError' = FALSE /\ page' = "other"
  /\ draft' = NoUrl /\ editing' = FALSE /\ probe' = NoUrl
  /\ gate' = [u \in Urls |-> "none"]
  /\ UNCHANGED <<agentUrl, standalone, answered>>

ConnNext ==
  \/ OpenWorkspace \/ OpenSimulator \/ OpenOther \/ EditDraft \/ OnConnect
  \/ ProbeSucceeds \/ ProbeFails \/ EditConnection \/ CancelEdit \/ OnDisconnect \/ Reload
  \/ \E u \in Urls : GateAnswers(u)
ConnSpec == ConnInit /\ [][ConnNext]_connVars

\* The dot of the sidebar, on every page: two looks.
Indicator == IF agentStatus = "connected" THEN "connected" ELSE "disconnected"

-----------------------------------------------------------------------------
ConnTypeOK ==
  /\ agentUrl \in Urls \cup {NoUrl} /\ agentStatus \in {"idle", "testing", "connected", "error"}
  /\ agentError \in BOOLEAN /\ standalone \in BOOLEAN /\ editing \in BOOLEAN
  /\ page \in {"workspace", "simulator", "other"}
  /\ draft \in Urls \cup {NoUrl} /\ probe \in Urls \cup {NoUrl}
  /\ gate \in [Urls -> {"none", "pending", "ok", "error"}] /\ answered \subseteq Urls

\* "validates a URL BEFORE committing it": what is saved has once answered.
SavedWasProbed == agentUrl # NoUrl => agentUrl \in answered

\* The indicator says connected only of a saved agent, wherever late probes and
\* gate answers come from.
ConnectedIsSaved == Indicator = "connected" => agentUrl # NoUrl

\* Neither a stale probe nor an answer to the gate of the Simulator commits or shows
\* an agent that has not answered.
ConnectionIsProbed == SavedWasProbed /\ ConnectedIsSaved
=============================================================================
