----------------------------- MODULE HubSessions -----------------------------
(***************************************************************************)
(* The sessions of the Simulator page: the polled list, starts and stops,  *)
(* the hub connection with its reconnects, and the groups the page joins   *)
(* on it.  The agent, where sessions start and end, is the other end.      *)
(***************************************************************************)
EXTENDS Naturals, Sequences

CONSTANTS Sessions,     \* ids; every start has a fresh one (randomUUID)
          MaxDrops,     \* bound: losses of the hub connection
          MaxCalls,     \* bound: hub invocations, and broadcasts, on their way
          Nothing, Pending

ASSUME HubSessionsAssumption ==
  /\ MaxDrops \in Nat /\ MaxCalls \in Nat
  /\ Nothing # Pending /\ \A ss \in SUBSET Sessions : ss \notin {Nothing, Pending}

VARIABLES
  phase,      \* at the agent: each session is "new", "active" or "gone"
  group,      \* at the agent: the sessions whose group the connection is in
  calls,      \* hub invocations on their way to the agent
  changes,    \* OnSessionStarted/OnSessionStopped on their way to the page
  link,       \* hub.status
  drops,
  list,       \* sessionsQuery: is there data, did the last fetch succeed, the data
  fetch,      \* its request: Nothing, Pending, or the answer on its way
  joinDue,    \* the auto-join effect has to run
  starting,   \* startMut: Nothing, or the session and how far it got
  stopping,   \* stopMut: sessions and how far each got
  left,       \* history: sessions this page asked to stop
  acked       \* history: the phase an answered start or stop told the page

agentVars == <<phase, group>>
linkVars == <<calls, changes, link, drops>>
listVars == <<list, fetch>>
mutVars == <<starting, stopping>>
history == <<left, acked>>
hubVars == <<phase, group, calls, changes, link, drops, list, fetch, joinDue,
             starting, stopping, left, acked>>

Active == {s \in Sessions : phase[s] = "active"}

HubInit ==
  /\ phase \in [Sessions -> {"new", "active"}]
  /\ group = {} /\ calls = <<>> /\ changes = 0
  /\ link = "connecting" /\ drops = 0
  /\ list = [known |-> FALSE, ok |-> FALSE, active |-> {}] /\ fetch = Pending
  /\ joinDue = FALSE /\ starting = Nothing /\ stopping = {}
  /\ left = {} /\ acked = [s \in Sessions |-> "new"]

(***************************************************************************)
(* The hub connection.                                                     *)
(***************************************************************************)
\* start() or the automatic reconnect succeeds: the auto-join effect, which
\* depends on the status, has to run.
HubConnects ==
  /\ link = "connecting" /\ link' = "connected" /\ joinDue' = TRUE
  /\ UNCHANGED <<agentVars, calls, changes, drops, listVars, mutVars, history>>

\* start() fails ("error"), or the reconnect gives up (onclose, "disconnected").
HubGivesUp ==
  /\ link = "connecting" /\ drops < MaxDrops /\ drops' = drops + 1
  /\ link' \in {"error", "disconnected"} /\ joinDue' = TRUE
  /\ UNCHANGED <<agentVars, calls, changes, listVars, mutVars, history>>

\* Mutant of HubDrops: without onreconnecting the page does not notice.
HubDropsSilently ==
  /\ link = "connected" /\ drops < MaxDrops /\ drops' = drops + 1
  /\ calls' = <<>> /\ changes' = 0 /\ group' = {}
  /\ UNCHANGED <<phase, link, joinDue, listVars, mutVars, history>>

\* The connection is lost, with what it carried and the groups it was in;
\* onreconnecting tells the page.
HubDrops ==
  /\ link = "connected" /\ drops < MaxDrops /\ drops' = drops + 1
  /\ link' = "connecting" /\ joinDue' = TRUE
  /\ calls' = <<>> /\ changes' = 0 /\ group' = {}
  /\ UNCHANGED <<phase, listVars, mutVars, history>>

\* The badge's button.
Reconnect ==
  /\ link \in {"error", "disconnected"} /\ link' = "connecting" /\ joinDue' = TRUE
  /\ UNCHANGED <<agentVars, calls, changes, drops, listVars, mutVars, history>>

\* joinSession and leaveSession: nothing without a connection.
Invoked(op, ss) == IF link = "connected" /\ ss # {} THEN Append(calls, <<op, ss>>) ELSE calls

\* The auto-join effect: every active session of the list.
AutoJoin ==
  /\ joinDue /\ joinDue' = FALSE /\ Len(calls) < MaxCalls
  /\ calls' = Invoked("join", list.active)
  /\ UNCHANGED <<agentVars, changes, link, drops, listVars, mutVars, history>>

\* The agent serves a connection's invocations in order.
HubServes ==
  /\ calls # <<>> /\ calls' = Tail(calls)
  /\ LET op == Head(calls)[1]  ss == Head(calls)[2]
     IN  group' = IF op = "join" THEN group \cup ss ELSE group \ ss
  /\ UNCHANGED <<phase, changes, link, drops, listVars, joinDue, mutVars, history>>

Broadcast == IF link = "connected" /\ changes < MaxCalls THEN changes + 1 ELSE changes

(***************************************************************************)
(* The list.                                                               *)
(***************************************************************************)
\* invalidateQueries(["sessions"]): a request on its way is abandoned and sent
\* again, except the first of all, which is kept while there is no data.
Invalidate == fetch' = IF fetch # Nothing /\ ~list.known THEN fetch ELSE Pending

SessionsChanged ==
  /\ changes > 0 /\ changes' = changes - 1 /\ Invalidate
  /\ UNCHANGED <<agentVars, calls, link, drops, list, joinDue, mutVars, history>>

\* The 5 s refetch.
Poll ==
  /\ fetch = Nothing /\ fetch' = Pending
  /\ UNCHANGED <<agentVars, linkVars, list, joinDue, mutVars, history>>

ReadSessions ==
  /\ fetch = Pending /\ fetch' = Active
  /\ UNCHANGED <<agentVars, linkVars, list, joinDue, mutVars, history>>

\* The data keeps its identity, and the effect does not run, when the answer
\* equals it; the records' counters may differ when the set does not.
LandSessions ==
  /\ fetch \notin {Nothing, Pending} /\ fetch' = Nothing
  /\ list' = [known |-> TRUE, ok |-> TRUE, active |-> fetch]
  /\ joinDue' \in IF list.known /\ list.active = fetch THEN {joinDue, TRUE} ELSE {TRUE}
  /\ UNCHANGED <<agentVars, linkVars, mutVars, history>>

FailSessions ==
  /\ fetch # Nothing /\ fetch' = Nothing /\ list' = [list EXCEPT !.ok = FALSE]
  /\ UNCHANGED <<agentVars, linkVars, joinDue, mutVars, history>>

(***************************************************************************)
(* The page's mutations.                                                   *)
(***************************************************************************)
\* The form, whose button is disabled while a start is pending: a fresh id.
SubmitSession ==
  /\ starting = Nothing
  /\ \E s \in Sessions : phase[s] = "new" /\ starting' = <<s, "asked">>
  /\ UNCHANGED <<agentVars, linkVars, listVars, joinDue, stopping, history>>

AgentStarts ==
  /\ starting # Nothing /\ starting[2] = "asked"
  /\ LET s == starting[1]
     IN  \/ /\ starting' = <<s, "done">> /\ phase' = [phase EXCEPT ![s] = "active"]
            /\ changes' = Broadcast
         \/ starting' = <<s, "failed">> /\ UNCHANGED <<phase, changes>>
  /\ UNCHANGED <<group, calls, link, drops, listVars, joinDue, stopping, history>>

\* What an answer tells the page: onSuccess invalidates the list, a failure does not.
Answered(s, outcome, ph) ==
  IF outcome = "done"
  THEN Invalidate /\ acked' = IF list.known THEN [acked EXCEPT ![s] = ph] ELSE acked
  ELSE UNCHANGED <<fetch, acked>>

StartAnswered ==
  /\ starting # Nothing /\ starting[2] # "asked" /\ starting' = Nothing
  /\ Answered(starting[1], starting[2], "active")
  /\ UNCHANGED <<agentVars, linkVars, list, joinDue, stopping, left>>

\* The button of a listed session's card; the group is left before the DELETE.
StopSession(s) ==
  /\ s \in list.active /\ Len(calls) < MaxCalls /\ \A p \in stopping : p[1] # s
  /\ stopping' = stopping \cup {<<s, "asked">>}
  /\ calls' = Invoked("leave", {s}) /\ left' = left \cup {s}
  /\ UNCHANGED <<agentVars, changes, link, drops, listVars, joinDue, starting, acked>>

AgentStops(p) ==
  /\ p[2] = "asked"
  /\ \/ /\ phase[p[1]] = "active" /\ phase' = [phase EXCEPT ![p[1]] = "gone"]
        /\ stopping' = (stopping \ {p}) \cup {<<p[1], "done">>} /\ changes' = Broadcast
     \/ /\ stopping' = (stopping \ {p}) \cup {<<p[1], "failed">>}
        /\ UNCHANGED <<phase, changes>>
  /\ UNCHANGED <<group, calls, link, drops, listVars, joinDue, starting, history>>

StopAnswered(p) ==
  /\ p[2] # "asked" /\ stopping' = stopping \ {p} /\ Answered(p[1], p[2], "gone")
  /\ UNCHANGED <<agentVars, linkVars, list, joinDue, starting, left>>

\* Another browser stops it.
EndsElsewhere ==
  /\ \E s \in Active : phase' = [phase EXCEPT ![s] = "gone"]
  /\ changes' = Broadcast
  /\ UNCHANGED <<group, calls, link, drops, listVars, joinDue, mutVars, history>>

HubNext ==
  \/ HubConnects \/ HubGivesUp \/ HubDrops \/ Reconnect \/ AutoJoin \/ HubServes
  \/ SessionsChanged \/ Poll \/ ReadSessions \/ LandSessions \/ FailSessions
  \/ SubmitSession \/ AgentStarts \/ StartAnswered \/ EndsElsewhere
  \/ \E s \in Sessions : StopSession(s)
  \/ \E p \in stopping : AgentStops(p) \/ StopAnswered(p)
HubSpec == HubInit /\ [][HubNext]_hubVars

-----------------------------------------------------------------------------
HubTypeOK ==
  /\ phase \in [Sessions -> {"new", "active", "gone"}] /\ group \subseteq Sessions
  /\ calls \in Seq({"join", "leave"} \X SUBSET Sessions) /\ changes \in 0 .. MaxCalls
  /\ link \in {"connecting", "connected", "error", "disconnected"} /\ drops \in 0 .. MaxDrops
  /\ list \in [known : BOOLEAN, ok : BOOLEAN, active : SUBSET Sessions]
  /\ fetch \in {Nothing, Pending} \cup SUBSET Sessions /\ joinDue \in BOOLEAN
  /\ starting \in {Nothing} \cup (Sessions \X {"asked", "done", "failed"})
  /\ stopping \subseteq Sessions \X {"asked", "done", "failed"}
  /\ left \subseteq Sessions
  /\ acked \in [Sessions -> {"new", "active", "gone"}]

\* Whatever connections are lost and made again, and whatever sessions come and
\* go: once its invocations are served, the page is in the group of every session
\* it lists as active, except those it asked to stop itself.
ListedAreJoined ==
  link = "connected" /\ ~joinDue /\ calls = <<>> => list.active \subseteq group \cup left

\* A list at rest is not older than what an answered start or stop told the page:
\* a started session is not missing from it, a stopped one is not offered.
SettledListIsFresh ==
  fetch = Nothing /\ list.ok =>
    \A s \in Sessions :
      /\ acked[s] = "active" /\ s \notin list.active => phase[s] = "gone"
      /\ acked[s] = "gone" => s \notin list.active

\* The page follows its sessions: those it lists it is joined to, and a list at rest
\* is no older than the answers the page has had.
SessionsAreFollowed == ListedAreJoined /\ SettledListIsFresh
=============================================================================
