----------------------------- MODULE Console_proofs -----------------------------
(* Theorems about the parts of the console the agent pushes to or answers   *)
(* in several steps: the sessions of the hub, the live log, the connection  *)
(* to an agent and a row's EMV configuration, each for every value of its   *)
(* constants; and the types of all that MCConsole composes.                 *)
EXTENDS MCConsole, SchemaStore_proofs, SequenceTheorems

(***************************************************************************)
(* HubSessions: the page is in the groups of the sessions it lists, and    *)
(* its list at rest is no older than its answers, for any number of        *)
(* sessions, losses of the connection and invocations on their way.        *)
(***************************************************************************)
Invocations == {"join", "leave"} \X SUBSET Sessions
Tasks == Sessions \X {"asked", "done", "failed"}

HubTypes ==
  /\ phase \in [Sessions -> {"new", "active", "gone"}] /\ calls \in Seq(Invocations)
  /\ list \in [known : BOOLEAN, ok : BOOLEAN, active : SUBSET Sessions]
  /\ fetch \in {Nothing, Pending} \cup SUBSET Sessions
  /\ starting \in {Nothing} \cup Tasks /\ stopping \subseteq Tasks
  /\ acked \in [Sessions -> {"new", "active", "gone"}]

\* Invocations are served in order: a session whose join is on its way is as good as
\* joined, for a leave is only ever sent of a session the page has left for good.
JoinInv ==
  /\ \A i \in 1 .. Len(calls) : calls[i][1] = "leave" => calls[i][2] \subseteq left
  /\ link = "connected" /\ ~joinDue =>
       \A s \in list.active \ left :
         \/ s \in group
         \/ \E i \in 1 .. Len(calls) : calls[i][1] = "join" /\ s \in calls[i][2]

\* A set of sessions that contradicts no answer the page has had.
Fresh(ss) == \A s \in Sessions :
               /\ acked[s] = "active" /\ s \notin ss => phase[s] = "gone"
               /\ acked[s] = "gone" => s \notin ss

\* An answer on its way is as fresh as the list it will become, because an answered
\* start or stop sends for another.
FreshInv ==
  /\ fetch = Nothing /\ list.ok => Fresh(list.active)
  /\ fetch \notin {Nothing, Pending} => Fresh(fetch)
  /\ starting # Nothing =>
       /\ starting[2] = "asked" => phase[starting[1]] = "new"
       /\ starting[2] = "done" => phase[starting[1]] \in {"active", "gone"}
  /\ \A p \in stopping : p[2] = "done" => phase[p[1]] = "gone"
  /\ \A s \in Sessions : (acked[s] = "active" => phase[s] \in {"active", "gone"})
                         /\ (acked[s] = "gone" => phase[s] = "gone")

HubInv == HubTypes /\ JoinInv /\ FreshInv

-----------------------------------------------------------------------------
\* An invocation is appended behind the others, or nothing is.
LEMMA InvokedIsLast ==
  ASSUME HubTypes, NEW op \in {"join", "leave"}, NEW ss \in SUBSET Sessions, calls' = Invoked(op, ss)
  PROVE  /\ calls' \in Seq(Invocations)
         /\ \A i \in 1 .. Len(calls) : i \in 1 .. Len(calls') /\ calls'[i] = calls[i]
         /\ \A i \in 1 .. Len(calls') : i \in 1 .. Len(calls) \/ calls'[i] = <<op, ss>>
         /\ link = "connected" /\ ss # {} =>
              Len(calls') \in 1 .. Len(calls') /\ calls'[Len(calls')] = <<op, ss>>
  <1>1. calls \in Seq(Invocations) /\ <<op, ss>> \in Invocations BY DEF HubTypes, Invocations
  <1>2. CASE link = "connected" /\ ss # {}
    <2>1. calls' = Append(calls, <<op, ss>>) BY <1>2 DEF Invoked
    <2> QED BY <1>1, <2>1
  <1>3. CASE ~(link = "connected" /\ ss # {})
    <2>1. calls' = calls BY <1>3 DEF Invoked
    <2> QED BY <1>1, <1>3, <2>1
  <1> QED BY <1>2, <1>3

\* Serving the first invocation leaves the others in order.
LEMMA ServedIsFirst ==
  ASSUME HubTypes, calls # <<>>, calls' = Tail(calls)
  PROVE  /\ calls' \in Seq(Invocations) /\ 1 \in 1 .. Len(calls) /\ Head(calls) = calls[1]
         /\ \A i \in 1 .. Len(calls') : i + 1 \in 1 .. Len(calls) /\ calls'[i] = calls[i + 1]
         /\ \A i \in 1 .. Len(calls) : i # 1 => i - 1 \in 1 .. Len(calls') /\ calls'[i - 1] = calls[i]
  <1>1. calls \in Seq(Invocations) BY DEF HubTypes
  <1> QED BY <1>1

\* The agent's answer is a set of sessions.
LEMMA ActiveType == Active \in SUBSET Sessions
  BY DEF Active

\* Nothing is listed or answered at first.
LEMMA HubInitially == HubInit => HubInv
  <1> SUFFICES ASSUME HubInit PROVE HubInv OBVIOUS
  <1>1. HubTypes BY DEF HubInit, HubTypes, Invocations, Tasks
  <1>2. JoinInv BY DEF HubInit, JoinInv
  <1>3. FreshInv BY DEF HubInit, FreshInv, Fresh
  <1> QED BY <1>1, <1>2, <1>3 DEF HubInv

\* The types are kept.
LEMMA TypesStep ==
  ASSUME HubTypes, [HubNext]_hubVars
  PROVE  HubTypes'
  <1> USE DEF HubTypes
  <1>1. CASE HubConnects BY <1>1 DEF HubConnects, agentVars, listVars, mutVars, history
  <1>2. CASE HubGivesUp BY <1>2 DEF HubGivesUp, agentVars, listVars, mutVars, history
  <1>3. CASE HubDrops BY <1>3 DEF HubDrops, listVars, mutVars, history
  <1>4. CASE Reconnect BY <1>4 DEF Reconnect, agentVars, listVars, mutVars, history
  <1>5. CASE AutoJoin
    <2>1. calls' \in Seq(Invocations) BY <1>5, InvokedIsLast DEF AutoJoin
    <2> QED BY <1>5, <2>1 DEF AutoJoin, agentVars, listVars, mutVars, history
  <1>6. CASE HubServes
    <2>1. calls' \in Seq(Invocations) BY <1>6, ServedIsFirst DEF HubServes
    <2> QED BY <1>6, <2>1 DEF HubServes, listVars, mutVars, history
  <1>7. CASE SessionsChanged BY <1>7 DEF SessionsChanged, Invalidate, agentVars, mutVars, history
  <1>8. CASE Poll BY <1>8 DEF Poll, agentVars, linkVars, mutVars, history
  <1>9. CASE ReadSessions
    BY <1>9, ActiveType DEF ReadSessions, agentVars, linkVars, mutVars, history
  <1>10. CASE LandSessions
    <2>1. list' = [known |-> TRUE, ok |-> TRUE, active |-> fetch] /\ fetch \in SUBSET Sessions
      BY <1>10 DEF LandSessions
    <2>2. list' \in [known : BOOLEAN, ok : BOOLEAN, active : SUBSET Sessions] BY <2>1
    <2> QED BY <1>10, <2>2 DEF LandSessions, agentVars, linkVars, mutVars, history
  <1>11. CASE FailSessions BY <1>11 DEF FailSessions, agentVars, linkVars, mutVars, history
  <1>12. CASE SubmitSession
    BY <1>12 DEF SubmitSession, Tasks, agentVars, linkVars, listVars, history
  <1>13. CASE AgentStarts BY <1>13 DEF AgentStarts, Tasks, listVars, history
  <1>14. CASE StartAnswered
    BY <1>14 DEF StartAnswered, Answered, Invalidate, Tasks, agentVars, linkVars
  <1>15. CASE EndsElsewhere BY <1>15 DEF EndsElsewhere, listVars, mutVars, history
  <1>16. ASSUME NEW s \in Sessions, StopSession(s) PROVE HubTypes'
    <2>1. {s} \in SUBSET Sessions /\ calls' = Invoked("leave", {s}) BY <1>16 DEF StopSession
    <2>2. calls' \in Seq(Invocations) BY <2>1, InvokedIsLast
    <2> QED BY <1>16, <2>2 DEF StopSession, Tasks, agentVars, listVars
  <1>17. ASSUME NEW p \in stopping, AgentStops(p) PROVE HubTypes'
    BY <1>17 DEF AgentStops, Tasks, listVars, history
  <1>18. ASSUME NEW p \in stopping, StopAnswered(p) PROVE HubTypes'
    BY <1>18 DEF StopAnswered, Answered, Invalidate, Tasks, agentVars, linkVars
  <1>19. CASE UNCHANGED hubVars BY <1>19 DEF hubVars
  <1> QED BY <1>1, <1>2, <1>3, <1>4, <1>5, <1>6, <1>7, <1>8, <1>9, <1>10, <1>11, <1>12, <1>13,
             <1>14, <1>15, <1>16, <1>17, <1>18, <1>19 DEF HubNext


\* What is listed stays joined, about to be, or left for good.
LEMMA JoinStep ==
  ASSUME HubTypes, JoinInv, [HubNext]_hubVars
  PROVE  JoinInv'
  <1>1. CASE HubConnects \/ HubGivesUp \/ Reconnect
    <2>1. calls' = calls /\ left' = left /\ (joinDue' = TRUE)
      BY <1>1 DEF HubConnects, HubGivesUp, Reconnect, history
    <2> QED BY <2>1 DEF JoinInv
  <1>2. CASE HubDrops
    <2>1. calls' = <<>> /\ link' = "connecting" BY <1>2 DEF HubDrops
    <2> QED BY <2>1 DEF JoinInv
  <1>3. CASE AutoJoin
    <2>1. calls' = Invoked("join", list.active) /\ UNCHANGED <<group, link, list, left>>
      BY <1>3 DEF AutoJoin, agentVars, listVars, history
    <2>2. list.active \in SUBSET Sessions BY DEF HubTypes
    <2>3. /\ \A i \in 1 .. Len(calls) : i \in 1 .. Len(calls') /\ calls'[i] = calls[i]
          /\ \A i \in 1 .. Len(calls') : i \in 1 .. Len(calls) \/ calls'[i] = <<"join", list.active>>
          /\ link = "connected" /\ list.active # {} =>
               Len(calls') \in 1 .. Len(calls') /\ calls'[Len(calls')] = <<"join", list.active>>
      BY <2>1, <2>2, InvokedIsLast
    <2>4. \A i \in 1 .. Len(calls') : calls'[i][1] = "leave" => calls'[i][2] \subseteq left'
      BY <2>1, <2>3 DEF JoinInv
    <2>5. ASSUME link' = "connected", NEW s \in list'.active
          PROVE  \E i \in 1 .. Len(calls') : calls'[i][1] = "join" /\ s \in calls'[i][2]
      BY <2>1, <2>3, <2>5
    <2> QED BY <2>4, <2>5 DEF JoinInv
  <1>4. CASE HubServes
    <2>1. /\ calls # <<>> /\ calls' = Tail(calls) /\ UNCHANGED <<link, list, joinDue, left>>
          /\ group' = IF Head(calls)[1] = "join" THEN group \cup Head(calls)[2]
                                                 ELSE group \ Head(calls)[2]
      BY <1>4 DEF HubServes, listVars, history
    <2>2. /\ 1 \in 1 .. Len(calls) /\ Head(calls) = calls[1]
          /\ \A i \in 1 .. Len(calls') : i + 1 \in 1 .. Len(calls) /\ calls'[i] = calls[i + 1]
          /\ \A i \in 1 .. Len(calls) : i # 1 => i - 1 \in 1 .. Len(calls') /\ calls'[i - 1] = calls[i]
      BY <2>1, ServedIsFirst
    <2>3. calls[1] \in Invocations BY <2>2 DEF HubTypes
    <2>4. \A i \in 1 .. Len(calls') : calls'[i][1] = "leave" => calls'[i][2] \subseteq left'
      BY <2>1, <2>2 DEF JoinInv
    <2>5. ASSUME link = "connected", ~joinDue, NEW s \in list.active \ left
          PROVE  \/ s \in group'
                 \/ \E i \in 1 .. Len(calls') : calls'[i][1] = "join" /\ s \in calls'[i][2]
      <3>1. CASE s \in group
        <4>1. Head(calls)[1] # "join" => s \notin Head(calls)[2]
          BY <2>2, <2>3 DEF JoinInv, Invocations
        <4> QED BY <2>1, <3>1, <4>1
      <3>2. CASE s \notin group
        <4>1. PICK i \in 1 .. Len(calls) : calls[i][1] = "join" /\ s \in calls[i][2]
          BY <2>5, <3>2 DEF JoinInv
        <4>2. CASE i = 1 BY <2>1, <2>2, <4>1, <4>2
        <4>3. CASE i # 1 BY <2>2, <4>1, <4>3
        <4> QED BY <4>2, <4>3
      <3> QED BY <3>1, <3>2
    <2> QED BY <2>1, <2>4, <2>5 DEF JoinInv
  <1>5. CASE LandSessions
    <2>1. /\ list'.active = fetch /\ UNCHANGED <<calls, left, link, group>>
          /\ joinDue' \in IF list.known /\ list.active = fetch THEN {joinDue, TRUE} ELSE {TRUE}
      BY <1>5 DEF LandSessions, linkVars, agentVars, history
    <2>2. CASE list.active = fetch /\ joinDue' = joinDue BY <2>1, <2>2 DEF JoinInv
    <2>3. CASE joinDue' = TRUE BY <2>1, <2>3 DEF JoinInv
    <2>4. joinDue' = TRUE \/ (list.active = fetch /\ joinDue' = joinDue) BY <2>1, Zenon
    <2> QED BY <2>2, <2>3, <2>4
  <1>6. ASSUME NEW s \in Sessions, StopSession(s) PROVE JoinInv'
    <2>1. /\ calls' = Invoked("leave", {s}) /\ left' = left \cup {s}
          /\ UNCHANGED <<group, link, list, joinDue>>
      BY <1>6 DEF StopSession, agentVars, listVars
    <2>2. {s} \in SUBSET Sessions OBVIOUS
    <2>3. /\ \A i \in 1 .. Len(calls) : i \in 1 .. Len(calls') /\ calls'[i] = calls[i]
          /\ \A i \in 1 .. Len(calls') : i \in 1 .. Len(calls) \/ calls'[i] = <<"leave", {s}>>
      BY <2>1, <2>2, InvokedIsLast
    <2>4. \A i \in 1 .. Len(calls') : calls'[i][1] = "leave" => calls'[i][2] \subseteq left'
      <3> SUFFICES ASSUME NEW i \in 1 .. Len(calls'), calls'[i][1] = "leave"
                   PROVE  calls'[i][2] \subseteq left'
        OBVIOUS
      <3>1. CASE i \in 1 .. Len(calls)
        <4>1. calls'[i] = calls[i] BY <2>3, <3>1
        <4>2. calls[i][2] \subseteq left BY <3>1, <4>1 DEF JoinInv
        <4> QED BY <2>1, <4>1, <4>2
      <3>2. CASE calls'[i] = <<"leave", {s}>>
        <4>1. calls'[i][2] = {s} BY <3>2
        <4>2. {s} \subseteq left' BY <2>1
        <4> QED BY <4>1, <4>2
      <3> QED BY <2>3, <3>1, <3>2
    <2>5. ASSUME link = "connected", ~joinDue, NEW t \in list.active \ left'
          PROVE  \/ t \in group
                 \/ \E i \in 1 .. Len(calls') : calls'[i][1] = "join" /\ t \in calls'[i][2]
      <3>1. \/ t \in group
            \/ \E i \in 1 .. Len(calls) : calls[i][1] = "join" /\ t \in calls[i][2]
        BY <2>1, <2>5 DEF JoinInv
      <3> QED BY <2>3, <3>1
    <2> QED BY <2>1, <2>4, <2>5 DEF JoinInv
  <1>7. CASE FailSessions
    <2>1. list'.active = list.active /\ UNCHANGED <<calls, left, link, group, joinDue>>
      BY <1>7 DEF FailSessions, HubTypes, linkVars, agentVars, history
    <2> QED BY <2>1 DEF JoinInv
  <1>8. CASE UNCHANGED <<calls, left, link, group, list, joinDue>>
    BY <1>8 DEF JoinInv
  <1>9. CASE SessionsChanged \/ Poll \/ ReadSessions \/ SubmitSession \/ AgentStarts
             \/ StartAnswered \/ EndsElsewhere
    BY <1>8, <1>9 DEF SessionsChanged, Poll, ReadSessions, SubmitSession, AgentStarts,
       StartAnswered, EndsElsewhere, agentVars, linkVars, listVars, mutVars, history
  <1>10. ASSUME NEW p \in stopping, AgentStops(p) \/ StopAnswered(p) PROVE JoinInv'
    BY <1>8, <1>10 DEF AgentStops, StopAnswered, agentVars, linkVars, listVars, history
  <1>11. CASE UNCHANGED hubVars BY <1>8, <1>11 DEF hubVars
  <1> QED BY <1>1, <1>2, <1>3, <1>4, <1>5, <1>6, <1>7, <1>9, <1>10, <1>11 DEF HubNext

-----------------------------------------------------------------------------
\* An answered call sends for the list again, if there is one.
LEMMA AnsweredAsks ==
  ASSUME NEW s \in Sessions, NEW outcome, NEW ph, Answered(s, outcome, ph)
  PROVE  \/ fetch' = Pending /\ list.known /\ outcome = "done" /\ acked' = [acked EXCEPT ![s] = ph]
         \/ fetch' \in {fetch, Pending} /\ acked' = acked
  BY DEF Answered, Invalidate

\* What no answer, start or stop of a session touches stays fresh.
LEMMA FreshStays ==
  ASSUME FreshInv, UNCHANGED <<phase, acked, starting, stopping>>,
         list'.ok /\ fetch' = Nothing => list.ok /\ fetch = Nothing /\ list'.active = list.active,
         fetch' \in {fetch, Nothing, Pending}
  PROVE  FreshInv'
  BY DEF FreshInv, Fresh

\* The list at rest, or on its way, stays as fresh as the answers.
LEMMA FreshStep ==
  ASSUME HubTypes, FreshInv, [HubNext]_hubVars
  PROVE  FreshInv'
  <1>1. CASE UNCHANGED <<phase, acked, starting, stopping, list, fetch>>
    BY <1>1, FreshStays
  <1>2. CASE HubConnects \/ HubGivesUp \/ HubDrops \/ Reconnect \/ AutoJoin \/ HubServes
    BY <1>1, <1>2 DEF HubConnects, HubGivesUp, HubDrops, Reconnect, AutoJoin, HubServes,
       agentVars, listVars, mutVars, history
  <1>3. CASE SessionsChanged
    BY <1>3, FreshStays, HubSessionsAssumption
       DEF SessionsChanged, Invalidate, agentVars, mutVars, history
  <1>4. CASE Poll
    BY <1>4, FreshStays, HubSessionsAssumption DEF Poll, agentVars, mutVars, history
  <1>5. CASE ReadSessions
    <2>1. fetch' = Active /\ UNCHANGED <<phase, acked, starting, stopping, list>>
      BY <1>5 DEF ReadSessions, agentVars, mutVars, history
    <2>2. Active \notin {Nothing, Pending} BY ActiveType, HubSessionsAssumption
    <2>3. \A s \in Sessions : s \in Active <=> phase[s] = "active" BY DEF Active
    <2>4. \A s \in Sessions : /\ acked[s] = "active" => phase[s] \in {"active", "gone"}
                              /\ acked[s] = "gone" => phase[s] = "gone"
      BY DEF FreshInv
    <2>5. Fresh(fetch)'
      BY <2>1, <2>3, <2>4 DEF Fresh
    <2> QED BY <2>1, <2>2, <2>5 DEF FreshInv
  <1>6. CASE LandSessions
    <2>1. /\ fetch' = Nothing /\ list'.active = fetch /\ fetch \notin {Nothing, Pending}
          /\ UNCHANGED <<phase, acked, starting, stopping>>
      BY <1>6 DEF LandSessions, agentVars, mutVars, history
    <2>2. Fresh(fetch) BY <2>1 DEF FreshInv
    <2>3. Fresh(list.active)' BY <2>1, <2>2 DEF Fresh
    <2> QED BY <2>1, <2>3 DEF FreshInv
  <1>7. CASE FailSessions
    <2>1. list'.ok = FALSE /\ fetch' = Nothing /\ UNCHANGED <<phase, acked, starting, stopping>>
      BY <1>7 DEF FailSessions, HubTypes, agentVars, mutVars, history
    <2> QED BY <2>1, FreshStays
  <1>8. CASE SubmitSession
    <2>1. /\ \E s \in Sessions : phase[s] = "new" /\ starting' = <<s, "asked">>
          /\ UNCHANGED <<phase, acked, stopping, list, fetch>>
      BY <1>8 DEF SubmitSession, agentVars, listVars, history
    <2> QED BY <2>1 DEF FreshInv, Fresh
  <1>9. CASE AgentStarts
    <2>1. starting \in Tasks /\ starting[1] \in Sessions BY <1>9 DEF AgentStarts, HubTypes, Tasks
    <2>2. phase[starting[1]] = "new" BY <1>9 DEF AgentStarts, FreshInv
    <2>3. UNCHANGED <<acked, stopping, list, fetch>> BY <1>9 DEF AgentStarts, listVars, history
    <2>4. CASE starting' = <<starting[1], "done">>
               /\ phase' = [phase EXCEPT ![starting[1]] = "active"]
      <3>1. /\ phase'[starting[1]] = "active"
            /\ \A s \in Sessions : s # starting[1] => phase'[s] = phase[s]
        BY <2>1, <2>4 DEF HubTypes
      <3>2. \A p \in stopping : p[1] \in Sessions BY DEF HubTypes, Tasks
      <3>3. \A s \in Sessions : phase[s] = "gone" => phase'[s] = "gone" BY <2>2, <3>1
      <3>4. Fresh(list.active) => Fresh(list.active)' BY <2>3, <3>3 DEF Fresh
      <3>5. Fresh(fetch) => Fresh(fetch)' BY <2>3, <3>3 DEF Fresh
      <3> QED BY <2>2, <2>3, <2>4, <3>1, <3>2, <3>3, <3>4, <3>5 DEF FreshInv
    <2>5. CASE starting' = <<starting[1], "failed">> /\ phase' = phase
      BY <2>3, <2>5 DEF FreshInv, Fresh
    <2> QED BY <1>9, <2>4, <2>5 DEF AgentStarts
  <1>10. CASE StartAnswered
    <2>1. starting \in Tasks /\ starting[1] \in Sessions BY <1>10 DEF StartAnswered, HubTypes, Tasks
    <2>2. starting' = Nothing /\ Answered(starting[1], starting[2], "active")
          /\ UNCHANGED <<phase, list, stopping>>
      BY <1>10 DEF StartAnswered, agentVars
    <2>3. CASE fetch' \in {fetch, Pending} /\ acked' = acked
      BY <2>2, <2>3, HubSessionsAssumption DEF FreshInv, Fresh
    <2>4. CASE fetch' = Pending /\ starting[2] = "done"
               /\ acked' = [acked EXCEPT ![starting[1]] = "active"]
      <3>1. phase[starting[1]] \in {"active", "gone"} BY <1>10, <2>4 DEF StartAnswered, FreshInv
      <3>2. \A s \in Sessions : /\ acked'[s] = "active" => phase'[s] \in {"active", "gone"}
                                /\ acked'[s] = "gone" => phase'[s] = "gone"
        BY <2>1, <2>2, <2>4, <3>1 DEF HubTypes, FreshInv
      <3> QED BY <2>2, <2>4, <3>2, HubSessionsAssumption DEF FreshInv
    <2> QED BY <2>1, <2>2, <2>3, <2>4, AnsweredAsks
  <1>11. CASE UNCHANGED <<acked, starting, list, fetch>>
              /\ (\A s \in Sessions : phase'[s] = phase[s] \/ (phase[s] = "active" /\ phase'[s] = "gone"))
              /\ (\A p \in stopping' : p \in stopping \/ (p[2] = "done" => phase'[p[1]] = "gone"))
    <2>1. \A s \in Sessions : phase[s] = "gone" => phase'[s] = "gone" BY <1>11
    <2>2. Fresh(list.active) => Fresh(list.active)' BY <1>11, <2>1 DEF Fresh
    <2>3. Fresh(fetch) => Fresh(fetch)' BY <1>11, <2>1 DEF Fresh
    <2>4. starting # Nothing => starting[1] \in Sessions BY DEF HubTypes, Tasks
    <2>5. \A p \in stopping : p[1] \in Sessions BY DEF HubTypes, Tasks
    <2>6. \A s \in Sessions : /\ acked[s] = "active" => phase'[s] \in {"active", "gone"}
                              /\ acked[s] = "gone" => phase'[s] = "gone"
      BY <1>11 DEF FreshInv
    <2>7. \A p \in stopping' : p[2] = "done" => phase'[p[1]] = "gone"
      BY <1>11, <2>1, <2>5 DEF FreshInv
    <2>8. starting # Nothing =>
            /\ starting[2] = "asked" => phase'[starting[1]] = "new"
            /\ starting[2] = "done" => phase'[starting[1]] \in {"active", "gone"}
      BY <1>11, <2>4 DEF FreshInv
    <2> QED BY <1>11, <2>2, <2>3, <2>6, <2>7, <2>8 DEF FreshInv
  <1>12. CASE EndsElsewhere
    <2>1. UNCHANGED <<acked, starting, list, fetch, stopping>>
          /\ (\A s \in Sessions : phase'[s] = phase[s] \/ (phase[s] = "active" /\ phase'[s] = "gone"))
      BY <1>12 DEF EndsElsewhere, Active, HubTypes, listVars, mutVars, history
    <2> QED BY <1>11, <2>1
  <1>13. ASSUME NEW s \in Sessions, StopSession(s) PROVE FreshInv'
    <2>1. UNCHANGED <<phase, acked, starting, list, fetch>>
          /\ stopping' = stopping \cup {<<s, "asked">>}
      BY <1>13 DEF StopSession, agentVars, listVars
    <2> QED BY <1>11, <2>1
  <1>14. ASSUME NEW p \in stopping, AgentStops(p) PROVE FreshInv'
    <2>1. UNCHANGED <<acked, starting, list, fetch>> /\ p[1] \in Sessions
      BY <1>14 DEF AgentStops, HubTypes, Tasks, listVars, history
    <2>2. CASE /\ phase[p[1]] = "active" /\ phase' = [phase EXCEPT ![p[1]] = "gone"]
               /\ stopping' = (stopping \ {p}) \cup {<<p[1], "done">>}
      <3>1. phase'[p[1]] = "gone" /\ (\A s \in Sessions : s # p[1] => phase'[s] = phase[s])
        BY <2>1, <2>2 DEF HubTypes
      <3> QED BY <1>11, <2>1, <2>2, <3>1
    <2>3. CASE phase' = phase /\ stopping' = (stopping \ {p}) \cup {<<p[1], "failed">>}
      BY <1>11, <2>1, <2>3
    <2> QED BY <1>14, <2>2, <2>3 DEF AgentStops
  <1>15. ASSUME NEW p \in stopping, StopAnswered(p) PROVE FreshInv'
    <2>1. p[1] \in Sessions BY DEF HubTypes, Tasks
    <2>2. stopping' = stopping \ {p} /\ Answered(p[1], p[2], "gone")
          /\ UNCHANGED <<phase, list, starting>>
      BY <1>15 DEF StopAnswered, agentVars
    <2>3. CASE fetch' \in {fetch, Pending} /\ acked' = acked
      BY <2>2, <2>3, HubSessionsAssumption DEF FreshInv, Fresh
    <2>4. CASE fetch' = Pending /\ p[2] = "done" /\ acked' = [acked EXCEPT ![p[1]] = "gone"]
      <3>1. phase[p[1]] = "gone" BY <2>4 DEF FreshInv
      <3>2. \A s \in Sessions : /\ acked'[s] = "active" => phase'[s] \in {"active", "gone"}
                                /\ acked'[s] = "gone" => phase'[s] = "gone"
        BY <2>1, <2>2, <2>4, <3>1 DEF HubTypes, FreshInv
      <3> QED BY <2>2, <2>4, <3>2, HubSessionsAssumption DEF FreshInv
    <2> QED BY <2>1, <2>2, <2>3, <2>4, AnsweredAsks
  <1>16. CASE UNCHANGED hubVars BY <1>1, <1>16 DEF hubVars
  <1> QED BY <1>2, <1>3, <1>4, <1>5, <1>6, <1>7, <1>8, <1>9, <1>10, <1>12, <1>13, <1>14, <1>15,
             <1>16 DEF HubNext

\* Once invocations are served, the invariant says what is checked.
LEMMA HubInvFollows == HubInv => SessionsAreFollowed
  <1> SUFFICES ASSUME HubInv PROVE SessionsAreFollowed OBVIOUS
  <1>1. ListedAreJoined
    <2> SUFFICES ASSUME link = "connected", ~joinDue, calls = <<>>
                 PROVE  list.active \subseteq group \cup left
      BY DEF ListedAreJoined
    <2>1. Len(calls) = 0 OBVIOUS
    <2> QED BY <2>1 DEF HubInv, JoinInv
  <1>2. SettledListIsFresh BY DEF HubInv, FreshInv, Fresh, SettledListIsFresh
  <1> QED BY <1>1, <1>2 DEF SessionsAreFollowed

\* Whatever connections are lost and made again, whatever starts, stops, polls and
\* broadcasts cross: served and at rest, the page is in the group of every session it
\* lists and has not left, and lists what its own starts and stops were answered.
THEOREM SessionsFollowed == HubSpec => []SessionsAreFollowed
  <1>1. HubInv /\ [HubNext]_hubVars => HubInv'
    BY TypesStep, JoinStep, FreshStep DEF HubInv
  <1> QED BY HubInitially, <1>1, HubInvFollows, PTL DEF HubSpec

(***************************************************************************)
(* AgentConnection: what is saved or shown as connected has answered, for  *)
(* every set of URLs and every order of acts and answers.                  *)
(***************************************************************************)
\* Where the gate has an answer, that URL gave it.
GateIsTrue == \A u \in Urls : gate[u] = "ok" => u \in answered

ConnInv == ConnTypeOK /\ ConnectionIsProbed /\ GateIsTrue

\* The URL a reload finds saved had answered.
LEMMA ConnInitially == ConnInit => ConnInv
  BY AgentConnectionAssumption
     DEF ConnInit, ConnInv, ConnTypeOK, ConnectionIsProbed, SavedWasProbed, ConnectedIsSaved,
         Indicator, GateIsTrue

\* The form opens with a URL.
LEMMA SeedType == ConnTypeOK => SeedUrl(agentUrl) \in Urls /\ SeedUrl(NoUrl) \in Urls
  BY AgentConnectionAssumption DEF SeedUrl, ConnTypeOK

\* Neither acts nor late answers save or show what did not answer.
LEMMA ConnStep ==
  ASSUME ConnInv, [ConnNext]_connVars
  PROVE  ConnInv'
  <1> USE DEF ConnectionIsProbed, SavedWasProbed, ConnectedIsSaved, Indicator, GateIsTrue
  <1>1. CASE OpenWorkspace
    BY <1>1, SeedType DEF ConnInv, ConnTypeOK, OpenWorkspace, agentStore
  <1>2. CASE OpenSimulator
    <2>1. CASE agentUrl = NoUrl
      BY <1>2, <2>1 DEF ConnInv, ConnTypeOK, OpenSimulator
    <2>2. CASE agentUrl # NoUrl
      <3>1. agentUrl \in Urls BY <2>2 DEF ConnInv, ConnTypeOK
      <3>2. /\ gate' = AskGate(agentUrl) /\ Mirrored(agentUrl, gate'[agentUrl])
            /\ page' = "simulator"
            /\ UNCHANGED <<agentUrl, standalone, draft, editing, probe, answered>>
        BY <1>2, <2>2 DEF OpenSimulator
      <3>3. gate' \in [Urls -> {"none", "pending", "ok", "error"}] /\ GateIsTrue'
        BY <3>1, <3>2 DEF AskGate, ConnInv, ConnTypeOK
      <3>4. agentStatus' \in {"idle", "testing", "connected", "error"}
        BY <3>2 DEF Mirrored, ConnInv, ConnTypeOK
      <3>5. agentError' \in BOOLEAN BY <3>2, Zenon DEF Mirrored, ConnInv, ConnTypeOK
      <3> QED BY <2>2, <3>2, <3>3, <3>4, <3>5 DEF ConnInv, ConnTypeOK
    <2> QED BY <2>1, <2>2
  <1>3. CASE OpenOther
    BY <1>3 DEF ConnInv, ConnTypeOK, OpenOther, agentStore
  <1>4. CASE EditDraft
    BY <1>4 DEF ConnInv, ConnTypeOK, EditDraft, agentStore
  <1>5. CASE OnConnect
    BY <1>5 DEF ConnInv, ConnTypeOK, OnConnect
  <1>6. CASE ProbeSucceeds
    BY <1>6 DEF ConnInv, ConnTypeOK, ProbeSucceeds, AskGate
  <1>7. CASE ProbeFails
    BY <1>7 DEF ConnInv, ConnTypeOK, ProbeFails
  <1>8. CASE EditConnection
    BY <1>8 DEF ConnInv, ConnTypeOK, EditConnection, agentStore
  <1>9. CASE CancelEdit
    BY <1>9 DEF ConnInv, ConnTypeOK, CancelEdit
  <1>10. CASE OnDisconnect
    BY <1>10, SeedType DEF ConnInv, ConnTypeOK, OnDisconnect
  <1>11. CASE Reload
    BY <1>11 DEF ConnInv, ConnTypeOK, Reload
  <1>12. ASSUME NEW u \in Urls, GateAnswers(u) PROVE ConnInv'
    <2>1. PICK g \in {"ok", "error"} :
            /\ gate' = [gate EXCEPT ![u] = g]
            /\ answered' = IF g = "ok" THEN answered \cup {u} ELSE answered
            /\ IF page = "simulator" /\ u = agentUrl THEN Mirrored(u, g)
               ELSE UNCHANGED <<agentStatus, agentError>>
      BY <1>12 DEF GateAnswers
    <2>2. UNCHANGED <<agentUrl, standalone, page, draft, editing, probe>>
      BY <1>12 DEF GateAnswers
    <2>3. agentError' \in BOOLEAN BY <2>1, Zenon DEF Mirrored, ConnInv, ConnTypeOK
    <2>4. agentStatus' = agentStatus \/ (agentStatus' = "error" \/ u = agentUrl)
      BY <2>1 DEF Mirrored
    <2>5. agentStatus' \in {"idle", "testing", "connected", "error"}
      BY <2>1 DEF Mirrored, ConnInv, ConnTypeOK
    <2>6. u # NoUrl BY AgentConnectionAssumption
    <2>7. answered' \subseteq Urls /\ answered \subseteq answered'
          /\ gate' \in [Urls -> {"none", "pending", "ok", "error"}]
      BY <2>1 DEF ConnInv, ConnTypeOK
    <2>8. GateIsTrue' BY <2>1, <2>7 DEF ConnInv, ConnTypeOK
    <2> QED BY <2>2, <2>3, <2>4, <2>5, <2>6, <2>7, <2>8 DEF ConnInv, ConnTypeOK
  <1>13. CASE UNCHANGED connVars
    BY <1>13 DEF ConnInv, ConnTypeOK, connVars
  <1> QED BY <1>1, <1>2, <1>3, <1>4, <1>5, <1>6, <1>7, <1>8, <1>9, <1>10, <1>11, <1>12, <1>13
          DEF ConnNext

\* Whatever probes and gate answers come late or from a URL that was left, no agent is
\* saved that never answered, and none is shown as connected that is not saved.
THEOREM ProbedFirst == ConnSpec => []ConnectionIsProbed
  <1>1. ConnInv /\ [ConnNext]_connVars => ConnInv' BY ConnStep
  <1>2. ConnInv => ConnectionIsProbed BY DEF ConnInv
  <1> QED BY ConnInitially, <1>1, <1>2, PTL DEF ConnSpec

(***************************************************************************)
(* LiveLog: no entry the page owes the user is missing from it, for every  *)
(* limit of the page and of the agent's log.                               *)
(***************************************************************************)
\* Nothing is owed before the initial log has landed, and what it lands fits the page.
LogInv ==
  /\ LogTypeOK /\ OwedEntriesShown
  /\ initial # LogLanded => owed = {}
  /\ initial \notin {LogAsked, LogLanded} => Len(initial) <= LogLimit

\* The head of a sequence and its tail are all there is in it.
LEMMA HeadAndTail ==
  ASSUME NEW S, NEW s \in Seq(S), s # <<>>
  PROVE  /\ Head(s) \in S /\ Tail(s) \in Seq(S)
         /\ ToSet(s) = {Head(s)} \cup ToSet(Tail(s))
  <1>1. Head(s) = s[1] /\ Len(s) \in Nat \ {0} /\ DOMAIN s = 1 .. Len(s) OBVIOUS
  <1>2. Tail(s) \in Seq(S) /\ Len(Tail(s)) = Len(s) - 1
        /\ \A i \in 1 .. Len(s) - 1 : Tail(s)[i] = s[i + 1]
    OBVIOUS
  <1>3. DOMAIN Tail(s) = 1 .. Len(s) - 1 BY <1>2
  <1>4. ASSUME NEW x \in ToSet(s) PROVE x \in {Head(s)} \cup ToSet(Tail(s))
    <2>1. PICK i \in 1 .. Len(s) : x = s[i] BY <1>1, <1>4 DEF ToSet
    <2>2. CASE i = 1 BY <1>1, <2>1, <2>2
    <2>3. CASE i # 1
      <3>1. i - 1 \in 1 .. Len(s) - 1 /\ Tail(s)[i - 1] = s[i] BY <1>1, <1>2, <2>1, <2>3
      <3> QED BY <1>3, <2>1, <3>1 DEF ToSet
    <2> QED BY <2>2, <2>3
  <1>5. ASSUME NEW x \in ToSet(Tail(s)) PROVE x \in ToSet(s)
    <2>1. PICK i \in 1 .. Len(s) - 1 : x = Tail(s)[i] BY <1>3, <1>5 DEF ToSet
    <2>2. i + 1 \in 1 .. Len(s) /\ x = s[i + 1] BY <1>1, <1>2, <2>1
    <2> QED BY <1>1, <2>2 DEF ToSet
  <1>6. Head(s) \in ToSet(s) /\ Head(s) \in S BY <1>1 DEF ToSet
  <1> QED BY <1>2, <1>4, <1>5, <1>6

\* What follows an entry appended to a sequence.
LEMMA Appended ==
  ASSUME NEW S, NEW s \in Seq(S), NEW x
  PROVE  ToSet(Append(s, x)) = ToSet(s) \cup {x}
  <1>1. DOMAIN s = 1 .. Len(s) /\ DOMAIN Append(s, x) = 1 .. Len(s) + 1 /\ Len(s) \in Nat
        /\ \A i \in 1 .. Len(s) : Append(s, x)[i] = s[i]
        /\ Append(s, x)[Len(s) + 1] = x
    OBVIOUS
  <1> QED BY <1>1 DEF ToSet

\* A longer sequence of entries.
LEMMA MoreEntries ==
  ASSUME NEW n \in Nat, NEW s \in Seq(1 .. n)
  PROVE  s \in Seq(1 .. n + 1)
  OBVIOUS

\* A new entry at the head takes the place of the oldest once the page is full.
LEMMA Prepended ==
  ASSUME NEW S, shown \in Seq(S), Len(shown) <= LogCap, NEW n \in S
  PROVE  /\ Prepend(n) \in Seq(S) /\ Len(Prepend(n)) <= LogCap
         /\ n \in ToSet(Prepend(n))
         /\ Len(shown) = LogCap => Len(Prepend(n)) = LogCap
         /\ Len(shown) # LogCap => ToSet(shown) \subseteq ToSet(Prepend(n))
  <1> DEFINE l == <<n>> \o shown
             c == IF Len(l) < LogCap THEN Len(l) ELSE LogCap
  <1> USE LiveLogAssumption
  <1>1. l \in Seq(S) /\ Len(l) = Len(shown) + 1 /\ l[1] = n /\ Len(shown) \in Nat
        /\ \A i \in 1 .. Len(shown) : l[i + 1] = shown[i]
    OBVIOUS
  <1>2. c \in 1 .. Len(l) /\ c <= LogCap BY <1>1
  <1>3. Prepend(n) = SubSeq(l, 1, c) BY DEF Prepend
  <1> HIDE DEF l, c
  <1>4. Prepend(n) \in Seq(S) /\ Len(Prepend(n)) = c /\ \A i \in 1 .. c : Prepend(n)[i] = l[i]
    BY <1>1, <1>2, <1>3
  <1>5. DOMAIN Prepend(n) = 1 .. c BY <1>4
  <1>6. n \in ToSet(Prepend(n)) BY <1>1, <1>2, <1>4, <1>5 DEF ToSet
  <1>7. Len(shown) = LogCap => c = LogCap BY <1>1 DEF c
  <1>8. ASSUME Len(shown) # LogCap, NEW x \in ToSet(shown) PROVE x \in ToSet(Prepend(n))
    <2>1. PICK i \in 1 .. Len(shown) : x = shown[i] BY <1>8 DEF ToSet
    <2>2. c = Len(shown) + 1 BY <1>1, <1>8 DEF c
    <2>3. i + 1 \in 1 .. c /\ Prepend(n)[i + 1] = x BY <1>1, <1>4, <2>1, <2>2
    <2> QED BY <1>5, <2>3 DEF ToSet
  <1> QED BY <1>2, <1>4, <1>6, <1>7, <1>8

\* The agent answers with its newest entries.
LEMMA AnswerFits ==
  ASSUME NEW S, NEW s \in Seq(S)
  PROVE  LET l == Reverse(s)
             a == SubSeq(l, 1, IF Len(l) < LogLimit THEN Len(l) ELSE LogLimit)
         IN  a \in Seq(S) /\ Len(a) <= LogLimit
  <1> DEFINE l == Reverse(s)
             c == IF Len(l) < LogLimit THEN Len(l) ELSE LogLimit
  <1>1. l \in Seq(S) BY DEF Reverse
  <1>2. Len(l) \in Nat /\ c \in 0 .. Len(l) /\ c <= LogLimit BY <1>1, LiveLogAssumption
  <1> HIDE DEF l, c
  <1>3. SubSeq(l, 1, c) \in Seq(S) /\ Len(SubSeq(l, 1, c)) = c BY <1>1, <1>2
  <1> QED BY <1>2, <1>3 DEF l, c

\* An emptied log.
LEMMA NothingLogged == \A S : <<>> \in Seq(S) /\ Len(<<>>) = 0
  OBVIOUS

\* The invariant holds of the empty log.
LEMMA LogInitially == LogInit => LogInv
  BY LiveLogAssumption DEF LogInit, LogInv, LogTypeOK, OwedEntriesShown

\* Every step of the log keeps the invariant.
LEMMA LogStep == LogInv /\ [LogNext]_logVars => LogInv'
  <1> SUFFICES ASSUME LogInv, [LogNext]_logVars PROVE LogInv' OBVIOUS
  <1> USE LiveLogAssumption DEF LogInv, LogTypeOK, OwedEntriesShown
  <1>1. CASE AgentLogs
    <2>1. entries' = entries + 1 /\ entries' \in 0 .. MaxEntries /\ entries' \in 1 .. entries'
      BY <1>1 DEF AgentLogs
    <2>2. agentLog' \in Seq(1 .. entries') BY <1>1, <2>1, MoreEntries DEF AgentLogs
    <2>3. /\ sent \in Seq(1 .. entries') /\ shown \in Seq(1 .. entries')
          /\ initial \in {LogAsked, LogLanded} \cup Seq(1 .. entries')
      BY <2>1, MoreEntries
    <2>4. owed \subseteq 1 .. entries' BY <2>1
    <2>5. UNCHANGED <<initial, shown, clearMut>> BY <1>1 DEF AgentLogs
    <2>6. CASE sent' = Append(sent, entries') /\ owed' = Settled(entries')
      <3>1. sent' \in Seq(1 .. entries') BY <2>1, <2>3, <2>6
      <3>2. ToSet(sent') = ToSet(sent) \cup {entries'} BY <2>6, Appended
      <3>3. owed' \subseteq owed \cup {entries'} /\ (initial # LogLanded => owed' = owed)
        BY <2>6 DEF Settled
      <3>4. owed' \subseteq 1 .. entries' BY <2>1, <2>4, <3>3
      <3>5. OwedEntriesShown' BY <2>5, <3>2, <3>3
      <3> HIDE DEF OwedEntriesShown
      <3> QED BY <2>1, <2>2, <2>3, <2>5, <3>1, <3>3, <3>4, <3>5
    <2>7. CASE UNCHANGED <<sent, owed>>
      BY <2>1, <2>2, <2>3, <2>4, <2>5, <2>7
    <2> QED BY <1>1, <2>6, <2>7 DEF AgentLogs
  <1>2. CASE HubBrings
    <2>1. Head(sent) \in 1 .. entries /\ Tail(sent) \in Seq(1 .. entries)
          /\ ToSet(sent) = {Head(sent)} \cup ToSet(Tail(sent))
      BY <1>2, HeadAndTail DEF HubBrings
    <2>2. shown' = Prepend(Head(sent)) /\ sent' = Tail(sent)
          /\ UNCHANGED <<entries, agentLog, initial, clearMut, owed>>
      BY <1>2 DEF HubBrings
    <2> QED BY <2>1, <2>2, Prepended
  <1>3. CASE HubLoses
    <2>1. /\ sent' = <<>> /\ owed' = owed \ ToSet(sent)
          /\ UNCHANGED <<entries, agentLog, initial, shown, clearMut>>
      BY <1>3 DEF HubLoses
    <2>2. sent' \in Seq(1 .. entries) BY <2>1
    <2>3. OwedEntriesShown' /\ owed' \subseteq owed BY <2>1
    <2> HIDE DEF OwedEntriesShown
    <2> QED BY <2>1, <2>2, <2>3
  <1>4. CASE PanelAppends
    <2>1. entries' = entries + 1 /\ entries' \in 0 .. MaxEntries /\ entries' \in 1 .. entries'
      BY <1>4 DEF PanelAppends
    <2>2. /\ sent \in Seq(1 .. entries') /\ shown \in Seq(1 .. entries')
          /\ initial \in {LogAsked, LogLanded} \cup Seq(1 .. entries')
          /\ agentLog \in Seq(1 .. entries')
      BY <2>1, MoreEntries
    <2>3. shown' = Prepend(entries') /\ UNCHANGED <<agentLog, sent, initial, clearMut>>
      BY <1>4 DEF PanelAppends
    <2>4. /\ shown' \in Seq(1 .. entries') /\ Len(shown') <= LogCap /\ entries' \in ToSet(shown')
          /\ Len(shown) = LogCap => Len(shown') = LogCap
          /\ Len(shown) # LogCap => ToSet(shown) \subseteq ToSet(shown')
      BY <2>1, <2>2, <2>3, Prepended
    <2>5. owed' \subseteq owed \cup {entries'} /\ (initial # LogLanded => owed' = owed)
      BY <1>4 DEF PanelAppends, Settled
    <2>6. owed' \subseteq 1 .. entries' BY <2>1, <2>5
    <2> QED BY <2>1, <2>2, <2>3, <2>4, <2>5, <2>6
  <1>5. CASE ReadLog
    <2>1. initial' \in Seq(1 .. entries) /\ Len(initial') <= LogLimit
      BY <1>5, AnswerFits DEF ReadLog
    <2>2. owed = {} /\ UNCHANGED <<entries, agentLog, sent, shown, clearMut, owed>>
      BY <1>5 DEF ReadLog
    <2> QED BY <2>1, <2>2
  <1>6. CASE FailLog
    <2>1. owed = {} /\ initial' = LogAsked
          /\ UNCHANGED <<entries, agentLog, sent, shown, clearMut, owed>>
      BY <1>6 DEF FailLog
    <2> QED BY <2>1
  <1>7. CASE LandLog
    <2>1. /\ owed = {} /\ initial' = LogLanded /\ shown' = initial
          /\ initial \in Seq(1 .. entries) /\ Len(initial) <= LogLimit
          /\ UNCHANGED <<entries, agentLog, sent, clearMut, owed>>
      BY <1>7 DEF LandLog
    <2>2. Len(shown') <= LogCap BY <2>1
    <2> QED BY <2>1, <2>2
  <1>8. CASE ClickClear \/ AgentClears \/ ClearFails
    <2>1. /\ clearMut' \in {"idle", "asked", "cleared"} /\ (agentLog' = agentLog \/ agentLog' = <<>>)
          /\ UNCHANGED <<entries, sent, initial, shown, owed>>
      BY <1>8 DEF ClickClear, AgentClears, ClearFails
    <2>2. agentLog' \in Seq(1 .. entries) BY <2>1, NothingLogged
    <2> HIDE DEF OwedEntriesShown
    <2>3. OwedEntriesShown' BY <2>1 DEF OwedEntriesShown
    <2> QED BY <2>1, <2>2, <2>3
  <1>9. CASE ClearAnswered
    <2>1. /\ clearMut' = "idle" /\ shown' = <<>> /\ owed' = owed \cap ToSet(sent)
          /\ UNCHANGED <<entries, agentLog, sent, initial>>
      BY <1>9 DEF ClearAnswered
    <2>2. shown' \in Seq(1 .. entries) /\ Len(shown') = 0 BY <2>1, NothingLogged
    <2>3. OwedEntriesShown' BY <2>1
    <2>4. owed' \subseteq owed BY <2>1
    <2>5. Len(shown') <= LogCap BY <2>2
    <2>6. clearMut' = "idle" /\ UNCHANGED <<entries, agentLog, sent, initial>> BY <2>1
    <2> HIDE DEF OwedEntriesShown
    <2> QED BY <2>2, <2>3, <2>4, <2>5, <2>6
  <1>10. CASE UNCHANGED logVars
    BY <1>10 DEF logVars
  <1> QED BY <1>1, <1>2, <1>3, <1>4, <1>5, <1>6, <1>7, <1>8, <1>9, <1>10 DEF LogNext

\* Whatever entries are pushed while the initial log is on its way, lists or clears cross them:
\* every entry the page owes the user, made since the log it shows was read, is on the page
\* or was pushed out by newer ones.
THEOREM OwedShown == LogSpec => []OwedEntriesShown
  <1>1. LogInv => OwedEntriesShown BY DEF LogInv
  <1> QED BY LogInitially, LogStep, <1>1, PTL DEF LogSpec

(***************************************************************************)
(* EmvConfigRow: badge and dialog are of the agent's configuration.        *)
(***************************************************************************)
\* Before the first list there is no row, and nobody but others to change anything.
Unlisted ==
  sessionEmv = NoConfig =>
    /\ localEmvConfig = NoConfig /\ ~emvModalOpen /\ saving = EmvIdle
    /\ trusted /\ pollEmv \in EmvConfigs => pollEmv = agentEmv

\* A row has a mirror of its own, which a trusted save leaves behind and catches up with.
Mirroring ==
  sessionEmv # NoConfig =>
    /\ localEmvConfig # NoConfig
    /\ trusted => agentEmv = IF saving # EmvIdle /\ saving[1] = "stored" THEN saving[2]
                             ELSE localEmvConfig

RowInv ==
  /\ RowTypeOK /\ Unlisted /\ Mirroring /\ DraftIsTyped
  /\ saving # EmvIdle => emvModalOpen
  /\ emvModalOpen => cfg # NoConfig

\* The invariant holds of the row before it is shown.
LEMMA RowInitially == RowInit => RowInv
  <1> SUFFICES ASSUME RowInit PROVE RowInv OBVIOUS
  <1> USE DEF RowInit
  <1>1. RowTypeOK
    <2>1. emvModalOpen \in BOOLEAN /\ saveError \in BOOLEAN /\ trusted \in BOOLEAN BY Zenon
    <2> QED BY <2>1, EmvRowAssumption DEF RowTypeOK
  <1>2. Unlisted BY EmvRowAssumption DEF Unlisted
  <1>3. Mirroring /\ DraftIsTyped BY DEF Mirroring, DraftIsTyped
  <1> QED BY <1>1, <1>2, <1>3 DEF RowInv

\* A mirror hides the list from badge and dialog.
LEMMA MirrorHides ==
  ASSUME NEW mirror, NEW listed, mirror # NoConfig PROVE EffectiveEmv(mirror, listed) = mirror
  BY DEF EffectiveEmv

\* Every step of the row keeps the invariant.
LEMMA RowStep == RowInv /\ [RowNext]_rowVars => RowInv'
  <1> SUFFICES ASSUME RowInv, [RowNext]_rowVars PROVE RowInv' OBVIOUS
  <1> USE EmvRowAssumption DEF RowInv, RowTypeOK, Unlisted, Mirroring, DraftIsTyped
  <1>1. CASE AskList BY <1>1 DEF AskList
  <1>2. CASE ServeList BY <1>2 DEF ServeList
  <1>3. CASE LandList
    <2>1. CASE sessionEmv = NoConfig
      BY <1>3, <2>1 DEF LandList
    <2>2. CASE sessionEmv # NoConfig
      <3>1. localEmvConfig' = localEmvConfig /\ localEmvConfig # NoConfig
        BY <1>3, <2>2 DEF LandList
      <3>2. cfg' = cfg BY <1>3, <3>1, MirrorHides DEF LandList
      <3> QED BY <1>3, <2>2, <3>1, <3>2 DEF LandList
    <2> QED BY <2>1, <2>2
  <1>4. CASE OpenEmvModal BY <1>4, MirrorHides DEF OpenEmvModal
  <1>5. CASE EditEmvConfig BY <1>5 DEF EditEmvConfig
  <1>6. CASE CloseEmvModal BY <1>6 DEF CloseEmvModal
  <1>7. CASE SaveEmvConfig 
    <2>1. saveError' \in BOOLEAN BY <1>7, Zenon DEF SaveEmvConfig
    <2>2. cfg \in EmvConfigs BY <1>7 DEF SaveEmvConfig
    <2> QED BY <1>7, <2>1, <2>2 DEF SaveEmvConfig
  <1>8. CASE UpdateEmvConfig BY <1>8 DEF UpdateEmvConfig
  <1>9. CASE EmvConfigSaved BY <1>9 DEF EmvConfigSaved
  <1>10. CASE EmvConfigFails BY <1>10 DEF EmvConfigFails
  <1>11. CASE ChangedElsewhere 
    <2>1. /\ emvSaves' \in 0 .. MaxEmvSaves /\ agentEmv' \in EmvConfigs /\ ~trusted'
          /\ UNCHANGED <<sessionEmv, pollEmv, localEmvConfig, emvModalOpen, cfg, saving,
                         saveError, typedCfg>>
      BY <1>11 DEF ChangedElsewhere
    <2>2. trusted' \in BOOLEAN BY <1>11, Zenon DEF ChangedElsewhere
    <2> QED BY <2>1, <2>2
  <1>12. CASE ReopenSimulator BY <1>12 DEF ReopenSimulator
  <1>13. CASE UNCHANGED rowVars BY <1>13 DEF rowVars
  <1> QED BY <1>1, <1>2, <1>3, <1>4, <1>5, <1>6, <1>7, <1>8, <1>9, <1>10, <1>11, <1>12, <1>13
          DEF RowNext

\* Whatever lists are on their way when a row saves, and whatever others save: while the row
\* alone has changed its session's configuration, its badge and its dialog are the agent's.
THEOREM RowMirrors == RowSpec => []RowIsAgents
  <1>1. RowInv => RowIsAgents
    BY MirrorHides DEF RowInv, RowIsAgents, BadgeIsAgents, Badge, Mirroring
  <1> QED BY RowInitially, RowStep, <1>1, PTL DEF RowSpec

(***************************************************************************)
(* The composition.                                                        *)
(***************************************************************************)
\* What HubTypes leaves out.
HubRest ==
  /\ group \subseteq Sessions /\ left \subseteq Sessions
  /\ changes \in 0 .. MaxCalls /\ drops \in 0 .. MaxDrops /\ joinDue \in BOOLEAN
  /\ link \in {"connecting", "connected", "error", "disconnected"}

\* Every step of the hub keeps the rest of its invariant.
LEMMA HubRestStep ==
  ASSUME HubTypes, HubRest, [HubNext]_hubVars
  PROVE  HubRest'
  <1>1. Broadcast \in 0 .. MaxCalls BY HubSessionsAssumption DEF Broadcast, HubRest
  <1> USE HubSessionsAssumption DEF HubRest
  <1>2. CASE HubConnects BY <1>2 DEF HubConnects, agentVars, history
  <1>3. CASE HubGivesUp BY <1>3 DEF HubGivesUp, agentVars, history
  <1>4. CASE HubDrops BY <1>4 DEF HubDrops, history
  <1>5. CASE Reconnect BY <1>5 DEF Reconnect, agentVars, history
  <1>6. CASE AutoJoin BY <1>6 DEF AutoJoin, agentVars, history
  <1>7. CASE HubServes
    <2>1. Head(calls)[2] \subseteq Sessions BY <1>7, ServedIsFirst DEF HubServes, HubTypes, Invocations
    <2>2. group' \subseteq group \cup Head(calls)[2] BY <1>7 DEF HubServes
    <2> QED BY <1>7, <2>1, <2>2 DEF HubServes, history
  <1>8. CASE SessionsChanged BY <1>8 DEF SessionsChanged, agentVars, history
  <1>9. CASE Poll \/ ReadSessions \/ FailSessions
    BY <1>9 DEF Poll, ReadSessions, FailSessions, agentVars, linkVars, history
  <1>10. CASE LandSessions
    <2>1. joinDue' \in {joinDue, TRUE} BY <1>10 DEF LandSessions
    <2> QED BY <1>10, <2>1 DEF LandSessions, agentVars, linkVars, history
  <1>11. CASE SubmitSession BY <1>11 DEF SubmitSession, agentVars, linkVars, history
  <1>12. CASE AgentStarts BY <1>1, <1>12 DEF AgentStarts, history
  <1>13. CASE StartAnswered BY <1>13 DEF StartAnswered, agentVars, linkVars
  <1>14. CASE EndsElsewhere BY <1>1, <1>14 DEF EndsElsewhere, history
  <1>15. ASSUME NEW s \in Sessions, StopSession(s) PROVE HubRest'
    BY <1>15 DEF StopSession, agentVars
  <1>16. ASSUME NEW p \in stopping, AgentStops(p) PROVE HubRest'
    BY <1>1, <1>16 DEF AgentStops, history
  <1>17. ASSUME NEW p \in stopping, StopAnswered(p) PROVE HubRest'
    BY <1>17 DEF StopAnswered, agentVars, linkVars
  <1>18. CASE UNCHANGED hubVars BY <1>18 DEF hubVars
  <1> QED BY <1>2, <1>3, <1>4, <1>5, <1>6, <1>7, <1>8, <1>9, <1>10, <1>11, <1>12, <1>13, <1>14,
             <1>15, <1>16, <1>17, <1>18 DEF HubNext

\* The invariants the types of the parts follow from.
ConsoleInv ==
  HubTypes /\ HubRest /\ LogInv /\ ConnInv /\ RowInv /\ TypeInv

\* The invariants give the types.
LEMMA ConsoleTyping == ConsoleInv => ConsoleTypeOK
  <1> SUFFICES ASSUME ConsoleInv PROVE ConsoleTypeOK OBVIOUS
  <1>1. HubTypeOK BY DEF ConsoleInv, HubTypes, HubRest, HubTypeOK, Invocations, Tasks
  <1>2. LogTypeOK /\ ConnTypeOK /\ RowTypeOK BY DEF ConsoleInv, LogInv, ConnInv, RowInv
  <1>3. StoreTypeOK BY TypesAreTyped DEF ConsoleInv
  <1> QED BY <1>1, <1>2, <1>3 DEF ConsoleTypeOK

\* The invariants hold of the console as it starts.
LEMMA ConsoleInitially == Init => ConsoleInv
  <1> SUFFICES ASSUME Init PROVE ConsoleInv OBVIOUS
  <1>1. HubInit /\ LogInit /\ ConnInit /\ RowInit /\ StoreInit BY DEF Init
  <1>2. HubTypes BY <1>1, HubInitially DEF HubInv
  <1>3. HubRest
    <2>1. group = {} /\ left = {} /\ changes = 0 /\ drops = 0 /\ joinDue = FALSE
          /\ link = "connecting"
      BY <1>1, Zenon DEF HubInit
    <2>2. MaxCalls \in Nat /\ MaxDrops \in Nat BY HubSessionsAssumption
    <2>3. changes \in 0 .. MaxCalls /\ drops \in 0 .. MaxDrops BY <2>1, <2>2
    <2>4. group \subseteq Sessions /\ left \subseteq Sessions /\ joinDue \in BOOLEAN
      BY <2>1, Zenon
    <2> QED BY <2>1, <2>3, <2>4, Zenon DEF HubRest
  <1> QED BY <1>1, <1>2, <1>3, LogInitially, ConnInitially, RowInitially, TypeInit DEF ConsoleInv

\* Each part takes a step of its own, or none.
LEMMA ConsoleParts ==
  [Next]_vars => /\ [HubNext]_hubVars /\ [LogNext]_logVars /\ [ConnNext]_connVars
                 /\ [RowNext]_rowVars /\ [StoreNext]_storeVars
  <1> SUFFICES ASSUME [Next]_vars
               PROVE  /\ [HubNext]_hubVars /\ [LogNext]_logVars /\ [ConnNext]_connVars
                      /\ [RowNext]_rowVars /\ [StoreNext]_storeVars
    OBVIOUS
  <1>1. SerialNext => StoreNext BY DEF SerialNext, StoreNext
  <1>2. CASE UNCHANGED vars BY <1>2 DEF vars
  <1>3. CASE part = "hub" /\ HubNext /\ OthersStay BY <1>3 DEF OthersStay
  <1>4. CASE part = "log" /\ LogNext /\ OthersStay BY <1>4 DEF OthersStay
  <1>5. CASE part = "connection" /\ ConnNext /\ OthersStay BY <1>5 DEF OthersStay
  <1>6. CASE part = "row" /\ RowNext /\ OthersStay BY <1>6 DEF OthersStay
  <1>7. CASE part = "schemas" /\ SerialNext /\ OthersStay BY <1>1, <1>7 DEF OthersStay
  <1> QED BY <1>2, <1>3, <1>4, <1>5, <1>6, <1>7 DEF Next

\* Whatever polls, pushes, answers, saves and uploads cross, no request, answer or list ends
\* in a variable it is not of, in any part of the console.
THEOREM ConsoleTyped == Spec => []ConsoleTypeOK
  <1>1. ConsoleInv /\ [Next]_vars => ConsoleInv'
    BY ConsoleParts, TypesStep, HubRestStep, LogStep, ConnStep, RowStep, TypeStep
       DEF ConsoleInv
  <1> QED BY ConsoleInitially, <1>1, ConsoleTyping, PTL DEF Spec
=============================================================================
