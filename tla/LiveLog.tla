------------------------------- MODULE LiveLog -------------------------------
(***************************************************************************)
(* The live log of the Simulator page: one initial request, entries the    *)
(* hub brings, entries the injector panel adds, Clear.  Which groups the   *)
(* page is in is HubSessions' matter: here each entry is sent to the page  *)
(* or not.                                                                 *)
(***************************************************************************)
EXTENDS Naturals, Sequences, SequencesExt

CONSTANTS MaxEntries,   \* bound: entries in a behaviour
          LogCap,       \* entries the page keeps (500)
          LogLimit,     \* entries the initial request asks for (100)
          LogAsked, LogLanded

ASSUME LiveLogAssumption ==
  MaxEntries \in Nat /\ LogCap \in Nat \ {0} /\ LogLimit \in 0 .. LogCap /\ LogAsked # LogLanded

VARIABLES
  entries,    \* entries made so far; an entry is its number
  agentLog,   \* the agent's log, oldest first
  sent,       \* entries on their way to the page through the hub
  initial,    \* initialLogQuery: LogAsked, LogLanded, or the answer on its way
  shown,      \* liveLog, newest first
  clearMut,   \* "idle", "asked", "cleared"
  owed        \* history: entries that have reached the page, or are about to

logVars == <<entries, agentLog, sent, initial, shown, clearMut, owed>>

LogInit ==
  /\ entries = 0 /\ agentLog = <<>> /\ sent = <<>>
  /\ initial = LogAsked /\ shown = <<>> /\ clearMut = "idle" /\ owed = {}

\* Mutant of Prepend: without the slice.
PrependAll(n) == <<n>> \o shown

\* [entry, ...l].slice(0, 500)
Prepend(n) == LET l == <<n>> \o shown
              IN  SubSeq(l, 1, IF Len(l) < LogCap THEN Len(l) ELSE LogCap)
Settled(n) == IF initial = LogLanded THEN owed \cup {n} ELSE owed

\* The agent logs an entry, and sends it to the page if it is in the group.
AgentLogs ==
  /\ entries < MaxEntries /\ entries' = entries + 1
  /\ agentLog' = Append(agentLog, entries')
  /\ \/ sent' = Append(sent, entries') /\ owed' = Settled(entries')
     \/ UNCHANGED <<sent, owed>>
  /\ UNCHANGED <<initial, shown, clearMut>>

\* onMessageReceived, onMessageSent.
HubBrings ==
  /\ sent # <<>> /\ sent' = Tail(sent) /\ shown' = Prepend(Head(sent))
  /\ UNCHANGED <<entries, agentLog, initial, clearMut, owed>>

\* The connection is lost, and what it carried.
HubLoses ==
  /\ sent # <<>> /\ sent' = <<>> /\ owed' = owed \ ToSet(sent)
  /\ UNCHANGED <<entries, agentLog, initial, shown, clearMut>>

\* The injector panel's own entry for an injection that failed.
PanelAppends ==
  /\ entries < MaxEntries /\ entries' = entries + 1
  /\ shown' = Prepend(entries') /\ owed' = Settled(entries')
  /\ UNCHANGED <<agentLog, sent, initial, clearMut>>

ReadLog ==
  /\ initial = LogAsked
  /\ LET l == Reverse(agentLog)
     IN  initial' = SubSeq(l, 1, IF Len(l) < LogLimit THEN Len(l) ELSE LogLimit)
  /\ UNCHANGED <<entries, agentLog, sent, shown, clearMut, owed>>

\* A request that fails is sent again: by retry, or on focus while there is no data.
FailLog ==
  /\ initial \notin {LogAsked, LogLanded} /\ initial' = LogAsked
  /\ UNCHANGED <<entries, agentLog, sent, shown, clearMut, owed>>

\* The effect on initialLogQuery.data: the answer replaces what the hub brought.
\* With staleTime Infinity nothing is asked again.
LandLog ==
  /\ initial \notin {LogAsked, LogLanded} /\ initial' = LogLanded /\ shown' = initial
  /\ UNCHANGED <<entries, agentLog, sent, clearMut, owed>>

ClickClear ==
  /\ clearMut = "idle" /\ clearMut' = "asked"
  /\ UNCHANGED <<entries, agentLog, sent, initial, shown, owed>>

AgentClears ==
  /\ clearMut = "asked" /\ clearMut' = "cleared" /\ agentLog' = <<>>
  /\ UNCHANGED <<entries, sent, initial, shown, owed>>

\* Mutant of ClearFails: the page's log is emptied all the same.
ClearFailsEmpty ==
  /\ clearMut = "asked" /\ clearMut' = "idle" /\ shown' = <<>>
  /\ UNCHANGED <<entries, agentLog, sent, initial, owed>>

\* The DELETE failed: the mutation ends without touching the page's log.
ClearFails ==
  /\ clearMut = "asked" /\ clearMut' = "idle"
  /\ UNCHANGED <<entries, agentLog, sent, initial, shown, owed>>

\* What arrived since the DELETE goes with the rest.
ClearAnswered ==
  /\ clearMut = "cleared" /\ clearMut' = "idle"
  /\ shown' = <<>> /\ owed' = owed \cap ToSet(sent)
  /\ UNCHANGED <<entries, agentLog, sent, initial>>

LogNext == AgentLogs \/ HubBrings \/ HubLoses \/ PanelAppends \/ ReadLog \/ FailLog
           \/ LandLog \/ ClickClear \/ AgentClears \/ ClearFails \/ ClearAnswered
LogSpec == LogInit /\ [][LogNext]_logVars

-----------------------------------------------------------------------------
LogTypeOK ==
  /\ entries \in 0 .. MaxEntries /\ clearMut \in {"idle", "asked", "cleared"}
  /\ agentLog \in Seq(1 .. entries) /\ sent \in Seq(1 .. entries)
  /\ initial \in {LogAsked, LogLanded} \cup Seq(1 .. entries)
  /\ shown \in Seq(1 .. entries) /\ Len(shown) <= LogCap
  /\ owed \subseteq 1 .. entries

\* An entry the hub sent, or the panel made, after the initial log landed is on
\* the page or on its way; it leaves by Clear, or when LogCap entries are newer
\* than it was when it came, and no failed Clear takes it away.
OwedEntriesShown ==
  \A n \in owed : n \in ToSet(shown) \cup ToSet(sent) \/ Len(shown) = LogCap
=============================================================================
