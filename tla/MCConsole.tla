------------------------------- MODULE MCConsole -------------------------------
(***************************************************************************)
(* Finite instances of the parts of the console that the agent pushes to   *)
(* or answers in several steps, and of the store of schemas behind one of  *)
(* its pages.  They share no state, so one is used in a behaviour.         *)
(***************************************************************************)
EXTENDS HubSessions, LiveLog, AgentConnection, EmvConfigRow, SchemaStore

CONSTANTS c1, x1, x2, n1, n2

VARIABLE part   \* the page that is used; the others stay as they start

\* The sessions of the hub are alike, and so are the uploads; nothing chooses among them.
Symmetry == Permutations(Sessions) \cup Permutations(Uploads)

\* One namespace at two paths, one path for two namespaces.
MCRequests == {<<x1, n1>>, <<x2, n1>>, <<x1, n2>>}
MCShipped == x1 :> n1

Init ==
  /\ part \in {"hub", "log", "connection", "row", "schemas"}
  /\ HubInit /\ (part # "hub" => phase = [s \in Sessions |-> "new"])
  /\ LogInit
  /\ ConnInit /\ (part # "connection" => agentUrl = NoUrl /\ standalone)
  /\ RowInit /\ (part # "row" => agentEmv = c1)
  /\ StoreInit /\ (part # "schemas" => request = [u \in Uploads |-> <<x1, n1>>])

OthersStay ==
  /\ UNCHANGED part
  /\ IF part = "hub" THEN TRUE ELSE UNCHANGED hubVars
  /\ IF part = "log" THEN TRUE ELSE UNCHANGED logVars
  /\ IF part = "connection" THEN TRUE ELSE UNCHANGED connVars
  /\ IF part = "row" THEN TRUE ELSE UNCHANGED rowVars
  /\ IF part = "schemas" THEN TRUE ELSE UNCHANGED storeVars

Next ==
  \/ part = "hub" /\ HubNext /\ OthersStay
  \/ part = "log" /\ LogNext /\ OthersStay
  \/ part = "connection" /\ ConnNext /\ OthersStay
  \/ part = "row" /\ RowNext /\ OthersStay
  \/ part = "schemas" /\ SerialNext /\ OthersStay

vars == <<part, hubVars, logVars, connVars, rowVars, storeVars>>
Spec == Init /\ [][Next]_vars

-----------------------------------------------------------------------------
\* Every variable of the five parts keeps to its type: no request, answer or list
\* ends in a variable it is not of.
ConsoleTypeOK ==
  HubTypeOK /\ LogTypeOK /\ ConnTypeOK /\ RowTypeOK /\ StoreTypeOK
=============================================================================
