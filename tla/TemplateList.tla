----------------------------- MODULE TemplateList -----------------------------
(***************************************************************************)
(* The saved templates, as the builder saves them and the workspace page   *)
(* lists, loads, imports and deletes them.                                 *)
(***************************************************************************)
EXTENDS Naturals, FiniteSets

CONSTANTS MaxTemplates,  \* bound: templates in the list
          MaxIds,        \* bound: ids given out
          NoRow

ASSUME TemplatesAssumption == MaxTemplates \in Nat /\ MaxIds \in Nat

VARIABLES
  templates, nextId,       \* rows, <<id, content>>; crypto.randomUUID
  reimported, loadedRow    \* history: an id was imported again; the row clicked, what was loaded

tplVars == <<templates, nextId, reimported, loadedRow>>

TplInit == templates = {} /\ nextId = 1 /\ reimported = FALSE /\ loadedRow = NoRow

\* The list is newest first; contents are numbered as they come.
TemplateIds == {r[1] : r \in templates}
First(rows) == CHOOSE r \in rows : \A q \in rows : q[2] <= r[2]

\* A row at the head of the list.
Put(id) ==
  /\ Cardinality(templates) < MaxTemplates /\ nextId <= MaxIds /\ nextId' = nextId + 1
  /\ templates' = templates \cup {<<id, nextId>>}

\* saveTemplate of the builder: a fresh id.
SaveTemplate == Put(nextId) /\ UNCHANGED <<reimported, loadedRow>>

\* A file keeps the id it has, which a row may have too; without one (0) it gets one.
ImportTemplate ==
  \E id \in 0 .. nextId - 1 :
    /\ Put(IF id = 0 THEN nextId ELSE id)
    /\ reimported' = (reimported \/ id \in TemplateIds) /\ UNCHANGED loadedRow

\* deleteTemplate takes every row of that id.
DeleteTemplate ==
  /\ \E id \in TemplateIds : templates' = {r \in templates : r[1] # id}
  /\ UNCHANGED <<nextId, reimported, loadedRow>>

\* loadTemplate finds the first row of that id.
LoadTemplateRow ==
  /\ \E r \in templates : loadedRow' = <<r[2], First({q \in templates : q[1] = r[1]})[2]>>
  /\ UNCHANGED <<templates, nextId, reimported>>

TplNext == SaveTemplate \/ ImportTemplate \/ DeleteTemplate \/ LoadTemplateRow
TplSpec == TplInit /\ [][TplNext]_tplVars

-----------------------------------------------------------------------------
\* A row's buttons act on that row, unless a template is imported over its own id.
LoadedIsTheRow == ~reimported /\ loadedRow # NoRow => loadedRow[1] = loadedRow[2]
=============================================================================
