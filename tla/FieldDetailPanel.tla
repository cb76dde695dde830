---------------------------- MODULE FieldDetailPanel ----------------------------
(***************************************************************************)
(* The detail panel of the reference page: two tabs that fetch on first    *)
(* use and keep what they fetched for the field shown.                     *)
(***************************************************************************)
EXTENDS Naturals, FiniteSets

CONSTANTS XPaths,     \* versions of one family share their xpaths
          PanelTypes, NoPanel

ASSUME PanelAssumption == NoPanel \notin PanelTypes \X XPaths

VARIABLES
  panelField,   \* NoPanel (unmounted), or <<messageType, xpath>>
  detailTab,    \* "iso", "xml", "usedIn"
  usedIn, usedInAsked,      \* the field an answer is of; the one being asked,
  example, exampleAsked,    \* which is also the loading flag
  swapCalm      \* history: no field was swapped over an open request

panelVars == <<panelField, detailTab, usedIn, usedInAsked, example, exampleAsked, swapCalm>>

PanelFields == PanelTypes \X XPaths

PanelInit ==
  /\ panelField = NoPanel /\ detailTab = "iso" /\ usedIn = NoPanel /\ usedInAsked = NoPanel
  /\ example = NoPanel /\ exampleAsked = NoPanel /\ swapCalm = TRUE

\* The two lazy effects, on the state that a render leaves: a tab without data
\* and without a request asks, after a failure too.
LazyFetch(u, e, ua, ea) ==
  /\ usedIn' = u /\ example' = e
  /\ usedInAsked' = IF detailTab' = "usedIn" /\ {u, ua} = {NoPanel} THEN panelField' ELSE ua
  /\ exampleAsked' = IF detailTab' = "xml" /\ {e, ea} = {NoPanel} THEN panelField' ELSE ea

OpenPanel ==
  /\ panelField = NoPanel /\ panelField' \in PanelFields
  /\ detailTab' = "iso" /\ usedIn' = NoPanel /\ example' = NoPanel
  /\ usedInAsked' = NoPanel /\ exampleAsked' = NoPanel /\ swapCalm' = TRUE

\* Another field of the tree: what was fetched is dropped, not what is asked.
SwapField ==
  /\ panelField # NoPanel /\ panelField' \in PanelFields \ {panelField}
  /\ swapCalm' = (swapCalm /\ {usedInAsked, exampleAsked} = {NoPanel})
  /\ UNCHANGED detailTab
  /\ LazyFetch(NoPanel, NoPanel, usedInAsked, exampleAsked)

\* Answers that come later go nowhere.
ClosePanelTab ==
  /\ panelField # NoPanel /\ panelField' = NoPanel /\ detailTab' = "iso"
  /\ usedIn' = NoPanel /\ example' = NoPanel /\ swapCalm' = TRUE
  /\ usedInAsked' = NoPanel /\ exampleAsked' = NoPanel

SetTab ==
  /\ panelField # NoPanel /\ detailTab' \in {"iso", "xml", "usedIn"} \ {detailTab}
  /\ UNCHANGED <<panelField, swapCalm>>
  /\ LazyFetch(usedIn, example, usedInAsked, exampleAsked)

\* A failure stores nothing: with the tab open it is asked again at once.
UsedInAnswers ==
  /\ usedInAsked # NoPanel /\ UNCHANGED <<panelField, detailTab, swapCalm>>
  /\ \E u \in {usedInAsked, usedIn} : LazyFetch(u, example, NoPanel, exampleAsked)

ExampleAnswers ==
  /\ exampleAsked # NoPanel /\ UNCHANGED <<panelField, detailTab, swapCalm>>
  /\ \E e \in {exampleAsked, example} : LazyFetch(usedIn, e, usedInAsked, NoPanel)

PanelNext == OpenPanel \/ SwapField \/ ClosePanelTab \/ SetTab \/ UsedInAnswers \/ ExampleAnswers
PanelSpec == PanelInit /\ [][PanelNext]_panelVars

\* What the two tabs render beside the header: nothing while their request runs.
XmlShown == IF detailTab = "xml" /\ exampleAsked = NoPanel THEN example ELSE NoPanel
UsedInShown == IF detailTab = "usedIn" /\ usedInAsked = NoPanel THEN usedIn ELSE NoPanel

-----------------------------------------------------------------------------
PanelFlagsOK == swapCalm \in BOOLEAN

PanelTypeOK ==
  /\ {panelField, usedIn, usedInAsked, example, exampleAsked} \subseteq PanelFields \cup {NoPanel}
  /\ detailTab \in {"iso", "xml", "usedIn"} /\ PanelFlagsOK

\* "Reset every cached fetch when the user clicks a different field": with no
\* swap over an open request, what a tab shows is of the field in the header.
CalmPanelIsOfItsField == swapCalm => {XmlShown, UsedInShown} \subseteq {panelField, NoPanel}
=============================================================================
