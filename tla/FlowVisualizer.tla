----------------------------- MODULE FlowVisualizer -----------------------------
(***************************************************************************)
(* The payment flow visualizer: a protocol tab, a flow, the steps the      *)
(* server generates for it, overrides that regenerate the flow, and the    *)
(* panel that parses the payload of the selected step.                     *)
(***************************************************************************)
EXTENDS Naturals, FiniteSets

CONSTANTS Protocols,     \* tabs, of "pix", "cbpr-mx", "cbpr-mt", "iso8583"
          Flows,         \* bound: flow f of a tab, of Flows, has f steps
          MaxGenerated,  \* bound: requests sent
          NoFlow, NoStep

VARIABLES
  protocol, flowType,
  result,      \* the flow shown: NoFlow, or the request it answers
  loading, error,
  selected,    \* selectedStepId
  overrides,   \* steps whose payload the user has replaced
  overrideTarget,  \* the dialog over the page: NoStep, or its step
  requests,    \* unanswered, each with what the closure that sent it captured
  generated,   \* requests sent so far; the serial tells apart what they return
  parsing, parsed,   \* ParsePanel: the payload its effect asks for, the one it shows
  parses,      \* payloads being parsed
  calm         \* history: nothing was asked or switched over an open request

stepPanel == <<parsing, parsed, parses>>
flowVars == <<protocol, flowType, result, loading, error, selected, overrides,
              overrideTarget, requests, generated, stepPanel, calm>>

Steps == 1 .. Flows
StepsOf(r) == 1 .. r.flow

\* The endpoint follows the tab, the catalogue its flow; no overrides are sent as null.
FlowRequests == [protocol : Protocols, flow : 1 .. Flows, overrides : SUBSET Steps,
                 selected : Steps \cup {NoStep}, serial : 1 .. MaxGenerated]

ASSUME FlowAssumption ==
  /\ Flows \in Nat \ {0} /\ MaxGenerated \in Nat
  /\ Protocols \subseteq {"pix", "cbpr-mx", "cbpr-mt", "iso8583"}
  /\ NoStep \notin Steps /\ NoFlow \notin FlowRequests /\ "pix" \in Protocols

\* What a step carries: the user's text, or data generated for that request.
Payload(r, s) == <<IF s \in r.overrides THEN 0 ELSE r.serial, s>>

\* The right-hand panel of a step; the stand-in flow's last hop is a time-out
\* without a payload.
PanelOf(r, s) ==
  CASE r.protocol \in {"pix", "cbpr-mx"} -> "parse"
    [] r.protocol = "cbpr-mt"            -> "open in MT parser"
    [] r.flow = Flows /\ s = r.flow      -> "timeout"
    [] OTHER                             -> "open in ISO 8583 parser"

Selected(r, s) == r # NoFlow /\ s # NoStep /\ s \in StepsOf(r)
Wanted(r, s) == IF Selected(r, s) /\ PanelOf(r, s) = "parse" THEN Payload(r, s) ELSE NoStep

\* ParsePanel's effect on the step shown next: a new payload cancels what is
\* under way and is parsed anew.
PanelEffect ==
  LET w == Wanted(result', selected')
      same == w = Wanted(result, selected) /\ (w # NoStep => selected' = selected)
  IN  IF same THEN UNCHANGED stepPanel
      ELSE /\ parsing' = w /\ parsed' = NoStep
           /\ parses' = IF w = NoStep THEN parses ELSE parses \cup {w}

FlowInit ==
  /\ protocol = "pix" /\ flowType = 1 /\ result = NoFlow
  /\ loading = FALSE /\ error = FALSE /\ selected = NoStep
  /\ overrides = {} /\ overrideTarget = NoStep
  /\ requests = {} /\ generated = 0
  /\ parsing = NoStep /\ parsed = NoStep /\ parses = {} /\ calm = TRUE

\* The tabs stay enabled while a flow is generated; the effect resets the page.
ChangeProtocol ==
  /\ overrideTarget = NoStep
  /\ \E p \in Protocols \ {protocol} : protocol' = p
  /\ flowType' = 1 /\ result' = NoFlow /\ selected' = NoStep
  /\ overrides' = {} /\ error' = FALSE
  /\ calm' = (calm /\ requests = {}) /\ PanelEffect
  /\ UNCHANGED <<loading, overrideTarget, requests, generated>>

PickFlow ==
  /\ overrideTarget = NoStep
  /\ flowType' \in (1 .. Flows) \ {flowType}
  /\ calm' = (calm /\ requests = {})
  /\ UNCHANGED <<protocol, result, loading, error, selected, overrides, overrideTarget,
                 requests, generated, stepPanel>>

\* generate(): the tab, the flow and the selection are those of the render.
Generate(next) ==
  /\ generated < MaxGenerated /\ generated' = generated + 1
  /\ requests' = requests \cup {[protocol |-> protocol, flow |-> flowType, overrides |-> next,
                                 selected |-> selected, serial |-> generated + 1]}
  /\ loading' = TRUE /\ error' = FALSE
  /\ calm' = (calm /\ requests = {})

HandleGenerate ==
  /\ ~loading /\ overrideTarget = NoStep
  /\ overrides' = {} /\ selected' = NoStep /\ Generate({})
  /\ UNCHANGED <<protocol, flowType, result, overrideTarget>> /\ PanelEffect

\* A click on an arrow of the diagram; time-out hops can be selected too.
SelectStep ==
  /\ result # NoFlow /\ overrideTarget = NoStep
  /\ \E s \in StepsOf(result) : selected' = s
  /\ UNCHANGED <<protocol, flowType, result, loading, error, overrides, overrideTarget,
                 requests, generated, calm>>
  /\ PanelEffect

\* XmlPanel, the left-hand panel of a step that has a payload.
OffersOverride ==
  /\ Selected(result, selected) /\ overrideTarget = NoStep
  /\ PanelOf(result, selected) # "timeout"

OpenOverride ==
  /\ OffersOverride /\ overrideTarget' = selected
  /\ UNCHANGED <<protocol, flowType, result, loading, error, selected, overrides, requests,
                 generated, stepPanel, calm>>

CancelOverride ==
  /\ overrideTarget # NoStep /\ overrideTarget' = NoStep
  /\ UNCHANGED <<protocol, flowType, result, loading, error, selected, overrides, requests,
                 generated, stepPanel, calm>>

\* Not blank; regenerates at once, even while a flow is being generated.
HandleOverrideConfirm ==
  /\ overrideTarget # NoStep /\ overrideTarget' = NoStep
  /\ overrides' = overrides \cup {overrideTarget} /\ Generate(overrides')
  /\ UNCHANGED <<protocol, flowType, result, selected, stepPanel>>

HandleOverrideClear ==
  /\ OffersOverride /\ selected \in overrides
  /\ overrides' = overrides \ {selected} /\ Generate(overrides')
  /\ UNCHANGED <<protocol, flowType, result, selected, overrideTarget, stepPanel>>

\* Nothing tells an answer that the tab, the flow or the overrides have moved on.
FlowLands ==
  /\ \E r \in requests :
       /\ requests' = requests \ {r} /\ result' = r
       /\ selected' = IF r.selected # NoStep /\ r.selected \notin StepsOf(r) THEN NoStep
                      ELSE selected
  /\ loading' = FALSE
  /\ UNCHANGED <<protocol, flowType, error, overrides, overrideTarget, generated, calm>>
  /\ PanelEffect

FlowFails ==
  /\ \E r \in requests : requests' = requests \ {r}
  /\ error' = TRUE /\ loading' = FALSE
  /\ UNCHANGED <<protocol, flowType, result, selected, overrides, overrideTarget, generated,
                 stepPanel, calm>>

\* The parser answers or fails; a cancelled effect ignores it.
ParseLands ==
  /\ \E p \in parses :
       /\ parses' = parses \ {p}
       /\ IF p = parsing THEN parsed' = p /\ parsing' = NoStep
          ELSE UNCHANGED <<parsed, parsing>>
  /\ UNCHANGED <<protocol, flowType, result, loading, error, selected, overrides,
                 overrideTarget, requests, generated, calm>>

FlowNext ==
  \/ ChangeProtocol \/ PickFlow \/ HandleGenerate \/ SelectStep
  \/ OpenOverride \/ CancelOverride \/ HandleOverrideConfirm \/ HandleOverrideClear
  \/ FlowLands \/ FlowFails \/ ParseLands
FlowSpec == FlowInit /\ [][FlowNext]_flowVars

-----------------------------------------------------------------------------
FlowFlagsOK == loading \in BOOLEAN /\ error \in BOOLEAN /\ calm \in BOOLEAN
Payloads == (0 .. MaxGenerated) \X Steps

FlowTypeOK ==
  /\ protocol \in Protocols /\ flowType \in 1 .. Flows
  /\ result \in FlowRequests \cup {NoFlow} /\ requests \subseteq FlowRequests
  /\ FlowFlagsOK /\ overrides \subseteq Steps /\ generated \in 0 .. MaxGenerated
  /\ selected \in Steps \cup {NoStep} /\ overrideTarget \in Steps \cup {NoStep}
  /\ parsing \in Payloads \cup {NoStep} /\ parsed \in Payloads \cup {NoStep}
  /\ parses \subseteq Payloads

\* While the user waits for each answer before asking or switching, the diagram
\* answers the tab and the overrides the page shows, unless it shows an error.
CalmResultMatches ==
  calm /\ requests = {} /\ ~error /\ result # NoFlow =>
    result.protocol = protocol /\ result.overrides = overrides

\* The summary beside a payload is of that payload, whatever parses are under way.
ParsedIsShown == parsed # NoStep => parsed = Wanted(result, selected)
=============================================================================
