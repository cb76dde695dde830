------------------------------ MODULE EmvWorkbench ------------------------------
(***************************************************************************)
(* The EMV page: six tabs over one persisted store, each with a request    *)
(* of its own whose answer goes to the store whoever is still there, and   *)
(* the load from the Parser that fills several tabs and parses on landing. *)
(***************************************************************************)
EXTENDS Naturals, FiniteSets

CONSTANTS Hexes, Pans, DefaultPan, BlankHex, NoAnswer,
          EmvTabs,    \* the tabs of an instance
          MaxAsked    \* bound: requests sent

EmvInputs == [hex : Hexes \cup {BlankHex}, pan : Pans \cup {DefaultPan}]
Asking == (1 .. MaxAsked) \X EmvInputs   \* an open tab's request: serial, input

ASSUME EmvAssumption ==
  /\ MaxAsked \in Nat /\ BlankHex \notin Hexes /\ DefaultPan \notin Pans
  /\ NoAnswer \notin EmvInputs /\ NoAnswer \notin Asking
  /\ {"parse", "validate"} \subseteq EmvTabs
  /\ EmvTabs \subseteq {"parse", "validate", "gen-arqc", "gen-arpc", "build", "full-flow"}

\* The forms: a bit 55, ARQC or ARPC, without which Run is disabled, and a PAN.
ParseBit55Tab == [hex |-> TRUE, pan |-> FALSE]
ValidateArqcTab == [hex |-> TRUE, pan |-> TRUE]
GenerateArqcTab == [hex |-> FALSE, pan |-> TRUE]
GenerateArpcTab == [hex |-> TRUE, pan |-> TRUE]
BuildResponseTab == [hex |-> TRUE, pan |-> FALSE]
FullFlowTab == [hex |-> TRUE, pan |-> TRUE]
FormOf(t) == CASE t = "parse" -> ParseBit55Tab [] t = "validate" -> ValidateArqcTab
               [] t = "gen-arqc" -> GenerateArqcTab [] t = "gen-arpc" -> GenerateArpcTab
               [] t = "build" -> BuildResponseTab [] t = "full-flow" -> FullFlowTab
RequiresCrypto == EmvTabs \ {"parse", "build"}
LoadedTabs == EmvTabs \cap {"parse", "validate", "full-flow"}   \* the bit 55 goes there

VARIABLES
  activeTab, inputs,    \* persisted
  results, loadedFromParser,   \* not persisted
  emvOn, cryptoEnabled,
  emvAsked,      \* the open tab's mutation: NoAnswer, or <<serial, input>>
  emvError,
  emvCalls,      \* unanswered requests, of every tab: <<serial, tab, input>>
  askedCount,
  loaded,        \* history: what the last load gave the validate tab
  arrival        \* history: the input as the parse tab found it on mounting, while it
                 \* is untouched and no earlier request of that tab was open

mutation == <<emvAsked, emvError>>
emvVars == <<activeTab, inputs, results, loadedFromParser, emvOn, cryptoEnabled, mutation,
             emvCalls, askedCount, loaded, arrival>>

DefaultInput == [hex |-> BlankHex, pan |-> DefaultPan]

EmvInit ==
  /\ activeTab = "parse" /\ inputs = [t \in EmvTabs |-> DefaultInput]
  /\ results = [t \in EmvTabs |-> NoAnswer] /\ loadedFromParser = FALSE
  /\ emvOn = FALSE /\ cryptoEnabled \in BOOLEAN
  /\ emvAsked = NoAnswer /\ emvError = FALSE /\ emvCalls = {} /\ askedCount = 0
  /\ loaded = DefaultInput /\ arrival = NoAnswer

Unlocked(t) == cryptoEnabled \/ t \notin RequiresCrypto

\* mutation.mutate(form)
Ask(t, form) ==
  /\ askedCount < MaxAsked /\ askedCount' = askedCount + 1
  /\ emvCalls' = emvCalls \cup {<<askedCount', t, form>>}
  /\ emvAsked' = <<askedCount', form>> /\ emvError' = FALSE

\* A tab's content mounts: the parse tab asks for what it finds unparsed.
MountTab(t) ==
  IF t = "parse" /\ inputs'["parse"].hex # BlankHex /\ results'["parse"] = NoAnswer
    THEN Ask("parse", inputs'["parse"])
    ELSE emvAsked' = NoAnswer /\ emvError' = FALSE /\ UNCHANGED <<emvCalls, askedCount>>

\* The input that the parse tab has to show parsed.
Arrives(t, asks) ==
  arrival' = IF t = "parse" /\ asks /\ \A c \in emvCalls : c[2] # "parse"
               THEN inputs'["parse"] ELSE NoAnswer

OpenEmv ==
  /\ ~emvOn /\ emvOn' = TRUE
  /\ UNCHANGED <<activeTab, inputs, results, loadedFromParser, cryptoEnabled, loaded>>
  /\ MountTab(activeTab) /\ Arrives(activeTab, emvAsked' # NoAnswer)

\* "Validate in EMV" of the Parser, and the navigation here.  The PAN is that of
\* the message, or the one the tabs have when the message has none; of the
\* results only the parse tab's is dropped.
LoadFromParser(hex, pan) ==
  /\ ~emvOn /\ emvOn' = TRUE /\ activeTab' = "parse" /\ UNCHANGED cryptoEnabled
  /\ inputs' = [t \in EmvTabs |->
       [hex |-> IF t \in LoadedTabs THEN hex ELSE inputs[t].hex,
        pan |-> IF FormOf(t).pan /\ pan # DefaultPan THEN pan ELSE inputs[t].pan]]
  /\ loaded' = inputs'["validate"]
  /\ loadedFromParser' = (pan # DefaultPan)
  /\ results' = [results EXCEPT !["parse"] = NoAnswer]
  /\ MountTab("parse") /\ Arrives("parse", TRUE)

\* Radix unmounts the tab that is left, and its mutation with it.
SetActiveTab ==
  /\ emvOn /\ activeTab' \in EmvTabs \ {activeTab}
  /\ UNCHANGED <<inputs, results, loadedFromParser, emvOn, cryptoEnabled, loaded>>
  /\ MountTab(activeTab') /\ Arrives(activeTab', emvAsked' # NoAnswer)

LeaveEmv ==
  /\ emvOn /\ emvOn' = FALSE
  /\ emvAsked' = NoAnswer /\ emvError' = FALSE /\ arrival' = NoAnswer
  /\ UNCHANGED <<activeTab, inputs, results, loadedFromParser, cryptoEnabled, emvCalls, askedCount, loaded>>

\* The browser reloads: results, the hint and the requests are gone.
ReloadEmv ==
  /\ emvOn' = FALSE /\ results' = [t \in EmvTabs |-> NoAnswer] /\ loadedFromParser' = FALSE
  /\ emvAsked' = NoAnswer /\ emvError' = FALSE /\ arrival' = NoAnswer /\ emvCalls' = {}
  /\ UNCHANGED <<activeTab, inputs, cryptoEnabled, askedCount, loaded>>

\* An edit of the parse tab resets its mutation, one of the validate tab
\* acknowledges the load; the result of the earlier text stays.
EditTab ==
  /\ emvOn /\ Unlocked(activeTab)
  /\ \E i \in EmvInputs \ {inputs[activeTab]} :
       /\ ~FormOf(activeTab).hex => i.hex = BlankHex
       /\ ~FormOf(activeTab).pan => i.pan = DefaultPan
       /\ inputs' = [inputs EXCEPT ![activeTab] = i]
  /\ loadedFromParser' = (loadedFromParser /\ activeTab # "validate") /\ arrival' = NoAnswer
  /\ IF activeTab = "parse" THEN emvAsked' = NoAnswer /\ emvError' = FALSE
     ELSE UNCHANGED mutation
  /\ UNCHANGED <<activeTab, results, emvOn, cryptoEnabled, emvCalls, askedCount, loaded>>

HintExpires ==
  /\ emvOn /\ activeTab = "validate" /\ Unlocked("validate")
  /\ loadedFromParser /\ loadedFromParser' = FALSE
  /\ UNCHANGED <<activeTab, inputs, results, emvOn, cryptoEnabled, mutation, emvCalls,
                 askedCount, arrival, loaded>>

RunTab ==
  /\ emvOn /\ Unlocked(activeTab) /\ emvAsked = NoAnswer
  /\ FormOf(activeTab).hex => inputs[activeTab].hex # BlankHex
  /\ Ask(activeTab, inputs[activeTab])
  /\ UNCHANGED <<activeTab, inputs, results, loadedFromParser, emvOn, cryptoEnabled, arrival, loaded>>

\* Clear resets the tab's store, not its mutation.
ClearTab ==
  /\ emvOn /\ Unlocked(activeTab)
  /\ inputs' = [inputs EXCEPT ![activeTab] = DefaultInput]
  /\ results' = [results EXCEPT ![activeTab] = NoAnswer] /\ arrival' = NoAnswer
  /\ UNCHANGED <<activeTab, loadedFromParser, emvOn, cryptoEnabled, mutation, emvCalls, askedCount, loaded>>

\* onSuccess writes the tab's result, mounted or not, edited since or not.
EmvAnswered ==
  \E c \in emvCalls :
    /\ emvCalls' = emvCalls \ {c}
    /\ \/ results' = [results EXCEPT ![c[2]] = c[3]] /\ UNCHANGED emvError
       \/ emvError' = (emvError \/ emvAsked = <<c[1], c[3]>>) /\ UNCHANGED results
    /\ emvAsked' = IF emvAsked = <<c[1], c[3]>> THEN NoAnswer ELSE emvAsked
    /\ UNCHANGED <<activeTab, inputs, loadedFromParser, emvOn, cryptoEnabled, askedCount, arrival, loaded>>

EmvNext ==
  \/ OpenEmv \/ SetActiveTab \/ LeaveEmv \/ ReloadEmv \/ EditTab \/ HintExpires
  \/ RunTab \/ ClearTab \/ EmvAnswered
  \/ \E hex \in Hexes, pan \in Pans \cup {DefaultPan} : LoadFromParser(hex, pan)
EmvSpec == EmvInit /\ [][EmvNext]_emvVars

-----------------------------------------------------------------------------
EmvCalls == (1 .. MaxAsked) \X EmvTabs \X EmvInputs
EmvFlagsOK ==
  /\ loadedFromParser \in BOOLEAN /\ emvOn \in BOOLEAN
  /\ cryptoEnabled \in BOOLEAN /\ emvError \in BOOLEAN
EmvTypeOK ==
  /\ EmvFlagsOK
  /\ activeTab \in EmvTabs /\ inputs \in [EmvTabs -> EmvInputs]
  /\ results \in [EmvTabs -> EmvInputs \cup {NoAnswer}]
  /\ emvAsked \in Asking \cup {NoAnswer}
  /\ emvCalls \subseteq EmvCalls /\ askedCount \in 0 .. MaxAsked
  /\ arrival \in EmvInputs \cup {NoAnswer} /\ loaded \in EmvInputs

\* "Editing the hex or header clears any stuck mutation state": while the parse
\* tab says it is parsing, it is parsing the text it shows, or was just cleared.
ParsingIsOfText ==
  emvOn /\ activeTab = "parse" /\ emvAsked # NoAnswer => inputs["parse"] \in {emvAsked[2], DefaultInput}

\* "Auto-parse on mount ... just arrived from Parser": the text the tab was opened
\* with is being parsed, has failed in sight, or its own result is shown.
ArrivedIsParsed ==
  emvOn /\ activeTab = "parse" /\ arrival # NoAnswer =>
    emvAsked # NoAnswer \/ emvError \/ results["parse"] = arrival

\* "Any edit dismisses the hint": values said to come from the Parser are those
\* that it gave, or the tab was cleared under the hint.
HintIsTrue == loadedFromParser => inputs["validate"] \in {loaded, DefaultInput}
================================================================================
