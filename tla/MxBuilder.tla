-------------------------------- MODULE MxBuilder --------------------------------
(***************************************************************************)
(* The ISO 20022 builder page: an ecosystem, a scenario and a version are  *)
(* selected, the server builds a message, and the user edits its fields    *)
(* and adds optional ones, each change of which rebuilds the message.      *)
(* Optional content is a section with one leaf, a name, inside; the        *)
(* mandatory leaf is an identifier, generated in the browser.              *)
(***************************************************************************)
EXTENDS Naturals, FiniteSets

CONSTANTS Ecosystems,
          Messages(_),    \* the catalogue: the scenarios of an ecosystem, each with
                          \* one of its versions
          Section, Leaf,  \* optional XPaths; the leaf lies in the section
          MaxRebuilds,    \* bound: rebuilds under way, cancelled ones included
          None

VARIABLES
  ecosystem, scenariosAsked,   \* selected; lists being fetched
  scenarios, message,  \* the list shown (by ecosystem); scenario and version selected
  mxResult,       \* result: None, or the request it answers
  added,       \* addedOptionalXPaths
  values,      \* fieldValues: where each leaf's value comes from
  generating,  \* handleGenerate under way: None, or its request; loading
  rebuilds,    \* refetches under way that are not cancelled or superseded, or are
  rebuilding,  \* the one that is not
  testData, mxError

selectors == <<ecosystem, scenariosAsked, scenarios, message>>
mxVars == <<selectors, mxResult, added, values, generating, rebuilds, rebuilding, testData, mxError>>

AllMessages == UNION {Messages(e) : e \in Ecosystems}
Optionals == {Section, Leaf}
Builds == [message : AllMessages, optionals : SUBSET Optionals]
Selection(optionals) == [message |-> message, optionals |-> optionals]
First(S) == CHOOSE x \in S : TRUE

\* The catalogues are static: no ecosystem is without a scenario, none without a version.
ASSUME MxAssumption ==
  /\ Ecosystems # {} /\ None \notin Ecosystems
  /\ \A e \in Ecosystems : Messages(e) # {}
  /\ None \notin AllMessages /\ None \notin Builds
  /\ "id" \notin Optionals /\ Section # Leaf /\ MaxRebuilds \in Nat

\* Leaves of a build: an optional one only when it was asked for.
Leaves(b) == {"id"} \cup (b.optionals \ {Section})

\* The server's values, the generatable ones replaced by fresh ones.
Seed(b, regenerate) ==
  [x \in Leaves(b) |-> IF regenerate /\ x = "id" THEN "generated" ELSE "server"]

\* Mutant of Merged: the server's values win.
MergedFresh(fresh, prev) ==
  [x \in DOMAIN fresh \cup DOMAIN prev |-> IF x \in DOMAIN fresh THEN fresh[x] ELSE prev[x]]

\* {...fresh, ...prev}
Merged(fresh, prev) ==
  [x \in DOMAIN fresh \cup DOMAIN prev |-> IF x \in DOMAIN prev THEN prev[x] ELSE fresh[x]]

\* applyValuesToXml: the message shown and copied, built XML with the values put in.
Preview(b, vals) == [x \in Leaves(b) |-> IF x \in DOMAIN vals THEN vals[x] ELSE "server"]

MxInit ==
  /\ ecosystem = None /\ scenariosAsked = {} /\ scenarios = None /\ message = None
  /\ mxResult = None /\ added = {} /\ values = <<>> /\ generating = None
  /\ rebuilds = {} /\ rebuilding = None /\ testData = FALSE /\ mxError = FALSE

\* The boot effect: both catalogues, or an error.
CataloguesLand ==
  /\ ecosystem = None /\ ~mxError
  /\ \/ mxError' = TRUE /\ UNCHANGED <<ecosystem, scenariosAsked>>
     \/ /\ ecosystem' = First(Ecosystems) /\ scenariosAsked' = {ecosystem'}
        /\ UNCHANGED mxError
  /\ UNCHANGED <<scenarios, message, mxResult, added, values, generating, rebuilds,
                 rebuilding, testData>>

\* A rebuild under way is not cancelled, and the added optionals stay.
SelectEcosystem ==
  /\ ecosystem # None /\ ecosystem' \in Ecosystems \ {ecosystem}
  /\ scenariosAsked' = scenariosAsked \cup {ecosystem'} /\ mxResult' = None
  /\ UNCHANGED <<scenarios, message, added, values, generating, rebuilds, rebuilding,
                 testData, mxError>>

\* Lists land in any order, for whichever ecosystem is selected by then; the first
\* scenario is selected, in the version selected before or its newest.
ScenariosLand ==
  /\ \E e \in scenariosAsked :
       /\ scenariosAsked' = scenariosAsked \ {e}
       /\ \/ /\ scenarios' = e /\ message' = First(Messages(e)) /\ UNCHANGED mxError
          \/ mxError' = TRUE /\ UNCHANGED <<scenarios, message>>
  /\ UNCHANGED <<ecosystem, mxResult, added, values, generating, rebuilds, rebuilding, testData>>

SelectScenario ==
  /\ scenarios # None /\ message' \in Messages(scenarios) \ {message} /\ mxResult' = None
  /\ UNCHANGED <<ecosystem, scenariosAsked, scenarios, added, values, generating, rebuilds,
                 rebuilding, testData, mxError>>

\* The message shown stays that of the version it was built for.
SelectVersion ==
  /\ scenarios # None /\ message' \in Messages(scenarios) \ {message}
  /\ UNCHANGED <<ecosystem, scenariosAsked, scenarios, mxResult, added, values, generating,
                 rebuilds, rebuilding, testData, mxError>>

\* Mutant of HandleGenerateMx: the button works with nothing selected.
HandleGenerateUnselected ==
  /\ generating = None
  /\ generating' = Selection({}) /\ mxError' = FALSE /\ mxResult' = None
  /\ UNCHANGED <<selectors, added, values, rebuilds, rebuilding, testData>>

HandleGenerateMx ==
  /\ generating = None /\ message # None
  /\ generating' = Selection({}) /\ mxError' = FALSE /\ mxResult' = None
  /\ UNCHANGED <<selectors, added, values, rebuilds, rebuilding, testData>>

\* The effect on a new set of optionals: the rebuild under way is cancelled, and
\* the message selected now is built, unless none is shown.
Rebuild(optionals) ==
  IF mxResult' = None THEN rebuilding' = None /\ UNCHANGED rebuilds
  ELSE /\ rebuilding' = Selection(optionals) /\ rebuilds' = rebuilds \cup {rebuilding'}
       /\ Cardinality(rebuilds') <= MaxRebuilds

\* Whatever is selected by now.  The fresh set of optionals fires the effect.
GenerationLands ==
  /\ generating # None /\ generating' = None
  /\ \/ /\ mxResult' = generating /\ values' = Seed(generating, TRUE) /\ added' = {}
        /\ Rebuild({}) /\ UNCHANGED mxError
     \/ mxError' = TRUE /\ UNCHANGED <<mxResult, values, added, rebuilds, rebuilding>>
  /\ UNCHANGED <<selectors, testData>>

\* Mutant of RebuildLands: the effect without its cancelled flag.
RebuildLandsAny ==
  /\ \E b \in rebuilds :
       /\ rebuilds' = rebuilds \ {b} /\ rebuilding' = (IF b = rebuilding THEN None ELSE rebuilding)
       /\ mxResult' = b /\ values' = Merged(Seed(b, FALSE), values)
  /\ UNCHANGED <<selectors, added, generating, testData, mxError>>

\* A cancelled rebuild changes nothing; the other one may bring back the message
\* of a scenario that is not selected any more.
RebuildLands ==
  /\ \E b \in rebuilds :
       /\ rebuilds' = rebuilds \ {b}
       /\ IF b # rebuilding THEN UNCHANGED <<mxResult, values, mxError, rebuilding>>
          ELSE /\ rebuilding' = None
               /\ \/ mxResult' = b /\ values' = Merged(Seed(b, FALSE), values) /\ UNCHANGED mxError
                  \/ mxError' = TRUE /\ UNCHANGED <<mxResult, values>>
  /\ UNCHANGED <<selectors, added, generating, testData>>

-----------------------------------------------------------------------------
\* In the form: an optional that was added, inside a section that is in the form.
SectionShown == mxResult # None /\ Section \in added
Shown(x) == x \in added /\ SectionShown

AddOptional(x) ==
  /\ x \notin added /\ added' = added \cup {x}
  /\ UNCHANGED mxResult /\ Rebuild(added')
  /\ UNCHANGED <<selectors, values, generating, testData, mxError>>

\* The "+" of the form, and of a section in it.
PickOptional ==
  mxResult # None /\ \E x \in Optionals : (x = Leaf => SectionShown) /\ AddOptional(x)

\* The search goes over the whole index: it reaches the leaf of a section that is
\* not in the form, which then is in the message and not in the form.
IsVisible(x) == x \in added
SearchHits == {x \in Optionals : mxResult # None /\ ~IsVisible(x)}
SearchAdd == \E x \in SearchHits : AddOptional(x)

\* Removing a section drops what is inside it.
RemoveOptional ==
  /\ \E x \in added : Shown(x) /\ added' = (IF x = Section THEN {} ELSE added \ {x})
  /\ UNCHANGED mxResult /\ Rebuild(added')
  /\ UNCHANGED <<selectors, values, generating, testData, mxError>>

\* Typing in a field's editor, or its regenerate button.
EditField ==
  /\ mxResult # None
  /\ \E x \in Leaves(mxResult), v \in {"user", "generated"} :
       /\ v = "generated" => x = "id"
       /\ x = Leaf => Shown(x)
       /\ values' = [y \in DOMAIN values \cup {x} |-> IF y = x THEN v ELSE values[y]]
  /\ UNCHANGED <<selectors, mxResult, added, generating, rebuilds, rebuilding, testData, mxError>>

LoadTestData ==
  /\ ~testData /\ mxResult # None /\ testData' = TRUE
  /\ UNCHANGED <<selectors, mxResult, added, values, generating, rebuilds, rebuilding, mxError>>

\* Names of debtor and creditor among the values there are by then.
TestDataLands ==
  /\ testData /\ testData' = FALSE
  /\ \/ mxError' = TRUE /\ UNCHANGED values
     \/ /\ values' = [x \in DOMAIN values |-> IF x = Leaf THEN "test" ELSE values[x]]
        /\ UNCHANGED mxError
  /\ UNCHANGED <<selectors, mxResult, added, generating, rebuilds, rebuilding>>

\* "Limpar"; the fresh set of optionals cancels a rebuild under way.
ClearMx ==
  /\ mxResult # None /\ mxResult' = None /\ values' = <<>> /\ added' = {} /\ Rebuild({})
  /\ UNCHANGED <<selectors, generating, testData, mxError>>

MxNext ==
  \/ CataloguesLand \/ SelectEcosystem \/ ScenariosLand \/ SelectScenario \/ SelectVersion
  \/ HandleGenerateMx \/ GenerationLands \/ RebuildLands \/ PickOptional \/ SearchAdd
  \/ RemoveOptional \/ EditField \/ LoadTestData \/ TestDataLands \/ ClearMx
MxSpec == MxInit /\ [][MxNext]_mxVars

-----------------------------------------------------------------------------
MxTypeOK ==
  /\ ecosystem \in Ecosystems \cup {None} /\ scenariosAsked \subseteq Ecosystems
  /\ scenarios \in Ecosystems \cup {None} /\ message \in AllMessages \cup {None}
  /\ mxResult \in Builds \cup {None} /\ generating \in Builds \cup {None}
  /\ added \subseteq Optionals /\ rebuilds \subseteq Builds /\ rebuilding \in Builds \cup {None}
  /\ \A x \in DOMAIN values : values[x] \in {"server", "generated", "user", "test"}
  /\ testData \in BOOLEAN /\ mxError \in BOOLEAN

\* "The XML preview should reflect the new visible set": at rest, without an
\* error, the message shown was built with exactly the optionals the form shows.
OptionalsSettle ==
  mxResult # None /\ generating = None /\ rebuilding = None /\ ~mxError =>
    mxResult.optionals = added

\* "Adding one optional shouldn't churn the MsgId": what is shown and copied never
\* carries the scenario's static identifier, however rebuilds and clears interleave.
IdIsNeverTheServers == mxResult # None => Preview(mxResult, values)["id"] # "server"

\* "User edits for everything they already touched": until the message is generated
\* anew, cleared or filled with test data, an answer of the server overwrites no edit.
EditsSurvive ==
  [][generating' = generating /\ added' = added /\ testData' = testData /\ mxResult' # None =>
       \A x \in DOMAIN values :
         values[x] = "user" => x \in DOMAIN values' /\ values'[x] # "server"]_mxVars

\* The preview is of the form: of its optionals once the rebuilds are over, and of
\* its own identifier throughout.
PreviewIsOfForm == OptionalsSettle /\ IdIsNeverTheServers
=============================================================================
