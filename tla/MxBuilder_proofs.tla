-------------------------- MODULE MxBuilder_proofs --------------------------
(* Theorems about MxBuilder, for every catalogue of ecosystems, scenarios,  *)
(* versions and optional elements, and any number of rebuilds under way.    *)
EXTENDS MxBuilder, TLAPS

\* Nothing is built, or shown, before a message is selected, and what Generate asks for has
\* no optional content.
SelectedFirst ==
  /\ mxResult # None \/ generating # None \/ rebuilding # None => message # None
  /\ generating # None => generating.optionals = {}
  /\ scenarios = None <=> message = None

\* As long as a message is shown, or one will be again, the form has its identifier.
IdIsFormed ==
  mxResult # None \/ rebuilding # None => "id" \in DOMAIN values /\ values["id"] # "server"

\* What is being rebuilt has the optionals of the form.
RebuildIsOfForm ==
  /\ rebuilding # None => rebuilding \in rebuilds /\ rebuilding.optionals = added
  /\ mxResult # None /\ rebuilding = None /\ ~mxError => mxResult.optionals = added

MxInv == MxTypeOK /\ SelectedFirst /\ IdIsFormed /\ RebuildIsOfForm

Values == {"server", "generated", "user", "test"}

\* An entry of the catalogues can be chosen.
LEMMA FirstIsMember ==
  ASSUME NEW S, S # {}
  PROVE  First(S) \in S
  BY Zenon DEF First

\* What is built for a selection is a build, and is something.
LEMMA SelectionIsBuild ==
  ASSUME NEW S \in SUBSET Optionals, message \in AllMessages
  PROVE  /\ Selection(S) \in Builds /\ Selection(S) # None
         /\ Selection(S).optionals = S
  <1>1. Selection(S) \in Builds BY DEF Selection, Builds
  <1>2. Selection(S).optionals = S BY DEF Selection
  <1> QED BY <1>1, <1>2, MxAssumption

\* The identifier is a leaf of every build ...
LEMMA IdIsLeaf ==
  ASSUME NEW b
  PROVE  "id" \in Leaves(b)
  BY DEF Leaves

\* ... and a new message's is made in the browser.
LEMMA SeedIsValues ==
  ASSUME NEW b, NEW r \in BOOLEAN
  PROVE  /\ DOMAIN Seed(b, r) = Leaves(b)
         /\ \A x \in Leaves(b) : Seed(b, r)[x] \in Values
         /\ r = TRUE => Seed(b, r)["id"] = "generated"
  BY IdIsLeaf DEF Seed, Values

\* The invariant holds of the builder as it opens.
LEMMA MxInitially == MxInit => MxInv
  <1> SUFFICES ASSUME MxInit PROVE MxInv OBVIOUS
  <1>1. DOMAIN <<>> = {} OBVIOUS
  <1>2. MxTypeOK BY <1>1 DEF MxInit, MxTypeOK
  <1>3. SelectedFirst BY DEF MxInit, SelectedFirst
  <1>4. IdIsFormed BY DEF MxInit, IdIsFormed
  <1>5. RebuildIsOfForm BY DEF MxInit, RebuildIsOfForm
  <1> QED BY <1>2, <1>3, <1>4, <1>5 DEF MxInv

\* The effect on the optionals rebuilds for the form it runs in.
LEMMA RebuildStep ==
  ASSUME NEW S \in SUBSET Optionals, Rebuild(S), MxTypeOK, message # None
  PROVE  /\ rebuilds' \in SUBSET Builds /\ rebuilding' \in Builds \cup {None}
         /\ rebuilding' # None => rebuilding' \in rebuilds' /\ rebuilding'.optionals = S
         /\ rebuilding' = None <=> mxResult' = None
  <1>1. message \in AllMessages BY DEF MxTypeOK
  <1>2. /\ Selection(S) \in Builds /\ Selection(S) # None /\ Selection(S).optionals = S
    BY <1>1, SelectionIsBuild
  <1>3. CASE mxResult' = None BY <1>3 DEF Rebuild, MxTypeOK
  <1>4. CASE mxResult' # None BY <1>2, <1>4 DEF Rebuild, MxTypeOK
  <1> QED BY <1>3, <1>4

\* Every step of the builder keeps the invariant.
LEMMA MxStep ==
  ASSUME MxInv, [MxNext]_mxVars
  PROVE  MxInv'
  <1>1. MxTypeOK /\ SelectedFirst /\ IdIsFormed /\ RebuildIsOfForm BY DEF MxInv
  \* The selectors and the flags, where the message and its values stay.
  <1>2. ASSUME UNCHANGED <<mxResult, added, values, rebuilds, rebuilding, generating>>,
               message # None => message' # None,
               ecosystem' \in Ecosystems \cup {None}, scenariosAsked' \subseteq Ecosystems,
               scenarios' \in Ecosystems \cup {None}, message' \in AllMessages \cup {None},
               scenarios' = None <=> message' = None,
               testData' \in BOOLEAN, mxError' \in BOOLEAN, mxError => mxError'
        PROVE  MxInv'
    <2>1. MxTypeOK' BY <1>1, <1>2 DEF MxTypeOK
    <2>2. SelectedFirst' BY <1>1, <1>2 DEF SelectedFirst
    <2>3. IdIsFormed' BY <1>1, <1>2 DEF IdIsFormed
    <2>4. RebuildIsOfForm' BY <1>1, <1>2 DEF RebuildIsOfForm
    <2> QED BY <2>1, <2>2, <2>3, <2>4 DEF MxInv
  \* The message shown is left: nothing is to be said of it.
  <1>3. ASSUME mxResult' = None,
               UNCHANGED <<added, values, rebuilds, rebuilding, generating, testData, mxError>>,
               message # None => message' # None,
               ecosystem' \in Ecosystems \cup {None}, scenariosAsked' \subseteq Ecosystems,
               scenarios' \in Ecosystems \cup {None}, message' \in AllMessages \cup {None},
               scenarios' = None <=> message' = None
        PROVE  MxInv'
    <2>1. MxTypeOK' BY <1>1, <1>3 DEF MxTypeOK
    <2>2. SelectedFirst' BY <1>1, <1>3 DEF SelectedFirst
    <2>3. IdIsFormed' BY <1>1, <1>3 DEF IdIsFormed
    <2>4. RebuildIsOfForm' BY <1>1, <1>3 DEF RebuildIsOfForm
    <2> QED BY <2>1, <2>2, <2>3, <2>4 DEF MxInv
  \* The set of optionals is a new one, and what is shown is rebuilt.
  <1>4. ASSUME added' \subseteq Optionals, Rebuild(added'), message # None,
               UNCHANGED <<selectors, testData>>, mxError' \in BOOLEAN,
               generating' \in {generating, None},
               mxResult' \in Builds \cup {None},
               mxResult' # None => "id" \in DOMAIN values' /\ values'["id"] # "server",
               \A x \in DOMAIN values' : values'[x] \in Values
        PROVE  MxInv'
    <2>1. /\ rebuilds' \in SUBSET Builds /\ rebuilding' \in Builds \cup {None}
          /\ rebuilding' # None => rebuilding' \in rebuilds' /\ rebuilding'.optionals = added'
          /\ rebuilding' = None <=> mxResult' = None
      <3>1. added' \in SUBSET Optionals BY <1>4
      <3> QED BY <1>1, <1>4, <3>1, RebuildStep, Zenon
    <2>2. MxTypeOK' BY <1>1, <1>4, <2>1 DEF MxTypeOK, Values, selectors
    <2>3. SelectedFirst' BY <1>1, <1>4 DEF SelectedFirst, selectors
    <2>4. IdIsFormed' BY <1>4, <2>1 DEF IdIsFormed
    <2>5. RebuildIsOfForm' BY <1>4, <2>1 DEF RebuildIsOfForm
    <2> QED BY <2>2, <2>3, <2>4, <2>5 DEF MxInv
  <1>5. CASE CataloguesLand
    <2>1. First(Ecosystems) \in Ecosystems BY FirstIsMember, MxAssumption
    <2>2. ecosystem' \in Ecosystems \cup {None} /\ scenariosAsked' \subseteq Ecosystems
          /\ mxError' \in BOOLEAN /\ (mxError => mxError')
      BY <1>1, <1>5, <2>1 DEF CataloguesLand, MxTypeOK
    <2> QED BY <1>1, <1>2, <1>5, <2>2 DEF CataloguesLand, MxTypeOK, SelectedFirst
  <1>6. CASE SelectEcosystem
    BY <1>1, <1>3, <1>6 DEF SelectEcosystem, MxTypeOK, SelectedFirst
  <1>7. CASE ScenariosLand
    <2>1. PICK e \in scenariosAsked :
            /\ scenariosAsked' = scenariosAsked \ {e}
            /\ \/ /\ scenarios' = e /\ message' = First(Messages(e)) /\ UNCHANGED mxError
               \/ mxError' = TRUE /\ UNCHANGED <<scenarios, message>>
      BY <1>7 DEF ScenariosLand
    <2>2. e \in Ecosystems BY <1>1, <2>1 DEF MxTypeOK
    <2>3. First(Messages(e)) \in Messages(e) BY <2>2, FirstIsMember, MxAssumption
    <2>4. First(Messages(e)) \in AllMessages BY <2>2, <2>3 DEF AllMessages
    <2>5. e # None /\ First(Messages(e)) # None BY <2>2, <2>4, MxAssumption
    <2>6. UNCHANGED <<ecosystem, mxResult, added, values, generating, rebuilds, rebuilding, testData>>
      BY <1>7 DEF ScenariosLand
    <2> QED BY <1>1, <1>2, <2>1, <2>2, <2>4, <2>5, <2>6 DEF MxTypeOK, SelectedFirst
  <1>8. ASSUME scenarios # None, message' \in Messages(scenarios) \ {message},
               UNCHANGED <<ecosystem, scenariosAsked, scenarios>>
        PROVE  message' \in AllMessages /\ message' # None
    BY <1>1, <1>8, MxAssumption DEF MxTypeOK, AllMessages
  <1>9. CASE SelectScenario
    BY <1>1, <1>3, <1>8, <1>9 DEF SelectScenario, MxTypeOK, SelectedFirst
  <1>10. CASE SelectVersion
    BY <1>1, <1>2, <1>8, <1>10 DEF SelectVersion, MxTypeOK, SelectedFirst
  <1>11. CASE HandleGenerateMx
    <2>1. Selection({}) \in Builds /\ Selection({}).optionals = {}
      BY <1>1, <1>11, SelectionIsBuild DEF HandleGenerateMx, MxTypeOK
    <2>2. MxTypeOK' BY <1>1, <1>11, <2>1 DEF HandleGenerateMx, MxTypeOK, selectors
    <2>3. SelectedFirst' BY <1>1, <1>11, <2>1 DEF HandleGenerateMx, SelectedFirst, selectors
    <2>4. IdIsFormed' BY <1>1, <1>11 DEF HandleGenerateMx, IdIsFormed
    <2>5. RebuildIsOfForm' BY <1>1, <1>11 DEF HandleGenerateMx, RebuildIsOfForm
    <2> QED BY <2>2, <2>3, <2>4, <2>5 DEF MxInv
  <1>12. CASE GenerationLands
    <2>1. message # None /\ generating \in Builds BY <1>1, <1>12 DEF GenerationLands, SelectedFirst, MxTypeOK
    <2>2. CASE mxError' = TRUE /\ UNCHANGED <<mxResult, values, added, rebuilds, rebuilding>>
      <3>1. generating' = None /\ UNCHANGED <<selectors, testData>> BY <1>12 DEF GenerationLands
      <3>2. MxTypeOK' BY <1>1, <2>2, <3>1 DEF MxTypeOK, selectors
      <3>3. SelectedFirst' BY <1>1, <2>2, <3>1 DEF SelectedFirst, selectors
      <3>4. IdIsFormed' BY <1>1, <2>2 DEF IdIsFormed
      <3>5. RebuildIsOfForm' BY <1>1, <2>2 DEF RebuildIsOfForm
      <3> QED BY <3>2, <3>3, <3>4, <3>5 DEF MxInv
    <2>3. CASE mxResult' = generating /\ values' = Seed(generating, TRUE) /\ added' = {}
               /\ Rebuild({}) /\ UNCHANGED mxError
      <3>1. /\ "id" \in DOMAIN values' /\ values'["id"] # "server"
            /\ \A x \in DOMAIN values' : values'[x] \in Values
        BY <2>3, SeedIsValues, IdIsLeaf
      <3>2. generating' = None /\ UNCHANGED <<selectors, testData>> BY <1>12 DEF GenerationLands
      <3>3. Rebuild(added') BY <2>3
      <3>4. mxError' \in BOOLEAN BY <1>1, <2>3 DEF MxTypeOK
      <3> QED BY <1>4, <2>1, <2>3, <3>1, <3>2, <3>3, <3>4
    <2> QED BY <1>12, <2>2, <2>3 DEF GenerationLands
  <1>13. CASE RebuildLands
    <2>1. UNCHANGED <<selectors, added, generating, testData>> BY <1>13 DEF RebuildLands
    <2>2. PICK b \in rebuilds :
            /\ rebuilds' = rebuilds \ {b}
            /\ IF b # rebuilding THEN UNCHANGED <<mxResult, values, mxError, rebuilding>>
               ELSE /\ rebuilding' = None
                    /\ \/ mxResult' = b /\ values' = Merged(Seed(b, FALSE), values)
                          /\ UNCHANGED mxError
                       \/ mxError' = TRUE /\ UNCHANGED <<mxResult, values>>
      BY <1>13 DEF RebuildLands
    <2>3. b \in Builds /\ b # None BY <1>1, <2>2, MxAssumption DEF MxTypeOK
    <2>4. CASE UNCHANGED <<mxResult, values, mxError, rebuilding>> /\ b # rebuilding
      <3>1. MxTypeOK' BY <1>1, <2>1, <2>2, <2>4 DEF MxTypeOK, selectors
      <3>2. SelectedFirst' BY <1>1, <2>1, <2>4 DEF SelectedFirst, selectors
      <3>3. IdIsFormed' BY <1>1, <2>4 DEF IdIsFormed
      <3>4. RebuildIsOfForm' BY <1>1, <2>1, <2>2, <2>4 DEF RebuildIsOfForm
      <3> QED BY <3>1, <3>2, <3>3, <3>4 DEF MxInv
    <2>5. CASE b = rebuilding /\ rebuilding' = None /\ mxError' = TRUE
               /\ UNCHANGED <<mxResult, values>>
      <3>1. MxTypeOK' BY <1>1, <2>1, <2>2, <2>5 DEF MxTypeOK, selectors
      <3>2. SelectedFirst' BY <1>1, <2>1, <2>5 DEF SelectedFirst, selectors
      <3>3. IdIsFormed' BY <1>1, <2>5 DEF IdIsFormed
      <3>4. RebuildIsOfForm' BY <2>5 DEF RebuildIsOfForm
      <3> QED BY <3>1, <3>2, <3>3, <3>4 DEF MxInv
    <2>6. CASE b = rebuilding /\ rebuilding' = None /\ mxResult' = b
               /\ values' = Merged(Seed(b, FALSE), values) /\ UNCHANGED mxError
      <3>1. /\ \A x \in DOMAIN values' : values'[x] \in Values
            /\ "id" \in DOMAIN values => "id" \in DOMAIN values' /\ values'["id"] = values["id"]
        <4>1. \A x \in DOMAIN values : values[x] \in Values BY <1>1 DEF MxTypeOK, Values
        <4>2. /\ DOMAIN Seed(b, FALSE) = Leaves(b)
              /\ \A x \in Leaves(b) : Seed(b, FALSE)[x] \in Values
          BY SeedIsValues
        <4> DEFINE f == Seed(b, FALSE)
        <4>3. /\ DOMAIN values' = DOMAIN f \cup DOMAIN values
              /\ \A x \in DOMAIN values : values'[x] = values[x]
              /\ \A x \in DOMAIN f \ DOMAIN values : values'[x] = f[x]
          BY <2>6 DEF Merged
        <4> HIDE DEF f
        <4>4. \A x \in DOMAIN f : f[x] \in Values BY <4>2 DEF f
        <4> QED BY <4>1, <4>3, <4>4
      <3>2. MxTypeOK' BY <1>1, <2>1, <2>2, <2>3, <2>6, <3>1 DEF MxTypeOK, selectors, Values
      <3>3. SelectedFirst' BY <1>1, <2>1, <2>3, <2>6 DEF SelectedFirst, selectors
      <3>4. IdIsFormed' BY <1>1, <2>3, <2>6, <3>1 DEF IdIsFormed
      <3>5. RebuildIsOfForm' BY <1>1, <2>1, <2>3, <2>6 DEF RebuildIsOfForm
      <3> QED BY <3>2, <3>3, <3>4, <3>5 DEF MxInv
    <2> QED BY <2>2, <2>4, <2>5, <2>6
  <1>14. ASSUME NEW x \in Optionals, AddOptional(x), mxResult # None PROVE MxInv'
    <2>1. added' \subseteq Optionals /\ Rebuild(added') /\ message # None
          /\ UNCHANGED <<mxResult, selectors, values, generating, testData, mxError>>
      BY <1>1, <1>14 DEF AddOptional, MxTypeOK, SelectedFirst
    <2> QED BY <1>1, <1>4, <2>1 DEF MxTypeOK, IdIsFormed, Values
  <1>15. CASE PickOptional BY <1>14, <1>15 DEF PickOptional
  <1>16. CASE SearchAdd BY <1>14, <1>16 DEF SearchAdd, SearchHits
  <1>17. CASE RemoveOptional
    <2>1. added' \subseteq Optionals /\ Rebuild(added') /\ mxResult # None
          /\ UNCHANGED <<mxResult, selectors, values, generating, testData, mxError>>
      BY <1>1, <1>17 DEF RemoveOptional, Shown, SectionShown, MxTypeOK
    <2> QED BY <1>1, <1>4, <2>1 DEF MxTypeOK, IdIsFormed, Values, SelectedFirst
  <1>18. ASSUME UNCHANGED <<selectors, mxResult, added, generating, rebuilds, rebuilding>>,
                testData' \in BOOLEAN, mxError' \in BOOLEAN, mxError => mxError',
                DOMAIN values \subseteq DOMAIN values',
                \A x \in DOMAIN values' : values'[x] \in Values,
                "id" \in DOMAIN values /\ values["id"] # "server" => values'["id"] # "server"
         PROVE  MxInv'
    <2>1. MxTypeOK' BY <1>1, <1>18 DEF MxTypeOK, Values, selectors
    <2>2. SelectedFirst' BY <1>1, <1>18 DEF SelectedFirst, selectors
    <2>3. IdIsFormed' BY <1>1, <1>18 DEF IdIsFormed
    <2>4. RebuildIsOfForm' BY <1>1, <1>18 DEF RebuildIsOfForm
    <2> QED BY <2>1, <2>2, <2>3, <2>4 DEF MxInv
  <1>19. CASE EditField
    <2>1. PICK x \in Leaves(mxResult), v \in {"user", "generated"} :
            values' = [y \in DOMAIN values \cup {x} |-> IF y = x THEN v ELSE values[y]]
      BY <1>19, Zenon DEF EditField
    <2>2. \A y \in DOMAIN values' : values'[y] \in Values
      BY <1>1, <2>1 DEF MxTypeOK, Values
    <2>3. "id" \in DOMAIN values /\ values["id"] # "server" => values'["id"] # "server"
      BY <2>1
    <2>4. DOMAIN values \subseteq DOMAIN values' BY <2>1
    <2>5. UNCHANGED <<selectors, mxResult, added, generating, rebuilds, rebuilding, testData,
                    mxError>>
      BY <1>19, Zenon DEF EditField
    <2> QED BY <1>1, <1>18, <2>2, <2>3, <2>4, <2>5 DEF MxTypeOK
  <1>20. CASE LoadTestData BY <1>1, <1>18, <1>20 DEF LoadTestData, MxTypeOK, Values
  <1>21. CASE TestDataLands
    <2>1. DOMAIN values' = DOMAIN values BY <1>21 DEF TestDataLands
    <2>2. \A y \in DOMAIN values' : values'[y] \in Values
      BY <1>1, <1>21 DEF MxTypeOK, Values, TestDataLands
    <2>3. "id" \in DOMAIN values /\ values["id"] # "server" => values'["id"] # "server"
      BY <1>21 DEF TestDataLands
    <2>4. UNCHANGED <<selectors, mxResult, added, generating, rebuilds, rebuilding>>
      BY <1>21 DEF TestDataLands
    <2>5. testData' = FALSE /\ (mxError' = TRUE \/ mxError' = mxError) BY <1>21 DEF TestDataLands
    <2>6. testData' \in BOOLEAN /\ mxError' \in BOOLEAN /\ (mxError => mxError')
      BY <1>1, <2>5 DEF MxTypeOK
    <2> QED BY <1>18, <2>1, <2>2, <2>3, <2>4, <2>6
  <1>22. CASE ClearMx
    <2>1. DOMAIN <<>> = {} OBVIOUS
    <2>2. values' = <<>> /\ mxResult' = None /\ added' = {} /\ Rebuild(added') /\ mxResult # None
          /\ UNCHANGED <<selectors, generating, testData, mxError>>
      BY <1>22 DEF ClearMx
    <2> QED BY <1>1, <1>4, <2>1, <2>2 DEF SelectedFirst, MxTypeOK
  <1>23. CASE UNCHANGED mxVars
    BY <1>1, <1>2, <1>23 DEF mxVars, selectors, MxTypeOK, SelectedFirst
  <1> QED BY <1>5, <1>6, <1>7, <1>9, <1>10, <1>11, <1>12, <1>13, <1>15, <1>16, <1>17, <1>19,
             <1>20, <1>21, <1>22, <1>23 DEF MxNext

\* Whatever rebuilds, catalogues and test data land after the page has moved on to another
\* ecosystem, scenario or version, none of them ends in a variable it is not of.
THEOREM MxTyped == MxSpec => []MxTypeOK
  <1>1. MxInv /\ [MxNext]_mxVars => MxInv' BY MxStep
  <1>2. MxInv => MxTypeOK BY DEF MxInv
  <1> QED BY MxInitially, <1>1, <1>2, PTL DEF MxSpec

\* However rebuilds supersede one another and clears come between, the message shown once they
\* are over has the optionals of the form, and the identifier on it is the form's throughout,
\* never the static one the scenario's sample carries.
THEOREM PreviewOfForm == MxSpec => []PreviewIsOfForm
  <1>1. MxInv /\ [MxNext]_mxVars => MxInv' BY MxStep
  <1>2. MxInv => PreviewIsOfForm
    <2> SUFFICES ASSUME MxInv PROVE PreviewIsOfForm OBVIOUS
    <2>1. OptionalsSettle BY DEF MxInv, RebuildIsOfForm, OptionalsSettle
    <2>2. IdIsNeverTheServers
      BY IdIsLeaf DEF MxInv, IdIsFormed, IdIsNeverTheServers, Preview
    <2> QED BY <2>1, <2>2 DEF PreviewIsOfForm
  <1> QED BY MxInitially, <1>1, <1>2, PTL DEF MxSpec

\* What the user has typed outlives every answer of the server: a rebuild asked for before the
\* edit and landing after it merges into the form without overwriting it.
THEOREM EditsStay == MxSpec => EditsSurvive
  <1> DEFINE Edits == generating' = generating /\ added' = added /\ testData' = testData /\ mxResult' # None =>
       \A x \in DOMAIN values :
         values[x] = "user" => x \in DOMAIN values' /\ values'[x] # "server"
  <1>1. [MxNext]_mxVars => [Edits]_mxVars
    <2> SUFFICES ASSUME MxNext, ~UNCHANGED values,
                        generating' = generating, added' = added, testData' = testData,
                        mxResult' # None,
                        NEW x \in DOMAIN values, values[x] = "user"
                 PROVE  x \in DOMAIN values' /\ values'[x] # "server"
      OBVIOUS
    <2>1. CASE RebuildLands
      <3>1. PICK b \in rebuilds :
              values' = values \/ values' = Merged(Seed(b, FALSE), values)
        BY <2>1 DEF RebuildLands
      <3>2. DOMAIN Merged(Seed(b, FALSE), values) = DOMAIN Seed(b, FALSE) \cup DOMAIN values
            /\ Merged(Seed(b, FALSE), values)[x] = values[x]
        BY DEF Merged
      <3> QED BY <3>1, <3>2
    <2>2. CASE EditField BY <2>2 DEF EditField
    <2>3. ~GenerationLands BY DEF GenerationLands
    <2>4. ~TestDataLands BY DEF TestDataLands
    <2>5. ~ClearMx BY DEF ClearMx
    <2>6. ~AddOptional(Section) /\ ~AddOptional(Leaf) /\ ~RemoveOptional BY DEF AddOptional, RemoveOptional
    <2>7. ~PickOptional /\ ~SearchAdd BY <2>6 DEF PickOptional, SearchAdd, SearchHits, Optionals
    <2> QED BY <2>1, <2>2, <2>3, <2>4, <2>5, <2>6, <2>7
         DEF MxNext, CataloguesLand, SelectEcosystem, ScenariosLand, SelectScenario,
             SelectVersion, HandleGenerateMx, LoadTestData
  <1> QED BY <1>1, PTL DEF MxSpec, EditsSurvive
=============================================================================
