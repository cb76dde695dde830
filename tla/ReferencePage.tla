----------------------------- MODULE ReferencePage -----------------------------
(***************************************************************************)
(* The ISO 20022 reference page: the tree of one message type, a search    *)
(* across types, and the navigation from a search hit to its field in the  *)
(* tree.  An action ends when React has run the effects of its render.     *)
(***************************************************************************)
EXTENDS Naturals, FiniteSets

CONSTANTS Types,        \* message types of the catalogue
          MaxFetches,   \* bound: trees and searches asked for
          NoType, NoField

ASSUME RefAssumption ==
  MaxFetches \in Nat /\ Types # {} /\ NoType \notin Types /\ NoField \notin {"MsgId"} \cup Types

VARIABLES
  refMode,                  \* "browse", "search"
  messageTypes,             \* "asked", "landed", "failed"
  selectedType, reference,  \* a tree is named by its type
  refLoading, refError,
  selectedField, selectedFieldMessageType,
  pendingField, highlighted,
  searchTerm, searchResults, selectedSearchField,
  fetches, fetched,         \* unanswered: <<serial, kind, of>>; asked so far
  refCalm                   \* history: no tree was asked over an open request

refPanel == <<selectedField, selectedFieldMessageType, highlighted>>
refSearch == <<searchTerm, searchResults, selectedSearchField>>
refQueries == <<refLoading, refError, fetches, fetched, refCalm>>
refVars == <<refMode, messageTypes, selectedType, reference, refPanel, pendingField,
             refSearch, refQueries>>

\* Every type has one field that all have, and one of its own.
FieldsOf(t) == {"MsgId", t}
RefFields == {"MsgId"} \cup Types

\* What a request asks for: a type's tree, or the hits of a term.
RefFetches == ((1 .. MaxFetches) \X {"tree"} \X Types) \cup ((1 .. MaxFetches) \X {"search"} \X RefFields)

\* The term "f" finds the field f alone.
Chips(f) == {t \in Types : f \in FieldsOf(t)}

RefInit ==
  /\ refMode = "browse" /\ messageTypes = "asked"
  /\ selectedType = NoType /\ reference = NoType
  /\ refLoading = FALSE /\ refError = FALSE
  /\ selectedField = NoField /\ selectedFieldMessageType = NoType /\ highlighted = NoField
  /\ pendingField = NoField
  /\ searchTerm = NoField /\ searchResults = NoField /\ selectedSearchField = NoField
  /\ fetches = {} /\ fetched = 0 /\ refCalm = TRUE

Fetch(kind, of) ==
  /\ fetched < MaxFetches /\ fetched' = fetched + 1
  /\ fetches' = fetches \cup {<<fetched', kind, of>>}
  /\ refLoading' = TRUE /\ refError' = FALSE
  /\ refCalm' = (refCalm /\ (kind = "tree" => fetches = {}))

\* The effect on [selectedType, mode]; no earlier request is cancelled.
FetchEffect ==
  IF <<selectedType, refMode>>' # <<selectedType, refMode>>
     /\ selectedType' # NoType /\ refMode' = "browse"
    THEN Fetch("tree", selectedType') /\ reference' = NoType
    ELSE UNCHANGED <<refQueries, reference>>

ClearSelection ==
  selectedField' = NoField /\ selectedFieldMessageType' = NoType /\ highlighted' = NoField

\* The resolver finds f in the tree of r, depth first, or drops the navigation;
\* a tab swap has cleared the owner before it runs.
Resolve(f, r, owner) ==
  /\ pendingField' = NoField
  /\ IF f \in FieldsOf(r)
       THEN selectedField' = f /\ selectedFieldMessageType' = r /\ highlighted' = f
       ELSE selectedField' = NoField /\ selectedFieldMessageType' = owner
            /\ UNCHANGED highlighted

\* The catalogue answers: its first type is selected, in whatever mode.
TypesLand ==
  /\ messageTypes = "asked" /\ messageTypes' = "landed"
  /\ selectedType' = CHOOSE t \in Types : TRUE
  /\ UNCHANGED <<refMode, refPanel, pendingField, refSearch>> /\ FetchEffect

TypesFail ==
  /\ messageTypes = "asked" /\ messageTypes' = "failed" /\ refError' = TRUE
  /\ UNCHANGED <<refMode, selectedType, reference, refPanel, pendingField, refSearch,
                 refLoading, fetches, fetched, refCalm>>

SetMode ==
  /\ refMode' \in {"browse", "search"} \ {refMode} /\ ClearSelection
  /\ UNCHANGED <<messageTypes, selectedType, pendingField, refSearch>> /\ FetchEffect

\* The families of the catalogue, or what a catalogue that failed leaves.
Selectable == IF messageTypes = "landed" THEN Types ELSE {}

\* The page's onSelect; a pending navigation stays.
SelectType(t) ==
  /\ selectedType' = t /\ ClearSelection
  /\ UNCHANGED <<refMode, messageTypes, pendingField, refSearch>> /\ FetchEffect

\* Family, id and version: each of the three selects ends in one onSelect.
PickType == refMode = "browse" /\ \E t \in Selectable : SelectType(t)

TreeShown == refMode = "browse" /\ reference # NoType /\ ~refLoading

\* The owner is the type of the selector, not of the tree.
SelectField ==
  /\ TreeShown /\ selectedField' \in FieldsOf(reference)
  /\ selectedFieldMessageType' = selectedType
  /\ UNCHANGED <<refMode, messageTypes, selectedType, reference, highlighted, pendingField,
                 refSearch, refQueries>>

\* The type that the panel names.
PanelType == IF selectedFieldMessageType = NoType THEN selectedType ELSE selectedFieldMessageType

\* The panel's button, or Escape.
ClosePanel ==
  /\ selectedField # NoField /\ selectedField' = NoField
  /\ UNCHANGED <<refMode, messageTypes, selectedType, reference, selectedFieldMessageType,
                 highlighted, pendingField, refSearch, refQueries>>

\* Three seconds after the field was found.
HighlightExpires ==
  /\ highlighted # NoField /\ highlighted' = NoField
  /\ UNCHANGED <<refMode, messageTypes, selectedType, reference, selectedField,
                 selectedFieldMessageType, pendingField, refSearch, refQueries>>

EditTerm ==
  /\ refMode = "search" /\ searchTerm' \in (RefFields \cup {NoField}) \ {searchTerm}
  /\ UNCHANGED <<refMode, messageTypes, selectedType, reference, refPanel, pendingField,
                 searchResults, selectedSearchField, refQueries>>

\* The button waits for loading; Enter does not.
RunSearch ==
  /\ refMode = "search" /\ searchTerm # NoField
  /\ Fetch("search", searchTerm) /\ searchResults' = NoField
  /\ UNCHANGED <<refMode, messageTypes, selectedType, reference, refPanel, pendingField,
                 searchTerm, selectedSearchField>>

\* The list of hits, or the types of the chosen one; the choice outlives the
\* results it was made in.
HitsShown == refMode = "search" /\ searchResults # NoField
ChipsShown == HitsShown /\ selectedSearchField = searchResults

\* A hit of the list, or Back.
SelectSearchField ==
  /\ HitsShown
  /\ selectedSearchField' = IF ChipsShown THEN NoField ELSE searchResults
  /\ UNCHANGED <<refMode, messageTypes, selectedType, reference, refPanel, pendingField,
                 searchTerm, searchResults, refQueries>>

\* A chip of the drill-down.  The resolver runs in the same commit as the fetch
\* effect, whose setReference(null) it does not see yet.
HandleNavigateToField ==
  /\ ChipsShown /\ refMode' = "browse" /\ selectedType' \in Chips(searchResults)
  /\ IF reference = NoType
       THEN ClearSelection /\ pendingField' = searchResults
       ELSE Resolve(searchResults, reference, NoType)
  /\ UNCHANGED <<messageTypes, refSearch>> /\ FetchEffect

\* Whatever type is selected by now, and in whatever mode.
TreeLands ==
  \E r \in {x \in fetches : x[2] = "tree"} :
    /\ fetches' = fetches \ {r} /\ reference' = r[3] /\ refLoading' = FALSE
    /\ IF pendingField = NoField THEN UNCHANGED <<refPanel, pendingField>>
       ELSE Resolve(pendingField, r[3], selectedFieldMessageType)
    /\ UNCHANGED <<refMode, messageTypes, selectedType, refSearch, refError, fetched, refCalm>>

SearchLands ==
  \E r \in {x \in fetches : x[2] = "search"} :
    /\ fetches' = fetches \ {r} /\ searchResults' = r[3] /\ refLoading' = FALSE
    /\ UNCHANGED <<refMode, messageTypes, selectedType, reference, refPanel, pendingField,
                   searchTerm, selectedSearchField, refError, fetched, refCalm>>

\* A navigation under way stays pending.
FetchFails ==
  \E r \in fetches :
    /\ fetches' = fetches \ {r} /\ refError' = TRUE /\ refLoading' = FALSE
    /\ UNCHANGED <<refMode, messageTypes, selectedType, reference, refPanel, pendingField,
                   refSearch, fetched, refCalm>>

RefNext ==
  \/ TypesLand \/ TypesFail \/ SetMode \/ PickType \/ SelectField \/ ClosePanel
  \/ HighlightExpires \/ EditTerm \/ RunSearch \/ SelectSearchField
  \/ HandleNavigateToField \/ TreeLands \/ SearchLands \/ FetchFails
RefSpec == RefInit /\ [][RefNext]_refVars

-----------------------------------------------------------------------------
RefFlagsOK == refLoading \in BOOLEAN /\ refError \in BOOLEAN /\ refCalm \in BOOLEAN

RefTypeOK ==
  /\ refMode \in {"browse", "search"} /\ messageTypes \in {"asked", "landed", "failed"}
  /\ selectedType \in Types \cup {NoType} /\ reference \in Types \cup {NoType}
  /\ selectedFieldMessageType \in Types \cup {NoType}
  /\ {selectedField, pendingField, highlighted} \subseteq RefFields \cup {NoField}
  /\ {searchTerm, searchResults, selectedSearchField} \subseteq RefFields \cup {NoField}
  /\ RefFlagsOK /\ fetched \in 0 .. MaxFetches /\ fetches \subseteq RefFetches

\* While no tree is asked for over an open request, the browse tab that has no
\* request open and no error shows the tree of the type its selector shows,
\* whichever tab the type was chosen from.
CalmTreeMatches ==
  refCalm /\ fetches = {} /\ ~refError /\ refMode = "browse" => reference = selectedType

\* "Resolves a pending field-name navigation once the message reference has been
\* loaded": a navigation is never left pending beside a tree.
PendingAwaitsTree == pendingField # NoField => reference = NoType
=============================================================================
