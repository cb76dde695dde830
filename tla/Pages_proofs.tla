----------------------------- MODULE Pages_proofs -----------------------------
(* Theorems about the pages of the console: the inductive invariant of     *)
(* each page that Iso8583Pages_proofs leaves, and what MCPages checks of   *)
(* all of them, for every value of the constants.                          *)
EXTENDS MCPages, Iso8583Pages_proofs, FiniteSetTheorems

(***************************************************************************)
(* XmlParserPage: answers and requests are of the text shown.              *)
(***************************************************************************)
\* Requests are numbered as they are made; while no text was changed over an open one,
\* each is of the text in the box.
RequestsNumbered ==
  /\ \A r \in xmlRequests : r[1] <= requested
  /\ observed["parse"] <= requested
CalmRequestsAreOfText == xmlCalm => \A r \in xmlRequests : r[3] = xml

XmlInv ==
  /\ XmlFlagsOK /\ XmlTypeOK /\ RequestsNumbered /\ CalmRequestsAreOfText
  /\ CalmAnswersAreOfText /\ ParsePendingIsOfText

\* A mutation of any kind is of the text in the box and has a number of its own.
LEMMA XmlAsked ==
  ASSUME XmlInv, NEW k \in Kinds, NEW t \in Returns \cup {NoXml}, MutateXml(k, t)
  PROVE  XmlInv'
  <1>0. XmlFlagsOK /\ XmlTypeOK /\ RequestsNumbered /\ CalmRequestsAreOfText
        /\ CalmAnswersAreOfText /\ ParsePendingIsOfText
    BY DEF XmlInv
  <1>1. /\ requested' = requested + 1 /\ requested' \in 1 .. MaxRequests
        /\ xmlRequests' = xmlRequests \cup {<<requested', k, xml, t>>}
        /\ observed' = [observed EXCEPT ![k] = requested'] /\ xmlErrors' \subseteq Kinds
        /\ UNCHANGED <<xml, xmlResult, validation, returnResult, returnModalOpen,
                       comparatorOpen, catalogue, xmlCalm>>
    BY <1>0, XmlAssumption DEF MutateXml, XmlTypeOK, xmlAnswers, xmlDialogs
  <1>2. <<requested', k, xml, t>> \in XmlRequests BY <1>0, <1>1 DEF XmlTypeOK, XmlRequests
  <1>3. XmlFlagsOK' BY <1>0, <1>1 DEF XmlFlagsOK
  <1>4. observed' \in [Kinds -> 0 .. MaxRequests] BY <1>0, <1>1 DEF XmlTypeOK
  <1>5. XmlTypeOK' BY <1>0, <1>1, <1>2, <1>3, <1>4, XmlAssumption DEF XmlTypeOK
  <1>6. \A r \in xmlRequests : r[1] \in 1 .. requested
    BY <1>0 DEF XmlTypeOK, XmlRequests, RequestsNumbered
  <1>7. "parse" \in Kinds BY DEF Kinds
  <1>8. RequestsNumbered' BY <1>0, <1>1, <1>6, <1>7 DEF RequestsNumbered, XmlTypeOK
  <1>9. CalmRequestsAreOfText' BY <1>0, <1>1 DEF CalmRequestsAreOfText
  <1>10. CalmAnswersAreOfText' BY <1>0, <1>1 DEF CalmAnswersAreOfText
  <1>11. ParsePendingIsOfText'
    BY <1>0, <1>1, <1>6, <1>7 DEF ParsePendingIsOfText, XmlTypeOK, RequestsNumbered
  <1> QED BY <1>3, <1>5, <1>8, <1>9, <1>10, <1>11 DEF XmlInv

\* The invariant holds of the parser as it opens.
LEMMA XmlInitially == XmlInit => XmlInv
  <1> SUFFICES ASSUME XmlInit PROVE XmlInv OBVIOUS
  <1>1. XmlFlagsOK BY DEF XmlFlagsOK, XmlInit
  <1>2. XmlTypeOK BY XmlAssumption, <1>1 DEF XmlTypeOK, XmlInit
  <1>3. RequestsNumbered BY DEF RequestsNumbered, XmlInit, Kinds
  <1>4. CalmRequestsAreOfText BY DEF CalmRequestsAreOfText, XmlInit
  <1>5. CalmAnswersAreOfText BY DEF CalmAnswersAreOfText, XmlInit
  <1>6. ParsePendingIsOfText BY DEF ParsePendingIsOfText, XmlInit
  <1> QED BY <1>1, <1>2, <1>3, <1>4, <1>5, <1>6 DEF XmlInv

\* Every step of the parser keeps the invariant.
LEMMA XmlStep == XmlInv /\ [XmlNext]_xmlVars => XmlInv'
  <1> SUFFICES ASSUME XmlInv, [XmlNext]_xmlVars PROVE XmlInv' OBVIOUS
  <1>0. XmlFlagsOK /\ XmlTypeOK /\ RequestsNumbered /\ CalmRequestsAreOfText /\ CalmAnswersAreOfText /\ ParsePendingIsOfText
    BY DEF XmlInv
  <1>1. CASE HandleXmlChange
    <2>1. \A r \in xmlRequests : r[1] \in Nat /\ r[1] # 0 BY <1>0 DEF XmlTypeOK, XmlRequests
    <2>2. "parse" \in Kinds BY DEF Kinds
    <2>3. XmlFlagsOK'
      BY <1>0, <1>1, <2>1, <2>2
      DEF XmlFlagsOK, ResetParse, InDialog, XmlTypeOK, HandleXmlChange, xmlAnswers, xmlDialogs, xmlCalls
    <2>4. XmlTypeOK'
      BY <1>0, <1>1, <2>1, <2>2, XmlAssumption, <2>3
      DEF XmlTypeOK, ResetParse, InDialog, HandleXmlChange, xmlAnswers, xmlDialogs, xmlCalls
    <2>5. RequestsNumbered'
      BY <1>0, <1>1, <2>1, <2>2
      DEF RequestsNumbered, ResetParse, InDialog, XmlTypeOK, HandleXmlChange, xmlAnswers, xmlDialogs, xmlCalls
    <2>6. CalmRequestsAreOfText'
      BY <1>0, <1>1, <2>1, <2>2
      DEF CalmRequestsAreOfText, ResetParse, InDialog, XmlTypeOK, HandleXmlChange, xmlAnswers, xmlDialogs, xmlCalls
    <2>7. CalmAnswersAreOfText'
      BY <1>0, <1>1, <2>1, <2>2
      DEF CalmAnswersAreOfText, ResetParse, InDialog, XmlTypeOK, HandleXmlChange, xmlAnswers, xmlDialogs, xmlCalls
    <2>8. ParsePendingIsOfText'
      BY <1>0, <1>1, <2>1, <2>2
      DEF ParsePendingIsOfText, ResetParse, InDialog, XmlTypeOK, HandleXmlChange, xmlAnswers, xmlDialogs, xmlCalls
    <2> QED BY <2>3, <2>4, <2>5, <2>6, <2>7, <2>8 DEF XmlInv
  <1>2. CASE HandleClearXml
    <2>1. \A r \in xmlRequests : r[1] \in Nat /\ r[1] # 0 BY <1>0 DEF XmlTypeOK, XmlRequests
    <2>2. "parse" \in Kinds BY DEF Kinds
    <2>3. XmlFlagsOK'
      BY <1>0, <1>2, <2>1, <2>2
      DEF XmlFlagsOK, ResetParse, InDialog, XmlTypeOK, HandleClearXml, xmlAnswers, xmlDialogs, xmlCalls
    <2>4. XmlTypeOK'
      BY <1>0, <1>2, <2>1, <2>2, XmlAssumption, <2>3
      DEF XmlTypeOK, ResetParse, InDialog, HandleClearXml, xmlAnswers, xmlDialogs, xmlCalls
    <2>5. RequestsNumbered'
      BY <1>0, <1>2, <2>1, <2>2
      DEF RequestsNumbered, ResetParse, InDialog, XmlTypeOK, HandleClearXml, xmlAnswers, xmlDialogs, xmlCalls
    <2>6. CalmRequestsAreOfText'
      BY <1>0, <1>2, <2>1, <2>2
      DEF CalmRequestsAreOfText, ResetParse, InDialog, XmlTypeOK, HandleClearXml, xmlAnswers, xmlDialogs, xmlCalls
    <2>7. CalmAnswersAreOfText'
      BY <1>0, <1>2, <2>1, <2>2
      DEF CalmAnswersAreOfText, ResetParse, InDialog, XmlTypeOK, HandleClearXml, xmlAnswers, xmlDialogs, xmlCalls
    <2>8. ParsePendingIsOfText'
      BY <1>0, <1>2, <2>1, <2>2
      DEF ParsePendingIsOfText, ResetParse, InDialog, XmlTypeOK, HandleClearXml, xmlAnswers, xmlDialogs, xmlCalls
    <2> QED BY <2>3, <2>4, <2>5, <2>6, <2>7, <2>8 DEF XmlInv
  <1>3. CASE ParseXml
    <2>1. "parse" \in Kinds BY DEF Kinds
    <2> QED BY <1>3, <2>1, XmlAsked, XmlAssumption DEF ParseXml
  <1>4. CASE ValidateXml
    <2>1. "validate" \in Kinds BY DEF Kinds
    <2> QED BY <1>4, <2>1, XmlAsked, XmlAssumption DEF ValidateXml
  <1>5. CASE GenerateReturn
    <2>1. "return" \in Kinds /\ (CHOOSE t \in Returns : TRUE) \in Returns BY XmlAssumption DEF Kinds
    <2> QED BY <1>5, <2>1, XmlAsked DEF GenerateReturn
  <1>6. CASE SwitchReturnType
    <2>1. "return" \in Kinds BY DEF Kinds
    <2> QED BY <1>6, <2>1, XmlAsked, XmlAssumption DEF SwitchReturnType
  <1>7. CASE CloseReturn
    <2>1. XmlFlagsOK' BY <1>0, <1>7 DEF XmlFlagsOK, CloseReturn, xmlAnswers, xmlDialogs, xmlCalls
    <2>2. XmlTypeOK'
      BY <1>0, <1>7, XmlAssumption, <2>1
      DEF XmlTypeOK, CloseReturn, xmlAnswers, xmlDialogs, xmlCalls
    <2>3. RequestsNumbered'
      BY <1>0, <1>7
      DEF RequestsNumbered, CloseReturn, xmlAnswers, xmlDialogs, xmlCalls
    <2>4. CalmRequestsAreOfText'
      BY <1>0, <1>7
      DEF CalmRequestsAreOfText, CloseReturn, xmlAnswers, xmlDialogs, xmlCalls
    <2>5. CalmAnswersAreOfText'
      BY <1>0, <1>7
      DEF CalmAnswersAreOfText, CloseReturn, xmlAnswers, xmlDialogs, xmlCalls
    <2>6. ParsePendingIsOfText'
      BY <1>0, <1>7
      DEF ParsePendingIsOfText, CloseReturn, xmlAnswers, xmlDialogs, xmlCalls
    <2> QED BY <2>1, <2>2, <2>3, <2>4, <2>5, <2>6 DEF XmlInv
  <1>8. CASE ToggleComparator
    <2>1. XmlFlagsOK'
      BY <1>0, <1>8
      DEF XmlFlagsOK, ToggleComparator, xmlAnswers, xmlDialogs, xmlCalls
    <2>2. XmlTypeOK'
      BY <1>0, <1>8, XmlAssumption, <2>1
      DEF XmlTypeOK, ToggleComparator, xmlAnswers, xmlDialogs, xmlCalls
    <2>3. RequestsNumbered'
      BY <1>0, <1>8
      DEF RequestsNumbered, ToggleComparator, xmlAnswers, xmlDialogs, xmlCalls
    <2>4. CalmRequestsAreOfText'
      BY <1>0, <1>8
      DEF CalmRequestsAreOfText, ToggleComparator, xmlAnswers, xmlDialogs, xmlCalls
    <2>5. CalmAnswersAreOfText'
      BY <1>0, <1>8
      DEF CalmAnswersAreOfText, ToggleComparator, xmlAnswers, xmlDialogs, xmlCalls
    <2>6. ParsePendingIsOfText'
      BY <1>0, <1>8
      DEF ParsePendingIsOfText, ToggleComparator, xmlAnswers, xmlDialogs, xmlCalls
    <2> QED BY <2>1, <2>2, <2>3, <2>4, <2>5, <2>6 DEF XmlInv
  <1>9. CASE CatalogueLands
    <2>1. XmlFlagsOK' BY <1>0, <1>9 DEF XmlFlagsOK, CatalogueLands, xmlAnswers, xmlDialogs, xmlCalls
    <2>2. XmlTypeOK'
      BY <1>0, <1>9, XmlAssumption, <2>1
      DEF XmlTypeOK, CatalogueLands, xmlAnswers, xmlDialogs, xmlCalls
    <2>3. RequestsNumbered'
      BY <1>0, <1>9
      DEF RequestsNumbered, CatalogueLands, xmlAnswers, xmlDialogs, xmlCalls
    <2>4. CalmRequestsAreOfText'
      BY <1>0, <1>9
      DEF CalmRequestsAreOfText, CatalogueLands, xmlAnswers, xmlDialogs, xmlCalls
    <2>5. CalmAnswersAreOfText'
      BY <1>0, <1>9
      DEF CalmAnswersAreOfText, CatalogueLands, xmlAnswers, xmlDialogs, xmlCalls
    <2>6. ParsePendingIsOfText'
      BY <1>0, <1>9
      DEF ParsePendingIsOfText, CatalogueLands, xmlAnswers, xmlDialogs, xmlCalls
    <2> QED BY <2>1, <2>2, <2>3, <2>4, <2>5, <2>6 DEF XmlInv
  <1>10. CASE RequestSucceeds
    <2>1. PICK r \in xmlRequests :
            /\ xmlRequests' = xmlRequests \ {r}
            /\ \/ r[2] = "parse" /\ xmlResult' = r[3] /\ UNCHANGED <<validation, returnResult, returnModalOpen>>
               \/ r[2] = "validate" /\ validation' = r[3] /\ UNCHANGED <<xmlResult, returnResult, returnModalOpen>>
               \/ /\ r[2] = "return" /\ returnResult' = <<r[3], r[4]>> /\ returnModalOpen' = TRUE
                  /\ UNCHANGED <<xmlResult, validation>>
            /\ UNCHANGED <<xml, comparatorOpen, catalogue, observed, xmlErrors, requested, xmlCalm>>
      BY <1>10 DEF RequestSucceeds
    <2>2. r[3] \in Xmls \cup {NoXml} /\ r[4] \in Returns \cup {NoXml}
      BY <1>0 DEF XmlTypeOK, XmlRequests
    <2>3. /\ xmlResult' \in {xmlResult, r[3]} /\ validation' \in {validation, r[3]}
          /\ \/ UNCHANGED <<returnResult, returnModalOpen>>
             \/ returnResult' = <<r[3], r[4]>> /\ returnModalOpen' = TRUE
      BY <2>1
    <2>4. XmlFlagsOK' BY <1>0, <2>1, <2>3 DEF XmlFlagsOK
    <2>5. returnResult'[1] \in Xmls \cup {NoXml} /\ returnResult'[2] \in Returns \cup {NoXml}
      BY <1>0, <2>2, <2>3 DEF XmlTypeOK
    <2>6. XmlTypeOK' BY <1>0, <2>1, <2>2, <2>3, <2>4, <2>5 DEF XmlTypeOK
    <2>7. RequestsNumbered' BY <1>0, <2>1 DEF RequestsNumbered
    <2>8. CalmRequestsAreOfText' BY <1>0, <2>1 DEF CalmRequestsAreOfText
    <2>9. CalmAnswersAreOfText' BY <1>0, <2>1, <2>3 DEF CalmRequestsAreOfText, CalmAnswersAreOfText
    <2>10. ParsePendingIsOfText' BY <1>0, <2>1 DEF ParsePendingIsOfText
    <2> QED BY <2>4, <2>6, <2>7, <2>8, <2>9, <2>10 DEF XmlInv
  <1>11. CASE RequestFails
    <2>1. \A r \in xmlRequests : r[2] \in Kinds BY <1>0 DEF XmlTypeOK, XmlRequests
    <2>2. XmlFlagsOK'
      BY <1>0, <1>11, <2>1
      DEF XmlFlagsOK, RequestFails, xmlAnswers, xmlDialogs, xmlCalls
    <2>3. XmlTypeOK'
      BY <1>0, <1>11, <2>1, XmlAssumption, <2>2
      DEF XmlTypeOK, RequestFails, xmlAnswers, xmlDialogs, xmlCalls
    <2>4. RequestsNumbered'
      BY <1>0, <1>11, <2>1
      DEF RequestsNumbered, RequestFails, xmlAnswers, xmlDialogs, xmlCalls
    <2>5. CalmRequestsAreOfText'
      BY <1>0, <1>11, <2>1
      DEF CalmRequestsAreOfText, RequestFails, xmlAnswers, xmlDialogs, xmlCalls
    <2>6. CalmAnswersAreOfText'
      BY <1>0, <1>11, <2>1
      DEF CalmAnswersAreOfText, RequestFails, xmlAnswers, xmlDialogs, xmlCalls
    <2>7. ParsePendingIsOfText'
      BY <1>0, <1>11, <2>1
      DEF ParsePendingIsOfText, RequestFails, xmlAnswers, xmlDialogs, xmlCalls
    <2> QED BY <2>2, <2>3, <2>4, <2>5, <2>6, <2>7 DEF XmlInv
  <1>12. CASE UNCHANGED xmlVars
    <2> USE <1>12 DEF xmlVars, xmlAnswers, xmlDialogs, xmlCalls
    <2>1. XmlFlagsOK' BY <1>0 DEF XmlFlagsOK
    <2>2. XmlTypeOK' BY <1>0, <2>1 DEF XmlTypeOK
    <2>3. RequestsNumbered' BY <1>0 DEF RequestsNumbered
    <2>4. CalmRequestsAreOfText' BY <1>0 DEF CalmRequestsAreOfText
    <2>5. CalmAnswersAreOfText' BY <1>0 DEF CalmAnswersAreOfText
    <2>6. ParsePendingIsOfText' BY <1>0 DEF ParsePendingIsOfText
    <2> QED BY <2>1, <2>2, <2>3, <2>4, <2>5, <2>6 DEF XmlInv
  <1> QED BY <1>1, <1>2, <1>3, <1>4, <1>5, <1>6, <1>7, <1>8, <1>9, <1>10, <1>11, <1>12 DEF XmlNext

(***************************************************************************)
(* ReferencePage: the tree shown is of the type selected.                  *)
(***************************************************************************)
\* Before a type is selected no tree is asked for and none is shown.
UnselectedIsEmpty ==
  selectedType = NoType => reference = NoType /\ \A r \in fetches : r[2] # "tree"

\* In the browse tab all that is asked is the tree of the type selected, and with nothing
\* asked it is the one shown, or an error is.
CalmAsksSelected ==
  refCalm /\ refMode = "browse" /\ selectedType # NoType =>
    /\ \A r \in fetches : r[2] = "tree" /\ r[3] = selectedType
    /\ fetches = {} => refError \/ reference = selectedType

RefInv ==
  /\ RefFlagsOK /\ RefTypeOK /\ PendingAwaitsTree /\ UnselectedIsEmpty /\ CalmAsksSelected

\* The invariant gives what the run checks.
LEMMA RefParts == RefInv => CalmTreeMatches
  BY DEF RefInv, CalmTreeMatches, UnselectedIsEmpty, CalmAsksSelected

\* What a request that is made leaves.
LEMMA FetchMade ==
  ASSUME RefFlagsOK, RefTypeOK, NEW k, NEW t, Fetch(k, t),
         (k = "tree" /\ t \in Types) \/ (k = "search" /\ t \in RefFields)
  PROVE  /\ fetched' \in 0 .. MaxFetches /\ fetches' \subseteq RefFetches
         /\ fetches' = fetches \cup {<<fetched', k, t>>}
         /\ refLoading' = TRUE /\ refError' = FALSE /\ refCalm' \in BOOLEAN
         /\ refCalm' => refCalm /\ (k = "tree" => fetches = {})
  <1>1. /\ fetched' = fetched + 1 /\ fetched' \in 1 .. MaxFetches
        /\ fetches' = fetches \cup {<<fetched', k, t>>}
    BY RefAssumption DEF Fetch, RefTypeOK
  <1>2. refLoading' = TRUE /\ refError' = FALSE /\ refCalm' = (refCalm /\ (k = "tree" => fetches = {}))
    BY DEF Fetch
  <1>3. <<fetched', k, t>> \in RefFetches BY <1>1 DEF RefFetches
  <1>4. fetches' \subseteq RefFetches BY <1>1, <1>3 DEF RefTypeOK
  <1>5. refCalm' \in BOOLEAN BY <1>2 DEF RefFlagsOK
  <1>6. refCalm' => refCalm /\ (k = "tree" => fetches = {}) BY <1>2
  <1> QED BY <1>1, <1>2, <1>4, <1>5, <1>6

\* The effect keeps what the page asks and shows to the type that is selected next.
LEMMA EffectFollows ==
  ASSUME RefInv, FetchEffect, selectedType' \in Types \/ selectedType' = selectedType,
         refMode' \in {"browse", "search"}
  PROVE  /\ RefFlagsOK' /\ UnselectedIsEmpty' /\ CalmAsksSelected'
         /\ reference' \in {reference, NoType}
         /\ selectedType' \in Types \cup {NoType} /\ reference' \in Types \cup {NoType}
         /\ fetched' \in 0 .. MaxFetches /\ fetches' \subseteq RefFetches
  <1>0. RefFlagsOK /\ RefTypeOK /\ UnselectedIsEmpty /\ CalmAsksSelected BY DEF RefInv
  <1>1. selectedType' \in Types \cup {NoType} BY <1>0 DEF RefTypeOK
  <1>2. CASE /\ <<selectedType, refMode>>' # <<selectedType, refMode>>
             /\ selectedType' # NoType /\ refMode' = "browse"
    <2>1. Fetch("tree", selectedType') /\ reference' = NoType BY <1>2 DEF FetchEffect
    <2>2. selectedType' \in Types BY <1>1, <1>2
    <2>3. /\ fetched' \in 0 .. MaxFetches /\ fetches' \subseteq RefFetches
          /\ fetches' = fetches \cup {<<fetched', "tree", selectedType'>>}
          /\ refLoading' = TRUE /\ refError' = FALSE /\ refCalm' \in BOOLEAN
          /\ refCalm' => fetches = {}
      BY <1>0, <2>1, <2>2, FetchMade
    <2>4. RefFlagsOK' BY <2>3 DEF RefFlagsOK
    <2>5. UnselectedIsEmpty' BY <1>2 DEF UnselectedIsEmpty
    <2>6. CalmAsksSelected'
      <3>1. refCalm' => fetches' = {<<fetched', "tree", selectedType'>>} BY <2>3
      <3>2. <<fetched', "tree", selectedType'>>[2] = "tree" /\ <<fetched', "tree", selectedType'>>[3] = selectedType'
        OBVIOUS
      <3> QED BY <3>1, <3>2 DEF CalmAsksSelected
    <2> QED BY <1>1, <2>1, <2>3, <2>4, <2>5, <2>6
  <1>3. CASE ~(/\ <<selectedType, refMode>>' # <<selectedType, refMode>>
               /\ selectedType' # NoType /\ refMode' = "browse")
    <2>1. UNCHANGED <<refLoading, refError, fetches, fetched, refCalm, reference>>
      BY <1>3 DEF FetchEffect, refQueries
    <2>2. RefFlagsOK' BY <1>0, <2>1 DEF RefFlagsOK
    <2>3. UnselectedIsEmpty' BY <1>0, <1>1, <2>1, RefAssumption DEF UnselectedIsEmpty
    <2>4. CalmAsksSelected' BY <1>0, <1>3, <2>1 DEF CalmAsksSelected
    <2> QED BY <1>0, <1>1, <2>1, <2>2, <2>3, <2>4 DEF RefTypeOK
  <1> QED BY <1>2, <1>3

\* What the resolver leaves of the panel.
LEMMA ResolverLeaves ==
  ASSUME RefTypeOK, NEW f \in RefFields, NEW r \in Types, NEW o \in Types \cup {NoType},
         Resolve(f, r, o)
  PROVE  /\ pendingField' = NoField
         /\ {selectedField', highlighted'} \subseteq RefFields \cup {NoField}
         /\ selectedFieldMessageType' \in Types \cup {NoType}
  BY DEF Resolve, RefTypeOK

\* The invariant holds with nothing selected.
LEMMA RefInitially == RefInit => RefInv
  <1> SUFFICES ASSUME RefInit PROVE RefInv OBVIOUS
  <1>1. RefFlagsOK BY DEF RefFlagsOK, RefInit
  <1>2. RefTypeOK BY RefAssumption, <1>1 DEF RefTypeOK, RefInit
  <1>3. PendingAwaitsTree BY DEF PendingAwaitsTree, RefInit
  <1>4. UnselectedIsEmpty BY DEF UnselectedIsEmpty, RefInit
  <1>5. CalmAsksSelected BY DEF CalmAsksSelected, RefInit
  <1> QED BY <1>1, <1>2, <1>3, <1>4, <1>5 DEF RefInv

\* Every step of the reference keeps the invariant.
LEMMA RefStep == RefInv /\ [RefNext]_refVars => RefInv'
  <1> SUFFICES ASSUME RefInv, [RefNext]_refVars PROVE RefInv' OBVIOUS
  <1>0. RefFlagsOK /\ RefTypeOK /\ PendingAwaitsTree /\ UnselectedIsEmpty /\ CalmAsksSelected
    BY DEF RefInv
  <1>1. CASE TypesLand
    <2>1. /\ FetchEffect /\ selectedType' \in Types /\ messageTypes' = "landed" /\ refMode' = refMode
          /\ UNCHANGED <<selectedField, selectedFieldMessageType, highlighted, pendingField,
                         searchTerm, searchResults, selectedSearchField>>
          /\ refMode' \in {"browse", "search"}
      BY <1>0, <1>1, RefAssumption DEF TypesLand, refPanel, refSearch, refQueries, RefTypeOK, ClearSelection
    <2>2. /\ RefFlagsOK' /\ UnselectedIsEmpty' /\ CalmAsksSelected'
          /\ reference' \in {reference, NoType}
          /\ selectedType' \in Types \cup {NoType} /\ reference' \in Types \cup {NoType}
          /\ fetched' \in 0 .. MaxFetches /\ fetches' \subseteq RefFetches
      BY <2>1, EffectFollows DEF RefInv
    <2>3. RefFlagsOK' BY <2>2
    <2>4. RefTypeOK' BY <1>0, <2>1, <2>2, RefAssumption, <2>3 DEF RefTypeOK
    <2>5. PendingAwaitsTree' BY <1>0, <2>1, <2>2 DEF PendingAwaitsTree
    <2>6. UnselectedIsEmpty' BY <2>2
    <2>7. CalmAsksSelected' BY <2>2
    <2> QED BY <2>3, <2>4, <2>5, <2>6, <2>7 DEF RefInv
  <1>2. CASE TypesFail
    <2>1. RefFlagsOK' BY <1>0, <1>2 DEF RefFlagsOK, TypesFail, refPanel, refSearch, refQueries
    <2>2. RefTypeOK'
      BY <1>0, <1>2, RefAssumption, <2>1
      DEF RefTypeOK, TypesFail, refPanel, refSearch, refQueries
    <2>3. PendingAwaitsTree'
      BY <1>0, <1>2
      DEF PendingAwaitsTree, TypesFail, refPanel, refSearch, refQueries
    <2>4. UnselectedIsEmpty'
      BY <1>0, <1>2
      DEF UnselectedIsEmpty, TypesFail, refPanel, refSearch, refQueries
    <2>5. CalmAsksSelected'
      BY <1>0, <1>2
      DEF CalmAsksSelected, TypesFail, refPanel, refSearch, refQueries
    <2> QED BY <2>1, <2>2, <2>3, <2>4, <2>5 DEF RefInv
  <1>3. CASE SetMode
    <2>1. /\ FetchEffect /\ selectedType' = selectedType /\ messageTypes' = messageTypes
          /\ refMode' \in {"browse", "search"}
          /\ selectedField' = NoField /\ selectedFieldMessageType' = NoType /\ highlighted' = NoField
          /\ UNCHANGED <<pendingField, searchTerm, searchResults, selectedSearchField>>
      BY <1>0, <1>3, RefAssumption DEF SetMode, refPanel, refSearch, refQueries, RefTypeOK, ClearSelection
    <2>2. /\ RefFlagsOK' /\ UnselectedIsEmpty' /\ CalmAsksSelected'
          /\ reference' \in {reference, NoType}
          /\ selectedType' \in Types \cup {NoType} /\ reference' \in Types \cup {NoType}
          /\ fetched' \in 0 .. MaxFetches /\ fetches' \subseteq RefFetches
      BY <2>1, EffectFollows DEF RefInv
    <2>3. RefFlagsOK' BY <2>2
    <2>4. RefTypeOK' BY <1>0, <2>1, <2>2, RefAssumption, <2>3 DEF RefTypeOK
    <2>5. PendingAwaitsTree' BY <1>0, <2>1, <2>2 DEF PendingAwaitsTree
    <2>6. UnselectedIsEmpty' BY <2>2
    <2>7. CalmAsksSelected' BY <2>2
    <2> QED BY <2>3, <2>4, <2>5, <2>6, <2>7 DEF RefInv
  <1>4. CASE PickType
    <2>1. /\ FetchEffect /\ selectedType' \in Types /\ messageTypes' = messageTypes
          /\ refMode' = refMode /\ refMode' \in {"browse", "search"}
          /\ selectedField' = NoField /\ selectedFieldMessageType' = NoType /\ highlighted' = NoField
          /\ UNCHANGED <<pendingField, searchTerm, searchResults, selectedSearchField>>
      BY <1>0, <1>4, RefAssumption DEF PickType, refPanel, refSearch, refQueries, RefTypeOK, ClearSelection, Selectable, SelectType
    <2>2. /\ RefFlagsOK' /\ UnselectedIsEmpty' /\ CalmAsksSelected'
          /\ reference' \in {reference, NoType}
          /\ selectedType' \in Types \cup {NoType} /\ reference' \in Types \cup {NoType}
          /\ fetched' \in 0 .. MaxFetches /\ fetches' \subseteq RefFetches
      BY <2>1, EffectFollows DEF RefInv
    <2>3. RefFlagsOK' BY <2>2
    <2>4. RefTypeOK' BY <1>0, <2>1, <2>2, RefAssumption, <2>3 DEF RefTypeOK
    <2>5. PendingAwaitsTree' BY <1>0, <2>1, <2>2 DEF PendingAwaitsTree
    <2>6. UnselectedIsEmpty' BY <2>2
    <2>7. CalmAsksSelected' BY <2>2
    <2> QED BY <2>3, <2>4, <2>5, <2>6, <2>7 DEF RefInv
  <1>5. CASE SelectField
    <2>1. RefFlagsOK'
      BY <1>0, <1>5
      DEF RefFlagsOK, TreeShown, FieldsOf, RefFields, SelectField, refPanel, refSearch, refQueries
    <2>2. RefTypeOK'
      BY <1>0, <1>5, RefAssumption, <2>1
      DEF RefTypeOK, TreeShown, FieldsOf, RefFields, SelectField, refPanel, refSearch, refQueries
    <2>3. PendingAwaitsTree'
      BY <1>0, <1>5
      DEF PendingAwaitsTree, TreeShown, FieldsOf, RefFields, SelectField, refPanel, refSearch, refQueries
    <2>4. UnselectedIsEmpty'
      BY <1>0, <1>5
      DEF UnselectedIsEmpty, TreeShown, FieldsOf, RefFields, SelectField, refPanel, refSearch, refQueries
    <2>5. CalmAsksSelected'
      BY <1>0, <1>5
      DEF CalmAsksSelected, TreeShown, FieldsOf, RefFields, SelectField, refPanel, refSearch, refQueries
    <2> QED BY <2>1, <2>2, <2>3, <2>4, <2>5 DEF RefInv
  <1>6. CASE ClosePanel
    <2>1. RefFlagsOK' BY <1>0, <1>6 DEF RefFlagsOK, ClosePanel, refPanel, refSearch, refQueries
    <2>2. RefTypeOK'
      BY <1>0, <1>6, RefAssumption, <2>1
      DEF RefTypeOK, ClosePanel, refPanel, refSearch, refQueries
    <2>3. PendingAwaitsTree'
      BY <1>0, <1>6
      DEF PendingAwaitsTree, ClosePanel, refPanel, refSearch, refQueries
    <2>4. UnselectedIsEmpty'
      BY <1>0, <1>6
      DEF UnselectedIsEmpty, ClosePanel, refPanel, refSearch, refQueries
    <2>5. CalmAsksSelected'
      BY <1>0, <1>6
      DEF CalmAsksSelected, ClosePanel, refPanel, refSearch, refQueries
    <2> QED BY <2>1, <2>2, <2>3, <2>4, <2>5 DEF RefInv
  <1>7. CASE HighlightExpires
    <2>1. RefFlagsOK'
      BY <1>0, <1>7
      DEF RefFlagsOK, HighlightExpires, refPanel, refSearch, refQueries
    <2>2. RefTypeOK'
      BY <1>0, <1>7, RefAssumption, <2>1
      DEF RefTypeOK, HighlightExpires, refPanel, refSearch, refQueries
    <2>3. PendingAwaitsTree'
      BY <1>0, <1>7
      DEF PendingAwaitsTree, HighlightExpires, refPanel, refSearch, refQueries
    <2>4. UnselectedIsEmpty'
      BY <1>0, <1>7
      DEF UnselectedIsEmpty, HighlightExpires, refPanel, refSearch, refQueries
    <2>5. CalmAsksSelected'
      BY <1>0, <1>7
      DEF CalmAsksSelected, HighlightExpires, refPanel, refSearch, refQueries
    <2> QED BY <2>1, <2>2, <2>3, <2>4, <2>5 DEF RefInv
  <1>8. CASE EditTerm
    <2>1. RefFlagsOK' BY <1>0, <1>8 DEF RefFlagsOK, EditTerm, refPanel, refSearch, refQueries
    <2>2. RefTypeOK'
      BY <1>0, <1>8, RefAssumption, <2>1
      DEF RefTypeOK, EditTerm, refPanel, refSearch, refQueries
    <2>3. PendingAwaitsTree'
      BY <1>0, <1>8
      DEF PendingAwaitsTree, EditTerm, refPanel, refSearch, refQueries
    <2>4. UnselectedIsEmpty'
      BY <1>0, <1>8
      DEF UnselectedIsEmpty, EditTerm, refPanel, refSearch, refQueries
    <2>5. CalmAsksSelected'
      BY <1>0, <1>8
      DEF CalmAsksSelected, EditTerm, refPanel, refSearch, refQueries
    <2> QED BY <2>1, <2>2, <2>3, <2>4, <2>5 DEF RefInv
  <1>9. CASE RunSearch
    <2>1. /\ refMode = "search" /\ searchTerm \in RefFields /\ searchResults' = NoField
          /\ Fetch("search", searchTerm)
          /\ UNCHANGED <<refMode, messageTypes, selectedType, reference, selectedField,
                         selectedFieldMessageType, highlighted, pendingField, searchTerm,
                         selectedSearchField>>
      BY <1>0, <1>9 DEF RunSearch, RefTypeOK, refPanel
    <2>2. /\ fetched' \in 0 .. MaxFetches /\ fetches' \subseteq RefFetches
          /\ fetches' = fetches \cup {<<fetched', "search", searchTerm>>}
          /\ refLoading' = TRUE /\ refError' = FALSE /\ refCalm' \in BOOLEAN
      BY <1>0, <2>1, FetchMade
    <2>3. RefFlagsOK' BY <1>0, <2>1, <2>2 DEF RefFlagsOK
    <2>4. RefTypeOK' BY <1>0, <2>1, <2>2, RefAssumption, <2>3 DEF RefTypeOK
    <2>5. PendingAwaitsTree' BY <1>0, <2>1, <2>2 DEF PendingAwaitsTree
    <2>6. UnselectedIsEmpty' BY <1>0, <2>1, <2>2 DEF UnselectedIsEmpty
    <2>7. CalmAsksSelected' BY <1>0, <2>1, <2>2 DEF CalmAsksSelected
    <2> QED BY <2>3, <2>4, <2>5, <2>6, <2>7 DEF RefInv
  <1>10. CASE SelectSearchField
    <2>1. RefFlagsOK'
      BY <1>0, <1>10
      DEF RefFlagsOK, HitsShown, SelectSearchField, refPanel, refSearch, refQueries
    <2>2. RefTypeOK'
      BY <1>0, <1>10, RefAssumption, <2>1
      DEF RefTypeOK, HitsShown, SelectSearchField, refPanel, refSearch, refQueries
    <2>3. PendingAwaitsTree'
      BY <1>0, <1>10
      DEF PendingAwaitsTree, HitsShown, SelectSearchField, refPanel, refSearch, refQueries
    <2>4. UnselectedIsEmpty'
      BY <1>0, <1>10
      DEF UnselectedIsEmpty, HitsShown, SelectSearchField, refPanel, refSearch, refQueries
    <2>5. CalmAsksSelected'
      BY <1>0, <1>10
      DEF CalmAsksSelected, HitsShown, SelectSearchField, refPanel, refSearch, refQueries
    <2> QED BY <2>1, <2>2, <2>3, <2>4, <2>5 DEF RefInv
  <1>11. CASE HandleNavigateToField
    <2>1. /\ searchResults \in RefFields /\ refMode' = "browse" /\ selectedType' \in Types
          /\ FetchEffect /\ UNCHANGED <<messageTypes, searchTerm, searchResults, selectedSearchField>>
      BY <1>0, <1>11 DEF HandleNavigateToField, ChipsShown, HitsShown, Chips, RefTypeOK, refSearch
    <2>2. /\ RefFlagsOK' /\ UnselectedIsEmpty' /\ CalmAsksSelected'
          /\ reference' \in {reference, NoType}
          /\ selectedType' \in Types \cup {NoType} /\ reference' \in Types \cup {NoType}
          /\ fetched' \in 0 .. MaxFetches /\ fetches' \subseteq RefFetches
      BY <2>1, EffectFollows DEF RefInv
    <2>3. /\ pendingField' # NoField => reference = NoType
          /\ {selectedField', pendingField', highlighted'} \subseteq RefFields \cup {NoField}
          /\ selectedFieldMessageType' \in Types \cup {NoType}
      <3>1. CASE reference = NoType
        BY <2>1, <3>1, <1>11 DEF HandleNavigateToField, ClearSelection
      <3>2. CASE reference # NoType
        <4>1. Resolve(searchResults, reference, NoType) /\ reference \in Types
          BY <1>0, <3>2, <1>11 DEF HandleNavigateToField, RefTypeOK
        <4> QED BY <1>0, <2>1, <4>1, ResolverLeaves
      <3> QED BY <3>1, <3>2
    <2>4. PendingAwaitsTree' BY <2>2, <2>3 DEF PendingAwaitsTree
    <2>5. RefTypeOK' BY <1>0, <2>1, <2>2, <2>3 DEF RefTypeOK
    <2> QED BY <2>2, <2>4, <2>5 DEF RefInv
  <1>12. CASE TreeLands
    <2>1. PICK r \in fetches :
            /\ r[2] = "tree" /\ fetches' = fetches \ {r} /\ reference' = r[3] /\ refLoading' = FALSE
            /\ IF pendingField = NoField
                 THEN UNCHANGED <<selectedField, selectedFieldMessageType, highlighted, pendingField>>
                 ELSE Resolve(pendingField, r[3], selectedFieldMessageType)
            /\ UNCHANGED <<refMode, messageTypes, selectedType, searchTerm, searchResults,
                           selectedSearchField, refError, fetched, refCalm>>
      BY <1>12 DEF TreeLands, refPanel, refSearch
    <2>2. r[3] \in Types BY <1>0, <2>1 DEF RefTypeOK, RefFetches
    <2>3. /\ pendingField' = NoField
          /\ {selectedField', highlighted'} \subseteq RefFields \cup {NoField}
          /\ selectedFieldMessageType' \in Types \cup {NoType}
      <3>1. CASE pendingField = NoField BY <1>0, <2>1, <3>1 DEF RefTypeOK
      <3>2. CASE pendingField # NoField
        <4>1. pendingField \in RefFields /\ Resolve(pendingField, r[3], selectedFieldMessageType)
          BY <1>0, <2>1, <3>2 DEF RefTypeOK
        <4> QED BY <1>0, <2>2, <4>1, ResolverLeaves DEF RefTypeOK
      <3> QED BY <3>1, <3>2
    <2>4. RefFlagsOK' BY <1>0, <2>1 DEF RefFlagsOK
    <2>5. RefTypeOK' BY <1>0, <2>1, <2>2, <2>3, <2>4 DEF RefTypeOK
    <2>6. PendingAwaitsTree' BY <2>3 DEF PendingAwaitsTree
    <2>7. UnselectedIsEmpty' BY <1>0, <2>1 DEF UnselectedIsEmpty
    <2>8. CalmAsksSelected' BY <1>0, <2>1 DEF CalmAsksSelected
    <2> QED BY <2>4, <2>5, <2>6, <2>7, <2>8 DEF RefInv
  <1>13. CASE SearchLands
    <2>1. PICK r \in fetches :
            /\ r[2] = "search" /\ fetches' = fetches \ {r} /\ searchResults' = r[3] /\ refLoading' = FALSE
            /\ UNCHANGED <<refMode, messageTypes, selectedType, reference, selectedField,
                           selectedFieldMessageType, highlighted, pendingField, searchTerm,
                           selectedSearchField, refError, fetched, refCalm>>
      BY <1>13 DEF SearchLands, refPanel
    <2>2. r[3] \in RefFields BY <1>0, <2>1 DEF RefTypeOK, RefFetches, RefFields
    <2>3. RefFlagsOK' BY <1>0, <2>1, <2>2 DEF RefFlagsOK
    <2>4. RefTypeOK' BY <1>0, <2>1, <2>2, RefAssumption, <2>3 DEF RefTypeOK
    <2>5. PendingAwaitsTree' BY <1>0, <2>1, <2>2 DEF PendingAwaitsTree
    <2>6. UnselectedIsEmpty' BY <1>0, <2>1, <2>2 DEF UnselectedIsEmpty
    <2>7. CalmAsksSelected' BY <1>0, <2>1, <2>2 DEF CalmAsksSelected
    <2> QED BY <2>3, <2>4, <2>5, <2>6, <2>7 DEF RefInv
  <1>14. CASE FetchFails
    <2>1. RefFlagsOK' BY <1>0, <1>14 DEF RefFlagsOK, FetchFails, refPanel, refSearch, refQueries
    <2>2. RefTypeOK'
      BY <1>0, <1>14, RefAssumption, <2>1
      DEF RefTypeOK, FetchFails, refPanel, refSearch, refQueries
    <2>3. PendingAwaitsTree'
      BY <1>0, <1>14
      DEF PendingAwaitsTree, FetchFails, refPanel, refSearch, refQueries
    <2>4. UnselectedIsEmpty'
      BY <1>0, <1>14
      DEF UnselectedIsEmpty, FetchFails, refPanel, refSearch, refQueries
    <2>5. CalmAsksSelected'
      BY <1>0, <1>14
      DEF CalmAsksSelected, FetchFails, refPanel, refSearch, refQueries
    <2> QED BY <2>1, <2>2, <2>3, <2>4, <2>5 DEF RefInv
  <1>15. CASE UNCHANGED refVars
    <2> USE <1>15 DEF refVars, refPanel, refSearch, refQueries
    <2>1. RefFlagsOK' BY <1>0 DEF RefFlagsOK
    <2>2. RefTypeOK' BY <1>0, <2>1 DEF RefTypeOK
    <2>3. PendingAwaitsTree' BY <1>0 DEF PendingAwaitsTree
    <2>4. UnselectedIsEmpty' BY <1>0 DEF UnselectedIsEmpty
    <2>5. CalmAsksSelected' BY <1>0 DEF CalmAsksSelected
    <2> QED BY <2>1, <2>2, <2>3, <2>4, <2>5 DEF RefInv
  <1> QED BY <1>1, <1>2, <1>3, <1>4, <1>5, <1>6, <1>7, <1>8, <1>9, <1>10, <1>11, <1>12, <1>13, <1>14, <1>15 DEF RefNext

(***************************************************************************)
(* FieldTree: the row highlighted is in sight, for every tree.             *)
(***************************************************************************)
TreeInv == highlight \in TreeNodes \cup {NoNode} /\ HighlightInSight

\* A row is in sight once the tree has settled, if the rows above it that were there are
\* expanded and the others mount for it.
LEMMA SettledInSight ==
  ASSUME NEW e, NEW before, NEW h \in TreeNodes, Above(h) \cap before \subseteq e
  PROVE  h \in Mounted(Settle(e, before, h))
  <1>1. ASSUME NEW a \in Above(h) PROVE a \in Settle(e, before, h)
    <2>1. a \in TreeNodes /\ Above(a) \cup {a} \subseteq Above(h) BY <1>1, TreeAssumption
    <2>2. \A m \in Above(h) : Initially(m, h)
      BY TreeAssumption DEF Initially, IsComplex, IsAncestorOf
    <2>3. \A m \in Above(a) \cup {a} : IF m \in before THEN m \in e ELSE Initially(m, h)
      BY <2>1, <2>2
    <2> QED BY <2>1, <2>3 DEF Settle
  <1> QED BY <1>1 DEF Mounted

\* The invariant holds of the tree as it is drawn.
LEMMA TreeInitially == TreeInit => TreeInv
  BY DEF TreeInit, TreeInv, HighlightInSight

\* Every step of the tree keeps the invariant.
LEMMA TreeStep == TreeInv /\ [TreeNext]_treeVars => TreeInv'
  <1> SUFFICES ASSUME TreeInv, [TreeNext]_treeVars PROVE TreeInv' OBVIOUS
  <1>0. highlight \in TreeNodes \cup {NoNode} /\ HighlightInSight BY DEF TreeInv
  <1>1. CASE MountTree
    <2>1. highlight' \in TreeNodes \cup {NoNode} /\ expanded' = Settle({}, {}, highlight')
      BY <1>1 DEF MountTree
    <2>2. highlight' \in TreeNodes => highlight' \in Mounted(expanded') BY <2>1, SettledInSight
    <2>3. HighlightInSight' BY <2>1, <2>2 DEF HighlightInSight, Mounted
    <2> QED BY <2>1, <2>3 DEF TreeInv
  <1>2. CASE UnmountTree BY <1>2 DEF UnmountTree, TreeInv, HighlightInSight
  <1>3. CASE HighlightChanges
    <2>1. /\ highlight' \in TreeNodes
          /\ expanded' = Settle(expanded \cup (Above(highlight') \cap Mounted(expanded)),
                                Mounted(expanded), highlight')
      BY <1>3 DEF HighlightChanges
    <2>2. highlight' \in Mounted(expanded') BY <2>1, SettledInSight
    <2>3. HighlightInSight' BY <2>2 DEF HighlightInSight, Mounted
    <2> QED BY <2>1, <2>3 DEF TreeInv
  <1>4. CASE HighlightEnds BY <1>4 DEF HighlightEnds, TreeInv, HighlightInSight
  <1>5. CASE Toggle
    <2>1. PICK n \in Mounted(expanded) :
            \/ folded' = TRUE
            \/ expanded' = Settle(expanded \cup {n}, Mounted(expanded), highlight) /\ folded' = folded
      BY <1>5 DEF Toggle
    <2>2. UNCHANGED <<treeShown, highlight>> BY <1>5 DEF Toggle
    <2>3. ASSUME treeShown', highlight' # NoNode, ~folded' PROVE highlight' \in Mounted(expanded')
      <3>1. /\ expanded' = Settle(expanded \cup {n}, Mounted(expanded), highlight) /\ highlight \in TreeNodes
            /\ highlight \in Mounted(expanded)
        BY <1>0, <2>1, <2>2, <2>3 DEF HighlightInSight
      <3>2. Above(highlight) \cap Mounted(expanded) \subseteq expanded \cup {n} BY <3>1 DEF Mounted
      <3> QED BY <2>2, <3>1, <3>2, SettledInSight
    <2>4. HighlightInSight' BY <2>3 DEF HighlightInSight, Mounted
    <2> QED BY <1>0, <2>2, <2>4 DEF TreeInv
  <1>6. CASE UNCHANGED treeVars BY <1>0, <1>6 DEF treeVars, TreeInv, HighlightInSight, Mounted
  <1> QED BY <1>1, <1>2, <1>3, <1>4, <1>5, <1>6 DEF TreeNext

(***************************************************************************)
(* FieldDetailPanel: example and uses are of the field shown.              *)
(***************************************************************************)
\* With no swap over an open request, what is asked and what is kept is of the field.
CalmPanelHolds ==
  swapCalm =>
    /\ usedIn \in {panelField, NoPanel} /\ usedInAsked \in {panelField, NoPanel}
    /\ example \in {panelField, NoPanel} /\ exampleAsked \in {panelField, NoPanel}

PanelInv == PanelFlagsOK /\ PanelTypeOK /\ CalmPanelHolds

\* The invariant gives what the run checks.
LEMMA PanelParts == PanelInv => CalmPanelIsOfItsField
  BY DEF PanelInv, CalmPanelHolds, CalmPanelIsOfItsField, XmlShown, UsedInShown

\* The effects ask for the field shown, or leave a request as it is.
LEMMA LazyAsks ==
  ASSUME NEW u, NEW e, NEW ua, NEW ea, LazyFetch(u, e, ua, ea)
  PROVE  /\ usedIn' = u /\ example' = e
         /\ usedInAsked' \in {ua, panelField'} /\ exampleAsked' \in {ea, panelField'}
  BY DEF LazyFetch

\* The invariant holds of the closed panel.
LEMMA PanelInitially == PanelInit => PanelInv
  <1> SUFFICES ASSUME PanelInit PROVE PanelInv OBVIOUS
  <1>1. PanelFlagsOK BY DEF PanelFlagsOK, PanelInit
  <1>2. PanelTypeOK BY <1>1 DEF PanelTypeOK, PanelInit
  <1>3. CalmPanelHolds BY DEF CalmPanelHolds, PanelInit
  <1> QED BY <1>1, <1>2, <1>3 DEF PanelInv

\* Every step of the panel keeps the invariant.
LEMMA PanelStep == PanelInv /\ [PanelNext]_panelVars => PanelInv'
  <1> SUFFICES ASSUME PanelInv, [PanelNext]_panelVars PROVE PanelInv' OBVIOUS
  <1>0. PanelFlagsOK /\ PanelTypeOK /\ CalmPanelHolds
    BY DEF PanelInv
  <1>1. CASE OpenPanel
    <2>1. PanelFlagsOK' BY <1>0, <1>1 DEF PanelFlagsOK, OpenPanel
    <2>2. PanelTypeOK' BY <1>0, <1>1, <2>1 DEF PanelTypeOK, OpenPanel
    <2>3. CalmPanelHolds' BY <1>0, <1>1 DEF CalmPanelHolds, OpenPanel
    <2> QED BY <2>1, <2>2, <2>3 DEF PanelInv
  <1>2. CASE SwapField
    <2>1. /\ panelField' \in PanelFields /\ detailTab' = detailTab
          /\ swapCalm' = (swapCalm /\ {usedInAsked, exampleAsked} = {NoPanel})
          /\ usedIn' = NoPanel /\ example' = NoPanel
          /\ usedInAsked' \in {usedInAsked, panelField'} /\ exampleAsked' \in {exampleAsked, panelField'}
      BY <1>0, <1>2, LazyAsks DEF SwapField, PanelTypeOK
    <2>2. PanelFlagsOK' BY <1>0, <2>1 DEF PanelFlagsOK
    <2>3. PanelTypeOK' BY <1>0, <2>1, <2>2 DEF PanelTypeOK
    <2>4. CalmPanelHolds' BY <1>0, <2>1 DEF CalmPanelHolds
    <2> QED BY <2>2, <2>3, <2>4 DEF PanelInv
  <1>3. CASE ClosePanelTab
    <2>1. PanelFlagsOK' BY <1>0, <1>3 DEF PanelFlagsOK, ClosePanelTab
    <2>2. PanelTypeOK' BY <1>0, <1>3, <2>1 DEF PanelTypeOK, ClosePanelTab
    <2>3. CalmPanelHolds' BY <1>0, <1>3 DEF CalmPanelHolds, ClosePanelTab
    <2> QED BY <2>1, <2>2, <2>3 DEF PanelInv
  <1>4. CASE SetTab
    <2>1. /\ panelField' = panelField /\ detailTab' \in {"iso", "xml", "usedIn"} /\ swapCalm' = swapCalm
          /\ usedIn' = usedIn /\ example' = example
          /\ usedInAsked' \in {usedInAsked, panelField} /\ exampleAsked' \in {exampleAsked, panelField}
      BY <1>0, <1>4, LazyAsks DEF SetTab, PanelTypeOK
    <2>2. PanelFlagsOK' BY <1>0, <2>1 DEF PanelFlagsOK
    <2>3. PanelTypeOK' BY <1>0, <2>1, <2>2 DEF PanelTypeOK
    <2>4. CalmPanelHolds' BY <1>0, <2>1 DEF CalmPanelHolds
    <2> QED BY <2>2, <2>3, <2>4 DEF PanelInv
  <1>5. CASE UsedInAnswers
    <2>1. /\ panelField' = panelField /\ detailTab' = detailTab /\ swapCalm' = swapCalm
          /\ usedIn' \in {usedInAsked, usedIn} /\ example' = example
          /\ usedInAsked' \in {NoPanel, panelField} /\ exampleAsked' \in {exampleAsked, panelField}
      BY <1>0, <1>5, LazyAsks DEF UsedInAnswers, PanelTypeOK
    <2>2. PanelFlagsOK' BY <1>0, <2>1 DEF PanelFlagsOK
    <2>3. PanelTypeOK' BY <1>0, <2>1, <2>2 DEF PanelTypeOK
    <2>4. CalmPanelHolds' BY <1>0, <2>1 DEF CalmPanelHolds
    <2> QED BY <2>2, <2>3, <2>4 DEF PanelInv
  <1>6. CASE ExampleAnswers
    <2>1. /\ panelField' = panelField /\ detailTab' = detailTab /\ swapCalm' = swapCalm
          /\ example' \in {exampleAsked, example} /\ usedIn' = usedIn
          /\ exampleAsked' \in {NoPanel, panelField} /\ usedInAsked' \in {usedInAsked, panelField}
      BY <1>0, <1>6, LazyAsks DEF ExampleAnswers, PanelTypeOK
    <2>2. PanelFlagsOK' BY <1>0, <2>1 DEF PanelFlagsOK
    <2>3. PanelTypeOK' BY <1>0, <2>1, <2>2 DEF PanelTypeOK
    <2>4. CalmPanelHolds' BY <1>0, <2>1 DEF CalmPanelHolds
    <2> QED BY <2>2, <2>3, <2>4 DEF PanelInv
  <1>7. CASE UNCHANGED panelVars
    <2> USE <1>7 DEF panelVars
    <2>1. PanelFlagsOK' BY <1>0 DEF PanelFlagsOK
    <2>2. PanelTypeOK' BY <1>0, <2>1 DEF PanelTypeOK
    <2>3. CalmPanelHolds' BY <1>0 DEF CalmPanelHolds
    <2> QED BY <2>1, <2>2, <2>3 DEF PanelInv
  <1> QED BY <1>1, <1>2, <1>3, <1>4, <1>5, <1>6, <1>7 DEF PanelNext

(***************************************************************************)
(* UsedIn: the rows open name a difference of theirs.                      *)
(***************************************************************************)
\* The rows that are open are rows of the group to adapt.
OpenRowsAreListed == openRows \subseteq Adapted(occurrences, ref)

\* Two shapes that are not compatible differ in a text at least, and in one at most of
\* those about the cardinality.
LEMMA DifferencesNamed ==
  ASSUME NEW o, NEW r, ~Compatible(o, r)
  PROVE  /\ Differences(o, r) # {}
         /\ Cardinality(Differences(o, r) \cap {"mandatory", "optional", "cardinality"}) <= 1
  <1> DEFINE A == IF o.type # r.type THEN {"type"} ELSE {}
             B == IF o.card = r.card THEN {}
                  ELSE IF IsMandatory(o) # IsMandatory(r) THEN {IF IsMandatory(o) THEN "mandatory" ELSE "optional"}
                  ELSE {"cardinality"}
  <1>1. Differences(o, r) = A \cup B BY DEF Differences
  <1>2. A = {} \/ A = {"type"} OBVIOUS
  <1>3. B = {} \/ B = {"mandatory"} \/ B = {"optional"} \/ B = {"cardinality"} OBVIOUS
  <1>4. A = {} => o.type = r.type OBVIOUS
  <1>5. B = {} => o.card = r.card OBVIOUS
  <1> HIDE DEF A, B
  <1>6. A \cup B # {} BY <1>4, <1>5 DEF Compatible
  <1>7. (A \cup B) \cap {"mandatory", "optional", "cardinality"} = B BY <1>2, <1>3
  <1>8. Cardinality(B) <= 1
    <2>1. Cardinality({}) = 0 BY FS_EmptySet
    <2>2. \A x : Cardinality({x}) = 1 BY FS_Singleton
    <2>3. B = {} => Cardinality(B) = 0 BY <2>1
    <2>4. \A x : B = {x} => Cardinality(B) = 1 BY <2>2
    <2>5. Cardinality(B) = 0 \/ Cardinality(B) = 1 BY <1>3, <2>3, <2>4
    <2> QED BY <2>5
  <1> QED BY <1>1, <1>6, <1>7, <1>8

\* An open row is one that differs, and names one difference of presence at most.
LEMMA UsedInParts == OpenRowsAreListed => RowsNameADifference
  <1> SUFFICES ASSUME OpenRowsAreListed, NEW i \in openRows
               PROVE LET d == Differences(occurrences[i], ref)
                     IN  d # {} /\ Cardinality(d \cap {"mandatory", "optional", "cardinality"}) <= 1
    BY DEF RowsNameADifference
  <1>1. ~Compatible(occurrences[i], ref) BY DEF OpenRowsAreListed, Adapted
  <1> QED BY <1>1, DifferencesNamed

\* No row is open before the occurrences come.
LEMMA UsedInInitially == UsedInInit => OpenRowsAreListed
  BY DEF UsedInInit, OpenRowsAreListed

\* Every step keeps the open rows among those listed.
LEMMA UsedInStep == OpenRowsAreListed /\ [UsedInNext]_usedInVars => OpenRowsAreListed'
  <1> SUFFICES ASSUME OpenRowsAreListed, [UsedInNext]_usedInVars PROVE OpenRowsAreListed' OBVIOUS
  <1>1. CASE UsedInLands
    <2>1. openRows = {} BY <1>1 DEF UsedInLands, OpenRowsAreListed, Adapted
    <2> QED BY <1>1, <2>1 DEF UsedInLands, OpenRowsAreListed
  <1>2. CASE UNCHANGED <<occurrences, current, openRows>> BY <1>2 DEF OpenRowsAreListed, ref
  <1>3. ASSUME NEW i \in DOMAIN occurrences, ToggleRow(i) PROVE OpenRowsAreListed'
    <2>1. ref' = ref /\ occurrences' = occurrences BY <1>3 DEF ToggleRow, ref
    <2>2. openRows' \subseteq openRows \cup {i} BY <1>3 DEF ToggleRow, Flip
    <2> QED BY <1>3, <2>1, <2>2 DEF ToggleRow, OpenRowsAreListed
  <1>4. UNCHANGED usedInVars => UNCHANGED <<occurrences, current, openRows>> BY DEF usedInVars
  <1>5. \A p : ToggleFamilyGroup(p) => UNCHANGED <<occurrences, current, openRows>> BY DEF ToggleFamilyGroup
  <1> QED BY <1>1, <1>2, <1>3, <1>4, <1>5 DEF UsedInNext

(***************************************************************************)
(* VersionComparator: what is picked exists, however the catalogue is      *)
(* asked again, for every catalogue.                                       *)
(***************************************************************************)
\* A comparator that is closed keeps nothing.
ClosedIsEmpty ==
  ~cmpOn => lockedFrom = <<>> /\ cmpFamily = 0 /\ cmpAsked = <<>> /\ cmpResult = <<>>

\* On the page what is picked is in the catalogue.
PickedIsListed ==
  cmpOn /\ lockedFrom = <<>> =>
    /\ cmpListed /\ cmpFamily \in CmpFamilies /\ cmpId \in Ids(cmpFamily)
    /\ fromVersion \in Versions(cmpFamily, cmpId) /\ toVersion \in Versions(cmpFamily, cmpId)

\* In the dialog the message fixes all but the version compared to.
LockedIsPicked ==
  cmpOn /\ lockedFrom # <<>> =>
    /\ lockedFrom = <<cmpFamily, cmpId, fromVersion>>
    /\ cmpFamily \in CmpFamilies /\ cmpId \in Ids(cmpFamily)
    /\ cmpAsked # <<>> => <<cmpAsked[1], cmpAsked[2], cmpAsked[3]>> = lockedFrom
    /\ cmpResult # <<>> => <<cmpResult[1], cmpResult[2], cmpResult[3]>> = lockedFrom

CmpInv == CmpFlagsOK /\ CmpTypeOK /\ ClosedIsEmpty /\ PickedIsListed /\ LockedIsPicked

\* The invariant gives what the run checks.
LEMMA CmpParts == CmpInv => DropdownsExist /\ ImpactIsOfTheMessage
  <1> SUFFICES ASSUME CmpInv PROVE DropdownsExist /\ ImpactIsOfTheMessage OBVIOUS
  <1>0. ClosedIsEmpty /\ PickedIsListed /\ LockedIsPicked BY DEF CmpInv
  <1>1. DropdownsExist BY <1>0 DEF PickedIsListed, DropdownsExist
  <1>2. ImpactIsOfTheMessage BY <1>0 DEF ClosedIsEmpty, LockedIsPicked, ImpactIsOfTheMessage
  <1> QED BY <1>1, <1>2

\* The first id of a family, and the ends of the versions that an id offers.
LEMMA FirstId == ASSUME NEW f \in CmpFamilies PROVE Min(Ids(f)) \in Ids(f) /\ Min(Ids(f)) \in Nat /\ f \in Nat /\ f # 0
  <1>1. PICK i \in Ids(f) : \A j \in Ids(f) : i <= j BY ComparatorAssumption
  <1>2. Min(Ids(f)) \in Ids(f) BY <1>1 DEF Min
  <1> QED BY <1>2, ComparatorAssumption

\* The oldest and the newest version of a message are versions of it.
LEMMA Ends ==
  ASSUME NEW f \in CmpFamilies, NEW i \in Ids(f)
  PROVE  /\ Offered(TRUE, f, i) = Versions(f, i) /\ Versions(f, i) \subseteq Nat
         /\ Oldest(Versions(f, i)) \in Versions(f, i) /\ Newest(Versions(f, i)) \in Versions(f, i)
  <1>0. f # 0 /\ Versions(f, i) \subseteq Nat BY ComparatorAssumption
  <1>1. PICK lo \in Versions(f, i), hi \in Versions(f, i) : \A v \in Versions(f, i) : lo <= v /\ v <= hi
    BY ComparatorAssumption
  <1>2. Min(Versions(f, i)) \in Versions(f, i) BY <1>1 DEF Min
  <1>3. Max(Versions(f, i)) \in Versions(f, i)
    <2>1. \A v \in Versions(f, i) : hi >= v BY <1>0, <1>1
    <2> QED BY <2>1 DEF Max
  <1> QED BY <1>0, <1>2, <1>3 DEF Offered, Oldest, Newest

\* The newest version offered is a number, loaded or not.
LEMMA EndsTyped ==
  ASSUME NEW l, NEW f \in CmpFamilies, NEW i \in Ids(f)
  PROVE  Newest(Offered(l, f, i)) \in Nat
  <1>1. CASE l BY <1>1, Ends, ComparatorAssumption DEF Offered
  <1>2. CASE ~l BY <1>2 DEF Offered, Newest
  <1> QED BY <1>1, <1>2

\* A triple is not the empty choice.
LEMMA TripleIsNone == \A a, b, c : <<a, b, c>> # <<>>
  OBVIOUS

\* The dialog opens on the message.
LEMMA DialogOpens ==
  ASSUME CmpInv, NEW f \in CmpFamilies, NEW i \in Ids(f), NEW v \in MessageVersions,
         OpenComparator(<<f, i, v>>)
  PROVE  CmpInv'
  <1>0. CmpFlagsOK /\ CmpTypeOK /\ ClosedIsEmpty BY DEF CmpInv
  <1>1. <<f, i, v>> # <<>> /\ <<f, i, v>>[1] = f /\ <<f, i, v>>[2] = i /\ <<f, i, v>>[3] = v
    BY TripleIsNone
  <1>2. f \in Nat /\ i \in Nat /\ v \in Nat BY ComparatorAssumption
  <1>3. /\ ~cmpOn /\ cmpOn' = TRUE /\ lockedFrom' = <<f, i, v>> /\ cmpFamily' = f /\ cmpId' = i
        /\ fromVersion' = v /\ toVersion' = Newest(Offered(cmpListed, f, i))
        /\ UNCHANGED <<cmpListed, cmpAsked, cmpResult, cmpError, compares>>
    BY <1>1 DEF OpenComparator, cmpRun
  <1>4. toVersion' \in Nat BY <1>3, EndsTyped
  <1>5. lockedFrom' \in Nat \X Nat \X Nat BY <1>2, <1>3
  <1>6. CmpFlagsOK' BY <1>0, <1>3 DEF CmpFlagsOK
  <1>7. CmpTypeOK' BY <1>0, <1>2, <1>3, <1>4, <1>5, <1>6 DEF CmpTypeOK
  <1>8. ClosedIsEmpty' BY <1>3 DEF ClosedIsEmpty
  <1>9. PickedIsListed' BY <1>1, <1>3 DEF PickedIsListed
  <1>10. LockedIsPicked' BY <1>0, <1>3 DEF LockedIsPicked, ClosedIsEmpty
  <1> QED BY <1>6, <1>7, <1>8, <1>9, <1>10 DEF CmpInv

\* The invariant holds of the closed dialog.
LEMMA CmpInitially == CmpInit => CmpInv
  <1> SUFFICES ASSUME CmpInit PROVE CmpInv OBVIOUS
  <1>1. CmpFlagsOK BY DEF CmpFlagsOK, CmpInit
  <1>2. CmpTypeOK BY ComparatorAssumption, <1>1 DEF CmpTypeOK, CmpInit
  <1>3. ClosedIsEmpty BY DEF ClosedIsEmpty, CmpInit
  <1>4. PickedIsListed BY DEF PickedIsListed, CmpInit
  <1>5. LockedIsPicked BY DEF LockedIsPicked, CmpInit
  <1> QED BY <1>1, <1>2, <1>3, <1>4, <1>5 DEF CmpInv

\* Every step of the dialog keeps the invariant.
LEMMA CmpStep == CmpInv /\ [CmpNext]_cmpVars => CmpInv'
  <1> SUFFICES ASSUME CmpInv, [CmpNext]_cmpVars PROVE CmpInv' OBVIOUS
  <1>0. CmpFlagsOK /\ CmpTypeOK /\ ClosedIsEmpty /\ PickedIsListed /\ LockedIsPicked
    BY DEF CmpInv
  <1>1. CASE CmpCatalogueLands
    <2>1. /\ ~cmpListed /\ cmpListed' = TRUE /\ Reseed
          /\ UNCHANGED <<cmpOn, lockedFrom, cmpFamily, cmpId, cmpAsked, cmpResult, cmpError, compares>>
      BY <1>1 DEF CmpCatalogueLands, cmpRun
    <2>2. lockedFrom # <<>> \/ cmpFamily = 0 BY <1>0, <2>1 DEF ClosedIsEmpty, PickedIsListed
    <2>3. UNCHANGED <<fromVersion, toVersion>> BY <2>1, <2>2 DEF Reseed, Offered
    <2>4. CmpFlagsOK' BY <1>0, <2>1, <2>2, <2>3 DEF CmpFlagsOK
    <2>5. CmpTypeOK' BY <1>0, <2>1, <2>2, <2>3, ComparatorAssumption, <2>4 DEF CmpTypeOK
    <2>6. ClosedIsEmpty' BY <1>0, <2>1, <2>2, <2>3 DEF ClosedIsEmpty
    <2>7. PickedIsListed' BY <1>0, <2>1, <2>2, <2>3 DEF PickedIsListed
    <2>8. LockedIsPicked' BY <1>0, <2>1, <2>2, <2>3 DEF LockedIsPicked
    <2> QED BY <2>4, <2>5, <2>6, <2>7, <2>8 DEF CmpInv
  <1>2. CASE OpenComparator(<<>>)
    <2>1. /\ ~cmpOn /\ cmpOn' = TRUE /\ lockedFrom' = <<>> /\ cmpListed
          /\ UNCHANGED <<cmpListed, cmpAsked, cmpResult, cmpError, compares>>
          /\ cmpFamily' = CHOOSE f \in CmpFamilies : TRUE
          /\ cmpId' = Min(Ids(cmpFamily'))
          /\ toVersion' = Newest(Offered(cmpListed, cmpFamily', cmpId'))
          /\ fromVersion' = Oldest(Offered(cmpListed, cmpFamily', cmpId'))
      BY <1>2 DEF OpenComparator, cmpRun
    <2>2. cmpFamily' \in CmpFamilies /\ cmpId' \in Ids(cmpFamily') /\ cmpId' \in Nat
      <3>1. cmpFamily' \in CmpFamilies BY <2>1, ComparatorAssumption
      <3> QED BY <2>1, <3>1, FirstId
    <2>3. cmpListed = TRUE BY <1>0, <2>1 DEF CmpFlagsOK
    <2>4. /\ fromVersion' \in Versions(cmpFamily', cmpId') /\ toVersion' \in Versions(cmpFamily', cmpId')
          /\ Versions(cmpFamily', cmpId') \subseteq Nat
      BY <2>1, <2>2, <2>3, Ends
    <2>5. CmpFlagsOK' BY <1>0, <2>1, <2>2, <2>3, <2>4 DEF CmpFlagsOK
    <2>6. CmpTypeOK' BY <1>0, <2>1, <2>2, <2>3, <2>4, ComparatorAssumption, <2>5 DEF CmpTypeOK
    <2>7. ClosedIsEmpty' BY <1>0, <2>1, <2>2, <2>3, <2>4 DEF ClosedIsEmpty
    <2>8. PickedIsListed' BY <1>0, <2>1, <2>2, <2>3, <2>4 DEF PickedIsListed
    <2>9. LockedIsPicked' BY <1>0, <2>1, <2>2, <2>3, <2>4 DEF LockedIsPicked
    <2> QED BY <2>5, <2>6, <2>7, <2>8, <2>9 DEF CmpInv
  <1>3. CASE CloseComparator
    <2>1. CmpFlagsOK' BY <1>0, <1>3 DEF CmpFlagsOK, CloseComparator, cmpRun, cmpPicks
    <2>2. CmpTypeOK'
      BY <1>0, <1>3, ComparatorAssumption, <2>1
      DEF CmpTypeOK, CloseComparator, cmpRun, cmpPicks
    <2>3. ClosedIsEmpty' BY <1>0, <1>3 DEF ClosedIsEmpty, CloseComparator, cmpRun, cmpPicks
    <2>4. PickedIsListed' BY <1>0, <1>3 DEF PickedIsListed, CloseComparator, cmpRun, cmpPicks
    <2>5. LockedIsPicked' BY <1>0, <1>3 DEF LockedIsPicked, CloseComparator, cmpRun, cmpPicks
    <2> QED BY <2>1, <2>2, <2>3, <2>4, <2>5 DEF CmpInv
  <1>4. CASE \E f \in CmpFamilies : \E i \in Ids(f) : \E v \in MessageVersions : OpenComparator(<<f, i, v>>)
    BY <1>4, DialogOpens
  <1>5. CASE PickFamily
    <2>1. /\ cmpOn /\ lockedFrom = <<>> /\ cmpFamily' \in CmpFamilies /\ cmpFamily' # cmpFamily
          /\ cmpId' = Min(Ids(cmpFamily')) /\ Reseed
          /\ UNCHANGED <<cmpOn, lockedFrom, cmpListed, cmpAsked, cmpResult, cmpError, compares>>
      BY <1>5 DEF PickFamily, cmpRun
    <2>2. cmpFamily' \in CmpFamilies /\ cmpId' \in Ids(cmpFamily') /\ cmpId' \in Nat /\ cmpListed = TRUE
      BY <1>0, <2>1, FirstId DEF PickedIsListed, CmpFlagsOK
    <2>3. fromVersion' = Oldest(Versions(cmpFamily', cmpId')) /\ toVersion' = Newest(Versions(cmpFamily', cmpId'))
      BY <2>1, <2>2, Ends DEF Reseed
    <2>4. /\ fromVersion' \in Versions(cmpFamily', cmpId') /\ toVersion' \in Versions(cmpFamily', cmpId')
          /\ Versions(cmpFamily', cmpId') \subseteq Nat
      BY <2>2, <2>3, Ends
    <2>5. CmpFlagsOK' BY <1>0, <2>1, <2>2, <2>3, <2>4 DEF CmpFlagsOK
    <2>6. CmpTypeOK' BY <1>0, <2>1, <2>2, <2>3, <2>4, ComparatorAssumption, <2>5 DEF CmpTypeOK
    <2>7. ClosedIsEmpty' BY <1>0, <2>1, <2>2, <2>3, <2>4 DEF ClosedIsEmpty
    <2>8. PickedIsListed' BY <1>0, <2>1, <2>2, <2>3, <2>4 DEF PickedIsListed
    <2>9. LockedIsPicked' BY <1>0, <2>1, <2>2, <2>3, <2>4 DEF LockedIsPicked
    <2> QED BY <2>5, <2>6, <2>7, <2>8, <2>9 DEF CmpInv
  <1>6. CASE PickId
    <2>1. /\ cmpOn /\ lockedFrom = <<>> /\ cmpFamily' = cmpFamily /\ cmpId' \in Ids(cmpFamily) /\ cmpId' # cmpId
          /\ Reseed /\ UNCHANGED <<cmpOn, lockedFrom, cmpListed, cmpAsked, cmpResult, cmpError, compares>>
      BY <1>6 DEF PickId, cmpRun
    <2>2. cmpFamily' \in CmpFamilies /\ cmpId' \in Ids(cmpFamily') /\ cmpId' \in Nat /\ cmpListed = TRUE
      BY <1>0, <2>1, ComparatorAssumption DEF PickedIsListed, CmpFlagsOK
    <2>3. fromVersion' = Oldest(Versions(cmpFamily', cmpId')) /\ toVersion' = Newest(Versions(cmpFamily', cmpId'))
      BY <2>1, <2>2, Ends DEF Reseed
    <2>4. /\ fromVersion' \in Versions(cmpFamily', cmpId') /\ toVersion' \in Versions(cmpFamily', cmpId')
          /\ Versions(cmpFamily', cmpId') \subseteq Nat
      BY <2>2, <2>3, Ends
    <2>5. CmpFlagsOK' BY <1>0, <2>1, <2>2, <2>3, <2>4 DEF CmpFlagsOK
    <2>6. CmpTypeOK' BY <1>0, <2>1, <2>2, <2>3, <2>4, ComparatorAssumption, <2>5 DEF CmpTypeOK
    <2>7. ClosedIsEmpty' BY <1>0, <2>1, <2>2, <2>3, <2>4 DEF ClosedIsEmpty
    <2>8. PickedIsListed' BY <1>0, <2>1, <2>2, <2>3, <2>4 DEF PickedIsListed
    <2>9. LockedIsPicked' BY <1>0, <2>1, <2>2, <2>3, <2>4 DEF LockedIsPicked
    <2> QED BY <2>5, <2>6, <2>7, <2>8, <2>9 DEF CmpInv
  <1>7. CASE PickFrom
    <2>1. cmpOn /\ lockedFrom = <<>> /\ fromVersion' \in Versions(cmpFamily, cmpId) BY <1>7 DEF PickFrom, Offered
    <2>2. fromVersion' \in Nat BY <1>0, <2>1, Ends DEF PickedIsListed
    <2>3. CmpFlagsOK' BY <1>0, <1>7, <2>1, <2>2 DEF CmpFlagsOK, PickFrom, cmpRun, cmpPicks
    <2>4. CmpTypeOK'
      BY <1>0, <1>7, <2>1, <2>2, ComparatorAssumption, <2>3
      DEF CmpTypeOK, PickFrom, cmpRun, cmpPicks
    <2>5. ClosedIsEmpty' BY <1>0, <1>7, <2>1, <2>2 DEF ClosedIsEmpty, PickFrom, cmpRun, cmpPicks
    <2>6. PickedIsListed' BY <1>0, <1>7, <2>1, <2>2 DEF PickedIsListed, PickFrom, cmpRun, cmpPicks
    <2>7. LockedIsPicked' BY <1>0, <1>7, <2>1, <2>2 DEF LockedIsPicked, PickFrom, cmpRun, cmpPicks
    <2> QED BY <2>3, <2>4, <2>5, <2>6, <2>7 DEF CmpInv
  <1>8. CASE PickTo
    <2>1. /\ cmpOn /\ toVersion' \in Versions(cmpFamily, cmpId) /\ cmpFamily # 0
          /\ UNCHANGED <<cmpOn, lockedFrom, cmpListed, cmpFamily, cmpId, fromVersion, cmpAsked,
                         cmpResult, cmpError, compares>>
      BY <1>8 DEF PickTo, Offered, cmpRun
    <2>2. cmpFamily \in CmpFamilies /\ cmpId \in Ids(cmpFamily) BY <1>0, <2>1 DEF PickedIsListed, LockedIsPicked, CmpTypeOK
    <2>3. toVersion' \in Nat BY <2>1, <2>2, Ends
    <2>4. CmpFlagsOK' BY <1>0, <2>1, <2>2, <2>3 DEF CmpFlagsOK
    <2>5. CmpTypeOK' BY <1>0, <2>1, <2>2, <2>3, ComparatorAssumption, <2>4 DEF CmpTypeOK
    <2>6. ClosedIsEmpty' BY <1>0, <2>1, <2>2, <2>3 DEF ClosedIsEmpty
    <2>7. PickedIsListed' BY <1>0, <2>1, <2>2, <2>3 DEF PickedIsListed
    <2>8. LockedIsPicked' BY <1>0, <2>1, <2>2, <2>3 DEF LockedIsPicked
    <2> QED BY <2>4, <2>5, <2>6, <2>7, <2>8 DEF CmpInv
  <1>9. CASE RunCompare
    <2>1. /\ cmpOn /\ cmpAsked = <<>> /\ compares' \in 0 .. MaxCompares /\ cmpResult' = <<>>
          /\ \/ cmpAsked' = <<cmpFamily, cmpId, fromVersion, toVersion>> /\ cmpError' = FALSE
             \/ cmpError' = TRUE /\ cmpAsked' = <<>>
          /\ UNCHANGED <<cmpOn, lockedFrom, cmpListed, cmpFamily, cmpId, fromVersion, toVersion>>
      BY <1>0, <1>9, ComparatorAssumption DEF RunCompare, cmpPicks, CmpTypeOK
    <2>2. cmpFamily \in Nat BY <1>0, ComparatorAssumption DEF CmpTypeOK
    <2>3. cmpAsked' = <<>> \/ cmpAsked' \in Compared BY <1>0, <2>1, <2>2 DEF CmpTypeOK, Compared
    <2>4. cmpAsked' # <<>> => <<cmpAsked'[1], cmpAsked'[2], cmpAsked'[3]>> = <<cmpFamily, cmpId, fromVersion>>
      BY <2>1
    <2>5. CmpFlagsOK' BY <1>0, <2>1, <2>2, <2>3, <2>4 DEF CmpFlagsOK
    <2>6. CmpTypeOK' BY <1>0, <2>1, <2>2, <2>3, <2>4, ComparatorAssumption, <2>5 DEF CmpTypeOK
    <2>7. ClosedIsEmpty' BY <1>0, <2>1, <2>2, <2>3, <2>4 DEF ClosedIsEmpty
    <2>8. PickedIsListed' BY <1>0, <2>1, <2>2, <2>3, <2>4 DEF PickedIsListed
    <2>9. LockedIsPicked' BY <1>0, <2>1, <2>2, <2>3, <2>4 DEF LockedIsPicked
    <2> QED BY <2>5, <2>6, <2>7, <2>8, <2>9 DEF CmpInv
  <1>10. CASE CompareEnds
    <2>1. CmpFlagsOK' BY <1>0, <1>10 DEF CmpFlagsOK, CompareEnds, cmpRun, cmpPicks
    <2>2. CmpTypeOK'
      BY <1>0, <1>10, ComparatorAssumption, <2>1
      DEF CmpTypeOK, CompareEnds, cmpRun, cmpPicks
    <2>3. ClosedIsEmpty' BY <1>0, <1>10 DEF ClosedIsEmpty, CompareEnds, cmpRun, cmpPicks
    <2>4. PickedIsListed' BY <1>0, <1>10 DEF PickedIsListed, CompareEnds, cmpRun, cmpPicks
    <2>5. LockedIsPicked' BY <1>0, <1>10 DEF LockedIsPicked, CompareEnds, cmpRun, cmpPicks
    <2> QED BY <2>1, <2>2, <2>3, <2>4, <2>5 DEF CmpInv
  <1>11. CASE UNCHANGED cmpVars
    <2> USE <1>11 DEF cmpVars, cmpRun, cmpPicks
    <2>1. CmpFlagsOK' BY <1>0 DEF CmpFlagsOK
    <2>2. CmpTypeOK' BY <1>0, <2>1 DEF CmpTypeOK
    <2>3. ClosedIsEmpty' BY <1>0 DEF ClosedIsEmpty
    <2>4. PickedIsListed' BY <1>0 DEF PickedIsListed
    <2>5. LockedIsPicked' BY <1>0 DEF LockedIsPicked
    <2> QED BY <2>1, <2>2, <2>3, <2>4, <2>5 DEF CmpInv
  <1> QED BY <1>1, <1>2, <1>3, <1>4, <1>5, <1>6, <1>7, <1>8, <1>9, <1>10, <1>11 DEF CmpNext

(***************************************************************************)
(* FlowVisualizer: the flow shown is of the tab and the overrides shown.   *)
(***************************************************************************)
\* With nothing asked or switched over an open request, what is asked is of the tab and
\* the overrides shown, and so is the flow once nothing is asked.
CalmRequestsMatch ==
  calm =>
    /\ \A r \in requests : r.protocol = protocol /\ r.overrides = overrides
    /\ requests = {} /\ ~error /\ result # NoFlow =>
         result.protocol = protocol /\ result.overrides = overrides

\* The payload being parsed is that of the step shown.
ParsingIsWanted == parsing # NoStep => parsing = Wanted(result, selected)

FlowInv == FlowFlagsOK /\ FlowTypeOK /\ CalmRequestsMatch /\ ParsingIsWanted /\ ParsedIsShown

\* The invariant gives what the run checks.
LEMMA FlowParts == FlowInv => CalmResultMatches
  BY DEF FlowInv, CalmRequestsMatch, CalmResultMatches

\* The parts of a request.
LEMMA RequestParts ==
  \A r \in FlowRequests :
    /\ r.protocol \in Protocols /\ r.flow \in 1 .. Flows /\ r.overrides \subseteq Steps
    /\ r.selected \in Steps \cup {NoStep} /\ r.serial \in 1 .. MaxGenerated
    /\ StepsOf(r) \subseteq Steps
  BY FlowAssumption DEF FlowRequests, StepsOf, Steps

\* What a request wants shown is one of its messages, or none.
LEMMA WantedTyped ==
  ASSUME NEW r \in FlowRequests \cup {NoFlow}, NEW s \in Steps \cup {NoStep}
  PROVE  Wanted(r, s) \in Payloads \cup {NoStep}
  <1>1. CASE Selected(r, s) /\ PanelOf(r, s) = "parse"
    <2>1. r \in FlowRequests /\ s \in Steps BY <1>1 DEF Selected
    <2>2. r.serial \in 0 .. MaxGenerated /\ 0 \in 0 .. MaxGenerated
      BY <2>1, RequestParts, FlowAssumption
    <2>3. Payload(r, s) \in Payloads BY <2>1, <2>2 DEF Payload, Payloads
    <2> QED BY <1>1, <2>3 DEF Wanted
  <1>2. CASE ~(Selected(r, s) /\ PanelOf(r, s) = "parse") BY <1>2 DEF Wanted
  <1> QED BY <1>1, <1>2

\* The panel's effect keeps what is parsed, and what was, to the step shown.
LEMMA PanelFollows ==
  ASSUME FlowInv, PanelEffect, result' \in FlowRequests \cup {NoFlow}, selected' \in Steps \cup {NoStep}
  PROVE  /\ parsing' \in Payloads \cup {NoStep} /\ parsed' \in Payloads \cup {NoStep}
         /\ parses' \subseteq Payloads
         /\ ParsingIsWanted' /\ ParsedIsShown'
  <1>0. FlowTypeOK /\ ParsingIsWanted /\ ParsedIsShown BY DEF FlowInv
  <1> DEFINE w == Wanted(result', selected')
  <1>1. w \in Payloads \cup {NoStep} BY WantedTyped
  <1>2. \/ w = Wanted(result, selected) /\ UNCHANGED <<parsing, parsed, parses>>
        \/ parsing' = w /\ parsed' = NoStep /\ parses' = IF w = NoStep THEN parses ELSE parses \cup {w}
    BY DEF PanelEffect, stepPanel
  <1>3. ParsingIsWanted' BY <1>0, <1>2 DEF ParsingIsWanted
  <1>4. ParsedIsShown' BY <1>0, <1>2 DEF ParsedIsShown
  <1> HIDE DEF w
  <1> QED BY <1>0, <1>1, <1>2, <1>3, <1>4 DEF FlowTypeOK

\* A request that is made captures what its closure has.
LEMMA Generated ==
  ASSUME FlowTypeOK, NEW next \in SUBSET Steps, Generate(next)
  PROVE  /\ generated' \in 0 .. MaxGenerated /\ requests' \subseteq FlowRequests
         /\ loading' = TRUE /\ error' = FALSE /\ calm' = (calm /\ requests = {})
         /\ requests' # {}
         /\ requests = {} => \A r \in requests' : r.protocol = protocol /\ r.overrides = next
  <1> DEFINE q == [protocol |-> protocol, flow |-> flowType, overrides |-> next,
                   selected |-> selected, serial |-> generated + 1]
  <1>1. generated' = generated + 1 /\ generated' \in 1 .. MaxGenerated
    BY FlowAssumption DEF Generate, FlowTypeOK
  <1>2. q \in FlowRequests BY <1>1 DEF FlowTypeOK, FlowRequests
  <1>3. requests' = requests \cup {q} /\ loading' = TRUE /\ error' = FALSE /\ calm' = (calm /\ requests = {})
    BY DEF Generate
  <1>4. q.protocol = protocol /\ q.overrides = next OBVIOUS
  <1> HIDE DEF q
  <1> QED BY <1>1, <1>2, <1>3, <1>4 DEF FlowTypeOK

\* The invariant holds with no flow generated.
LEMMA FlowInitially == FlowInit => FlowInv
  <1> SUFFICES ASSUME FlowInit PROVE FlowInv OBVIOUS
  <1>1. FlowFlagsOK BY DEF FlowFlagsOK, FlowInit
  <1>2. FlowTypeOK BY FlowAssumption, <1>1 DEF FlowTypeOK, FlowInit
  <1>3. CalmRequestsMatch BY DEF CalmRequestsMatch, FlowInit
  <1>4. ParsingIsWanted BY DEF ParsingIsWanted, FlowInit
  <1>5. ParsedIsShown BY DEF ParsedIsShown, FlowInit
  <1> QED BY <1>1, <1>2, <1>3, <1>4, <1>5 DEF FlowInv

\* Every step of the diagram keeps the invariant.
LEMMA FlowStep == FlowInv /\ [FlowNext]_flowVars => FlowInv'
  <1> SUFFICES ASSUME FlowInv, [FlowNext]_flowVars PROVE FlowInv' OBVIOUS
  <1>0. FlowFlagsOK /\ FlowTypeOK /\ CalmRequestsMatch /\ ParsingIsWanted /\ ParsedIsShown
    BY DEF FlowInv
  <1>1. CASE ChangeProtocol
    <2>1. /\ protocol' \in Protocols /\ flowType' = 1 /\ 1 \in 1 .. Flows /\ result' = NoFlow /\ selected' = NoStep
          /\ overrides' = {} /\ error' = FALSE /\ calm' = (calm /\ requests = {}) /\ PanelEffect
          /\ UNCHANGED <<loading, overrideTarget, requests, generated>>
      BY <1>0, <1>1, FlowAssumption DEF ChangeProtocol, FlowTypeOK
    <2>2. /\ parsing' \in Payloads \cup {NoStep} /\ parsed' \in Payloads \cup {NoStep}
          /\ parses' \subseteq Payloads
          /\ ParsingIsWanted' /\ ParsedIsShown'
      BY <1>0, <2>1, PanelFollows DEF FlowInv, FlowTypeOK
    <2>3. FlowFlagsOK' BY <1>0, <2>1, <2>2 DEF FlowFlagsOK
    <2>4. FlowTypeOK' BY <1>0, <2>1, <2>2, FlowAssumption, <2>3 DEF FlowTypeOK
    <2>5. CalmRequestsMatch' BY <1>0, <2>1, <2>2 DEF CalmRequestsMatch
    <2>6. ParsingIsWanted' BY <2>2
    <2>7. ParsedIsShown' BY <2>2
    <2> QED BY <2>3, <2>4, <2>5, <2>6, <2>7 DEF FlowInv
  <1>2. CASE PickFlow
    <2>1. FlowFlagsOK' BY <1>0, <1>2 DEF FlowFlagsOK, PickFlow, stepPanel
    <2>2. FlowTypeOK' BY <1>0, <1>2, FlowAssumption, <2>1 DEF FlowTypeOK, PickFlow, stepPanel
    <2>3. CalmRequestsMatch' BY <1>0, <1>2 DEF CalmRequestsMatch, PickFlow, stepPanel
    <2>4. ParsingIsWanted' BY <1>0, <1>2 DEF ParsingIsWanted, PickFlow, stepPanel
    <2>5. ParsedIsShown' BY <1>0, <1>2 DEF ParsedIsShown, PickFlow, stepPanel
    <2> QED BY <2>1, <2>2, <2>3, <2>4, <2>5 DEF FlowInv
  <1>3. CASE HandleGenerate
    <2>1. /\ overrides' = {} /\ overrides' \in SUBSET Steps /\ selected' = NoStep /\ Generate(overrides') /\ PanelEffect
          /\ UNCHANGED <<protocol, flowType, result, overrideTarget>>
      BY <1>0, <1>3, FlowAssumption DEF HandleGenerate, FlowTypeOK
    <2>2. /\ generated' \in 0 .. MaxGenerated /\ requests' \subseteq FlowRequests
          /\ loading' = TRUE /\ error' = FALSE /\ calm' = (calm /\ requests = {})
          /\ requests' # {}
          /\ requests = {} => \A r \in requests' : r.protocol = protocol /\ r.overrides = overrides'
      BY <1>0, <2>1, Generated
    <2>3. /\ parsing' \in Payloads \cup {NoStep} /\ parsed' \in Payloads \cup {NoStep}
          /\ parses' \subseteq Payloads
          /\ ParsingIsWanted' /\ ParsedIsShown'
      BY <1>0, <2>1, PanelFollows DEF FlowInv, FlowTypeOK
    <2>4. FlowFlagsOK' BY <1>0, <2>1, <2>2, <2>3 DEF FlowFlagsOK
    <2>5. FlowTypeOK' BY <1>0, <2>1, <2>2, <2>3, FlowAssumption, <2>4 DEF FlowTypeOK
    <2>6. CalmRequestsMatch' BY <1>0, <2>1, <2>2, <2>3 DEF CalmRequestsMatch
    <2>7. ParsingIsWanted' BY <2>3
    <2>8. ParsedIsShown' BY <2>3
    <2> QED BY <2>4, <2>5, <2>6, <2>7, <2>8 DEF FlowInv
  <1>4. CASE SelectStep
    <2>1. /\ result # NoFlow /\ selected' \in StepsOf(result) /\ PanelEffect
          /\ UNCHANGED <<protocol, flowType, result, loading, error, overrides, overrideTarget,
                         requests, generated, calm>>
      BY <1>0, <1>4, FlowAssumption DEF SelectStep, FlowTypeOK
    <2>2. selected' \in Steps BY <1>0, <2>1, RequestParts DEF FlowTypeOK
    <2>3. /\ parsing' \in Payloads \cup {NoStep} /\ parsed' \in Payloads \cup {NoStep}
          /\ parses' \subseteq Payloads
          /\ ParsingIsWanted' /\ ParsedIsShown'
      BY <1>0, <2>1, <2>2, PanelFollows DEF FlowInv, FlowTypeOK
    <2>4. FlowFlagsOK' BY <1>0, <2>1, <2>2, <2>3 DEF FlowFlagsOK
    <2>5. FlowTypeOK' BY <1>0, <2>1, <2>2, <2>3, FlowAssumption, <2>4 DEF FlowTypeOK
    <2>6. CalmRequestsMatch' BY <1>0, <2>1, <2>2, <2>3 DEF CalmRequestsMatch
    <2>7. ParsingIsWanted' BY <2>3
    <2>8. ParsedIsShown' BY <2>3
    <2> QED BY <2>4, <2>5, <2>6, <2>7, <2>8 DEF FlowInv
  <1>5. CASE OpenOverride
    <2>1. FlowFlagsOK' BY <1>0, <1>5 DEF FlowFlagsOK, OpenOverride, stepPanel
    <2>2. FlowTypeOK' BY <1>0, <1>5, FlowAssumption, <2>1 DEF FlowTypeOK, OpenOverride, stepPanel
    <2>3. CalmRequestsMatch' BY <1>0, <1>5 DEF CalmRequestsMatch, OpenOverride, stepPanel
    <2>4. ParsingIsWanted' BY <1>0, <1>5 DEF ParsingIsWanted, OpenOverride, stepPanel
    <2>5. ParsedIsShown' BY <1>0, <1>5 DEF ParsedIsShown, OpenOverride, stepPanel
    <2> QED BY <2>1, <2>2, <2>3, <2>4, <2>5 DEF FlowInv
  <1>6. CASE CancelOverride
    <2>1. FlowFlagsOK' BY <1>0, <1>6 DEF FlowFlagsOK, CancelOverride, stepPanel
    <2>2. FlowTypeOK' BY <1>0, <1>6, FlowAssumption, <2>1 DEF FlowTypeOK, CancelOverride, stepPanel
    <2>3. CalmRequestsMatch' BY <1>0, <1>6 DEF CalmRequestsMatch, CancelOverride, stepPanel
    <2>4. ParsingIsWanted' BY <1>0, <1>6 DEF ParsingIsWanted, CancelOverride, stepPanel
    <2>5. ParsedIsShown' BY <1>0, <1>6 DEF ParsedIsShown, CancelOverride, stepPanel
    <2> QED BY <2>1, <2>2, <2>3, <2>4, <2>5 DEF FlowInv
  <1>7. CASE HandleOverrideConfirm
    <2>1. /\ overrideTarget' = NoStep /\ overrides' \in SUBSET Steps /\ Generate(overrides')
          /\ UNCHANGED <<protocol, flowType, result, selected, parsing, parsed, parses>>
      BY <1>0, <1>7, FlowAssumption DEF HandleOverrideConfirm, FlowTypeOK, stepPanel
    <2>2. /\ generated' \in 0 .. MaxGenerated /\ requests' \subseteq FlowRequests
          /\ loading' = TRUE /\ error' = FALSE /\ calm' = (calm /\ requests = {})
          /\ requests' # {}
          /\ requests = {} => \A r \in requests' : r.protocol = protocol /\ r.overrides = overrides'
      BY <1>0, <2>1, Generated
    <2>3. FlowFlagsOK' BY <1>0, <2>1, <2>2 DEF FlowFlagsOK
    <2>4. FlowTypeOK' BY <1>0, <2>1, <2>2, FlowAssumption, <2>3 DEF FlowTypeOK
    <2>5. CalmRequestsMatch' BY <1>0, <2>1, <2>2 DEF CalmRequestsMatch
    <2>6. ParsingIsWanted' BY <1>0, <2>1, <2>2 DEF ParsingIsWanted
    <2>7. ParsedIsShown' BY <1>0, <2>1, <2>2 DEF ParsedIsShown
    <2> QED BY <2>3, <2>4, <2>5, <2>6, <2>7 DEF FlowInv
  <1>8. CASE HandleOverrideClear
    <2>1. /\ overrides' \in SUBSET Steps /\ Generate(overrides')
          /\ UNCHANGED <<protocol, flowType, result, selected, overrideTarget, parsing, parsed, parses>>
      BY <1>0, <1>8, FlowAssumption DEF HandleOverrideClear, FlowTypeOK, stepPanel
    <2>2. /\ generated' \in 0 .. MaxGenerated /\ requests' \subseteq FlowRequests
          /\ loading' = TRUE /\ error' = FALSE /\ calm' = (calm /\ requests = {})
          /\ requests' # {}
          /\ requests = {} => \A r \in requests' : r.protocol = protocol /\ r.overrides = overrides'
      BY <1>0, <2>1, Generated
    <2>3. FlowFlagsOK' BY <1>0, <2>1, <2>2 DEF FlowFlagsOK
    <2>4. FlowTypeOK' BY <1>0, <2>1, <2>2, FlowAssumption, <2>3 DEF FlowTypeOK
    <2>5. CalmRequestsMatch' BY <1>0, <2>1, <2>2 DEF CalmRequestsMatch
    <2>6. ParsingIsWanted' BY <1>0, <2>1, <2>2 DEF ParsingIsWanted
    <2>7. ParsedIsShown' BY <1>0, <2>1, <2>2 DEF ParsedIsShown
    <2> QED BY <2>3, <2>4, <2>5, <2>6, <2>7 DEF FlowInv
  <1>9. CASE FlowLands
    <2>1. PICK r \in requests :
            /\ requests' = requests \ {r} /\ result' = r
            /\ selected' \in {selected, NoStep}
            /\ loading' = FALSE /\ PanelEffect
            /\ UNCHANGED <<protocol, flowType, error, overrides, overrideTarget, generated, calm>>
      BY <1>9 DEF FlowLands
    <2>2. r \in FlowRequests /\ selected' \in Steps \cup {NoStep} BY <1>0, <2>1 DEF FlowTypeOK
    <2>3. /\ parsing' \in Payloads \cup {NoStep} /\ parsed' \in Payloads \cup {NoStep}
          /\ parses' \subseteq Payloads
          /\ ParsingIsWanted' /\ ParsedIsShown'
      BY <1>0, <2>1, <2>2, PanelFollows DEF FlowInv
    <2>4. FlowFlagsOK' BY <1>0, <2>1, <2>2, <2>3 DEF FlowFlagsOK
    <2>5. FlowTypeOK' BY <1>0, <2>1, <2>2, <2>3, FlowAssumption, <2>4 DEF FlowTypeOK
    <2>6. CalmRequestsMatch' BY <1>0, <2>1, <2>2, <2>3 DEF CalmRequestsMatch
    <2>7. ParsingIsWanted' BY <2>3
    <2>8. ParsedIsShown' BY <2>3
    <2> QED BY <2>4, <2>5, <2>6, <2>7, <2>8 DEF FlowInv
  <1>10. CASE FlowFails
    <2>1. FlowFlagsOK' BY <1>0, <1>10 DEF FlowFlagsOK, FlowFails, stepPanel
    <2>2. FlowTypeOK' BY <1>0, <1>10, FlowAssumption, <2>1 DEF FlowTypeOK, FlowFails, stepPanel
    <2>3. CalmRequestsMatch' BY <1>0, <1>10 DEF CalmRequestsMatch, FlowFails, stepPanel
    <2>4. ParsingIsWanted' BY <1>0, <1>10 DEF ParsingIsWanted, FlowFails, stepPanel
    <2>5. ParsedIsShown' BY <1>0, <1>10 DEF ParsedIsShown, FlowFails, stepPanel
    <2> QED BY <2>1, <2>2, <2>3, <2>4, <2>5 DEF FlowInv
  <1>11. CASE ParseLands
    <2>1. FlowFlagsOK' BY <1>0, <1>11 DEF FlowFlagsOK, ParseLands
    <2>2. FlowTypeOK' BY <1>0, <1>11, FlowAssumption, <2>1 DEF FlowTypeOK, ParseLands
    <2>3. CalmRequestsMatch' BY <1>0, <1>11 DEF CalmRequestsMatch, ParseLands
    <2>4. ParsingIsWanted' BY <1>0, <1>11 DEF ParsingIsWanted, ParseLands
    <2>5. ParsedIsShown' BY <1>0, <1>11 DEF ParsedIsShown, ParsingIsWanted, ParseLands
    <2> QED BY <2>1, <2>2, <2>3, <2>4, <2>5 DEF FlowInv
  <1>12. CASE UNCHANGED flowVars
    <2> USE <1>12 DEF flowVars, stepPanel
    <2>1. FlowFlagsOK' BY <1>0 DEF FlowFlagsOK
    <2>2. FlowTypeOK' BY <1>0, <2>1 DEF FlowTypeOK
    <2>3. CalmRequestsMatch' BY <1>0 DEF CalmRequestsMatch
    <2>4. ParsingIsWanted' BY <1>0 DEF ParsingIsWanted
    <2>5. ParsedIsShown' BY <1>0 DEF ParsedIsShown
    <2> QED BY <2>1, <2>2, <2>3, <2>4, <2>5 DEF FlowInv
  <1> QED BY <1>1, <1>2, <1>3, <1>4, <1>5, <1>6, <1>7, <1>8, <1>9, <1>10, <1>11, <1>12 DEF FlowNext

(***************************************************************************)
(* MtWorkflow: a conversion is of the text shown.                          *)
(***************************************************************************)
\* The workflow exists in its own mode alone.
ParseModeIsBare == mode = "parse" => table = NoTable /\ mx = NoMx /\ job = NoJob

\* What is analysed is a message; a conversion is of the text of now, unless an analysis
\* of another text waits for it to end.
JobIsOfText ==
  job # NoJob =>
    /\ job.kind = "analyse" => job.of \in MtMessages
    /\ job.kind = "convert" => job.of = raw \/ (table = NoTable /\ ~mapError)

\* Only a row the server found ambiguous is typed by hand.
ManualIsAmbiguous ==
  table # NoTable => \A i \in Rows : rowStates[i].manual => table.confidence[i] = "ambiguous"

MtInv ==
  /\ MtFlagsOK /\ MtTypeOK /\ ParseModeIsBare /\ JobIsOfText /\ ManualIsAmbiguous
  /\ MxIsOfText /\ AmbiguousIsNeverAutomatic

\* The invariant gives what the run checks.
LEMMA MtParts == MtInv => ConversionIsOfText
  BY DEF MtInv, ConversionIsOfText

\* The analysis starts of a text that is not blank, when there is neither a table nor a job.
LEMMA Started ==
  ASSUME NEW j, AutoStart(j), raw' \in Texts
  PROVE  \/ job' = j /\ ~(table' = NoTable /\ j = NoJob /\ ~mapError' /\ raw' # BlankMt)
         \/ /\ j = NoJob /\ table' = NoTable /\ raw' \in MtMessages
            /\ job' \in Jobs /\ job'.kind = "analyse" /\ job'.of = raw' /\ job' # NoJob
  <1>1. CASE table' = NoTable /\ j = NoJob /\ ~mapError' /\ raw' # BlankMt
    <2>1. job' = [kind |-> "analyse", of |-> raw'] BY <1>1 DEF AutoStart
    <2>2. job' \in Jobs BY <2>1 DEF Jobs
    <2>3. raw' \in MtMessages BY <1>1 DEF Texts
    <2> QED BY <1>1, <2>1, <2>2, <2>3, MtAssumption
  <1>2. CASE ~(table' = NoTable /\ j = NoJob /\ ~mapError' /\ raw' # BlankMt)
    BY <1>2 DEF AutoStart
  <1> QED BY <1>1, <1>2

\* The row an analysis makes is typed, and nobody has touched it.
LEMMA InitialRowTyped ==
  ASSUME NEW c \in Confidences
  PROVE  InitialRow(c) \in RowStates /\ InitialRow(c).status = c /\ InitialRow(c).manual = FALSE
  BY DEF InitialRow, RowStates, Confidences, Statuses, Paths

\* A row changes; what the server found of it does not, nor what that says of it.
LEMMA RowChanges ==
  ASSUME MtInv, NEW i \in Rows, NEW row \in RowStates, table # NoTable, UpdateRow(i, row),
         row.status = "automatic" <=> rowStates[i].status = "automatic",
         row.manual => table.confidence[i] = "ambiguous"
  PROVE  MtInv'
  <1>0. /\ MtFlagsOK /\ MtTypeOK /\ ParseModeIsBare /\ JobIsOfText /\ ManualIsAmbiguous
        /\ MxIsOfText /\ AmbiguousIsNeverAutomatic
    BY DEF MtInv
  <1>1. UNCHANGED <<raw, mtParsed, mtError, mtParsing, mode, table, mx, mapError, job, versionsAsked, version>>
    BY DEF UpdateRow, mtPage
  <1>2. rowStates \in [Rows -> RowStates] BY <1>0 DEF MtTypeOK
  <1>3. rowStates' = [rowStates EXCEPT ![i] = row] BY DEF UpdateRow
  <1>4. rowStates' \in [Rows -> RowStates] BY <1>2, <1>3
  <1>5. rowStates'[i] = row /\ \A k \in Rows \ {i} : rowStates'[k] = rowStates[k] BY <1>2, <1>3
  <1>6. MtFlagsOK' BY <1>0, <1>1 DEF MtFlagsOK
  <1>7. MtTypeOK' BY <1>0, <1>1, <1>4, <1>6 DEF MtTypeOK
  <1>8. ParseModeIsBare' BY <1>0, <1>1 DEF ParseModeIsBare
  <1>9. JobIsOfText' BY <1>0, <1>1 DEF JobIsOfText
  <1>10. ManualIsAmbiguous'
    <2> SUFFICES ASSUME NEW k \in Rows, rowStates'[k].manual PROVE table'.confidence[k] = "ambiguous"
      BY DEF ManualIsAmbiguous
    <2>1. CASE k = i BY <1>1, <1>5, <2>1
    <2>2. CASE k # i BY <1>0, <1>1, <1>5, <2>2 DEF ManualIsAmbiguous
    <2> QED BY <2>1, <2>2
  <1>11. MxIsOfText' BY <1>0, <1>1 DEF MxIsOfText
  <1>12. AmbiguousIsNeverAutomatic'
    <2> SUFFICES ASSUME NEW k \in Rows
                 PROVE (rowStates'[k].status = "automatic") = (table'.confidence[k] = "automatic")
      BY DEF AmbiguousIsNeverAutomatic
    <2>1. (rowStates[k].status = "automatic") = (table.confidence[k] = "automatic")
      BY <1>0 DEF AmbiguousIsNeverAutomatic
    <2>2. CASE k = i BY <1>1, <1>5, <2>1, <2>2
    <2>3. CASE k # i BY <1>1, <1>5, <2>1, <2>3
    <2> QED BY <2>2, <2>3
  <1> QED BY <1>6, <1>7, <1>8, <1>9, <1>10, <1>11, <1>12 DEF MtInv

\* The invariant holds of the page as it opens.
LEMMA MtInitially == MtInit => MtInv
  <1> SUFFICES ASSUME MtInit PROVE MtInv OBVIOUS
  <1>1. MtFlagsOK BY DEF MtFlagsOK, MtInit
  <1>2. MtTypeOK BY MtAssumption, <1>1 DEF MtTypeOK, MtInit, Texts
  <1>3. ParseModeIsBare BY DEF ParseModeIsBare, MtInit
  <1>4. JobIsOfText BY DEF JobIsOfText, MtInit
  <1>5. ManualIsAmbiguous BY DEF ManualIsAmbiguous, MtInit
  <1>6. MxIsOfText BY DEF MxIsOfText, MtInit
  <1>7. AmbiguousIsNeverAutomatic BY DEF AmbiguousIsNeverAutomatic, MtInit
  <1> QED BY <1>1, <1>2, <1>3, <1>4, <1>5, <1>6, <1>7 DEF MtInv

\* Every step of the conversion keeps the invariant.
LEMMA MtStep == MtInv /\ [MtNext]_mtVars => MtInv'
  <1> SUFFICES ASSUME MtInv, [MtNext]_mtVars PROVE MtInv' OBVIOUS
  <1>0. MtFlagsOK /\ MtTypeOK /\ ParseModeIsBare /\ JobIsOfText /\ ManualIsAmbiguous /\ MxIsOfText /\ AmbiguousIsNeverAutomatic
    BY DEF MtInv
  <1>1. CASE EditRaw
    <2>1. raw' \in Texts /\ UNCHANGED <<mtParsed, mtError, mtParsing, mode>> BY <1>1 DEF EditRaw
    <2>2. CASE mode = "parse"
      <3>1. UNCHANGED <<table, rowStates, mx, mapError, job, versionsAsked, version>>
        BY <1>1, <2>2 DEF EditRaw, workflow
      <3>2. table = NoTable /\ mx = NoMx /\ job = NoJob BY <1>0, <2>2 DEF ParseModeIsBare
      <3>3. MtFlagsOK' BY <1>0, <2>1, <3>1 DEF MtFlagsOK
      <3>4. MtTypeOK' BY <1>0, <2>1, <3>1, <3>3 DEF MtTypeOK
      <3>5. ParseModeIsBare' /\ JobIsOfText' /\ ManualIsAmbiguous' /\ MxIsOfText' /\ AmbiguousIsNeverAutomatic'
        BY <3>1, <3>2 DEF ParseModeIsBare, JobIsOfText, ManualIsAmbiguous, MxIsOfText, AmbiguousIsNeverAutomatic
      <3> QED BY <3>3, <3>4, <3>5 DEF MtInv
    <2>3. CASE mode # "parse"
      <3>1. /\ table' = NoTable /\ rowStates' = <<>> /\ mapError' = FALSE /\ mx' = NoMx
            /\ AutoStart(job) /\ UNCHANGED <<versionsAsked, version>>
        BY <1>1, <2>3 DEF EditRaw
      <3>2. \/ job' = job
            \/ raw' \in MtMessages /\ job' \in Jobs /\ job'.kind = "analyse" /\ job'.of = raw'
        BY <2>1, <3>1, Started
      <3>3. MtFlagsOK' BY <1>0, <2>1, <3>1 DEF MtFlagsOK
      <3>4. MtTypeOK' BY <1>0, <2>1, <3>1, <3>2, <3>3 DEF MtTypeOK
      <3>5. JobIsOfText' BY <1>0, <3>1, <3>2 DEF JobIsOfText
      <3>6. ParseModeIsBare' BY <2>1, <2>3 DEF ParseModeIsBare
      <3>7. ManualIsAmbiguous' /\ MxIsOfText' /\ AmbiguousIsNeverAutomatic'
        BY <3>1 DEF ManualIsAmbiguous, MxIsOfText, AmbiguousIsNeverAutomatic
      <3> QED BY <3>3, <3>4, <3>5, <3>6, <3>7 DEF MtInv
    <2> QED BY <2>2, <2>3
  <1>2. CASE HandleParse
    <2>1. BlankMt \in Texts /\ MtMessages \subseteq Texts /\ \A t \in Texts : t = BlankMt \/ t \in MtMessages BY DEF Texts
    <2>2. MtFlagsOK' BY <1>0, <1>2, <2>1 DEF MtFlagsOK, HandleParse, mtPage, workflow, Unmounted
    <2>3. MtTypeOK'
      BY <1>0, <1>2, <2>1, MtAssumption, <2>2
      DEF MtTypeOK, HandleParse, mtPage, workflow, Unmounted
    <2>4. ParseModeIsBare'
      BY <1>0, <1>2, <2>1
      DEF ParseModeIsBare, HandleParse, mtPage, workflow, Unmounted
    <2>5. JobIsOfText' BY <1>0, <1>2, <2>1 DEF JobIsOfText, HandleParse, mtPage, workflow, Unmounted
    <2>6. ManualIsAmbiguous'
      BY <1>0, <1>2, <2>1
      DEF ManualIsAmbiguous, HandleParse, mtPage, workflow, Unmounted
    <2>7. MxIsOfText' BY <1>0, <1>2, <2>1 DEF MxIsOfText, HandleParse, mtPage, workflow, Unmounted
    <2>8. AmbiguousIsNeverAutomatic'
      BY <1>0, <1>2, <2>1
      DEF AmbiguousIsNeverAutomatic, HandleParse, mtPage, workflow, Unmounted
    <2> QED BY <2>2, <2>3, <2>4, <2>5, <2>6, <2>7, <2>8 DEF MtInv
  <1>3. CASE MtParseAnswered
    <2>1. BlankMt \in Texts /\ MtMessages \subseteq Texts /\ \A t \in Texts : t = BlankMt \/ t \in MtMessages BY DEF Texts
    <2>2. MtFlagsOK' BY <1>0, <1>3, <2>1 DEF MtFlagsOK, MtParseAnswered, mtPage, workflow, Unmounted
    <2>3. MtTypeOK'
      BY <1>0, <1>3, <2>1, MtAssumption, <2>2
      DEF MtTypeOK, MtParseAnswered, mtPage, workflow, Unmounted
    <2>4. ParseModeIsBare'
      BY <1>0, <1>3, <2>1
      DEF ParseModeIsBare, MtParseAnswered, mtPage, workflow, Unmounted
    <2>5. JobIsOfText'
      BY <1>0, <1>3, <2>1
      DEF JobIsOfText, MtParseAnswered, mtPage, workflow, Unmounted
    <2>6. ManualIsAmbiguous'
      BY <1>0, <1>3, <2>1
      DEF ManualIsAmbiguous, MtParseAnswered, mtPage, workflow, Unmounted
    <2>7. MxIsOfText'
      BY <1>0, <1>3, <2>1
      DEF MxIsOfText, MtParseAnswered, mtPage, workflow, Unmounted
    <2>8. AmbiguousIsNeverAutomatic'
      BY <1>0, <1>3, <2>1
      DEF AmbiguousIsNeverAutomatic, MtParseAnswered, mtPage, workflow, Unmounted
    <2> QED BY <2>2, <2>3, <2>4, <2>5, <2>6, <2>7, <2>8 DEF MtInv
  <1>4. CASE ClearMt
    <2>1. BlankMt \in Texts /\ MtMessages \subseteq Texts /\ \A t \in Texts : t = BlankMt \/ t \in MtMessages BY DEF Texts
    <2>2. MtFlagsOK' BY <1>0, <1>4, <2>1 DEF MtFlagsOK, ClearMt, mtPage, workflow, Unmounted
    <2>3. MtTypeOK'
      BY <1>0, <1>4, <2>1, MtAssumption, <2>2
      DEF MtTypeOK, ClearMt, mtPage, workflow, Unmounted
    <2>4. ParseModeIsBare'
      BY <1>0, <1>4, <2>1
      DEF ParseModeIsBare, ClearMt, mtPage, workflow, Unmounted
    <2>5. JobIsOfText' BY <1>0, <1>4, <2>1 DEF JobIsOfText, ClearMt, mtPage, workflow, Unmounted
    <2>6. ManualIsAmbiguous'
      BY <1>0, <1>4, <2>1
      DEF ManualIsAmbiguous, ClearMt, mtPage, workflow, Unmounted
    <2>7. MxIsOfText' BY <1>0, <1>4, <2>1 DEF MxIsOfText, ClearMt, mtPage, workflow, Unmounted
    <2>8. AmbiguousIsNeverAutomatic'
      BY <1>0, <1>4, <2>1
      DEF AmbiguousIsNeverAutomatic, ClearMt, mtPage, workflow, Unmounted
    <2> QED BY <2>2, <2>3, <2>4, <2>5, <2>6, <2>7, <2>8 DEF MtInv
  <1>5. CASE Convert
    <2>1. /\ table' = NoTable /\ rowStates' = <<>> /\ mx' = NoMx /\ mapError' = FALSE /\ mode' = "convert"
          /\ versionsAsked' = {} /\ version' = BlankMt /\ AutoStart(NoJob)
          /\ UNCHANGED <<raw, mtParsed, mtError, mtParsing>>
      BY <1>5 DEF Convert, Unmounted
    <2>2. \/ job' = NoJob /\ ~(table' = NoTable /\ NoJob = NoJob /\ ~mapError' /\ raw' # BlankMt)
          \/ /\ NoJob = NoJob /\ table' = NoTable /\ raw' \in MtMessages
             /\ job' \in Jobs /\ job'.kind = "analyse" /\ job'.of = raw' /\ job' # NoJob
      BY <1>0, <2>1, Started DEF MtTypeOK
    <2>3. BlankMt \in Texts /\ MtMessages \subseteq Texts /\ \A t \in Texts : t = BlankMt \/ t \in MtMessages BY DEF Texts
    <2>4. MtFlagsOK' BY <1>0, <2>1, <2>2, <2>3 DEF MtFlagsOK
    <2>5. MtTypeOK' BY <1>0, <2>1, <2>2, <2>3, MtAssumption, <2>4 DEF MtTypeOK
    <2>6. ParseModeIsBare' BY <1>0, <2>1, <2>2, <2>3 DEF ParseModeIsBare
    <2>7. JobIsOfText' BY <1>0, <2>1, <2>2, <2>3 DEF JobIsOfText
    <2>8. ManualIsAmbiguous' BY <1>0, <2>1, <2>2, <2>3 DEF ManualIsAmbiguous
    <2>9. MxIsOfText' BY <1>0, <2>1, <2>2, <2>3 DEF MxIsOfText
    <2>10. AmbiguousIsNeverAutomatic' BY <1>0, <2>1, <2>2, <2>3 DEF AmbiguousIsNeverAutomatic
    <2> QED BY <2>4, <2>5, <2>6, <2>7, <2>8, <2>9, <2>10 DEF MtInv
  <1>6. CASE BackToParse
    <2>1. BlankMt \in Texts /\ MtMessages \subseteq Texts /\ \A t \in Texts : t = BlankMt \/ t \in MtMessages BY DEF Texts
    <2>2. MtFlagsOK' BY <1>0, <1>6, <2>1 DEF MtFlagsOK, BackToParse, mtPage, workflow, Unmounted
    <2>3. MtTypeOK'
      BY <1>0, <1>6, <2>1, MtAssumption, <2>2
      DEF MtTypeOK, BackToParse, mtPage, workflow, Unmounted
    <2>4. ParseModeIsBare'
      BY <1>0, <1>6, <2>1
      DEF ParseModeIsBare, BackToParse, mtPage, workflow, Unmounted
    <2>5. JobIsOfText' BY <1>0, <1>6, <2>1 DEF JobIsOfText, BackToParse, mtPage, workflow, Unmounted
    <2>6. ManualIsAmbiguous'
      BY <1>0, <1>6, <2>1
      DEF ManualIsAmbiguous, BackToParse, mtPage, workflow, Unmounted
    <2>7. MxIsOfText' BY <1>0, <1>6, <2>1 DEF MxIsOfText, BackToParse, mtPage, workflow, Unmounted
    <2>8. AmbiguousIsNeverAutomatic'
      BY <1>0, <1>6, <2>1
      DEF AmbiguousIsNeverAutomatic, BackToParse, mtPage, workflow, Unmounted
    <2> QED BY <2>2, <2>3, <2>4, <2>5, <2>6, <2>7, <2>8 DEF MtInv
  <1>7. CASE AnalysisLands
    <2>1. /\ job # NoJob /\ job.kind = "analyse" /\ job' = NoJob
          /\ UNCHANGED <<raw, mtParsed, mtError, mtParsing, mode, mx, version>>
      BY <1>7 DEF AnalysisLands, mtPage
    <2>2. job.of \in MtMessages /\ mode # "parse" BY <1>0, <2>1 DEF JobIsOfText, ParseModeIsBare
    <2>3. ParseModeIsBare' BY <2>1, <2>2 DEF ParseModeIsBare
    <2>4. JobIsOfText' BY <2>1 DEF JobIsOfText
    <2>5. MxIsOfText' BY <1>0, <2>1 DEF MxIsOfText
    <2>6. CASE mapError' = TRUE /\ UNCHANGED <<table, rowStates, versionsAsked>>
      <3>1. MtFlagsOK' BY <1>0, <2>1, <2>6 DEF MtFlagsOK
      <3>2. MtTypeOK' BY <1>0, <2>1, <2>6, <3>1 DEF MtTypeOK
      <3>3. ManualIsAmbiguous' /\ AmbiguousIsNeverAutomatic'
        BY <1>0, <2>6 DEF ManualIsAmbiguous, AmbiguousIsNeverAutomatic
      <3> QED BY <2>3, <2>4, <2>5, <3>1, <3>2, <3>3 DEF MtInv
    <2>7. CASE mapError' = mapError
              /\ \E c \in [Rows -> Confidences] :
                   /\ table' = [of |-> job.of, confidence |-> c]
                   /\ rowStates' = [i \in Rows |-> InitialRow(c[i])]
                   /\ versionsAsked' = versionsAsked \cup {job.of}
      <3>1. PICK c \in [Rows -> Confidences] :
                   /\ table' = [of |-> job.of, confidence |-> c]
                   /\ rowStates' = [i \in Rows |-> InitialRow(c[i])]
                   /\ versionsAsked' = versionsAsked \cup {job.of}
        BY <2>7
      <3>2. table' \in Tables /\ table'.confidence = c BY <2>2, <3>1 DEF Tables
      <3>3. \A i \in Rows : /\ InitialRow(c[i]) \in RowStates /\ InitialRow(c[i]).status = c[i]
                            /\ InitialRow(c[i]).manual = FALSE
        BY InitialRowTyped
      <3>4. rowStates' \in [Rows -> RowStates] BY <3>1, <3>3
      <3>5. \A i \in Rows : rowStates'[i].status = c[i] /\ rowStates'[i].manual = FALSE BY <3>1, <3>3
      <3>6. MtFlagsOK' BY <1>0, <2>1, <2>7 DEF MtFlagsOK
      <3>7. MtTypeOK' BY <1>0, <2>1, <2>2, <3>1, <3>2, <3>4, <3>6, MtAssumption DEF MtTypeOK
      <3>8. ManualIsAmbiguous' BY <3>5 DEF ManualIsAmbiguous
      <3>9. AmbiguousIsNeverAutomatic' BY <3>2, <3>5 DEF AmbiguousIsNeverAutomatic
      <3> QED BY <2>3, <2>4, <2>5, <3>6, <3>7, <3>8, <3>9 DEF MtInv
    <2> QED BY <1>7, <2>6, <2>7 DEF AnalysisLands
  <1>8. CASE VersionsLand
    <2>1. BlankMt \in Texts /\ MtMessages \subseteq Texts /\ \A t \in Texts : t = BlankMt \/ t \in MtMessages BY DEF Texts
    <2>2. MtFlagsOK' BY <1>0, <1>8, <2>1 DEF MtFlagsOK, VersionsLand, mtPage, workflow, Unmounted
    <2>3. MtTypeOK'
      BY <1>0, <1>8, <2>1, MtAssumption, <2>2
      DEF MtTypeOK, VersionsLand, mtPage, workflow, Unmounted
    <2>4. ParseModeIsBare'
      BY <1>0, <1>8, <2>1
      DEF ParseModeIsBare, VersionsLand, mtPage, workflow, Unmounted
    <2>5. JobIsOfText'
      BY <1>0, <1>8, <2>1
      DEF JobIsOfText, VersionsLand, mtPage, workflow, Unmounted
    <2>6. ManualIsAmbiguous'
      BY <1>0, <1>8, <2>1
      DEF ManualIsAmbiguous, VersionsLand, mtPage, workflow, Unmounted
    <2>7. MxIsOfText' BY <1>0, <1>8, <2>1 DEF MxIsOfText, VersionsLand, mtPage, workflow, Unmounted
    <2>8. AmbiguousIsNeverAutomatic'
      BY <1>0, <1>8, <2>1
      DEF AmbiguousIsNeverAutomatic, VersionsLand, mtPage, workflow, Unmounted
    <2> QED BY <2>2, <2>3, <2>4, <2>5, <2>6, <2>7, <2>8 DEF MtInv
  <1>9. CASE HandleConvert
    <2>1. job' \in Jobs /\ job'.kind = "convert" /\ job'.of = raw BY <1>0, <1>9 DEF HandleConvert, Jobs, MtTypeOK
    <2>2. MtFlagsOK' BY <1>0, <1>9, <2>1 DEF MtFlagsOK, HandleConvert, mtPage, CanGenerate
    <2>3. MtTypeOK'
      BY <1>0, <1>9, <2>1, MtAssumption, <2>2
      DEF MtTypeOK, HandleConvert, mtPage, CanGenerate
    <2>4. ParseModeIsBare'
      BY <1>0, <1>9, <2>1
      DEF ParseModeIsBare, HandleConvert, mtPage, CanGenerate
    <2>5. JobIsOfText' BY <1>0, <1>9, <2>1 DEF JobIsOfText, HandleConvert, mtPage, CanGenerate
    <2>6. ManualIsAmbiguous'
      BY <1>0, <1>9, <2>1
      DEF ManualIsAmbiguous, HandleConvert, mtPage, CanGenerate
    <2>7. MxIsOfText' BY <1>0, <1>9, <2>1 DEF MxIsOfText, HandleConvert, mtPage, CanGenerate
    <2>8. AmbiguousIsNeverAutomatic'
      BY <1>0, <1>9, <2>1
      DEF AmbiguousIsNeverAutomatic, HandleConvert, mtPage, CanGenerate
    <2> QED BY <2>2, <2>3, <2>4, <2>5, <2>6, <2>7, <2>8 DEF MtInv
  <1>10. CASE ConversionLands
    <2>1. /\ job # NoJob /\ job.kind = "convert" /\ job \in Jobs
          /\ UNCHANGED <<raw, mtParsed, mtError, mtParsing, mode, table, rowStates, versionsAsked, version>>
          /\ \/ mapError' = TRUE /\ mx' = mx /\ job' = NoJob
             \/ mapError' = mapError /\ AutoStart(NoJob) /\ mx' = IF job' = NoJob THEN job ELSE NoMx
      BY <1>0, <1>10 DEF ConversionLands, mtPage, MtTypeOK
    <2>2. \/ mapError' = TRUE /\ mx' = mx /\ job' = NoJob
          \/ /\ mapError' = mapError /\ mx' = job /\ job' = NoJob
             /\ ~(table = NoTable /\ ~mapError /\ raw # BlankMt)
          \/ /\ mapError' = mapError /\ mx' = NoMx /\ job' # NoJob /\ job' \in Jobs /\ job'.kind = "analyse"
             /\ job'.of \in MtMessages
      <3>1. raw' \in Texts BY <1>0, <2>1 DEF MtTypeOK
      <3> QED BY <2>1, <3>1, Started
    <2>3. mode # "parse" BY <1>0, <2>1 DEF ParseModeIsBare
    <2>4. MtFlagsOK' BY <1>0, <2>1, <2>2, <2>3 DEF MtFlagsOK
    <2>5. MtTypeOK' BY <1>0, <2>1, <2>2, <2>3, MtAssumption, <2>4 DEF MtTypeOK
    <2>6. ParseModeIsBare' BY <1>0, <2>1, <2>2, <2>3 DEF ParseModeIsBare
    <2>7. JobIsOfText' BY <1>0, <2>1, <2>2, <2>3 DEF JobIsOfText
    <2>8. ManualIsAmbiguous' BY <1>0, <2>1, <2>2, <2>3 DEF ManualIsAmbiguous
    <2>9. MxIsOfText' BY <1>0, <2>1, <2>2 DEF MxIsOfText, JobIsOfText
    <2>10. AmbiguousIsNeverAutomatic' BY <1>0, <2>1, <2>2, <2>3 DEF AmbiguousIsNeverAutomatic
    <2> QED BY <2>4, <2>5, <2>6, <2>7, <2>8, <2>9, <2>10 DEF MtInv
  <1>11. CASE \E i \in Rows : ChoosePath(i)
    <2>1. PICK i \in Rows : ChoosePath(i) BY <1>11
    <2>2. table # NoTable BY <2>1 DEF ChoosePath, Open, Manual
    <2>3. rowStates[i] \in RowStates BY <1>0, <2>2 DEF MtTypeOK
    <2>4. PICK p \in Paths : UpdateRow(i, [rowStates[i] EXCEPT !.path = p])
      BY <2>1, <2>3 DEF ChoosePath, RowStates, Paths
    <2> DEFINE row == [rowStates[i] EXCEPT !.path = p]
    <2>5. row \in RowStates BY <2>3 DEF RowStates, Paths, Statuses
    <2>6. row.status = "automatic" <=> rowStates[i].status = "automatic"
      BY <2>3 DEF RowStates
    <2>7. row.manual => table.confidence[i] = "ambiguous"
      <3>1. row.manual = rowStates[i].manual BY <2>3 DEF RowStates
      <3> QED BY <1>0, <2>2, <3>1 DEF ManualIsAmbiguous
    <2> HIDE DEF row
    <2>8. UpdateRow(i, row) BY <2>4 DEF row
    <2> QED BY <2>2, <2>5, <2>6, <2>7, <2>8, RowChanges
  <1>12. CASE \E i \in Rows : Confirm(i)
    <2>1. PICK i \in Rows : Confirm(i) BY <1>12
    <2>2. table # NoTable BY <2>1 DEF Confirm, Open, Manual
    <2>3. rowStates[i] \in RowStates BY <1>0, <2>2 DEF MtTypeOK
    <2>4. UpdateRow(i, [rowStates[i] EXCEPT !.status = "confirmed"])
      BY <2>1, <2>3 DEF Confirm, RowStates, Paths
    <2> DEFINE row == [rowStates[i] EXCEPT !.status = "confirmed"]
    <2>5. row \in RowStates BY <2>3 DEF RowStates, Paths, Statuses
    <2>6. row.status = "automatic" <=> rowStates[i].status = "automatic"
      <3>1. table.confidence[i] = "ambiguous"
        BY <1>0, <2>1, <2>2 DEF Confirm, Open, Manual, ManualIsAmbiguous
      <3>2. rowStates[i].status # "automatic" BY <1>0, <2>2, <3>1 DEF AmbiguousIsNeverAutomatic
      <3>3. row.status # "automatic" BY <2>3 DEF RowStates
      <3> QED BY <3>2, <3>3
    <2>7. row.manual => table.confidence[i] = "ambiguous"
      <3>1. row.manual = rowStates[i].manual BY <2>3 DEF RowStates
      <3> QED BY <1>0, <2>2, <3>1 DEF ManualIsAmbiguous
    <2> HIDE DEF row
    <2>8. UpdateRow(i, row) BY <2>4 DEF row
    <2> QED BY <2>2, <2>5, <2>6, <2>7, <2>8, RowChanges
  <1>13. CASE \E i \in Rows : Reedit(i)
    <2>1. PICK i \in Rows : Reedit(i) BY <1>13
    <2>2. table # NoTable BY <2>1 DEF Reedit, Open, Manual
    <2>3. rowStates[i] \in RowStates BY <1>0, <2>2 DEF MtTypeOK
    <2>4. UpdateRow(i, [rowStates[i] EXCEPT !.status = "ambiguous"])
      BY <2>1, <2>3 DEF Reedit, RowStates, Paths
    <2> DEFINE row == [rowStates[i] EXCEPT !.status = "ambiguous"]
    <2>5. row \in RowStates BY <2>3 DEF RowStates, Paths, Statuses
    <2>6. row.status = "automatic" <=> rowStates[i].status = "automatic"
      <3>1. rowStates[i].status = "confirmed" BY <2>1 DEF Reedit
      <3>2. row.status = "ambiguous" BY <2>3 DEF RowStates
      <3> QED BY <3>1, <3>2
    <2>7. row.manual => table.confidence[i] = "ambiguous"
      <3>1. row.manual = rowStates[i].manual BY <2>3 DEF RowStates
      <3> QED BY <1>0, <2>2, <3>1 DEF ManualIsAmbiguous
    <2> HIDE DEF row
    <2>8. UpdateRow(i, row) BY <2>4 DEF row
    <2> QED BY <2>2, <2>5, <2>6, <2>7, <2>8, RowChanges
  <1>14. CASE \E i \in Rows : EnterManual(i)
    <2>1. PICK i \in Rows : EnterManual(i) BY <1>14
    <2>2. table # NoTable BY <2>1 DEF EnterManual, Open, Manual
    <2>3. rowStates[i] \in RowStates BY <1>0, <2>2 DEF MtTypeOK
    <2>4. UpdateRow(i, [rowStates[i] EXCEPT !.manual = TRUE, !.before = rowStates[i].path, !.entered = rowStates[i].status])
      BY <2>1, <2>3 DEF EnterManual, RowStates, Paths
    <2> DEFINE row == [rowStates[i] EXCEPT !.manual = TRUE, !.before = rowStates[i].path, !.entered = rowStates[i].status]
    <2>5. row \in RowStates BY <2>3 DEF RowStates, Paths, Statuses
    <2>6. row.status = "automatic" <=> rowStates[i].status = "automatic"
      BY <2>3 DEF RowStates
    <2>7. row.manual => table.confidence[i] = "ambiguous"
      BY <2>1 DEF EnterManual, Open
    <2> HIDE DEF row
    <2>8. UpdateRow(i, row) BY <2>4 DEF row
    <2> QED BY <2>2, <2>5, <2>6, <2>7, <2>8, RowChanges
  <1>15. CASE \E i \in Rows : TypePath(i)
    <2>1. PICK i \in Rows : TypePath(i) BY <1>15
    <2>2. table # NoTable BY <2>1 DEF TypePath, Open, Manual
    <2>3. rowStates[i] \in RowStates BY <1>0, <2>2 DEF MtTypeOK
    <2>4. PICK p \in Paths : UpdateRow(i, [rowStates[i] EXCEPT !.path = p, !.status = IF p = "suggested" THEN "ambiguous" ELSE "customized"])
      BY <2>1, <2>3 DEF TypePath, RowStates, Paths
    <2> DEFINE row == [rowStates[i] EXCEPT !.path = p, !.status = IF p = "suggested" THEN "ambiguous" ELSE "customized"]
    <2>5. row \in RowStates BY <2>3 DEF RowStates, Paths, Statuses
    <2>6. row.status = "automatic" <=> rowStates[i].status = "automatic"
      <3>1. table.confidence[i] = "ambiguous"
        BY <1>0, <2>1, <2>2 DEF TypePath, Open, Manual, ManualIsAmbiguous
      <3>2. rowStates[i].status # "automatic" BY <1>0, <2>2, <3>1 DEF AmbiguousIsNeverAutomatic
      <3>3. row.status # "automatic" BY <2>3 DEF RowStates
      <3> QED BY <3>2, <3>3
    <2>7. row.manual => table.confidence[i] = "ambiguous"
      <3>1. row.manual = rowStates[i].manual BY <2>3 DEF RowStates
      <3> QED BY <1>0, <2>2, <3>1 DEF ManualIsAmbiguous
    <2> HIDE DEF row
    <2>8. UpdateRow(i, row) BY <2>4 DEF row
    <2> QED BY <2>2, <2>5, <2>6, <2>7, <2>8, RowChanges
  <1>16. CASE \E i \in Rows : CancelManual(i)
    <2>1. PICK i \in Rows : CancelManual(i) BY <1>16
    <2>2. table # NoTable BY <2>1 DEF CancelManual, Open, Manual
    <2>3. rowStates[i] \in RowStates BY <1>0, <2>2 DEF MtTypeOK
    <2>4. UpdateRow(i, [rowStates[i] EXCEPT !.path = rowStates[i].before, !.manual = FALSE, !.before = "suggested"])
      BY <2>1, <2>3 DEF CancelManual, RowStates, Paths
    <2> DEFINE row == [rowStates[i] EXCEPT !.path = rowStates[i].before, !.manual = FALSE, !.before = "suggested"]
    <2>5. row \in RowStates BY <2>3 DEF RowStates, Paths, Statuses
    <2>6. row.status = "automatic" <=> rowStates[i].status = "automatic"
      BY <2>3 DEF RowStates
    <2>7. row.manual => table.confidence[i] = "ambiguous"
      <3>1. row.manual = FALSE BY <2>3 DEF RowStates
      <3> QED BY <3>1
    <2> HIDE DEF row
    <2>8. UpdateRow(i, row) BY <2>4 DEF row
    <2> QED BY <2>2, <2>5, <2>6, <2>7, <2>8, RowChanges
  <1>17. CASE \E i \in Rows : ResetToSuggested(i)
    <2>1. PICK i \in Rows : ResetToSuggested(i) BY <1>17
    <2>2. table # NoTable BY <2>1 DEF ResetToSuggested, Open, Manual
    <2>3. rowStates[i] \in RowStates BY <1>0, <2>2 DEF MtTypeOK
    <2>4. UpdateRow(i, [rowStates[i] EXCEPT !.path = "suggested", !.status = "ambiguous", !.manual = FALSE, !.before = "suggested"])
      BY <2>1, <2>3 DEF ResetToSuggested, RowStates, Paths
    <2> DEFINE row == [rowStates[i] EXCEPT !.path = "suggested", !.status = "ambiguous", !.manual = FALSE, !.before = "suggested"]
    <2>5. row \in RowStates BY <2>3 DEF RowStates, Paths, Statuses
    <2>6. row.status = "automatic" <=> rowStates[i].status = "automatic"
      <3>1. table.confidence[i] = "ambiguous"
        BY <1>0, <2>1, <2>2 DEF ResetToSuggested, Open, Manual, ManualIsAmbiguous
      <3>2. rowStates[i].status # "automatic" BY <1>0, <2>2, <3>1 DEF AmbiguousIsNeverAutomatic
      <3>3. row.status # "automatic" BY <2>3 DEF RowStates
      <3> QED BY <3>2, <3>3
    <2>7. row.manual => table.confidence[i] = "ambiguous"
      <3>1. row.manual = FALSE BY <2>3 DEF RowStates
      <3> QED BY <3>1
    <2> HIDE DEF row
    <2>8. UpdateRow(i, row) BY <2>4 DEF row
    <2> QED BY <2>2, <2>5, <2>6, <2>7, <2>8, RowChanges
  <1>18. CASE UNCHANGED mtVars
    <2> USE <1>18 DEF mtVars, mtPage, workflow
    <2>1. MtFlagsOK' BY <1>0 DEF MtFlagsOK
    <2>2. MtTypeOK' BY <1>0, <2>1 DEF MtTypeOK
    <2>3. ParseModeIsBare' BY <1>0 DEF ParseModeIsBare
    <2>4. JobIsOfText' BY <1>0 DEF JobIsOfText
    <2>5. ManualIsAmbiguous' BY <1>0 DEF ManualIsAmbiguous
    <2>6. MxIsOfText' BY <1>0 DEF MxIsOfText
    <2>7. AmbiguousIsNeverAutomatic' BY <1>0 DEF AmbiguousIsNeverAutomatic
    <2> QED BY <2>1, <2>2, <2>3, <2>4, <2>5, <2>6, <2>7 DEF MtInv
  <1> QED BY <1>1, <1>2, <1>3, <1>4, <1>5, <1>6, <1>7, <1>8, <1>9, <1>10, <1>11, <1>12, <1>13, <1>14, <1>15, <1>16, <1>17, <1>18 DEF MtNext

(***************************************************************************)
(* PixQrPage: what is handed over is decoded once, image and badge are of  *)
(* what they stand beside.                                                 *)
(***************************************************************************)
Decodes(c) == c[2] \in {"handed", "decode"} /\ c[4] = "mounted"

\* While a payload is pending its decoding is under way, the pane says that it decodes,
\* and it decodes nothing else.
PendingIsDecoded ==
  qrTab = "decode" =>
    /\ (\A c \in pixCalls : c[2] # "handed") => pendingDecode = NoKey
    /\ pendingDecode # NoKey =>
         decodeLoading /\ \A c \in pixCalls : Decodes(c) => c[2] = "handed" /\ c[3] = pendingDecode

\* What was handed over and left alone is all that is decoded.
HandOffIsDecoded ==
  handedOver # NoKey =>
    /\ decodePayload = handedOver
    /\ \A c \in pixCalls : Decodes(c) => c[3] = handedOver
    /\ (\A c \in pixCalls : ~Decodes(c)) => decodeError \/ decodeResult = handedOver

DrawsPayload == genStep[1] = "drawing" => genStep[2] = qrPayload

\* A key analysed and not changed since is the only one analysed, and its badge is the last.
BadgeIsOfKey ==
  keyCalm =>
    /\ \A c \in pixCalls : c[2] = "analyse" => c[3] = pixKey
    /\ ~keyFocused /\ (\A c \in pixCalls : c[2] # "analyse") => keyAnalysis \in {pixKey, NoKey}

PixInv ==
  /\ PixFlagsOK /\ PixTypeOK /\ PendingIsDecoded /\ HandOffIsDecoded
  /\ DrawsPayload /\ ImageIsOfPayload /\ BadgeIsOfKey

\* No call of a kind counts when none is under way.
LEMMA NoneStill == \A k : Still(k) = {} <=> \A c \in pixCalls : c[2] # k
  BY DEF Still

\* The invariant gives what the run checks.
LEMMA PixParts == PixInv => HandOffIsConsumed /\ HandOffIsShown /\ CalmBadgeIsOfKey
  <1> SUFFICES ASSUME PixInv PROVE HandOffIsConsumed /\ HandOffIsShown /\ CalmBadgeIsOfKey
    OBVIOUS
  <1>1. PendingIsDecoded /\ HandOffIsDecoded /\ BadgeIsOfKey BY DEF PixInv
  <1>2. HandOffIsConsumed BY <1>1, NoneStill DEF HandOffIsConsumed, PendingIsDecoded
  <1>3. Still("handed") \cup Still("decode") = {} => \A c \in pixCalls : ~Decodes(c)
    BY DEF Still, Decodes
  <1>4. HandOffIsShown BY <1>1, <1>3 DEF HandOffIsShown, HandOffIsDecoded
  <1>5. CalmBadgeIsOfKey BY <1>1, NoneStill DEF CalmBadgeIsOfKey, BadgeIsOfKey
  <1> QED BY <1>2, <1>4, <1>5

\* A call that is made joins the calls with a number of its own.
LEMMA PixAsks ==
  ASSUME PixTypeOK, NEW k \in PixKinds, NEW p \in Pay, NEW S \in SUBSET PixCalls, AskPix(k, p, S)
  PROVE  /\ pixAsked' \in 0 .. MaxPix /\ pixCalls' = S \cup {<<pixAsked', k, p, "mounted">>}
         /\ pixCalls' \subseteq PixCalls
  <1>1. /\ pixAsked' \in 1 .. MaxPix /\ pixCalls' = S \cup {<<pixAsked', k, p, "mounted">>}
    BY PixAssumption DEF AskPix, PixTypeOK
  <1>2. <<pixAsked', k, p, "mounted">> \in PixCalls BY <1>1 DEF PixCalls
  <1> QED BY <1>1, <1>2

\* What is left of a page that is gone are its calls for the payload handed over.
LEMMA OrphansTyped ==
  ASSUME PixTypeOK
  PROVE  Orphans \in SUBSET PixCalls /\ \A c \in Orphans : c[2] = "handed" /\ c[4] = "left"
  <1>1. \A c \in Still("handed") : c \in PixCalls /\ c[2] = "handed" BY DEF Still, PixTypeOK
  <1>2. \A c \in Still("handed") : <<c[1], c[2], c[3], "left">> \in PixCalls
    BY <1>1 DEF PixCalls
  <1> QED BY <1>1, <1>2 DEF Orphans

\* The decode pane mounts, with or without a payload.
LEMMA DecodeTabOpens ==
  ASSUME PixInv, NEW p \in Pay, OpenDecodeTab(p)
  PROVE  PixInv'
  <1>0. PixFlagsOK /\ PixTypeOK BY DEF PixInv
  <1>1. /\ qrTab' = "decode" /\ pendingDecode' = p /\ decodePayload' = p /\ decodeResult' = NoKey
        /\ decodeError' = FALSE /\ decodeLoading' = (p # NoKey) /\ handedOver' = p
        /\ pixKey' = NoKey /\ keyFocused' = FALSE /\ keyAnalysis' = NoKey
        /\ testDataLoading' = FALSE /\ qrPayload' = NoKey /\ qrImage' = NoKey
        /\ genStep' = <<"idle", NoKey>> /\ genError' = FALSE /\ keyCalm' = TRUE
    BY DEF OpenDecodeTab, FreshGeneratePane
  <1>2. Orphans \in SUBSET PixCalls /\ \A c \in Orphans : c[2] = "handed" /\ c[4] = "left"
    BY <1>0, OrphansTyped
  <1>3. /\ pixAsked' \in 0 .. MaxPix /\ pixCalls' \subseteq PixCalls
        /\ p = NoKey => pixCalls' = Orphans
        /\ p # NoKey => pixCalls' = Orphans \cup {<<pixAsked', "handed", p, "mounted">>}
    <2>1. CASE p = NoKey BY <1>0, <1>2, <2>1 DEF OpenDecodeTab, HandOffEffect, PixTypeOK
    <2>2. CASE p # NoKey
      <3>1. AskPix("handed", p, Orphans) /\ "handed" \in PixKinds
        BY <2>2 DEF OpenDecodeTab, HandOffEffect, PixKinds
      <3> QED BY <1>0, <1>2, <2>2, <3>1, PixAsks
    <2> QED BY <2>1, <2>2
  <1>4. PixFlagsOK' BY <1>1 DEF PixFlagsOK
  <1>5. NoKey \in Pay /\ <<"idle", NoKey>> \in GenSteps BY DEF Pay, GenSteps
  <1>6. PixTypeOK' BY <1>1, <1>3, <1>4, <1>5 DEF PixTypeOK
  <1>7. \A c \in pixCalls' : Decodes(c) => p # NoKey /\ c = <<pixAsked', "handed", p, "mounted">>
    BY <1>2, <1>3 DEF Decodes
  <1>8. p # NoKey => <<pixAsked', "handed", p, "mounted">> \in pixCalls' /\ Decodes(<<pixAsked', "handed", p, "mounted">>)
    BY <1>3 DEF Decodes
  <1>9. PendingIsDecoded'
    <2>1. p # NoKey => ~\A c \in pixCalls' : c[2] # "handed" BY <1>8
    <2>2. \A c \in pixCalls' : Decodes(c) => c[2] = "handed" /\ c[3] = p BY <1>7
    <2>3. p # NoKey => decodeLoading' BY <1>1
    <2> QED BY <1>1, <2>1, <2>2, <2>3 DEF PendingIsDecoded
  <1>10. HandOffIsDecoded' BY <1>1, <1>7, <1>8 DEF HandOffIsDecoded
  <1>11. DrawsPayload' /\ ImageIsOfPayload' BY <1>1 DEF DrawsPayload, ImageIsOfPayload
  <1>12. \A c \in pixCalls' : c[2] = "handed" BY <1>2, <1>3
  <1>13. BadgeIsOfKey' BY <1>1, <1>12 DEF BadgeIsOfKey
  <1> QED BY <1>4, <1>6, <1>9, <1>10, <1>11, <1>13 DEF PixInv

\* The invariant holds of the page as it is first opened.
LEMMA PixInitially == PixInit => PixInv
  <1> SUFFICES ASSUME PixInit PROVE PixInv OBVIOUS
  <1>1. PixFlagsOK BY DEF PixFlagsOK, PixInit
  <1>2. PixTypeOK BY PixAssumption, <1>1 DEF PixTypeOK, PixInit, Pay, GenSteps
  <1>3. PendingIsDecoded BY DEF PendingIsDecoded, PixInit, Decodes
  <1>4. HandOffIsDecoded BY DEF HandOffIsDecoded, PixInit, Decodes
  <1>5. DrawsPayload BY DEF DrawsPayload, PixInit
  <1>6. ImageIsOfPayload BY DEF ImageIsOfPayload, PixInit
  <1>7. BadgeIsOfKey BY DEF BadgeIsOfKey, PixInit
  <1> QED BY <1>1, <1>2, <1>3, <1>4, <1>5, <1>6, <1>7 DEF PixInv

\* Every step of the page keeps the invariant.
LEMMA PixStep == PixInv /\ [PixNext]_pixVars => PixInv'
  <1> SUFFICES ASSUME PixInv, [PixNext]_pixVars PROVE PixInv' OBVIOUS
  <1>0. PixFlagsOK /\ PixTypeOK /\ PendingIsDecoded /\ HandOffIsDecoded /\ DrawsPayload /\ ImageIsOfPayload /\ BadgeIsOfKey
    BY DEF PixInv
  <1>1. CASE OpenDecodeTab(pendingDecode) BY <1>0, <1>1, DecodeTabOpens DEF PixTypeOK
  <1>2. CASE OnDecodeRequested BY <1>0, <1>2, DecodeTabOpens DEF OnDecodeRequested, PixTypeOK
  <1>3. CASE OpenGenerateTab
    <2>1. Orphans \in SUBSET PixCalls /\ \A c \in Orphans : c[2] = "handed" /\ c[4] = "left"
      BY <1>0, OrphansTyped
    <2>2. NoKey \in Pay /\ <<"idle", NoKey>> \in GenSteps BY DEF Pay, GenSteps
    <2>3. PixFlagsOK'
      BY <1>0, <1>3, <2>1, <2>2
      DEF PixFlagsOK, FreshGeneratePane, OpenGenerateTab, decodePane, keyField, preview, generatePane, pixQueue
    <2>4. PixTypeOK'
      BY <1>0, <1>3, <2>1, <2>2, PixAssumption, <2>3
      DEF PixTypeOK, FreshGeneratePane, OpenGenerateTab, decodePane, keyField, preview, generatePane, pixQueue
    <2>5. PendingIsDecoded'
      BY <1>0, <1>3, <2>1, <2>2
      DEF PendingIsDecoded, Decodes, FreshGeneratePane, OpenGenerateTab, decodePane, keyField, preview, generatePane, pixQueue
    <2>6. HandOffIsDecoded'
      BY <1>0, <1>3, <2>1, <2>2
      DEF HandOffIsDecoded, Decodes, FreshGeneratePane, OpenGenerateTab, decodePane, keyField, preview, generatePane, pixQueue
    <2>7. DrawsPayload'
      BY <1>0, <1>3, <2>1, <2>2
      DEF DrawsPayload, FreshGeneratePane, OpenGenerateTab, decodePane, keyField, preview, generatePane, pixQueue
    <2>8. ImageIsOfPayload'
      BY <1>0, <1>3, <2>1, <2>2
      DEF ImageIsOfPayload, FreshGeneratePane, OpenGenerateTab, decodePane, keyField, preview, generatePane, pixQueue
    <2>9. BadgeIsOfKey'
      BY <1>0, <1>3, <2>1, <2>2
      DEF BadgeIsOfKey, FreshGeneratePane, OpenGenerateTab, decodePane, keyField, preview, generatePane, pixQueue
    <2> QED BY <2>3, <2>4, <2>5, <2>6, <2>7, <2>8, <2>9 DEF PixInv
  <1>4. CASE PageRenders
    <2>1. /\ pixAsked' \in 0 .. MaxPix /\ pixCalls' \subseteq PixCalls
          /\ pixCalls' = pixCalls \cup {<<pixAsked', "handed", pendingDecode, "mounted">>}
      <3>1. pixCalls \in SUBSET PixCalls /\ "handed" \in PixKinds /\ pendingDecode \in Pay
        BY <1>0 DEF PixTypeOK, PixKinds, Pay
      <3>2. AskPix("handed", pendingDecode, pixCalls) BY <1>4 DEF PageRenders, HandOffEffect
      <3> QED BY <1>0, <3>1, <3>2, PixAsks
    <2>2. /\ qrTab = "decode" /\ pendingDecode # NoKey
          /\ decodePayload' = pendingDecode /\ decodeError' = FALSE /\ decodeLoading' = TRUE
          /\ handedOver' = pendingDecode
          /\ UNCHANGED <<qrTab, pendingDecode, decodeResult, pixKey, keyFocused, keyAnalysis, testDataLoading, keyCalm, qrPayload, qrImage, genStep, genError>>
      BY <1>4 DEF PageRenders, decodePane, keyField, preview, generatePane, pixQueue
    <2>3. \A c \in pixCalls' : Decodes(c) => c[2] = "handed" /\ c[3] = pendingDecode
      BY <1>0, <2>1, <2>2 DEF PendingIsDecoded, Decodes
    <2>4. <<pixAsked', "handed", pendingDecode, "mounted">> \in pixCalls' /\ Decodes(<<pixAsked', "handed", pendingDecode, "mounted">>)
      BY <2>1 DEF Decodes
    <2>5. PixFlagsOK' BY <1>0, <2>1, <2>2, <2>3, <2>4 DEF PixFlagsOK
    <2>6. PixTypeOK' BY <1>0, <2>1, <2>2, <2>3, <2>4, PixAssumption, <2>5 DEF PixTypeOK
    <2>7. PendingIsDecoded' BY <2>2, <2>3, <2>4 DEF PendingIsDecoded
    <2>8. HandOffIsDecoded' BY <2>2, <2>3, <2>4 DEF HandOffIsDecoded
    <2>9. DrawsPayload' BY <1>0, <2>1, <2>2, <2>3, <2>4 DEF DrawsPayload
    <2>10. ImageIsOfPayload' BY <1>0, <2>1, <2>2, <2>3, <2>4 DEF ImageIsOfPayload
    <2>11. BadgeIsOfKey' BY <1>0, <2>1, <2>2, <2>3, <2>4 DEF BadgeIsOfKey
    <2> QED BY <2>5, <2>6, <2>7, <2>8, <2>9, <2>10, <2>11 DEF PixInv
  <1>5. CASE EditPayload
    <2>1. NoKey \in Pay /\ <<"idle", NoKey>> \in GenSteps BY DEF Pay, GenSteps
    <2>2. PixFlagsOK'
      BY <1>0, <1>5, <2>1
      DEF PixFlagsOK, EditPayload, decodePane, keyField, preview, generatePane, pixQueue
    <2>3. PixTypeOK'
      BY <1>0, <1>5, <2>1, PixAssumption, <2>2
      DEF PixTypeOK, EditPayload, decodePane, keyField, preview, generatePane, pixQueue
    <2>4. PendingIsDecoded'
      BY <1>0, <1>5, <2>1
      DEF PendingIsDecoded, Decodes, EditPayload, decodePane, keyField, preview, generatePane, pixQueue
    <2>5. HandOffIsDecoded'
      BY <1>0, <1>5, <2>1
      DEF HandOffIsDecoded, Decodes, EditPayload, decodePane, keyField, preview, generatePane, pixQueue
    <2>6. DrawsPayload'
      BY <1>0, <1>5, <2>1
      DEF DrawsPayload, EditPayload, decodePane, keyField, preview, generatePane, pixQueue
    <2>7. ImageIsOfPayload'
      BY <1>0, <1>5, <2>1
      DEF ImageIsOfPayload, EditPayload, decodePane, keyField, preview, generatePane, pixQueue
    <2>8. BadgeIsOfKey'
      BY <1>0, <1>5, <2>1
      DEF BadgeIsOfKey, EditPayload, decodePane, keyField, preview, generatePane, pixQueue
    <2> QED BY <2>2, <2>3, <2>4, <2>5, <2>6, <2>7, <2>8 DEF PixInv
  <1>6. CASE HandleDecode
    <2>1. /\ pixAsked' \in 0 .. MaxPix /\ pixCalls' \subseteq PixCalls
          /\ pixCalls' = pixCalls \cup {<<pixAsked', "decode", decodePayload, "mounted">>}
      <3>1. pixCalls \in SUBSET PixCalls /\ "decode" \in PixKinds /\ decodePayload \in Pay
        BY <1>0 DEF PixTypeOK, PixKinds, Pay
      <3>2. AskPix("decode", decodePayload, pixCalls) BY <1>6 DEF HandleDecode, HandOffEffect
      <3> QED BY <1>0, <3>1, <3>2, PixAsks
    <2>2. /\ qrTab = "decode" /\ ~decodeLoading /\ decodeLoading' = TRUE /\ decodeError' = FALSE
          /\ UNCHANGED <<qrTab, pendingDecode, decodePayload, decodeResult, pixKey, keyFocused, keyAnalysis, testDataLoading, keyCalm, qrPayload, qrImage, genStep, genError, handedOver>>
      BY <1>6 DEF HandleDecode, decodePane, keyField, preview, generatePane, pixQueue
    <2>3. pendingDecode = NoKey BY <1>0, <2>2 DEF PendingIsDecoded
    <2>4. <<pixAsked', "decode", decodePayload, "mounted">> \in pixCalls' /\ Decodes(<<pixAsked', "decode", decodePayload, "mounted">>)
      BY <2>1 DEF Decodes
    <2>5. \A c \in pixCalls' : c \in pixCalls \/ c[3] = decodePayload BY <2>1
    <2>6. PixFlagsOK' BY <1>0, <2>1, <2>2, <2>3, <2>4, <2>5 DEF PixFlagsOK
    <2>7. PixTypeOK' BY <1>0, <2>1, <2>2, <2>3, <2>4, <2>5, PixAssumption, <2>6 DEF PixTypeOK
    <2>8. PendingIsDecoded' BY <1>0, <2>1, <2>2, <2>3, <2>4, <2>5 DEF PendingIsDecoded, Decodes
    <2>9. HandOffIsDecoded' BY <1>0, <2>1, <2>2, <2>4, <2>5 DEF HandOffIsDecoded
    <2>10. DrawsPayload' BY <1>0, <2>1, <2>2, <2>3, <2>4, <2>5 DEF DrawsPayload
    <2>11. ImageIsOfPayload' BY <1>0, <2>1, <2>2, <2>3, <2>4, <2>5 DEF ImageIsOfPayload
    <2>12. BadgeIsOfKey' BY <1>0, <2>1, <2>2, <2>3, <2>4, <2>5 DEF BadgeIsOfKey
    <2> QED BY <2>6, <2>7, <2>8, <2>9, <2>10, <2>11, <2>12 DEF PixInv
  <1>7. CASE DecodeEnds
    <2>1. PICK c \in pixCalls :
            /\ c[2] \in {"handed", "decode"} /\ pixCalls' = pixCalls \ {c}
            /\ c[4] = "mounted" => /\ decodeLoading' = FALSE
                                  /\ \/ decodeResult' = c[3] /\ UNCHANGED decodeError
                                     \/ decodeError' = TRUE /\ UNCHANGED decodeResult
            /\ c[4] # "mounted" => UNCHANGED <<decodeLoading, decodeResult, decodeError>>
            /\ c[2] = "handed" => pendingDecode' = NoKey
            /\ c[2] # "handed" => pendingDecode' = pendingDecode
            /\ UNCHANGED <<qrTab, decodePayload, pixKey, keyFocused, keyAnalysis, testDataLoading, keyCalm, qrPayload, qrImage, genStep, genError, pixAsked, handedOver>>
      BY <1>7 DEF DecodeEnds, Still, decodePane, keyField, preview, generatePane, pixQueue
    <2>2. c[3] \in Pay /\ c[4] \in {"mounted", "left"} BY <1>0, <2>1 DEF PixTypeOK, PixCalls
    <2>3. NoKey \in Pay /\ <<"idle", NoKey>> \in GenSteps BY DEF Pay, GenSteps
    <2>4. PixFlagsOK' BY <1>0, <2>1, <2>2, <2>3 DEF PixFlagsOK
    <2>5. PixTypeOK' BY <1>0, <2>1, <2>2, <2>3, PixAssumption, <2>4 DEF PixTypeOK
    <2>6. PendingIsDecoded'
      <3>1. c[2] = "handed" => PendingIsDecoded' BY <2>1 DEF PendingIsDecoded
      <3>2. ASSUME c[2] # "handed", qrTab = "decode", pendingDecode # NoKey PROVE c[4] # "mounted"
        BY <1>0, <2>1, <3>2 DEF PendingIsDecoded, Decodes
      <3> QED BY <1>0, <2>1, <3>1, <3>2 DEF PendingIsDecoded
    <2>7. HandOffIsDecoded'
      <3> SUFFICES ASSUME handedOver # NoKey
                   PROVE  /\ decodePayload = handedOver
                          /\ \A d \in pixCalls' : Decodes(d) => d[3] = handedOver
                          /\ (\A d \in pixCalls' : ~Decodes(d)) => decodeError' \/ decodeResult' = handedOver
        BY <2>1 DEF HandOffIsDecoded
      <3>1. CASE c[4] = "mounted"
        <4>1. Decodes(c) BY <2>1, <3>1 DEF Decodes
        <4> QED BY <1>0, <2>1, <3>1, <4>1 DEF HandOffIsDecoded
      <3>2. CASE c[4] # "mounted"
        <4>1. ~Decodes(c) BY <3>2 DEF Decodes
        <4> QED BY <1>0, <2>1, <3>2, <4>1 DEF HandOffIsDecoded
      <3> QED BY <3>1, <3>2
    <2>8. DrawsPayload' BY <1>0, <2>1, <2>2, <2>3 DEF DrawsPayload
    <2>9. ImageIsOfPayload' BY <1>0, <2>1, <2>2, <2>3 DEF ImageIsOfPayload
    <2>10. BadgeIsOfKey' BY <1>0, <2>1, <2>2, <2>3 DEF BadgeIsOfKey
    <2> QED BY <2>4, <2>5, <2>6, <2>7, <2>8, <2>9, <2>10 DEF PixInv
  <1>8. CASE EditKey
    <2>1. Still("analyse") = {} <=> \A d \in pixCalls : d[2] # "analyse" BY NoneStill
    <2>2. PixFlagsOK'
      BY <1>0, <1>8, <2>1
      DEF PixFlagsOK, EditKey, decodePane, keyField, preview, generatePane, pixQueue
    <2>3. PixTypeOK'
      BY <1>0, <1>8, <2>1, PixAssumption, <2>2
      DEF PixTypeOK, EditKey, decodePane, keyField, preview, generatePane, pixQueue
    <2>4. PendingIsDecoded'
      BY <1>0, <1>8, <2>1
      DEF PendingIsDecoded, Decodes, EditKey, decodePane, keyField, preview, generatePane, pixQueue
    <2>5. HandOffIsDecoded'
      BY <1>0, <1>8, <2>1
      DEF HandOffIsDecoded, Decodes, EditKey, decodePane, keyField, preview, generatePane, pixQueue
    <2>6. DrawsPayload'
      BY <1>0, <1>8, <2>1
      DEF DrawsPayload, EditKey, decodePane, keyField, preview, generatePane, pixQueue
    <2>7. ImageIsOfPayload'
      BY <1>0, <1>8, <2>1
      DEF ImageIsOfPayload, EditKey, decodePane, keyField, preview, generatePane, pixQueue
    <2>8. BadgeIsOfKey'
      BY <1>0, <1>8, <2>1
      DEF BadgeIsOfKey, EditKey, decodePane, keyField, preview, generatePane, pixQueue
    <2> QED BY <2>2, <2>3, <2>4, <2>5, <2>6, <2>7, <2>8 DEF PixInv
  <1>9. CASE AnalyseKey
    <2>1. /\ keyFocused /\ keyFocused' = FALSE
          /\ keyCalm' = (keyCalm /\ \A c \in pixCalls : c[2] # "analyse")
          /\ UNCHANGED <<qrTab, pendingDecode, decodePayload, decodeResult, decodeError, decodeLoading, pixKey, testDataLoading, qrPayload, qrImage, genStep,
                         genError, handedOver>>
      BY <1>9, NoneStill DEF AnalyseKey, decodePane, preview
    <2>2. keyCalm' \in BOOLEAN BY <2>1
    <2>3. PixFlagsOK' BY <1>0, <2>1, <2>2 DEF PixFlagsOK
    <2>4. NoKey \in Pay BY DEF Pay
    <2>5. /\ pixAsked' \in 0 .. MaxPix /\ pixCalls' \subseteq PixCalls /\ keyAnalysis' \in {keyAnalysis, NoKey}
          /\ \/ pixCalls' = pixCalls /\ keyAnalysis' = NoKey
             \/ pixCalls' = pixCalls \cup {<<pixAsked', "analyse", pixKey, "mounted">>}
      <3>1. CASE pixKey = NoKey BY <1>0, <1>9, <3>1 DEF AnalyseKey, pixQueue, PixTypeOK
      <3>2. CASE pixKey # NoKey
        <4>1. pixCalls \in SUBSET PixCalls /\ "analyse" \in PixKinds /\ pixKey \in Pay
          BY <1>0 DEF PixTypeOK, PixKinds
        <4>2. AskPix("analyse", pixKey, pixCalls) /\ UNCHANGED keyAnalysis
          BY <1>9, <3>2 DEF AnalyseKey
        <4> QED BY <1>0, <4>1, <4>2, PixAsks
      <3> QED BY <3>1, <3>2
    <2>6. PixTypeOK' BY <1>0, <2>1, <2>3, <2>4, <2>5 DEF PixTypeOK
    <2>7. \A c \in pixCalls' : c \in pixCalls \/ (c[2] = "analyse" /\ c[3] = pixKey) BY <2>5
    <2>14. \A c : c[2] = "analyse" => ~Decodes(c) BY DEF Decodes
    <2>8. \A c \in pixCalls : c \in pixCalls' BY <2>5
    <2>9. PendingIsDecoded' BY <1>0, <2>1, <2>7, <2>8, <2>14 DEF PendingIsDecoded
    <2>10. HandOffIsDecoded' BY <1>0, <2>1, <2>7, <2>8, <2>14 DEF HandOffIsDecoded
    <2>11. DrawsPayload' BY <1>0, <2>1 DEF DrawsPayload
    <2>12. ImageIsOfPayload' BY <1>0, <2>1 DEF ImageIsOfPayload
    <2>13. BadgeIsOfKey'
      <3>1. keyCalm' => \A c \in pixCalls' : c[2] = "analyse" => c[3] = pixKey BY <2>1, <2>7
      <3>2. keyCalm' /\ (\A c \in pixCalls' : c[2] # "analyse") => keyAnalysis' = NoKey
        <4>1. <<pixAsked', "analyse", pixKey, "mounted">>[2] = "analyse" OBVIOUS
        <4> QED BY <2>5, <4>1
      <3> QED BY <2>1, <3>1, <3>2 DEF BadgeIsOfKey
    <2> QED BY <2>3, <2>6, <2>9, <2>10, <2>11, <2>12, <2>13 DEF PixInv
  <1>10. CASE AnalysisEnds
    <2>1. PICK c \in pixCalls :
            /\ c[2] \in {"analyse"} /\ pixCalls' = pixCalls \ {c}
            /\ keyAnalysis' \in {c[3], NoKey}
            /\ UNCHANGED <<qrTab, pendingDecode, decodePayload, decodeResult, decodeError, decodeLoading, pixKey, keyFocused, testDataLoading, keyCalm, qrPayload, qrImage, genStep, genError,
                           pixAsked, handedOver>>
      BY <1>10 DEF AnalysisEnds, Still, decodePane, keyField, preview, generatePane, pixQueue
    <2>2. c[3] \in Pay /\ c[4] \in {"mounted", "left"} BY <1>0, <2>1 DEF PixTypeOK, PixCalls
    <2>3. NoKey \in Pay /\ <<"idle", NoKey>> \in GenSteps BY DEF Pay, GenSteps
    <2>4. PixFlagsOK' BY <1>0, <2>1, <2>2, <2>3 DEF PixFlagsOK
    <2>5. PixTypeOK' BY <1>0, <2>1, <2>2, <2>3, PixAssumption, <2>4 DEF PixTypeOK
    <2>6. PendingIsDecoded' BY <1>0, <2>1, <2>2, <2>3 DEF PendingIsDecoded, Decodes
    <2>7. HandOffIsDecoded' BY <1>0, <2>1, <2>2, <2>3 DEF HandOffIsDecoded, Decodes
    <2>8. DrawsPayload' BY <1>0, <2>1, <2>2, <2>3 DEF DrawsPayload
    <2>9. ImageIsOfPayload' BY <1>0, <2>1, <2>2, <2>3 DEF ImageIsOfPayload
    <2>10. BadgeIsOfKey' BY <1>0, <2>1, <2>2, <2>3 DEF BadgeIsOfKey
    <2> QED BY <2>4, <2>5, <2>6, <2>7, <2>8, <2>9, <2>10 DEF PixInv
  <1>11. CASE HandleLoadTestData
    <2>1. /\ pixAsked' \in 0 .. MaxPix /\ pixCalls' \subseteq PixCalls
          /\ pixCalls' = pixCalls \cup {<<pixAsked', "test", NoKey, "mounted">>}
      <3>1. pixCalls \in SUBSET PixCalls /\ "test" \in PixKinds /\ NoKey \in Pay
        BY <1>0 DEF PixTypeOK, PixKinds, Pay
      <3>2. AskPix("test", NoKey, pixCalls) BY <1>11 DEF HandleLoadTestData, HandOffEffect
      <3> QED BY <1>0, <3>1, <3>2, PixAsks
    <2>2. /\ testDataLoading' = TRUE
          /\ UNCHANGED <<qrTab, pendingDecode, decodePayload, decodeResult, decodeError, decodeLoading, pixKey, keyFocused, keyAnalysis, keyCalm, qrPayload, qrImage, genStep, genError, handedOver>>
      BY <1>11 DEF HandleLoadTestData, decodePane, keyField, preview, generatePane, pixQueue
    <2>3. PixFlagsOK' BY <1>0, <2>1, <2>2 DEF PixFlagsOK
    <2>4. PixTypeOK' BY <1>0, <2>1, <2>2, PixAssumption, <2>3 DEF PixTypeOK
    <2>5. PendingIsDecoded' BY <1>0, <2>1, <2>2 DEF PendingIsDecoded, Decodes
    <2>6. HandOffIsDecoded' BY <1>0, <2>1, <2>2 DEF HandOffIsDecoded, Decodes
    <2>7. DrawsPayload' BY <1>0, <2>1, <2>2 DEF DrawsPayload
    <2>8. ImageIsOfPayload' BY <1>0, <2>1, <2>2 DEF ImageIsOfPayload
    <2>9. BadgeIsOfKey' BY <1>0, <2>1, <2>2 DEF BadgeIsOfKey
    <2> QED BY <2>3, <2>4, <2>5, <2>6, <2>7, <2>8, <2>9 DEF PixInv
  <1>12. CASE TestDataEnds
    <2>1. PICK c \in pixCalls :
            /\ c[2] \in {"test"} /\ pixCalls' = pixCalls \ {c}
            /\ testDataLoading' = FALSE
            /\ \/ /\ pixKey' \in Keys /\ keyAnalysis' = NoKey /\ UNCHANGED genError
                  /\ keyCalm' = (keyCalm /\ Still("analyse") = {})
               \/ genError' = TRUE /\ UNCHANGED <<pixKey, keyAnalysis, keyCalm>>
            /\ UNCHANGED <<qrTab, pendingDecode, decodePayload, decodeResult, decodeError, decodeLoading, keyFocused, qrPayload, qrImage, genStep, pixAsked, handedOver>>
      BY <1>12 DEF TestDataEnds, Still, decodePane, keyField, preview, generatePane, pixQueue
    <2>2. c[3] \in Pay /\ c[4] \in {"mounted", "left"} BY <1>0, <2>1 DEF PixTypeOK, PixCalls
    <2>3. NoKey \in Pay /\ <<"idle", NoKey>> \in GenSteps BY DEF Pay, GenSteps
    <2>4. Still("analyse") = {} <=> \A d \in pixCalls : d[2] # "analyse" BY NoneStill
    <2>5. pixKey' \in Pay BY <1>0, <2>1 DEF PixTypeOK, Pay
    <2>6. PixFlagsOK' BY <1>0, <2>1, <2>2, <2>3, <2>4, <2>5 DEF PixFlagsOK
    <2>7. PixTypeOK' BY <1>0, <2>1, <2>2, <2>3, <2>4, <2>5, PixAssumption, <2>6 DEF PixTypeOK
    <2>8. PendingIsDecoded' BY <1>0, <2>1, <2>2, <2>3, <2>4, <2>5 DEF PendingIsDecoded, Decodes
    <2>9. HandOffIsDecoded' BY <1>0, <2>1, <2>2, <2>3, <2>4, <2>5 DEF HandOffIsDecoded, Decodes
    <2>10. DrawsPayload' BY <1>0, <2>1, <2>2, <2>3, <2>4, <2>5 DEF DrawsPayload
    <2>11. ImageIsOfPayload' BY <1>0, <2>1, <2>2, <2>3, <2>4, <2>5 DEF ImageIsOfPayload
    <2>12. BadgeIsOfKey' BY <1>0, <2>1, <2>2, <2>3, <2>4, <2>5 DEF BadgeIsOfKey
    <2> QED BY <2>6, <2>7, <2>8, <2>9, <2>10, <2>11, <2>12 DEF PixInv
  <1>13. CASE HandleGenerateQr
    <2>1. /\ pixAsked' \in 0 .. MaxPix /\ pixCalls' \subseteq PixCalls
          /\ pixCalls' = pixCalls \cup {<<pixAsked', "generate", pixKey, "mounted">>}
      <3>1. pixCalls \in SUBSET PixCalls /\ "generate" \in PixKinds /\ pixKey \in Pay
        BY <1>0 DEF PixTypeOK, PixKinds, Pay
      <3>2. AskPix("generate", pixKey, pixCalls) BY <1>13 DEF HandleGenerateQr, HandOffEffect
      <3> QED BY <1>0, <3>1, <3>2, PixAsks
    <2>2. /\ genError' = FALSE /\ genStep' = <<"asked", pixKey>> /\ genStep[1] = "idle"
          /\ UNCHANGED <<qrTab, pendingDecode, decodePayload, decodeResult, decodeError, decodeLoading, pixKey, keyFocused, keyAnalysis, testDataLoading, keyCalm, qrPayload, qrImage, handedOver>>
      BY <1>13 DEF HandleGenerateQr, decodePane, keyField, preview, generatePane, pixQueue
    <2>3. genStep' \in GenSteps BY <1>0, <2>2 DEF GenSteps, PixTypeOK
    <2>4. PixFlagsOK' BY <1>0, <2>1, <2>2, <2>3 DEF PixFlagsOK
    <2>5. PixTypeOK' BY <1>0, <2>1, <2>2, <2>3, PixAssumption, <2>4 DEF PixTypeOK
    <2>6. PendingIsDecoded' BY <1>0, <2>1, <2>2, <2>3 DEF PendingIsDecoded, Decodes
    <2>7. HandOffIsDecoded' BY <1>0, <2>1, <2>2, <2>3 DEF HandOffIsDecoded, Decodes
    <2>8. DrawsPayload' BY <1>0, <2>1, <2>2, <2>3 DEF DrawsPayload
    <2>9. ImageIsOfPayload' BY <1>0, <2>1, <2>2, <2>3 DEF ImageIsOfPayload
    <2>10. BadgeIsOfKey' BY <1>0, <2>1, <2>2, <2>3 DEF BadgeIsOfKey
    <2> QED BY <2>4, <2>5, <2>6, <2>7, <2>8, <2>9, <2>10 DEF PixInv
  <1>14. CASE PayloadComes
    <2>1. PICK c \in pixCalls :
            /\ c[2] \in {"generate"} /\ pixCalls' = pixCalls \ {c}
            /\ \/ genStep' = <<"drawing", c[3]>> /\ qrPayload' = c[3] /\ UNCHANGED genError
               \/ genStep' = <<"idle", NoKey>> /\ genError' = TRUE /\ UNCHANGED qrPayload
            /\ UNCHANGED <<qrTab, pendingDecode, decodePayload, decodeResult, decodeError, decodeLoading, pixKey, keyFocused, keyAnalysis, testDataLoading, keyCalm, qrImage, pixAsked, handedOver>>
      BY <1>14 DEF PayloadComes, Still, decodePane, keyField, preview, generatePane, pixQueue
    <2>2. c[3] \in Pay /\ c[4] \in {"mounted", "left"} BY <1>0, <2>1 DEF PixTypeOK, PixCalls
    <2>3. NoKey \in Pay /\ <<"idle", NoKey>> \in GenSteps BY DEF Pay, GenSteps
    <2>4. genStep' \in GenSteps BY <2>1, <2>2, <2>3 DEF GenSteps
    <2>5. PixFlagsOK' BY <1>0, <2>1, <2>2, <2>3, <2>4 DEF PixFlagsOK
    <2>6. PixTypeOK' BY <1>0, <2>1, <2>2, <2>3, <2>4, PixAssumption, <2>5 DEF PixTypeOK
    <2>7. PendingIsDecoded' BY <1>0, <2>1, <2>2, <2>3, <2>4 DEF PendingIsDecoded, Decodes
    <2>8. HandOffIsDecoded' BY <1>0, <2>1, <2>2, <2>3, <2>4 DEF HandOffIsDecoded, Decodes
    <2>9. DrawsPayload' BY <1>0, <2>1, <2>2, <2>3, <2>4 DEF DrawsPayload
    <2>10. ImageIsOfPayload' BY <1>0, <2>1, <2>2, <2>3, <2>4 DEF ImageIsOfPayload
    <2>11. BadgeIsOfKey' BY <1>0, <2>1, <2>2, <2>3, <2>4 DEF BadgeIsOfKey
    <2> QED BY <2>5, <2>6, <2>7, <2>8, <2>9, <2>10, <2>11 DEF PixInv
  <1>15. CASE ImageComes
    <2>1. NoKey \in Pay /\ <<"idle", NoKey>> \in GenSteps BY DEF Pay, GenSteps
    <2>2. genStep'[1] = "idle" BY <1>15 DEF ImageComes
    <2>3. genStep[2] \in Pay BY <1>0 DEF PixTypeOK, GenSteps
    <2>4. PixFlagsOK'
      BY <1>0, <1>15, <2>1, <2>2, <2>3
      DEF PixFlagsOK, ImageComes, decodePane, keyField, preview, generatePane, pixQueue
    <2>5. PixTypeOK'
      BY <1>0, <1>15, <2>1, <2>2, <2>3, PixAssumption, <2>4
      DEF PixTypeOK, ImageComes, decodePane, keyField, preview, generatePane, pixQueue
    <2>6. PendingIsDecoded'
      BY <1>0, <1>15, <2>1, <2>2, <2>3
      DEF PendingIsDecoded, Decodes, ImageComes, decodePane, keyField, preview, generatePane, pixQueue
    <2>7. HandOffIsDecoded'
      BY <1>0, <1>15, <2>1, <2>2, <2>3
      DEF HandOffIsDecoded, Decodes, ImageComes, decodePane, keyField, preview, generatePane, pixQueue
    <2>8. DrawsPayload' BY <2>2 DEF DrawsPayload
    <2>9. ImageIsOfPayload' BY <1>0, <1>15 DEF ImageIsOfPayload, DrawsPayload, ImageComes, preview
    <2>10. BadgeIsOfKey'
      BY <1>0, <1>15, <2>1, <2>2, <2>3
      DEF BadgeIsOfKey, ImageComes, decodePane, keyField, preview, generatePane, pixQueue
    <2> QED BY <2>4, <2>5, <2>6, <2>7, <2>8, <2>9, <2>10 DEF PixInv
  <1>16. CASE UNCHANGED pixVars
    <2> USE <1>16 DEF pixVars, decodePane, keyField, preview, generatePane, pixQueue
    <2>1. PixFlagsOK' BY <1>0 DEF PixFlagsOK
    <2>2. PixTypeOK' BY <1>0, <2>1 DEF PixTypeOK
    <2>3. PendingIsDecoded' BY <1>0 DEF PendingIsDecoded, Decodes
    <2>4. HandOffIsDecoded' BY <1>0 DEF HandOffIsDecoded, Decodes
    <2>5. DrawsPayload' BY <1>0 DEF DrawsPayload
    <2>6. ImageIsOfPayload' BY <1>0 DEF ImageIsOfPayload
    <2>7. BadgeIsOfKey' BY <1>0 DEF BadgeIsOfKey
    <2> QED BY <2>1, <2>2, <2>3, <2>4, <2>5, <2>6, <2>7 DEF PixInv
  <1> QED BY <1>1, <1>2, <1>3, <1>4, <1>5, <1>6, <1>7, <1>8, <1>9, <1>10, <1>11, <1>12, <1>13, <1>14, <1>15, <1>16 DEF PixNext

(***************************************************************************)
(* WorkspaceSettings: a form at rest holds what the server has.            *)
(***************************************************************************)
\* The form is a copy of data that has landed, and a save is of a form.
FormIsACopy ==
  /\ wsForm # NoWsData => wsQuery.data # NoWsData
  /\ saveMut # WsIdle => wsForm # NoWsData

\* With no save under way an answer on its way is what the server has.
AnswerIsServers ==
  saveMut = WsIdle /\ ~failed /\ wsQuery.get \in Configs => wsQuery.get = wsConfig

\* A form not edited is the server's, the one being saved, or the data of a query that
\* is not done yet.
FormIsKnown ==
  ~edited /\ wsForm # NoWsData =>
    /\ saveMut = WsIdle /\ ~failed => wsForm = wsConfig \/ (wsForm = wsQuery.data /\ wsQuery.get # WsIdle)
    /\ saveMut = WsAsked => wsForm \in {wsConfig, wsQuery.data}
    /\ saveMut \in Configs => wsForm \in {saveMut, wsQuery.data}

WsInv == WsFlagsOK /\ WsTypeOK /\ FormIsACopy /\ AnswerIsServers /\ FormIsKnown

\* The invariant gives what the run checks.
LEMMA WsParts == WsInv => QuietFormIsServers
  BY DEF WsInv, QuietFormIsServers, FormIsKnown

\* The invariant holds of the form before it is served.
LEMMA WsInitially == WsInit => WsInv
  <1> SUFFICES ASSUME WsInit PROVE WsInv OBVIOUS
  <1>1. WsFlagsOK BY DEF WsFlagsOK, WsInit
  <1>2. WsTypeOK BY SettingsAssumption, <1>1 DEF WsTypeOK, WsInit
  <1>3. FormIsACopy BY SettingsAssumption DEF FormIsACopy, WsInit
  <1>4. AnswerIsServers BY SettingsAssumption DEF AnswerIsServers, WsInit
  <1>5. FormIsKnown BY SettingsAssumption DEF FormIsKnown, WsInit
  <1> QED BY <1>1, <1>2, <1>3, <1>4, <1>5 DEF WsInv

\* Every step of the settings keeps the invariant.
LEMMA WsStep == WsInv /\ [WsNext]_wsVars => WsInv'
  <1> SUFFICES ASSUME WsInv, [WsNext]_wsVars PROVE WsInv' OBVIOUS
  <1>0. WsFlagsOK /\ WsTypeOK /\ FormIsACopy /\ AnswerIsServers /\ FormIsKnown
    BY DEF WsInv
  <1>1. CASE ServeConfig
    <2>1. wsQuery'.data = wsQuery.data /\ wsQuery'.get = wsConfig /\ wsQuery' = [data |-> wsQuery.data, get |-> wsConfig]
      BY <1>0, <1>1, SettingsAssumption DEF ServeConfig, WsTypeOK
    <2>2. wsQuery' \in [data : Configs \cup {NoWsData}, get : Configs \cup {WsIdle, WsAsked}]
      BY <1>0, <2>1, <1>1 DEF WsTypeOK, ServeConfig
    <2>3. wsConfig \in Configs /\ WsIdle \notin Configs /\ WsAsked \notin Configs BY <1>0, SettingsAssumption DEF WsTypeOK
    <2>4. WsFlagsOK' BY <1>0, <1>1, <2>1, <2>2, <2>3 DEF WsFlagsOK, ServeConfig
    <2>5. WsTypeOK'
      BY <1>0, <1>1, <2>1, <2>2, <2>3, SettingsAssumption, <2>4
      DEF WsTypeOK, ServeConfig
    <2>6. FormIsACopy'
      BY <1>0, <1>1, <2>1, <2>2, <2>3, SettingsAssumption
      DEF FormIsACopy, ServeConfig
    <2>7. AnswerIsServers'
      BY <1>0, <1>1, <2>1, <2>2, <2>3, SettingsAssumption
      DEF AnswerIsServers, ServeConfig
    <2>8. FormIsKnown'
      BY <1>0, <1>1, <2>1, <2>2, <2>3, SettingsAssumption
      DEF FormIsKnown, ServeConfig
    <2> QED BY <2>4, <2>5, <2>6, <2>7, <2>8 DEF WsInv
  <1>2. CASE LandConfig
    <2>1. wsQuery'.data = wsQuery.get /\ wsQuery'.get = WsIdle /\ wsQuery' = [data |-> wsQuery.get, get |-> WsIdle]
      BY <1>0, <1>2, SettingsAssumption DEF LandConfig, WsTypeOK
    <2>2. wsQuery' \in [data : Configs \cup {NoWsData}, get : Configs \cup {WsIdle, WsAsked}]
      BY <1>0, <2>1, <1>2 DEF WsTypeOK, LandConfig
    <2>3. wsConfig \in Configs /\ WsIdle \notin Configs /\ WsAsked \notin Configs BY <1>0, SettingsAssumption DEF WsTypeOK
    <2>4. WsFlagsOK' BY <1>0, <1>2, <2>1, <2>2, <2>3 DEF WsFlagsOK, LandConfig
    <2>5. WsTypeOK'
      BY <1>0, <1>2, <2>1, <2>2, <2>3, SettingsAssumption, <2>4
      DEF WsTypeOK, LandConfig
    <2>6. FormIsACopy'

      <3>1. wsForm' # NoWsData => wsQuery'.data # NoWsData
        BY <1>0, <1>2, <2>1, SettingsAssumption DEF FormIsACopy, LandConfig
      <3> QED BY <1>0, <1>2, <3>1, SettingsAssumption DEF FormIsACopy, LandConfig
    <2>7. AnswerIsServers'
      BY <1>0, <1>2, <2>1, <2>2, <2>3, SettingsAssumption
      DEF AnswerIsServers, LandConfig
    <2>8. FormIsKnown' BY <1>0, <1>2, <2>1, <2>3, SettingsAssumption DEF FormIsKnown, AnswerIsServers, LandConfig
    <2> QED BY <2>4, <2>5, <2>6, <2>7, <2>8 DEF WsInv
  <1>3. CASE FailConfig
    <2>1. /\ wsQuery'.data = wsQuery.data /\ wsQuery'.get \in {WsIdle, WsAsked}
          /\ wsQuery' = [data |-> wsQuery.data, get |-> wsQuery'.get]
      BY <1>0, <1>3, SettingsAssumption DEF FailConfig, WsTypeOK
    <2>2. wsQuery' \in [data : Configs \cup {NoWsData}, get : Configs \cup {WsIdle, WsAsked}]
      BY <1>0, <2>1, <1>3 DEF WsTypeOK, FailConfig
    <2>3. wsConfig \in Configs /\ WsIdle \notin Configs /\ WsAsked \notin Configs BY <1>0, SettingsAssumption DEF WsTypeOK
    <2>4. WsFlagsOK' BY <1>0, <1>3, <2>1, <2>2, <2>3 DEF WsFlagsOK, FailConfig
    <2>5. WsTypeOK'
      BY <1>0, <1>3, <2>1, <2>2, <2>3, SettingsAssumption, <2>4
      DEF WsTypeOK, FailConfig
    <2>6. FormIsACopy'
      BY <1>0, <1>3, <2>1, <2>2, <2>3, SettingsAssumption
      DEF FormIsACopy, FailConfig
    <2>7. AnswerIsServers'
      BY <1>0, <1>3, <2>1, <2>2, <2>3, SettingsAssumption
      DEF AnswerIsServers, FailConfig
    <2>8. FormIsKnown'
      BY <1>0, <1>3, <2>1, <2>2, <2>3, SettingsAssumption
      DEF FormIsKnown, FailConfig
    <2> QED BY <2>4, <2>5, <2>6, <2>7, <2>8 DEF WsInv
  <1>4. CASE RefetchConfig
    <2>1. wsQuery'.data = wsQuery.data /\ wsQuery'.get = WsAsked /\ wsQuery' = [data |-> wsQuery.data, get |-> WsAsked]
      BY <1>0, <1>4, SettingsAssumption DEF RefetchConfig, WsTypeOK
    <2>2. wsQuery' \in [data : Configs \cup {NoWsData}, get : Configs \cup {WsIdle, WsAsked}]
      BY <1>0, <2>1, <1>4 DEF WsTypeOK, RefetchConfig
    <2>3. wsConfig \in Configs /\ WsIdle \notin Configs /\ WsAsked \notin Configs BY <1>0, SettingsAssumption DEF WsTypeOK
    <2>4. WsFlagsOK' BY <1>0, <1>4, <2>1, <2>2, <2>3 DEF WsFlagsOK, RefetchConfig
    <2>5. WsTypeOK'
      BY <1>0, <1>4, <2>1, <2>2, <2>3, SettingsAssumption, <2>4
      DEF WsTypeOK, RefetchConfig
    <2>6. FormIsACopy'
      BY <1>0, <1>4, <2>1, <2>2, <2>3, SettingsAssumption
      DEF FormIsACopy, RefetchConfig
    <2>7. AnswerIsServers'
      BY <1>0, <1>4, <2>1, <2>2, <2>3, SettingsAssumption
      DEF AnswerIsServers, RefetchConfig
    <2>8. FormIsKnown'
      BY <1>0, <1>4, <2>1, <2>2, <2>3, SettingsAssumption
      DEF FormIsKnown, RefetchConfig
    <2> QED BY <2>4, <2>5, <2>6, <2>7, <2>8 DEF WsInv
  <1>5. CASE EditConfig
    <2>1. WsFlagsOK' BY <1>0, <1>5 DEF WsFlagsOK, EditConfig
    <2>2. WsTypeOK' BY <1>0, <1>5, SettingsAssumption, <2>1 DEF WsTypeOK, EditConfig
    <2>3. FormIsACopy' BY <1>0, <1>5, SettingsAssumption DEF FormIsACopy, EditConfig
    <2>4. AnswerIsServers' BY <1>0, <1>5, SettingsAssumption DEF AnswerIsServers, EditConfig
    <2>5. FormIsKnown' BY <1>0, <1>5, SettingsAssumption DEF FormIsKnown, EditConfig
    <2> QED BY <2>1, <2>2, <2>3, <2>4, <2>5 DEF WsInv
  <1>6. CASE SaveChanges
    <2>1. wsForm \in Configs /\ WsIdle \notin Configs /\ WsAsked \notin Configs BY <1>0, <1>6, SettingsAssumption DEF WsTypeOK, SaveChanges
    <2>2. WsFlagsOK' BY <1>0, <1>6, <2>1 DEF WsFlagsOK, SaveChanges
    <2>3. WsTypeOK' BY <1>0, <1>6, <2>1, SettingsAssumption, <2>2 DEF WsTypeOK, SaveChanges
    <2>4. FormIsACopy' BY <1>0, <1>6, <2>1, SettingsAssumption DEF FormIsACopy, SaveChanges
    <2>5. AnswerIsServers' BY <1>0, <1>6, <2>1, SettingsAssumption DEF AnswerIsServers, SaveChanges
    <2>6. FormIsKnown' BY <1>0, <1>6, <2>1, SettingsAssumption DEF FormIsKnown, SaveChanges
    <2> QED BY <2>2, <2>3, <2>4, <2>5, <2>6 DEF WsInv
  <1>7. CASE StoreConfig
    <2>1. WsFlagsOK' BY <1>0, <1>7 DEF WsFlagsOK, StoreConfig
    <2>2. WsTypeOK' BY <1>0, <1>7, SettingsAssumption, <2>1 DEF WsTypeOK, StoreConfig
    <2>3. FormIsACopy' BY <1>0, <1>7, SettingsAssumption DEF FormIsACopy, StoreConfig
    <2>4. AnswerIsServers' BY <1>0, <1>7, SettingsAssumption DEF AnswerIsServers, StoreConfig
    <2>5. FormIsKnown' BY <1>0, <1>7, SettingsAssumption DEF FormIsKnown, StoreConfig
    <2> QED BY <2>1, <2>2, <2>3, <2>4, <2>5 DEF WsInv
  <1>8. CASE SaveAnswered
    <2>1. wsQuery.data # NoWsData /\ wsQuery.data \in Configs BY <1>0, <1>8, SettingsAssumption DEF SaveAnswered, FormIsACopy, WsTypeOK
    <2>2. wsQuery'.data = wsQuery.data /\ wsQuery'.get = WsAsked /\ wsQuery' = [data |-> wsQuery.data, get |-> WsAsked]
      BY <1>0, <1>8, <2>1 DEF SaveAnswered, Invalidated, WsTypeOK
    <2>3. wsQuery' \in [data : Configs \cup {NoWsData}, get : Configs \cup {WsIdle, WsAsked}]
      BY <1>0, <2>2 DEF WsTypeOK
    <2>4. WsFlagsOK' BY <1>0, <1>8, <2>1, <2>2, <2>3 DEF WsFlagsOK, SaveAnswered
    <2>5. WsTypeOK'
      BY <1>0, <1>8, <2>1, <2>2, <2>3, SettingsAssumption, <2>4
      DEF WsTypeOK, SaveAnswered
    <2>6. FormIsACopy'
      BY <1>0, <1>8, <2>1, <2>2, <2>3, SettingsAssumption
      DEF FormIsACopy, SaveAnswered
    <2>7. AnswerIsServers'
      BY <1>0, <1>8, <2>1, <2>2, <2>3, SettingsAssumption
      DEF AnswerIsServers, SaveAnswered
    <2>8. FormIsKnown'
      BY <1>0, <1>8, <2>1, <2>2, <2>3, SettingsAssumption
      DEF FormIsKnown, SaveAnswered
    <2> QED BY <2>4, <2>5, <2>6, <2>7, <2>8 DEF WsInv
  <1>9. CASE SaveFails
    <2>1. WsFlagsOK' BY <1>0, <1>9 DEF WsFlagsOK, SaveFails
    <2>2. WsTypeOK' BY <1>0, <1>9, SettingsAssumption, <2>1 DEF WsTypeOK, SaveFails
    <2>3. FormIsACopy' BY <1>0, <1>9, SettingsAssumption DEF FormIsACopy, SaveFails
    <2>4. AnswerIsServers' BY <1>0, <1>9, SettingsAssumption DEF AnswerIsServers, SaveFails
    <2>5. FormIsKnown' BY <1>0, <1>9, SettingsAssumption DEF FormIsKnown, SaveFails
    <2> QED BY <2>1, <2>2, <2>3, <2>4, <2>5 DEF WsInv
  <1>10. CASE UNCHANGED wsVars
    <2> USE <1>10 DEF wsVars
    <2>1. WsFlagsOK' BY <1>0 DEF WsFlagsOK
    <2>2. WsTypeOK' BY <1>0, <2>1 DEF WsTypeOK
    <2>3. FormIsACopy' BY <1>0 DEF FormIsACopy
    <2>4. AnswerIsServers' BY <1>0 DEF AnswerIsServers
    <2>5. FormIsKnown' BY <1>0 DEF FormIsKnown
    <2> QED BY <2>1, <2>2, <2>3, <2>4, <2>5 DEF WsInv
  <1> QED BY <1>1, <1>2, <1>3, <1>4, <1>5, <1>6, <1>7, <1>8, <1>9, <1>10 DEF WsNext

(***************************************************************************)
(* SchemasSection: what was uploaded is visible once the list is read      *)
(* again.                                                                  *)
(***************************************************************************)
\* An accordion is owed only by a section that has initialised from a list.
OwedOnAList ==
  /\ due # {} => schemaTab /\ initialised
  /\ initialised => schemaQuery.data # NoSchemas

\* What was uploaded is on the server, and in every answer served since.
OwedIsServed ==
  /\ due \subseteq wsSchemas
  /\ schemaQuery.get \in SUBSET Families => due \subseteq schemaQuery.get

UploadIsStored ==
  /\ uploadMut = UpAsked => uploaded \in wsSchemas
  /\ uploadMut \in Families => uploaded = uploadMut

UpInv ==
  /\ UpFlagsOK /\ UpTypeOK /\ OwedOnAList /\ OwedIsServed /\ UploadIsStored /\ UploadedIsVisible

UpQueries == [data : (SUBSET Families) \cup {NoSchemas}, get : (SUBSET Families) \cup {UpIdle, UpAsked}]

\* The marks of a query are no families of schemas.
LEMMA UpDistinct ==
  /\ UpIdle # UpAsked /\ UpIdle \notin Families /\ UpAsked \notin Families /\ NoSchemas \notin Families
  /\ UpIdle \notin SUBSET Families /\ UpAsked \notin SUBSET Families /\ NoSchemas \notin SUBSET Families
  BY SchemasAssumption

\* The invariant holds before the schemas are served.
LEMMA UpInitially == UpInit => UpInv
  <1> SUFFICES ASSUME UpInit PROVE UpInv OBVIOUS
  <1>1. UpFlagsOK BY DEF UpFlagsOK, UpInit
  <1>2. UpTypeOK BY UpDistinct, SchemasAssumption, <1>1 DEF UpTypeOK, UpInit, UpQueries
  <1>3. OwedOnAList BY UpDistinct DEF OwedOnAList, UpInit
  <1>4. OwedIsServed BY UpDistinct DEF OwedIsServed, UpInit
  <1>5. UploadIsStored BY UpDistinct DEF UploadIsStored, UpInit
  <1>6. UploadedIsVisible BY UpDistinct DEF UploadedIsVisible, UpInit
  <1> QED BY <1>1, <1>2, <1>3, <1>4, <1>5, <1>6 DEF UpInv

\* Every step of the section keeps the invariant.
LEMMA UpStep == UpInv /\ [UpNext]_upVars => UpInv'
  <1> SUFFICES ASSUME UpInv, [UpNext]_upVars PROVE UpInv' OBVIOUS
  <1>0. UpFlagsOK /\ UpTypeOK /\ OwedOnAList /\ OwedIsServed /\ UploadIsStored /\ UploadedIsVisible
    BY DEF UpInv
  <1>1. CASE OpenSchemas
    <2>1. /\ schemaQuery'.data = schemaQuery.data /\ schemaQuery'.get \in {schemaQuery.get, UpAsked}
          /\ schemaQuery' = [data |-> schemaQuery.data, get |-> schemaQuery'.get]
      BY <1>0, <1>1, UpDistinct DEF OpenSchemas, UpTypeOK, Restarted
    <2>2. schemaQuery' \in UpQueries BY <1>0, <2>1, <1>1 DEF OpenSchemas, UpTypeOK, UpQueries
    <2>3. UpFlagsOK' BY <1>0, <1>1, <2>1, <2>2 DEF UpFlagsOK, OpenSchemas
    <2>4. UpTypeOK'
      BY <1>0, <1>1, <2>1, <2>2, UpDistinct, SchemasAssumption, <2>3
      DEF UpTypeOK, UpQueries, OpenSchemas
    <2>5. OwedOnAList' BY <1>0, <1>1, <2>1, <2>2, UpDistinct DEF OwedOnAList, OpenSchemas
    <2>6. OwedIsServed' BY <1>0, <1>1, <2>1, <2>2, UpDistinct DEF OwedIsServed, OpenSchemas
    <2>7. UploadIsStored' BY <1>0, <1>1, <2>1, <2>2, UpDistinct DEF UploadIsStored, OpenSchemas
    <2>8. UploadedIsVisible'
      BY <1>0, <1>1, <2>1, <2>2, UpDistinct
      DEF UploadedIsVisible, OpenSchemas
    <2> QED BY <2>3, <2>4, <2>5, <2>6, <2>7, <2>8 DEF UpInv
  <1>2. CASE LeaveSchemas
    <2>1. UpFlagsOK' BY <1>0, <1>2 DEF UpFlagsOK, LeaveSchemas
    <2>2. UpTypeOK'
      BY <1>0, <1>2, UpDistinct, SchemasAssumption, <2>1
      DEF UpTypeOK, UpQueries, LeaveSchemas
    <2>3. OwedOnAList' BY <1>0, <1>2, UpDistinct DEF OwedOnAList, LeaveSchemas
    <2>4. OwedIsServed' BY <1>0, <1>2, UpDistinct DEF OwedIsServed, LeaveSchemas
    <2>5. UploadIsStored' BY <1>0, <1>2, UpDistinct DEF UploadIsStored, LeaveSchemas
    <2>6. UploadedIsVisible' BY <1>0, <1>2, UpDistinct DEF UploadedIsVisible, LeaveSchemas
    <2> QED BY <2>1, <2>2, <2>3, <2>4, <2>5, <2>6 DEF UpInv
  <1>3. CASE ServeSchemas
    <2>1. schemaQuery'.data = schemaQuery.data /\ schemaQuery'.get = wsSchemas /\ schemaQuery' = [data |-> schemaQuery.data, get |-> wsSchemas]
      BY <1>0, <1>3, UpDistinct DEF ServeSchemas, UpTypeOK
    <2>2. schemaQuery' \in UpQueries BY <1>0, <2>1, <1>3 DEF ServeSchemas, UpTypeOK, UpQueries
    <2>3. wsSchemas # UpIdle /\ wsSchemas \in SUBSET Families BY <1>0, UpDistinct DEF UpTypeOK
    <2>4. UpFlagsOK' BY <1>0, <1>3, <2>1, <2>2, <2>3 DEF UpFlagsOK, ServeSchemas
    <2>5. UpTypeOK'
      BY <1>0, <1>3, <2>1, <2>2, <2>3, UpDistinct, SchemasAssumption, <2>4
      DEF UpTypeOK, UpQueries, ServeSchemas
    <2>6. OwedOnAList' BY <1>0, <1>3, <2>1, <2>2, <2>3, UpDistinct DEF OwedOnAList, ServeSchemas
    <2>7. OwedIsServed' BY <1>0, <1>3, <2>1, <2>2, <2>3, UpDistinct DEF OwedIsServed, ServeSchemas
    <2>8. UploadIsStored'
      BY <1>0, <1>3, <2>1, <2>2, <2>3, UpDistinct
      DEF UploadIsStored, ServeSchemas
    <2>9. UploadedIsVisible'
      BY <1>0, <1>3, <2>1, <2>2, <2>3, UpDistinct
      DEF UploadedIsVisible, ServeSchemas
    <2> QED BY <2>4, <2>5, <2>6, <2>7, <2>8, <2>9 DEF UpInv
  <1>4. CASE LandSchemas
    <2>1. schemaQuery'.data = schemaQuery.get /\ schemaQuery'.get = UpIdle /\ schemaQuery' = [data |-> schemaQuery.get, get |-> UpIdle]
      BY <1>0, <1>4, UpDistinct DEF LandSchemas, UpTypeOK
    <2>2. schemaQuery' \in UpQueries BY <1>0, <2>1, <1>4 DEF LandSchemas, UpTypeOK, UpQueries
    <2>3. schemaQuery.get \in SUBSET Families /\ schemaQuery.get # NoSchemas BY <1>0, <1>4, UpDistinct DEF UpTypeOK, LandSchemas
    <2>4. UpFlagsOK' BY <1>0, <1>4, <2>1, <2>2, <2>3 DEF UpFlagsOK, LandSchemas
    <2>5. UpTypeOK'
      BY <1>0, <1>4, <2>1, <2>2, <2>3, UpDistinct, SchemasAssumption, <2>4
      DEF UpTypeOK, UpQueries, LandSchemas
    <2>6. OwedOnAList' BY <1>0, <1>4, <2>1, <2>2, <2>3, UpDistinct DEF OwedOnAList, LandSchemas
    <2>7. OwedIsServed' BY <1>0, <1>4, <2>1, <2>2, <2>3, UpDistinct DEF OwedIsServed, LandSchemas
    <2>8. UploadIsStored'
      BY <1>0, <1>4, <2>1, <2>2, <2>3, UpDistinct
      DEF UploadIsStored, LandSchemas
    <2>9. UploadedIsVisible' BY <1>0, <1>4, <2>1, <2>3, UpDistinct DEF UploadedIsVisible, LandSchemas, OwedOnAList, OwedIsServed
    <2> QED BY <2>4, <2>5, <2>6, <2>7, <2>8, <2>9 DEF UpInv
  <1>5. CASE ToggleFamily
    <2>1. schemaQuery.data \subseteq Families BY <1>0, <1>5, UpDistinct DEF UpTypeOK, ToggleFamily
    <2>2. UpFlagsOK' BY <1>0, <1>5, <2>1 DEF UpFlagsOK, ToggleFamily
    <2>3. UpTypeOK'
      BY <1>0, <1>5, <2>1, UpDistinct, SchemasAssumption, <2>2
      DEF UpTypeOK, UpQueries, ToggleFamily
    <2>4. OwedOnAList' BY <1>0, <1>5, <2>1, UpDistinct DEF OwedOnAList, ToggleFamily
    <2>5. OwedIsServed' BY <1>0, <1>5, <2>1, UpDistinct DEF OwedIsServed, ToggleFamily
    <2>6. UploadIsStored' BY <1>0, <1>5, <2>1, UpDistinct DEF UploadIsStored, ToggleFamily
    <2>7. UploadedIsVisible' BY <1>0, <1>5, <2>1, UpDistinct DEF UploadedIsVisible, ToggleFamily
    <2> QED BY <2>2, <2>3, <2>4, <2>5, <2>6, <2>7 DEF UpInv
  <1>6. CASE PickFile
    <2>1. UpFlagsOK' BY <1>0, <1>6 DEF UpFlagsOK, PickFile
    <2>2. UpTypeOK'
      BY <1>0, <1>6, UpDistinct, SchemasAssumption, <2>1
      DEF UpTypeOK, UpQueries, PickFile
    <2>3. OwedOnAList' BY <1>0, <1>6, UpDistinct DEF OwedOnAList, PickFile
    <2>4. OwedIsServed' BY <1>0, <1>6, UpDistinct DEF OwedIsServed, PickFile
    <2>5. UploadIsStored' BY <1>0, <1>6, UpDistinct DEF UploadIsStored, PickFile
    <2>6. UploadedIsVisible' BY <1>0, <1>6, UpDistinct DEF UploadedIsVisible, PickFile
    <2> QED BY <2>1, <2>2, <2>3, <2>4, <2>5, <2>6 DEF UpInv
  <1>7. CASE StoreSchema
    <2>1. UpFlagsOK' BY <1>0, <1>7 DEF UpFlagsOK, StoreSchema
    <2>2. UpTypeOK'
      BY <1>0, <1>7, UpDistinct, SchemasAssumption, <2>1
      DEF UpTypeOK, UpQueries, StoreSchema
    <2>3. OwedOnAList' BY <1>0, <1>7, UpDistinct DEF OwedOnAList, StoreSchema
    <2>4. OwedIsServed' BY <1>0, <1>7, UpDistinct DEF OwedIsServed, StoreSchema
    <2>5. UploadIsStored' BY <1>0, <1>7, UpDistinct DEF UploadIsStored, StoreSchema
    <2>6. UploadedIsVisible' BY <1>0, <1>7, UpDistinct DEF UploadedIsVisible, StoreSchema
    <2> QED BY <2>1, <2>2, <2>3, <2>4, <2>5, <2>6 DEF UpInv
  <1>8. CASE UploadAnswered
    <2>1. /\ schemaQuery'.data = schemaQuery.data /\ schemaQuery'.get \in {schemaQuery.get, UpAsked}
          /\ schemaQuery' = [data |-> schemaQuery.data, get |-> schemaQuery'.get]
          /\ schemaQuery.data # NoSchemas => schemaQuery'.get = UpAsked
      BY <1>0, <1>8, UpDistinct DEF UploadAnswered, UpTypeOK, Restarted
    <2>2. schemaQuery' \in UpQueries BY <1>0, <2>1, <1>8 DEF UploadAnswered, UpTypeOK, UpQueries
    <2>3. uploaded \in wsSchemas /\ uploaded \in Families /\ due' \subseteq due \cup {uploaded}
      BY <1>0, <1>8 DEF UploadAnswered, UploadIsStored, UpTypeOK
    <2>4. due' # {} => schemaTab /\ initialised /\ schemaQuery.data # NoSchemas /\ schemaQuery'.get = UpAsked
      BY <1>0, <1>8, <2>1 DEF UploadAnswered, OwedOnAList
    <2>5. UpFlagsOK' BY <1>0, <1>8, <2>1, <2>2, <2>3, <2>4 DEF UpFlagsOK, UploadAnswered
    <2>6. UpTypeOK'
      BY <1>0, <1>8, <2>1, <2>2, <2>3, <2>4, UpDistinct, SchemasAssumption, <2>5
      DEF UpTypeOK, UpQueries, UploadAnswered
    <2>7. OwedOnAList'
      BY <1>0, <1>8, <2>1, <2>2, <2>3, <2>4, UpDistinct
      DEF OwedOnAList, UploadAnswered
    <2>8. OwedIsServed'
      BY <1>0, <1>8, <2>1, <2>2, <2>3, <2>4, UpDistinct
      DEF OwedIsServed, UploadAnswered
    <2>9. UploadIsStored'
      BY <1>0, <1>8, <2>1, <2>2, <2>3, <2>4, UpDistinct
      DEF UploadIsStored, UploadAnswered
    <2>10. UploadedIsVisible'
      BY <1>0, <1>8, <2>1, <2>2, <2>3, <2>4, UpDistinct
      DEF UploadedIsVisible, UploadAnswered
    <2> QED BY <2>5, <2>6, <2>7, <2>8, <2>9, <2>10 DEF UpInv
  <1>9. CASE UploadFails
    <2>1. UpFlagsOK' BY <1>0, <1>9 DEF UpFlagsOK, UploadFails
    <2>2. UpTypeOK'
      BY <1>0, <1>9, UpDistinct, SchemasAssumption, <2>1
      DEF UpTypeOK, UpQueries, UploadFails
    <2>3. OwedOnAList' BY <1>0, <1>9, UpDistinct DEF OwedOnAList, UploadFails
    <2>4. OwedIsServed' BY <1>0, <1>9, UpDistinct DEF OwedIsServed, UploadFails
    <2>5. UploadIsStored' BY <1>0, <1>9, UpDistinct DEF UploadIsStored, UploadFails
    <2>6. UploadedIsVisible' BY <1>0, <1>9, UpDistinct DEF UploadedIsVisible, UploadFails
    <2> QED BY <2>1, <2>2, <2>3, <2>4, <2>5, <2>6 DEF UpInv
  <1>10. CASE UNCHANGED upVars
    <2> USE <1>10 DEF upVars
    <2>1. UpFlagsOK' BY <1>0 DEF UpFlagsOK
    <2>2. UpTypeOK' BY <1>0, <2>1 DEF UpTypeOK, UpQueries
    <2>3. OwedOnAList' BY <1>0 DEF OwedOnAList
    <2>4. OwedIsServed' BY <1>0 DEF OwedIsServed
    <2>5. UploadIsStored' BY <1>0 DEF UploadIsStored
    <2>6. UploadedIsVisible' BY <1>0 DEF UploadedIsVisible
    <2> QED BY <2>1, <2>2, <2>3, <2>4, <2>5, <2>6 DEF UpInv
  <1> QED BY <1>1, <1>2, <1>3, <1>4, <1>5, <1>6, <1>7, <1>8, <1>9, <1>10 DEF UpNext

(***************************************************************************)
(* The composition.                                                        *)
(***************************************************************************)
\* The invariants of the pages, which share no variable.
PagesInv ==
  /\ LoopInv /\ InjTypeOK /\ MtInv /\ FlowInv /\ BdInv
  /\ RefInv /\ TreeInv /\ PanelInv /\ OpenRowsAreListed /\ CmpInv
  /\ XmlInv /\ ParserInv /\ BitmapInv /\ EmvInv /\ WsInv
  /\ UpInv /\ TplInv /\ PixInv /\ DirectInv

\* The invariants hold of all pages as they start.
LEMMA PagesInitially == Init => PagesInv
  <1> SUFFICES ASSUME Init PROVE PagesInv OBVIOUS
  <1>1. /\ InjInit /\ MtInit /\ FlowInit /\ BdInit /\ RefInit /\ TreeInit
        /\ PanelInit /\ UsedInInit /\ CmpInit /\ XmlInit /\ ParserInit /\ BitmapInit
        /\ EmvInit /\ WsInit /\ UpInit /\ TplInit /\ PixInit /\ DirectInit
    BY DEF Init
  <1> QED BY <1>1, LoopInitially, InjTypeInitially, MtInitially, FlowInitially, BdInitially,
             RefInitially, TreeInitially, PanelInitially, UsedInInitially, CmpInitially,
             XmlInitially, ParserInitially, BitmapInitially, EmvInitially, WsInitially,
             UpInitially, TplInitially, PixInitially, DirectInitially
          DEF PagesInv

\* Each page takes a step of its own, or none.
LEMMA PagesParts ==
  [Next]_vars =>
    /\ [InjNext]_injVars /\ [MtNext]_mtVars /\ [FlowNext]_flowVars
    /\ [BdNext]_bdVars /\ [RefNext]_refVars /\ [TreeNext]_treeVars
    /\ [PanelNext]_panelVars /\ [UsedInNext]_usedInVars /\ [CmpNext]_cmpVars
    /\ [XmlNext]_xmlVars /\ [ParserNext]_parserVars /\ [BitmapNext]_bitmapVars
    /\ [EmvNext]_emvVars /\ [WsNext]_wsVars /\ [UpNext]_upVars
    /\ [TplNext]_tplVars /\ [PixNext]_pixVars /\ [DirectNext]_directVars
  <1> DEFINE EachStays ==
        /\ [InjNext]_injVars /\ [MtNext]_mtVars /\ [FlowNext]_flowVars
        /\ [BdNext]_bdVars /\ [RefNext]_refVars /\ [TreeNext]_treeVars
        /\ [PanelNext]_panelVars /\ [UsedInNext]_usedInVars /\ [CmpNext]_cmpVars
        /\ [XmlNext]_xmlVars /\ [ParserNext]_parserVars /\ [BitmapNext]_bitmapVars
        /\ [EmvNext]_emvVars /\ [WsNext]_wsVars /\ [UpNext]_upVars
        /\ [TplNext]_tplVars /\ [PixNext]_pixVars /\ [DirectNext]_directVars
  <1> SUFFICES ASSUME [Next]_vars PROVE EachStays OBVIOUS
  <1>0. CASE UNCHANGED vars BY <1>0 DEF vars
  <1>1. CASE part = "injector" /\ InjNext /\ OthersStay BY <1>1 DEF OthersStay
  <1>2. CASE part = "mt" /\ MtNext /\ OthersStay BY <1>2 DEF OthersStay
  <1>3. CASE part = "flow" /\ FlowNext /\ OthersStay BY <1>3 DEF OthersStay
  <1>4. CASE part = "builder" /\ BdNext /\ OthersStay BY <1>4 DEF OthersStay
  <1>5. CASE part = "reference" /\ RefNext /\ OthersStay BY <1>5 DEF OthersStay
  <1>6. CASE part = "tree" /\ TreeNext /\ OthersStay BY <1>6 DEF OthersStay
  <1>7. CASE part = "panel" /\ PanelNext /\ OthersStay BY <1>7 DEF OthersStay
  <1>8. CASE part = "usedIn" /\ UsedInNext /\ OthersStay BY <1>8 DEF OthersStay
  <1>9. CASE part = "comparator" /\ CmpNext /\ OthersStay BY <1>9 DEF OthersStay
  <1>10. CASE part = "xml" /\ XmlNext /\ OthersStay BY <1>10 DEF OthersStay
  <1>11. CASE part = "parser" /\ ParserNext /\ OthersStay BY <1>11 DEF OthersStay
  <1>12. CASE part = "bitmap" /\ BitmapNext /\ OthersStay BY <1>12 DEF OthersStay
  <1>13. CASE part = "emv" /\ EmvNext /\ OthersStay BY <1>13 DEF OthersStay
  <1>14. CASE part = "settings" /\ WsNext /\ OthersStay BY <1>14 DEF OthersStay
  <1>15. CASE part = "schemas" /\ UpNext /\ OthersStay BY <1>15 DEF OthersStay
  <1>16. CASE part = "templates" /\ TplNext /\ OthersStay BY <1>16 DEF OthersStay
  <1>17. CASE part = "qr" /\ PixNext /\ OthersStay BY <1>17 DEF OthersStay
  <1>18. CASE part = "direct" /\ DirectNext /\ OthersStay BY <1>18 DEF OthersStay
  <1> QED BY <1>0, <1>1, <1>2, <1>3, <1>4, <1>5, <1>6, <1>7, <1>8, <1>9,
             <1>10, <1>11, <1>12, <1>13, <1>14, <1>15, <1>16, <1>17, <1>18 DEF Next

\* A step is of one page, and keeps the invariants of all.
LEMMA PagesStep == PagesInv /\ [Next]_vars => PagesInv'
  <1> SUFFICES ASSUME PagesInv, [Next]_vars PROVE PagesInv' OBVIOUS
  <1>1. LoopInv' /\ InjTypeOK' BY PagesParts, LoopStep, InjTypeStep DEF PagesInv
  <1>2. DirectInv' BY PagesParts, DirectStep DEF PagesInv
  <1>3. ParserInv' /\ BitmapInv' /\ BdInv' BY PagesParts, ParserStep, BitmapStep, BdStep DEF PagesInv
  <1>4. EmvInv' /\ TplInv' BY PagesParts, EmvStep, TplStep DEF PagesInv
  <1>5. MtInv' /\ FlowInv' /\ PixInv' BY PagesParts, MtStep, FlowStep, PixStep DEF PagesInv
  <1>6. RefInv' /\ TreeInv' /\ PanelInv' BY PagesParts, RefStep, TreeStep, PanelStep DEF PagesInv
  <1>7. OpenRowsAreListed' /\ CmpInv' /\ XmlInv'
    BY PagesParts, UsedInStep, CmpStep, XmlStep DEF PagesInv
  <1>8. WsInv' /\ UpInv' BY PagesParts, WsStep, UpStep DEF PagesInv
  <1> QED BY <1>1, <1>2, <1>3, <1>4, <1>5, <1>6, <1>7, <1>8 DEF PagesInv

\* The invariants hold throughout.
LEMMA PagesHold == Spec => []PagesInv
  BY PagesInitially, PagesStep, PTL DEF Spec

\* Whatever answers, effects, timers and acts of the user cross, no answer of one request
\* ends in the place of another, on any page.
THEOREM PagesTyped == Spec => []PagesTypeOK
  <1>1. PagesInv => PagesTypeOK
    <2> SUFFICES ASSUME PagesInv PROVE PagesTypeOK OBVIOUS
    <2>1. InjTypeOK /\ DirectTypeOK BY DEF PagesInv, DirectInv
    <2>2. MtTypeOK /\ FlowTypeOK /\ PixTypeOK BY DEF PagesInv, MtInv, FlowInv, PixInv
    <2>3. RefTypeOK /\ PanelTypeOK /\ CmpTypeOK /\ XmlTypeOK
      BY DEF PagesInv, RefInv, PanelInv, CmpInv, XmlInv
    <2>4. ParserTypeOK /\ BitmapTypeOK /\ EmvTypeOK BY DEF PagesInv, ParserInv, BitmapInv, EmvInv
    <2>5. WsTypeOK /\ UpTypeOK BY DEF PagesInv, WsInv, UpInv
    <2>6. BdTypeOK BY BdParts DEF PagesInv
    <2> QED BY <2>1, <2>2, <2>3, <2>4, <2>5, <2>6 DEF PagesTypeOK
  <1> QED BY PagesHold, <1>1, PTL

\* A page with nothing under way, no input of which was changed over an open request, shows
\* the answer to what it shows it for: the flow, the tree, the example, the parsed document,
\* the bitmap, the QR code, the badge of a key, the conversion and the built message.
THEOREM AnswersFit == Spec => []AnswersAreOfTheirSource
  <1>1. PagesInv => AnswersAreOfTheirSource
    <2> SUFFICES ASSUME PagesInv PROVE AnswersAreOfTheirSource OBVIOUS
    <2>1. CalmResultMatches /\ ParsedIsShown BY FlowParts DEF PagesInv, FlowInv
    <2>2. CalmTreeMatches /\ CalmPanelIsOfItsField BY RefParts, PanelParts DEF PagesInv
    <2>3. CalmAnswersAreOfText BY DEF PagesInv, XmlInv
    <2>4. CalmTextIsTheList BY BitmapParts DEF PagesInv
    <2>5. ImageIsOfPayload /\ CalmBadgeIsOfKey BY PixParts DEF PagesInv, PixInv
    <2>6. ConversionIsOfText BY MtParts DEF PagesInv
    <2>7. RowsSettle BY BdParts DEF PagesInv
    <2> QED BY <2>1, <2>2, <2>3, <2>4, <2>5, <2>6, <2>7 DEF AnswersAreOfTheirSource
  <1> QED BY PagesHold, <1>1, PTL

\* The request a page shows as pending is of the text or the type it shows, whatever was
\* typed, selected and asked before: the XML parser, the reference and the EMV page.
THEOREM RequestsFit == Spec => []RequestsAreOfTheirText
  <1>1. PagesInv => RequestsAreOfTheirText BY DEF PagesInv, XmlInv, RefInv, EmvInv, RequestsAreOfTheirText
  <1> QED BY PagesHold, <1>1, PTL

\* What is handed to the parser, to the EMV page and to the PIX page is asked for once and
\* shown, however often the page is rendered, left, reloaded or visited again.
THEOREM HandOffsLand == Spec => []HandOffsArrive
  <1>1. PagesInv => HandOffsArrive
    <2> SUFFICES ASSUME PagesInv PROVE HandOffsArrive OBVIOUS
    <2>1. HandedIsParsedOnce /\ ArrivalIsShown
      BY DEF PagesInv, ParserInv, Landing, HandedIsParsedOnce
    <2>2. ArrivedIsParsed /\ HintIsTrue BY DEF PagesInv, EmvInv
    <2>3. HandOffIsConsumed /\ HandOffIsShown BY PixParts DEF PagesInv
    <2> QED BY <2>1, <2>2, <2>3 DEF HandOffsArrive
  <1> QED BY PagesHold, <1>1, PTL

\* A saved form and an uploaded family are on the page once it waits for nothing, also when
\* a refetch older than the save or the upload was under way.
THEOREM SavedShown == Spec => []SavedIsShown
  <1>1. PagesInv => SavedIsShown BY WsParts DEF PagesInv, UpInv, SavedIsShown
  <1> QED BY PagesHold, <1>1, PTL

\* However the tree, the uses, the catalogue and the templates change under a choice, the
\* row highlighted is in sight, the row opened differs, what the dropdowns hold exists, and
\* the template loaded is the one in the table.
THEOREM ChoicesFit == Spec => []ChoicesAreOfTheirLists
  <1>1. PagesInv => ChoicesAreOfTheirLists
    <2> SUFFICES ASSUME PagesInv PROVE ChoicesAreOfTheirLists OBVIOUS
    <2>1. HighlightInSight /\ LoadedIsTheRow BY DEF PagesInv, TreeInv, TplInv
    <2>2. RowsNameADifference BY UsedInParts DEF PagesInv
    <2>3. DropdownsExist /\ ImpactIsOfTheMessage BY CmpParts DEF PagesInv
    <2> QED BY <2>1, <2>2, <2>3 DEF ChoicesAreOfTheirLists
  <1> QED BY PagesHold, <1>1, PTL
=============================================================================
