----------------------------- MODULE XmlParserPage -----------------------------
(***************************************************************************)
(* The ISO 20022 parser page: a text, and three mutations whose answers    *)
(* are shown under it: its tree, its validation, and the return message    *)
(* generated from it, in a modal dialog.                                   *)
(***************************************************************************)
EXTENDS Naturals, FiniteSets

CONSTANTS Xmls, Returns,  \* texts; message types a return can have
          MaxRequests,    \* bound: requests sent
          NoXml

ASSUME XmlAssumption == MaxRequests \in Nat /\ NoXml \notin Xmls /\ Returns # {}

VARIABLES
  xml, xmlResult, validation,   \* an answer is named by the text it is of
  returnResult, returnModalOpen, comparatorOpen,
  observed,                     \* what each mutation observes: 0, or a request
  xmlErrors,                    \* the mutations that observe a failure
  xmlRequests, requested,          \* unanswered: <<serial, kind, text, returnType>>
  catalogue,                    \* the comparator's: "asked", "landed", "failed"
  xmlCalm                       \* history: no text was changed over an open request

Kinds == {"parse", "validate", "return"}
xmlAnswers == <<xmlResult, validation, returnResult>>
xmlDialogs == <<returnModalOpen, comparatorOpen, catalogue>>
xmlCalls == <<observed, xmlErrors, xmlRequests, requested>>
xmlVars == <<xml, xmlAnswers, xmlDialogs, xmlCalls, xmlCalm>>

\* "Open in the Parser" of the builder seeds the text.
XmlInit ==
  /\ xml \in Xmls \cup {NoXml} /\ xmlResult = NoXml /\ validation = NoXml
  /\ returnResult = <<NoXml, NoXml>> /\ returnModalOpen = FALSE /\ comparatorOpen = FALSE
  /\ observed = [k \in Kinds |-> 0] /\ xmlErrors = {}
  /\ xmlRequests = {} /\ requested = 0 /\ catalogue = "asked" /\ xmlCalm = TRUE

XmlPending(k) == \E r \in xmlRequests : r[1] = observed[k]
InDialog == returnModalOpen \/ comparatorOpen

\* mutation.mutate: the observer leaves the request before.
MutateXml(k, type) ==
  /\ requested < MaxRequests /\ requested' = requested + 1
  /\ xmlRequests' = xmlRequests \cup {<<requested', k, xml, type>>}
  /\ observed' = [observed EXCEPT ![k] = requested'] /\ xmlErrors' = xmlErrors \ {k}
  /\ UNCHANGED <<xml, xmlAnswers, xmlDialogs, xmlCalm>>

ResetParse ==
  observed' = [observed EXCEPT !["parse"] = 0] /\ xmlErrors' = xmlErrors \ {"parse"}

\* Mutant of HandleXmlChange: the mutation goes on.
HandleXmlChangeObserves ==
  /\ ~InDialog /\ xml' \in (Xmls \cup {NoXml}) \ {xml}
  /\ validation' = NoXml /\ xmlCalm' = (xmlCalm /\ xmlRequests = {})
  /\ UNCHANGED <<xmlResult, returnResult, xmlDialogs, xmlCalls>>

\* An edit drops the validation and detaches the parse, never the tree.
HandleXmlChange ==
  /\ ~InDialog /\ xml' \in (Xmls \cup {NoXml}) \ {xml}
  /\ ResetParse /\ validation' = NoXml /\ xmlCalm' = (xmlCalm /\ xmlRequests = {})
  /\ UNCHANGED <<xmlResult, returnResult, xmlDialogs, xmlRequests, requested>>

HandleClearXml ==
  /\ ~InDialog /\ <<xml, xmlResult>> # <<NoXml, NoXml>>
  /\ xml' = NoXml /\ xmlResult' = NoXml /\ validation' = NoXml /\ ResetParse
  /\ xmlCalm' = (xmlCalm /\ xmlRequests = {})
  /\ UNCHANGED <<returnResult, xmlDialogs, xmlRequests, requested>>

ParseXml == ~InDialog /\ xml # NoXml /\ ~XmlPending("parse") /\ MutateXml("parse", NoXml)

\* The request names the type of the tree, whatever the text is now.
ValidateXml ==
  ~InDialog /\ xmlResult # NoXml /\ ~XmlPending("validate") /\ MutateXml("validate", NoXml)

\* The button, where the message type has a return.
GenerateReturn ==
  /\ ~InDialog /\ xmlResult # NoXml /\ ~XmlPending("return")
  /\ MutateXml("return", CHOOSE t \in Returns : TRUE)

\* A chip of the dialog asks for another type of return.
SwitchReturnType ==
  /\ returnModalOpen /\ ~XmlPending("return")
  /\ \E t \in Returns \ {returnResult[2]} : MutateXml("return", t)

CloseReturn ==
  /\ returnModalOpen /\ returnModalOpen' = FALSE
  /\ UNCHANGED <<xml, xmlAnswers, comparatorOpen, catalogue, xmlCalls, xmlCalm>>

ToggleComparator ==
  /\ comparatorOpen' = ~comparatorOpen /\ ~returnModalOpen
  /\ comparatorOpen' => xmlResult # NoXml
  /\ UNCHANGED <<xml, xmlAnswers, returnModalOpen, catalogue, xmlCalls, xmlCalm>>

CatalogueLands ==
  /\ catalogue = "asked" /\ catalogue' \in {"landed", "failed"}
  /\ UNCHANGED <<xml, xmlAnswers, returnModalOpen, comparatorOpen, xmlCalls, xmlCalm>>

\* onSuccess of the hook runs for every request, observed or not.
RequestSucceeds ==
  \E r \in xmlRequests :
    /\ xmlRequests' = xmlRequests \ {r}
    /\ \/ r[2] = "parse" /\ xmlResult' = r[3] /\ UNCHANGED <<validation, returnResult, returnModalOpen>>
       \/ r[2] = "validate" /\ validation' = r[3] /\ UNCHANGED <<xmlResult, returnResult, returnModalOpen>>
       \/ /\ r[2] = "return" /\ returnResult' = <<r[3], r[4]>> /\ returnModalOpen' = TRUE
          /\ UNCHANGED <<xmlResult, validation>>
    /\ UNCHANGED <<xml, comparatorOpen, catalogue, observed, xmlErrors, requested, xmlCalm>>

RequestFails ==
  \E r \in xmlRequests :
    /\ xmlRequests' = xmlRequests \ {r}
    /\ xmlErrors' = IF observed[r[2]] = r[1] THEN xmlErrors \cup {r[2]} ELSE xmlErrors
    /\ UNCHANGED <<xml, xmlAnswers, xmlDialogs, observed, requested, xmlCalm>>

XmlNext ==
  \/ HandleXmlChange \/ HandleClearXml \/ ParseXml \/ ValidateXml \/ GenerateReturn
  \/ SwitchReturnType \/ CloseReturn \/ ToggleComparator \/ CatalogueLands
  \/ RequestSucceeds \/ RequestFails
XmlSpec == XmlInit /\ [][XmlNext]_xmlVars

-----------------------------------------------------------------------------
XmlRequests == (1 .. MaxRequests) \X Kinds \X (Xmls \cup {NoXml}) \X (Returns \cup {NoXml})
XmlFlagsOK == returnModalOpen \in BOOLEAN /\ comparatorOpen \in BOOLEAN /\ xmlCalm \in BOOLEAN
XmlTypeOK ==
  /\ XmlFlagsOK
  /\ xml \in Xmls \cup {NoXml} /\ xmlResult \in Xmls \cup {NoXml} /\ validation \in Xmls \cup {NoXml}
  /\ returnResult[1] \in Xmls \cup {NoXml} /\ returnResult[2] \in Returns \cup {NoXml}
  /\ observed \in [Kinds -> 0 .. MaxRequests] /\ xmlErrors \subseteq Kinds
  /\ xmlRequests \subseteq XmlRequests /\ requested \in 0 .. MaxRequests
  /\ catalogue \in {"asked", "landed", "failed"}

\* "Don't leave stale error/loading/validation state once editing resumes": while
\* no text is changed over an open request, a validation or a return on screen is
\* of the text in the box, whatever sequence of edits, clears and requests led there.
CalmAnswersAreOfText ==
  xmlCalm => /\ validation # NoXml => validation = xml
             /\ returnModalOpen => returnResult[1] = xml

\* The parse button is never held by a request for a text that was edited since.
ParsePendingIsOfText ==
  \A r \in xmlRequests : r[1] = observed["parse"] => r[3] = xml
=============================================================================
