------------------------------- MODULE MtWorkflow -------------------------------
(***************************************************************************)
(* The SWIFT MT parser page: a message is parsed, then walked through the  *)
(* MT to MX mapping table, whose ambiguous rows wait for a decision, and   *)
(* converted.  The message can be edited at every stage.                   *)
(***************************************************************************)
EXTENDS Naturals, FiniteSets

CONSTANTS MtMessages,   \* MT messages; each has a target MX family of its own
          BlankMt,      \* an empty text
          Rows,       \* bound: rows of a mapping table
          NoTable, NoJob, NoMx

VARIABLES
  raw, mtParsed, mtError,  \* the page: the text, the message parsed (BlankMt: none)
  mtParsing,               \* the message being parsed (BlankMt: none); loading
  mode,                    \* "parse" or "convert": the workflow is mounted
  table,                   \* NoTable, or [of, confidence]
  rowStates,               \* per row: the store's path and status, the view's
                           \* manual mode, what it remembers and, as history, the
                           \* status it was entered with
  mx, mapError,            \* the XML generated; the workflow's error
  job,                     \* the analysis or conversion under way; loading
  versionsAsked, version   \* version lists being fetched; the list selected from

mtPage == <<raw, mtParsed, mtError, mtParsing, mode>>
workflow == <<table, rowStates, mx, mapError, job, versionsAsked, version>>
mtVars == <<mtPage, workflow>>

Texts == MtMessages \cup {BlankMt}
Statuses == {"automatic", "ambiguous", "confirmed", "customized", "noMapping"}
Confidences == {"automatic", "ambiguous", "noMapping"}

\* The server's suggestion, one of its alternatives, and what a user may type.
Paths == {"suggested", "alternative", "typed"}
RowStates == [path : Paths, status : Statuses, manual : BOOLEAN, before : Paths,
              entered : Statuses]

Tables == [of : MtMessages, confidence : [Rows -> Confidences]]
Jobs == [kind : {"analyse", "convert"}, of : Texts]

ASSUME MtAssumption ==
  BlankMt \notin MtMessages /\ NoTable \notin Tables /\ NoJob \notin Jobs /\ NoMx \notin Jobs

InitialRow(confidence) ==
  [path |-> "suggested", status |-> confidence, manual |-> FALSE,
   before |-> "suggested", entered |-> confidence]

MtInit ==
  /\ raw \in Texts   \* pasted by the visualizer, or empty
  /\ mtParsed = BlankMt /\ mtError = FALSE /\ mtParsing = BlankMt /\ mode = "parse"
  /\ table = NoTable /\ rowStates = <<>> /\ mx = NoMx /\ mapError = FALSE /\ job = NoJob
  /\ versionsAsked = {} /\ version = BlankMt

\* The autoStart effect, on the state a handler leaves: analyse at once, unless
\* a table is there, a request is under way or an error is shown.
AutoStart(j) ==
  IF table' = NoTable /\ j = NoJob /\ ~mapError' /\ raw' # BlankMt
  THEN job' = [kind |-> "analyse", of |-> raw']
  ELSE job' = j

Unmounted ==
  /\ table' = NoTable /\ rowStates' = <<>> /\ mx' = NoMx /\ mapError' = FALSE
  /\ versionsAsked' = {} /\ version' = BlankMt

\* Typing in the page's textarea, or a payload handed over by the visualizer:
\* the workflow, when it is open, is reset; its request goes on.
EditRaw ==
  /\ raw' \in Texts \ {raw}
  /\ IF mode = "parse" THEN UNCHANGED workflow
     ELSE /\ table' = NoTable /\ rowStates' = <<>> /\ mapError' = FALSE /\ mx' = NoMx
          /\ AutoStart(job)
          /\ UNCHANGED <<versionsAsked, version>>
  /\ UNCHANGED <<mtParsed, mtError, mtParsing, mode>>

\* The button is disabled while a parse is under way; the workflow closes.
HandleParse ==
  /\ raw # BlankMt /\ mtParsing = BlankMt
  /\ mtParsing' = raw /\ mtError' = FALSE /\ mode' = "parse"
  /\ Unmounted /\ job' = NoJob
  /\ UNCHANGED <<raw, mtParsed>>

MtParseAnswered ==
  /\ mtParsing # BlankMt /\ mtParsing' = BlankMt
  /\ \/ mtParsed' = mtParsing /\ UNCHANGED mtError
     \/ mtError' = TRUE /\ UNCHANGED mtParsed
  /\ UNCHANGED <<raw, mode, workflow>>

\* "Limpar": a parse under way, and an error, stay.
ClearMt ==
  /\ raw' = BlankMt /\ mtParsed' = BlankMt /\ mode' = "parse"
  /\ Unmounted /\ job' = NoJob
  /\ UNCHANGED <<mtError, mtParsing>>

\* The workflow works on the text of now, not on the message that was parsed.
Convert ==
  /\ mtParsed # BlankMt /\ mode = "parse" /\ mode' = "convert"
  /\ Unmounted /\ UNCHANGED <<raw, mtParsed, mtError, mtParsing>>
  /\ AutoStart(NoJob)

BackToParse ==
  /\ mtParsed # BlankMt /\ mode = "convert" /\ mode' = "parse"
  /\ Unmounted /\ job' = NoJob
  /\ UNCHANGED <<raw, mtParsed, mtError, mtParsing>>

\* fetchMtMapping: the table, and the versions of its target's family.
AnalysisLands ==
  /\ job # NoJob /\ job.kind = "analyse"
  /\ \/ \E c \in [Rows -> Confidences] :
          /\ table' = [of |-> job.of, confidence |-> c]
          /\ rowStates' = [i \in Rows |-> InitialRow(c[i])]
          /\ versionsAsked' = versionsAsked \cup {job.of}
          /\ UNCHANGED mapError
     \/ mapError' = TRUE /\ UNCHANGED <<table, rowStates, versionsAsked>>
  /\ job' = NoJob
  /\ UNCHANGED <<mtPage, mx, version>>

VersionsLand ==
  /\ \E m \in versionsAsked : versionsAsked' = versionsAsked \ {m} /\ version' = m
  /\ UNCHANGED <<mtPage, table, rowStates, mx, mapError, job>>

-----------------------------------------------------------------------------
\* One row of the table, i.
UpdateRow(i, row) ==
  /\ rowStates' = [rowStates EXCEPT ![i] = row]
  /\ UNCHANGED <<mtPage, table, mx, mapError, job, versionsAsked, version>>

\* Only rows the server found ambiguous offer a choice, until confirmed: automatic
\* rows are plain text, so the view's branch for customized ones is never reached.
Open(i) ==
  /\ table # NoTable /\ table.confidence[i] = "ambiguous"
  /\ ~rowStates[i].manual /\ rowStates[i].status # "confirmed"

\* PathSelect changes the path and leaves the status.
ChoosePath(i) ==
  Open(i) /\ \E p \in {"suggested", "alternative", rowStates[i].path} :
               UpdateRow(i, [rowStates[i] EXCEPT !.path = p])

Confirm(i) == Open(i) /\ UpdateRow(i, [rowStates[i] EXCEPT !.status = "confirmed"])

Reedit(i) ==
  /\ table # NoTable /\ rowStates[i].status = "confirmed"
  /\ UpdateRow(i, [rowStates[i] EXCEPT !.status = "ambiguous"])

\* "Outro (digitar manualmente)"
EnterManual(i) ==
  Open(i) /\ UpdateRow(i, [rowStates[i] EXCEPT !.manual = TRUE, !.before = rowStates[i].path,
                                               !.entered = rowStates[i].status])

Manual(i) == table # NoTable /\ rowStates[i].manual

\* Every keystroke sets the status too.
TypePath(i) ==
  Manual(i) /\ \E p \in Paths :
    UpdateRow(i, [rowStates[i] EXCEPT !.path = p,
                    !.status = IF p = "suggested" THEN "ambiguous" ELSE "customized"])

CancelManual(i) ==
  Manual(i) /\ UpdateRow(i, [rowStates[i] EXCEPT !.path = rowStates[i].before, !.manual = FALSE,
                                                 !.before = "suggested"])

ResetToSuggested(i) ==
  Manual(i) /\ UpdateRow(i, [rowStates[i] EXCEPT !.path = "suggested", !.status = "ambiguous",
                                                 !.manual = FALSE, !.before = "suggested"])

CanGenerate ==
  job = NoJob /\ table # NoTable /\ \A i \in Rows : rowStates[i].status # "ambiguous"

\* The text of now, with the rows moved away from the suggestion, to the version
\* selected.
HandleConvert ==
  /\ mode = "convert" /\ CanGenerate /\ mapError' = FALSE
  /\ job' = [kind |-> "convert", of |-> raw]
  /\ UNCHANGED <<mtPage, table, rowStates, mx, versionsAsked, version>>

\* The answer is shown whatever the text is by then, unless the analysis that
\* was put off starts now.
ConversionLands ==
  /\ job # NoJob /\ job.kind = "convert"
  /\ UNCHANGED <<mtPage, table, rowStates, versionsAsked, version>>
  /\ \/ mapError' = TRUE /\ mx' = mx /\ job' = NoJob
     \/ /\ UNCHANGED mapError /\ AutoStart(NoJob)
        /\ mx' = IF job' = NoJob THEN job ELSE NoMx

MtNext ==
  \/ EditRaw \/ HandleParse \/ MtParseAnswered \/ ClearMt \/ Convert \/ BackToParse
  \/ AnalysisLands \/ VersionsLand \/ HandleConvert \/ ConversionLands
  \/ \E i \in Rows : \/ ChoosePath(i) \/ Confirm(i) \/ Reedit(i) \/ EnterManual(i)
                     \/ TypePath(i) \/ CancelManual(i) \/ ResetToSuggested(i)
MtFairness == WF_mtVars(AnalysisLands) /\ WF_mtVars(ConversionLands)
MtSpec == MtInit /\ [][MtNext]_mtVars /\ MtFairness

-----------------------------------------------------------------------------
MtFlagsOK == mtError \in BOOLEAN /\ mapError \in BOOLEAN

MtTypeOK ==
  /\ raw \in Texts /\ mtParsed \in Texts /\ mtParsing \in Texts
  /\ mode \in {"parse", "convert"} /\ MtFlagsOK
  /\ table \in Tables \cup {NoTable}
  /\ IF table = NoTable THEN rowStates = <<>> ELSE rowStates \in [Rows -> RowStates]
  /\ mx \in Jobs \cup {NoMx} /\ job \in Jobs \cup {NoJob}
  /\ versionsAsked \subseteq MtMessages /\ version \in Texts

\* The MX shown is of the text above it, however the text was edited while the
\* conversion ran (an emptied text apart: nothing is analysed in its place).
MxIsOfText == mx # NoMx /\ raw # BlankMt => mx.of = raw

\* What the server found ambiguous is decided by the user before it is generated:
\* no row of the table becomes automatic on its own.
AmbiguousIsNeverAutomatic ==
  table # NoTable => \A i \in Rows :
    (rowStates[i].status = "automatic") = (table.confidence[i] = "automatic")

\* "Guard against re-firing while a fetch is in flight or after it succeeded": an
\* analysis put off is not lost, an open workflow always gets to a table or an error.
AnalysisComes ==
  (mode = "convert" /\ raw # BlankMt) ~> (table # NoTable \/ mapError \/ mode = "parse" \/ raw = BlankMt)

\* The MX is of the text and of the decisions taken on it, and of no others.
ConversionIsOfText == MxIsOfText /\ AmbiguousIsNeverAutomatic
=============================================================================
