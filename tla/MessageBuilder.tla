----------------------------- MODULE MessageBuilder -----------------------------
(***************************************************************************)
(* The ISO 8583 builder page and its persisted store: the server builds a  *)
(* message from the context and the fields the user has locked; a preview  *)
(* is rebuilt, half a second after each change, from the fields shown.     *)
(***************************************************************************)
EXTENDS Naturals, FiniteSets

CONSTANTS Bits,       \* data elements
          Prescribed(_),  \* the bits the server's profile gives a message of an MTI
          Opened,     \* sets of bits of the messages and templates that are opened
          MaxClicks,  \* bound: what the user does in a behaviour
          NoBuild

MTIs == {"0200", "0400"}

\* What a field holds: the server's value, the user's, nothing yet, or the bit 90
\* made of the message that is reversed.
Values == {"fresh", "typed", "empty", "original"}
Field(v, locked, status) == [value |-> v, locked |-> locked, status |-> status]
FieldStates == [value : Values, locked : BOOLEAN, status : {"ok", "stale", "editing"}]
FieldsOver(S) == UNION {[B -> S] : B \in SUBSET Bits}
FieldTables == FieldsOver(FieldStates)

\* A message shown, a request for one, and what an unobserved callback knows of it.
Messages8583 == [mti : MTIs, values : FieldsOver(Values)]
Builds8583 == [mti : MTIs, customs : FieldsOver(Values)]
Orphans8583 == [request : Builds8583, held : FieldTables]

ASSUME BuilderAssumption ==
  /\ 90 \in Bits /\ Bits \subseteq 1 .. 128 /\ MaxClicks \in Nat
  /\ Opened \subseteq SUBSET Bits /\ \A m \in MTIs : Prescribed(m) \subseteq Bits
  /\ NoBuild \notin Messages8583 /\ NoBuild \notin Builds8583 /\ NoBuild \notin Orphans8583

VARIABLES
  mti, fields, built, contextChanged,   \* the store; built: NoBuild, or [mti, values]
  onPage,
  building,    \* buildMutation: NoBuild, or the request it awaits; loading
  superseded,  \* a build sent before it, or from a former visit of the page: NoBuild,
               \* or its request and the fields of the last render it knows
  liveTimer,       \* the debounce of the live rebuild is running
  live,        \* the live rebuild whose answer counts: NoBuild, or [mti, values]
  regenerating,  \* bits whose regeneration was asked for
  unsettled,   \* history: the last live rebuild failed, or landed on another message
  clicks

bdVars == <<mti, fields, built, contextChanged, onPage, building, superseded, liveTimer, live,
            regenerating, unsettled, clicks>>
requests8583 == <<building, superseded, live, regenerating>>

ValuesOf(f) == [b \in DOMAIN f |-> f[b].value]
Customs(f) == [b \in {c \in DOMAIN f : f[c].locked} |-> f[b].value]

\* The bits a bit is derived from.
DEPENDENCIES == [b \in Bits |-> CASE b = 14 -> {2} [] b = 35 -> {2, 14} [] b = 52 -> {2}
                                  [] b = 55 -> {2, 4, 9} [] OTHER -> {}]
CardBits == {2, 14, 35, 52, 55}
REVERSAL_ECHO_BITS == {2, 3, 4, 7, 11, 12, 13, 37, 41, 42, 49}

BdInit ==
  /\ mti = "0200" /\ fields = <<>> /\ built = NoBuild /\ contextChanged = FALSE
  /\ onPage = TRUE /\ building = NoBuild /\ superseded = NoBuild
  /\ liveTimer = FALSE /\ live = NoBuild /\ regenerating = {} /\ unsettled = FALSE /\ clicks = 0

\* Mutant of Schedule: an effect on the fields alone.
ScheduleOnFields ==
  IF fields' # fields
  THEN /\ liveTimer' = (onPage' /\ built' # NoBuild /\ fields' # <<>>)
       /\ unsettled' = IF liveTimer' THEN FALSE ELSE unsettled \/ live # NoBuild
  ELSE UNCHANGED <<liveTimer, unsettled>>

\* The effect on [fields, context.mti], with the store a handler leaves: a new
\* debounce, if there is a message and a field.
Schedule ==
  /\ liveTimer' = (onPage' /\ built' # NoBuild /\ fields' # <<>>)
  /\ unsettled' = IF liveTimer' THEN FALSE
                  ELSE unsettled \/ live # NoBuild

\* mutate(): an earlier build goes on, unobserved.
AskBuild(request) ==
  /\ building' = request
  /\ IF building = NoBuild THEN UNCHANGED superseded
     ELSE superseded = NoBuild /\ superseded' = [request |-> building, held |-> fields']

-----------------------------------------------------------------------------
\* The context bar: the MTI, once it has four digits, or any other parameter.
SetContext ==
  /\ onPage
  /\ \/ mti' \in MTIs \ {mti} /\ UNCHANGED fields /\ UNCHANGED built /\ UNCHANGED onPage
        /\ Schedule
     \/ UNCHANGED <<mti, fields, built, onPage, liveTimer, unsettled>>
  /\ contextChanged' = (built # NoBuild)
  /\ UNCHANGED requests8583

\* "Gerar": disabled while a build is under way.
OnBuild ==
  /\ onPage /\ building = NoBuild
  /\ AskBuild([mti |-> mti, customs |-> Customs(fields)])
  /\ UNCHANGED <<mti, fields, built, contextChanged, onPage, liveTimer, live, regenerating, unsettled>>

\* The banner's button, enabled even then.
OnRegenerateAll ==
  /\ onPage /\ contextChanged /\ built # NoBuild /\ contextChanged' = FALSE
  /\ UNCHANGED fields /\ AskBuild([mti |-> mti, customs |-> Customs(fields)])
  /\ UNCHANGED <<mti, built, onPage, liveTimer, live, regenerating, unsettled>>

IgnoreContextChange ==
  /\ onPage /\ contextChanged /\ built # NoBuild /\ contextChanged' = FALSE
  /\ UNCHANGED <<mti, fields, built, onPage, liveTimer, unsettled, requests8583>>

\* Mutant of MergeAnswer: the answer wins.
MergeAnswerOnly(bits, customs, known) ==
  [b \in bits |-> IF b \in DOMAIN customs THEN Field(customs[b], TRUE, "ok")
                  ELSE Field("fresh", FALSE, "ok")]

\* What is locked in the fields known to the callback wins; of the rest, exactly
\* what the server returned is kept.
MergeAnswer(bits, customs, known) ==
  [b \in bits |-> IF b \in DOMAIN known /\ known[b].locked THEN known[b]
                  ELSE IF b \in DOMAIN customs THEN Field(customs[b], TRUE, "ok")
                  ELSE Field("fresh", FALSE, "ok")]

\* smartBuild answers with the customs and what the profile prescribes.
SetBuiltResult(request, known) ==
  LET bits == DOMAIN request.customs \cup Prescribed(request.mti)
  IN  /\ fields' = MergeAnswer(bits, request.customs, known)
      /\ built' = [mti |-> request.mti,
                   values |-> [b \in bits |-> IF b \in DOMAIN request.customs
                                              THEN request.customs[b] ELSE "fresh"]]
      /\ contextChanged' = FALSE

\* The callback of the mutation shown knows the fields of now.
BuildLands ==
  /\ building # NoBuild /\ building' = NoBuild
  /\ SetBuiltResult(building, fields)
  /\ UNCHANGED <<mti, onPage, superseded, live, regenerating>> /\ Schedule

BuildFails ==
  /\ building # NoBuild /\ building' = NoBuild
  /\ UNCHANGED <<mti, fields, built, contextChanged, onPage, superseded, liveTimer, live,
                 regenerating, unsettled>>

\* An earlier one still writes the store, with the fields it knew.
SupersededLands ==
  /\ superseded # NoBuild /\ superseded' = NoBuild
  /\ \/ SetBuiltResult(superseded.request, superseded.held) /\ UNCHANGED onPage /\ Schedule
     \/ UNCHANGED <<fields, built, contextChanged, onPage, liveTimer, unsettled>>
  /\ UNCHANGED <<mti, building, live, regenerating>>

-----------------------------------------------------------------------------
\* The debounce ends: a newer live rebuild silences the one before it.
LiveRebuild ==
  /\ liveTimer /\ liveTimer' = FALSE
  /\ live' = [mti |-> mti, values |-> ValuesOf(fields)]
  /\ UNCHANGED <<mti, fields, built, contextChanged, onPage, building, superseded,
                 regenerating, unsettled>>

\* Its answer becomes the message shown, even one cleared or replaced meanwhile.
LiveLands ==
  /\ live # NoBuild /\ live' = NoBuild
  /\ \/ built' = live /\ UNCHANGED unsettled
     \/ UNCHANGED built /\ unsettled' = TRUE
  /\ UNCHANGED <<mti, fields, contextChanged, onPage, building, superseded, liveTimer, regenerating>>

-----------------------------------------------------------------------------
\* The table, shown when there is a field.
Edited(f) == /\ onPage /\ fields # <<>> /\ fields' = f
             /\ UNCHANGED <<mti, built, contextChanged, onPage, requests8583>> /\ Schedule

UpdateField(b) ==
  /\ b \in DOMAIN fields
  /\ Edited([c \in DOMAIN fields |->
               IF c = b THEN Field("typed", TRUE, "ok")
               ELSE IF b \in DEPENDENCIES[c] /\ ~fields[c].locked
               THEN [fields[c] EXCEPT !.status = "stale"] ELSE fields[c]])

\* "Manter assim"
KeepField(b) ==
  /\ b \in DOMAIN fields /\ fields[b].status = "stale"
  /\ Edited([fields EXCEPT ![b].status = "ok"])

RemoveField(b) ==
  b \in DOMAIN fields /\ Edited([c \in DOMAIN fields \ {b} |-> fields[c]])

AddField(b) ==
  b \in Bits \ DOMAIN fields
  /\ Edited([c \in DOMAIN fields \cup {b} |-> IF c = b THEN Field("empty", TRUE, "editing")
                                              ELSE fields[c]])

\* "Novo cartao"
MarkCardStale ==
  Edited([c \in DOMAIN fields |->
            IF c \in CardBits /\ ~fields[c].locked
            THEN [fields[c] EXCEPT !.status = "stale"] ELSE fields[c]])

\* "Regenerar", of a stale row: a request of its own, outside the mutation.
OnRegenerateField(b) ==
  /\ onPage /\ b \in DOMAIN fields /\ fields[b].status = "stale"
  /\ regenerating' = regenerating \cup {b}
  /\ UNCHANGED <<mti, fields, built, contextChanged, onPage, building, superseded, liveTimer, live,
                 unsettled>>

\* Its answer, wherever the user is.
ReplaceField(b) ==
  /\ b \in regenerating /\ regenerating' = regenerating \ {b}
  /\ UNCHANGED <<mti, built, contextChanged, onPage, building, superseded, live>>
  /\ \/ /\ b \in DOMAIN fields
        /\ fields' = [fields EXCEPT ![b] = IF @.locked THEN [@ EXCEPT !.status = "ok"]
                                           ELSE Field("fresh", FALSE, "ok")]
        /\ Schedule
     \/ UNCHANGED <<fields, liveTimer, unsettled>>

-----------------------------------------------------------------------------
\* Every way another message takes the place of the one shown.
Load(f, m, message) == mti' = m /\ fields' = f /\ built' = message /\ contextChanged' = FALSE

\* "Limpar": disabled while a build is under way.
ClearAllFields ==
  /\ onPage /\ building = NoBuild /\ Load(<<>>, "0200", NoBuild)
  /\ UNCHANGED <<onPage, requests8583>> /\ Schedule

\* A saved template, and the build it asks for at once: with the locks it was
\* saved with, and whatever build is under way.
LoadTemplate ==
  /\ onPage
  /\ \E m \in MTIs, bits \in Opened :
       \E f \in [bits -> {Field("fresh", FALSE, "ok"), Field("typed", TRUE, "ok")}] :
         /\ Load(f, m, NoBuild)
         /\ AskBuild([mti |-> m, customs |-> Customs(f)])
  /\ UNCHANGED <<onPage, live, regenerating>> /\ Schedule

\* A 0400 of the message shown, its fields locked; it is not built yet.
CreateReversal ==
  /\ onPage /\ built # NoBuild /\ mti # "0400"
  /\ Load([b \in (DOMAIN fields \cap REVERSAL_ECHO_BITS) \cup {90} |->
             IF b = 90 THEN Field("original", TRUE, "ok") ELSE Field(fields[b].value, TRUE, "ok")],
          "0400", NoBuild)
  /\ UNCHANGED <<onPage, requests8583>> /\ Schedule

\* The page is left: its debounce and its live rebuild count no more, its build does.
LeaveBuilder ==
  /\ onPage /\ onPage' = FALSE /\ liveTimer' = FALSE /\ live' = NoBuild
  /\ building' = NoBuild
  /\ IF building = NoBuild THEN UNCHANGED superseded
     ELSE superseded = NoBuild /\ superseded' = [request |-> building, held |-> fields]
  /\ UNCHANGED <<mti, fields, built, contextChanged, regenerating, unsettled>>

\* The page is opened: as it was left, or with the message of the parser, which
\* is locked as a whole and shown as it came, or with the bits of the bitmap page.
OpenBuilder ==
  /\ ~onPage /\ onPage' = TRUE
  /\ \/ UNCHANGED <<mti, fields, built, contextChanged>>
     \/ \E m \in MTIs, bits \in Opened :
          LET f == [b \in bits |-> Field("typed", TRUE, "ok")]
          IN  Load(f, m, [mti |-> m, values |-> ValuesOf(f)])
     \/ \E bits \in Opened :
          Load([b \in bits |-> IF b \in DOMAIN fields THEN fields[b]
                               ELSE Field("empty", TRUE, "editing")], mti, NoBuild)
  /\ UNCHANGED requests8583 /\ Schedule

UserActs ==
  \/ SetContext \/ OnBuild \/ OnRegenerateAll \/ IgnoreContextChange
  \/ MarkCardStale \/ ClearAllFields \/ LoadTemplate \/ CreateReversal
  \/ LeaveBuilder \/ OpenBuilder
  \/ \E b \in Bits : \/ UpdateField(b) \/ KeepField(b) \/ RemoveField(b) \/ AddField(b)
                     \/ OnRegenerateField(b)
BdNext ==
  \/ clicks < MaxClicks /\ clicks' = clicks + 1 /\ UserActs
  \/ /\ \/ BuildLands \/ BuildFails \/ SupersededLands \/ LiveRebuild \/ LiveLands
        \/ \E b \in Bits : ReplaceField(b)
     /\ UNCHANGED clicks
BdSpec == BdInit /\ [][BdNext]_bdVars

-----------------------------------------------------------------------------
BdFlagsOK ==
  contextChanged \in BOOLEAN /\ onPage \in BOOLEAN /\ liveTimer \in BOOLEAN /\ unsettled \in BOOLEAN

BdTypeOK ==
  /\ mti \in MTIs /\ fields \in FieldTables /\ BdFlagsOK
  /\ built \in {NoBuild} \cup Messages8583 /\ live \in {NoBuild} \cup Messages8583
  /\ building \in {NoBuild} \cup Builds8583 /\ superseded \in {NoBuild} \cup Orphans8583
  /\ regenerating \subseteq Bits /\ clicks \in 0 .. MaxClicks

\* The preview at rest is of the MTI and of the values in the table, whatever
\* builds, edits and regenerations crossed.
PreviewSettles ==
  onPage /\ ~liveTimer /\ live = NoBuild /\ ~unsettled /\ built # NoBuild /\ fields # <<>> =>
    built = [mti |-> mti, values |-> ValuesOf(fields)]

\* "Keep locked manual edits even on regenerate": the answer to the build, to a
\* rebuild or to a regeneration changes no value the user has typed by then.
TypedValuesStay ==
  [][BuildLands \/ LiveLands \/ (\E b \in Bits : ReplaceField(b)) =>
       \A b \in DOMAIN fields : fields[b].locked /\ b \in DOMAIN fields' =>
         fields'[b].value = fields[b].value]_bdVars

\* A row that offers "Regenerar" is one the answer can change: stale rows are unlocked.
StaleIsUnlocked == \A b \in DOMAIN fields : fields[b].status = "stale" => ~fields[b].locked

\* The preview is of the rows, and a row's two flags, stale and locked, exclude each other.
RowsSettle == PreviewSettles /\ StaleIsUnlocked
=============================================================================
