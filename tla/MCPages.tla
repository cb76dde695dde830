------------------------------- MODULE MCPages -------------------------------
(***************************************************************************)
(* Finite instances of the pages and stores of the console that only their *)
(* user and their own requests change, and of the agent's direct injection, *)
(* which the injector panel calls.  They share no state, so one is used in  *)
(* a behaviour.                                                            *)
(***************************************************************************)
EXTENDS Injector, MtWorkflow, FlowVisualizer, MessageBuilder, ReferencePage, FieldTree,
        FieldDetailPanel, UsedIn, VersionComparator, XmlParserPage, ParserPage,
        BitmapPage, EmvWorkbench, WorkspaceSettings, SchemasSection, TemplateList,
        PixQrPage, DirectInjection

CONSTANTS g1

VARIABLE part   \* the page that is used; the others stay as they start

MCTreeNodes == 1 .. 15
MCAbove(n) == {n \div 2, n \div 4, n \div 8} \ {0}
MCUsedInTypes == {<<"camt", 1>>, <<"pacs", 1>>}
MCAsked == [framed |-> TRUE, valid |-> TRUE, near |-> TRUE, length |-> 65535,
            answered |-> TRUE, slow |-> FALSE, replyLength |-> 65535]
MCPrescribed(m) == {2} \cup (IF m = "0400" THEN {90} ELSE {55})
MCOpened == {{2}, {55, 90}}
MCCardinalities == {<<0, 1>>, <<0, 2>>, <<1, 1>>}
MCIds(f) == IF f = 1 THEN {1, 2} ELSE {1}
MCVersions(f, i) == IF i = 2 THEN {3} ELSE IF f = 1 THEN {1, 2} ELSE {2, 3}

Init ==
  /\ part \in {"injector", "mt", "flow", "builder", "reference", "tree", "panel",
               "usedIn", "comparator", "xml", "parser", "bitmap", "emv", "settings",
               "schemas", "templates", "qr", "direct"}
  /\ InjInit /\ (part # "injector" => listening = {})
  /\ MtInit /\ (part # "mt" => raw = BlankMt)
  /\ FlowInit
  /\ BdInit
  /\ RefInit
  /\ TreeInit
  /\ PanelInit
  /\ UsedInInit
  /\ CmpInit
  /\ XmlInit /\ (part # "xml" => xml = NoXml)
  /\ ParserInit
  /\ BitmapInit
  /\ EmvInit /\ (part # "emv" => cryptoEnabled)
  /\ WsInit /\ (part # "settings" => wsConfig = g1)
  /\ UpInit /\ (part # "schemas" => wsSchemas = {})
  /\ TplInit
  /\ PixInit
  /\ DirectInit /\ (part # "direct" => asked = MCAsked /\ headerSize = 0 /\ stopped)

OthersStay ==
  /\ UNCHANGED part
  /\ IF part = "injector" THEN TRUE ELSE UNCHANGED injVars
  /\ IF part = "mt" THEN TRUE ELSE UNCHANGED mtVars
  /\ IF part = "flow" THEN TRUE ELSE UNCHANGED flowVars
  /\ IF part = "builder" THEN TRUE ELSE UNCHANGED bdVars
  /\ IF part = "reference" THEN TRUE ELSE UNCHANGED refVars
  /\ IF part = "tree" THEN TRUE ELSE UNCHANGED treeVars
  /\ IF part = "panel" THEN TRUE ELSE UNCHANGED panelVars
  /\ IF part = "usedIn" THEN TRUE ELSE UNCHANGED usedInVars
  /\ IF part = "comparator" THEN TRUE ELSE UNCHANGED cmpVars
  /\ IF part = "xml" THEN TRUE ELSE UNCHANGED xmlVars
  /\ IF part = "parser" THEN TRUE ELSE UNCHANGED parserVars
  /\ IF part = "bitmap" THEN TRUE ELSE UNCHANGED bitmapVars
  /\ IF part = "emv" THEN TRUE ELSE UNCHANGED emvVars
  /\ IF part = "settings" THEN TRUE ELSE UNCHANGED wsVars
  /\ IF part = "schemas" THEN TRUE ELSE UNCHANGED upVars
  /\ IF part = "templates" THEN TRUE ELSE UNCHANGED tplVars
  /\ IF part = "qr" THEN TRUE ELSE UNCHANGED pixVars
  /\ IF part = "direct" THEN TRUE ELSE UNCHANGED directVars

Next ==
  \/ part = "injector" /\ InjNext /\ OthersStay
  \/ part = "mt" /\ MtNext /\ OthersStay
  \/ part = "flow" /\ FlowNext /\ OthersStay
  \/ part = "builder" /\ BdNext /\ OthersStay
  \/ part = "reference" /\ RefNext /\ OthersStay
  \/ part = "tree" /\ TreeNext /\ OthersStay
  \/ part = "panel" /\ PanelNext /\ OthersStay
  \/ part = "usedIn" /\ UsedInNext /\ OthersStay
  \/ part = "comparator" /\ CmpNext /\ OthersStay
  \/ part = "xml" /\ XmlNext /\ OthersStay
  \/ part = "parser" /\ ParserNext /\ OthersStay
  \/ part = "bitmap" /\ BitmapNext /\ OthersStay
  \/ part = "emv" /\ EmvNext /\ OthersStay
  \/ part = "settings" /\ WsNext /\ OthersStay
  \/ part = "schemas" /\ UpNext /\ OthersStay
  \/ part = "templates" /\ TplNext /\ OthersStay
  \/ part = "qr" /\ PixNext /\ OthersStay
  \/ part = "direct" /\ DirectNext /\ OthersStay

vars == <<part, injVars, mtVars, flowVars, bdVars, refVars, treeVars, panelVars,
          usedInVars, cmpVars, xmlVars, parserVars, bitmapVars, emvVars, wsVars,
          upVars, tplVars, pixVars, directVars>>
Spec == Init /\ [][Next]_vars /\ InjFairness /\ MtFairness /\ DirectFairness

-----------------------------------------------------------------------------
\* Every variable of the pages keeps to its type: no answer of one request ends in
\* the place of another.
PagesTypeOK ==
  /\ InjTypeOK /\ MtTypeOK /\ FlowTypeOK /\ BdTypeOK /\ RefTypeOK /\ PanelTypeOK
  /\ CmpTypeOK /\ XmlTypeOK /\ ParserTypeOK /\ BitmapTypeOK /\ EmvTypeOK
  /\ WsTypeOK /\ UpTypeOK /\ PixTypeOK /\ DirectTypeOK

\* A late answer does not stand beside a later input: with nothing under way, and no
\* input changed over an open request, what a page shows is of what it shows it for.
AnswersAreOfTheirSource ==
  /\ CalmResultMatches /\ ParsedIsShown             \* the flow diagram
  /\ CalmTreeMatches /\ CalmPanelIsOfItsField       \* the schema reference
  /\ CalmAnswersAreOfText                           \* the XML parser
  /\ CalmTextIsTheList                              \* the bitmap
  /\ ImageIsOfPayload /\ CalmBadgeIsOfKey           \* the PIX QR code
  /\ ConversionIsOfText                             \* the MT to MX conversion
  /\ RowsSettle                                     \* the ISO 8583 builder

\* What a page says it is waiting for is what it asked last, of the text it shows.
RequestsAreOfTheirText == ParsePendingIsOfText /\ PendingAwaitsTree /\ ParsingIsOfText

\* What one page hands to another arrives once, and is neither lost nor taken again
\* when the page is rendered, reloaded or visited anew.
HandOffsArrive ==
  /\ HandedIsParsedOnce /\ ArrivalIsShown           \* to the parser
  /\ ArrivedIsParsed /\ HintIsTrue                  \* from the parser to the EMV page
  /\ HandOffIsConsumed /\ HandOffIsShown            \* from the flows to the PIX page

\* A save or an upload that the server took is on the page once its refetch landed,
\* whatever refetch was under way when it was made.
SavedIsShown == QuietFormIsServers /\ UploadedIsVisible

\* What is chosen in a list exists in it, however the list changed under the choice.
ChoicesAreOfTheirLists ==
  /\ HighlightInSight                               \* the field tree
  /\ RowsNameADifference                            \* the types used elsewhere
  /\ DropdownsExist /\ ImpactIsOfTheMessage         \* the version comparator
  /\ LoadedIsTheRow                                 \* the templates

\* What the user starts ends: a limited loop of injections, an analysis put off, a
\* direct injection and what the listener started for it.
StartedEnds == LimitedLoopEnds /\ AnalysisComes /\ DirectCallEnds
=============================================================================
