------------------------------- MODULE ParserPage -------------------------------
(***************************************************************************)
(* The ISO 8583 parser page and what is handed to it and by it: a message  *)
(* arrives in the navigation state or in the session storage and is parsed *)
(* on landing; what was parsed can be opened in the builder or in EMV.     *)
(***************************************************************************)
EXTENDS Naturals, FiniteSets

CONSTANTS Wires,       \* messages
          MaxParses,   \* bound: requests sent
          BlankInput, NoResult

\* A result, named by the message it is of, which it may have failed to parse.
Parses == [of : Wires, ok : BOOLEAN]

ASSUME ParserAssumption ==
  MaxParses \in Nat /\ BlankInput \notin Wires /\ NoResult \notin Parses

VARIABLES
  parserOn,      \* the page is mounted
  parserInput, parserResult,   \* NoResult, or what the answer was of and if it parsed
  parserCalls,   \* unanswered requests of this visit: <<serial, wire>>
  parserPending, \* serial of the mutation's latest request, 0 when settled or reset
  parserError, pasteTimer,
  historyState,  \* the autoMessage in the browser's history entry
  parserRuns,        \* requests sent
  handed, landed,   \* history: messages handed to the page; parses made on landing
  untouched,     \* history: the input is the one handed over, and nothing was asked since
  carried        \* the wire and the result last handed to the builder or to EMV

parserView == <<parserInput, parserResult, parserCalls, parserPending, parserError, pasteTimer>>
parserVars == <<parserOn, parserView, historyState, parserRuns, handed, landed, untouched, carried>>

ParserInit ==
  /\ parserOn = FALSE /\ parserInput = BlankInput /\ parserResult = NoResult
  /\ parserCalls = {} /\ parserPending = 0 /\ parserError = FALSE /\ pasteTimer = FALSE
  /\ historyState = BlankInput /\ parserRuns = 0 /\ handed = 0 /\ landed = 0
  /\ untouched = FALSE /\ carried = NoResult

\* mutation.mutate: the answer of an earlier request still lands.
MutateParse(w, calls) ==
  /\ parserRuns < MaxParses /\ parserRuns' = parserRuns + 1
  /\ parserCalls' = calls \cup {<<parserRuns', w>>}
  /\ parserPending' = parserRuns' /\ parserError' = FALSE

\* The page mounts with w in hand, if it is not blank.
Land(w) ==
  /\ parserOn' = TRUE /\ parserInput' = w /\ parserResult' = NoResult /\ pasteTimer' = FALSE
  /\ IF w = BlankInput
       THEN parserCalls' = {} /\ parserPending' = 0 /\ parserError' = FALSE
            /\ untouched' = FALSE /\ UNCHANGED <<parserRuns, landed>>
       ELSE MutateParse(w, {}) /\ landed' = landed + 1 /\ untouched' = TRUE

\* Mutant of ArriveByState: the state is not stripped from the history.
ArriveByStateUnstripped ==
  /\ ~parserOn /\ \E w \in Wires : Land(w) /\ historyState' = w
  /\ handed' = handed + 1 /\ UNCHANGED carried

\* "Open in Parser" of the builder or of EMV: hydrated once, then stripped.
ArriveByState ==
  /\ ~parserOn /\ \E w \in Wires : Land(w)
  /\ historyState' = BlankInput /\ handed' = handed + 1 /\ UNCHANGED carried

\* The flow visualizer's payload is removed from the storage as it is read.
ArriveByStorage ==
  /\ ~parserOn /\ \E w \in Wires : Land(w)
  /\ handed' = handed + 1 /\ UNCHANGED <<historyState, carried>>

\* The sidebar's link makes a new entry, Back or a reload finds the old one.
Visit ==
  /\ \/ ~parserOn /\ Land(BlankInput) /\ historyState' = BlankInput
     \/ Land(historyState) /\ UNCHANGED historyState
  /\ UNCHANGED <<handed, carried>>

\* The page unmounts, and what it asked goes nowhere.
Unmounts ==
  /\ parserOn' = FALSE /\ untouched' = FALSE
  /\ parserInput' = BlankInput /\ parserResult' = NoResult /\ parserCalls' = {}
  /\ parserPending' = 0 /\ parserError' = FALSE /\ pasteTimer' = FALSE
  /\ UNCHANGED <<historyState, parserRuns, handed, landed>>

LeaveParser == parserOn /\ Unmounts /\ UNCHANGED carried

\* A paste parses 300 ms later, whatever the input is by then.
EditInput ==
  /\ parserOn /\ parserInput' \in (Wires \cup {BlankInput}) \ {parserInput}
  /\ pasteTimer' \in {pasteTimer, TRUE} /\ untouched' = FALSE
  /\ UNCHANGED <<parserOn, parserResult, parserCalls, parserPending, parserError,
                 historyState, parserRuns, handed, landed, carried>>

\* The button, Ctrl-Enter or the paste timer; only the button waits for an answer.
OnParse ==
  /\ parserOn /\ pasteTimer' \in {pasteTimer, FALSE} /\ untouched' = FALSE
  /\ IF parserInput = BlankInput
       THEN pasteTimer /\ UNCHANGED <<parserRuns, parserCalls, parserPending, parserError>>
       ELSE MutateParse(parserInput, parserCalls)
  /\ UNCHANGED <<parserOn, parserInput, parserResult, historyState, handed, landed, carried>>

\* onSuccess of any request of this visit; the observer settles with the latest.
ParseAnswered ==
  \E c \in parserCalls :
    /\ parserCalls' = parserCalls \ {c}
    /\ parserPending' = IF parserPending = c[1] THEN 0 ELSE parserPending
    /\ \/ /\ \E ok \in BOOLEAN : parserResult' = [of |-> c[2], ok |-> ok]
          /\ UNCHANGED parserError
       \/ parserError' = (parserError \/ parserPending = c[1]) /\ UNCHANGED parserResult
    /\ UNCHANGED <<parserOn, parserInput, pasteTimer, historyState, parserRuns, handed, landed,
                   untouched, carried>>

OnClear ==
  /\ parserOn /\ parserInput' = BlankInput /\ parserResult' = NoResult
  /\ parserPending' = 0 /\ parserError' = FALSE /\ untouched' = FALSE
  /\ UNCHANGED <<parserOn, parserCalls, pasteTimer, historyState, parserRuns, handed, landed, carried>>

\* The result card of a message that parsed has the buttons that hand it on.
Parsed == parserResult # NoResult /\ parserResult.ok

\* The fields are the result's, the wire is the input's.
OnOpenInBuilder == Parsed /\ carried' = <<parserInput, parserResult.of>> /\ Unmounts

\* Bit 55 and the PAN are both the result's.
OnValidateInEmv == Parsed /\ carried' = <<parserResult.of, parserResult.of>> /\ Unmounts

ParserNext ==
  \/ ArriveByState \/ ArriveByStorage \/ Visit \/ LeaveParser \/ EditInput
  \/ OnParse \/ ParseAnswered \/ OnClear \/ OnOpenInBuilder
  \/ OnValidateInEmv
ParserSpec == ParserInit /\ [][ParserNext]_parserVars

-----------------------------------------------------------------------------
ParseCalls == (1 .. MaxParses) \X Wires
Carried == (Wires \cup {BlankInput}) \X Wires
ParserFlagsOK ==
  /\ parserOn \in BOOLEAN /\ parserError \in BOOLEAN /\ pasteTimer \in BOOLEAN
  /\ untouched \in BOOLEAN
ParserTypeOK ==
  /\ ParserFlagsOK
  /\ parserInput \in Wires \cup {BlankInput} /\ historyState \in Wires \cup {BlankInput}
  /\ parserResult \in Parses \cup {NoResult}
  /\ parserCalls \subseteq ParseCalls
  /\ parserPending \in 0 .. MaxParses /\ parserRuns \in 0 .. MaxParses
  /\ handed \in 0 .. MaxParses /\ landed \in 0 .. MaxParses
  /\ carried \in Carried \cup {NoResult}

\* "Auto-parse once, then strip the state so a refresh doesn't re-fire": a message
\* handed over is parsed exactly once, whatever reloads and visits follow.
HandedIsParsedOnce == landed = handed

\* A message that was handed over and left alone is shown parsed, is being
\* parsed, or has failed in sight; no other message's result stands in its place.
ArrivalIsShown ==
  untouched => \/ parserPending # 0 \/ parserError
               \/ parserResult # NoResult /\ parserResult.of = parserInput
=============================================================================
