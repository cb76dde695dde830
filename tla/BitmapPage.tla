------------------------------- MODULE BitmapPage -------------------------------
(***************************************************************************)
(* The bitmap helper: a hex text and a list of active bits, each derived   *)
(* from the other, one of the two ways through the agent.                  *)
(***************************************************************************)
EXTENDS Naturals, FiniteSets

CONSTANTS MapBits,          \* the fields listed; 1 says that a secondary bitmap follows
          MaxDecodes,    \* bound: decodes asked for
          Empty, Partial \* no text; a text that is not 16 or 32 hex digits

VARIABLES
  bitmapOn, active, hexInput,
  lastSource,            \* "none", "input", "list"
  decodeTimer,           \* Empty, or the text that is decoded 400 ms after it changed
  decodes, decoded,      \* unanswered: <<serial, hex>>; asked so far
  bitmapCalm             \* history: nothing changed over an open decode, none failed

bitmapVars == <<bitmapOn, active, hexInput, lastSource, decodeTimer, decodes, decoded, bitmapCalm>>

\* 16 or 32 hex digits, by the bits they set.
CompleteBitmaps == [bits : SUBSET MapBits, long : BOOLEAN] \ 
                   {[bits |-> b, long |-> FALSE] : b \in {b \in SUBSET MapBits : \E x \in b : x > 64}}
ASSUME BitmapAssumption ==
  /\ MapBits \subseteq 1 .. 128 /\ 1 \in MapBits /\ MaxDecodes \in Nat
  /\ Empty \notin CompleteBitmaps /\ Partial \notin CompleteBitmaps /\ Empty # Partial

BitmapTexts == CompleteBitmaps \cup {Empty, Partial}

\* A bit beyond 64 brings the secondary bitmap, and bit 1.
BitsToHex(bits) ==
  LET hasSecondary == \E b \in bits : b > 64
  IN  [bits |-> bits \cup (IF hasSecondary THEN {1} ELSE {}), long |-> hasSecondary]

BitmapInit ==
  /\ bitmapOn = FALSE /\ active = {} /\ hexInput = Empty /\ lastSource = "none"
  /\ decodeTimer = Empty /\ decodes = {} /\ decoded = 0 /\ bitmapCalm = TRUE

Decode(h) == decoded < MaxDecodes /\ decoded' = decoded + 1 /\ decodes' = decodes \cup {<<decoded', h>>}

\* The effect on [hexInput].
DebounceEffect ==
  IF hexInput' # hexInput
    THEN decodeTimer' = IF lastSource' = "input" /\ hexInput' \in CompleteBitmaps THEN hexInput' ELSE Empty
    ELSE UNCHANGED decodeTimer

\* From the menu, or from the Parser with a bitmap that is decoded at once.
OpenBitmap ==
  /\ ~bitmapOn /\ bitmapOn' = TRUE /\ active' = {} /\ bitmapCalm' = TRUE
  /\ \/ hexInput' = Empty /\ lastSource' = "none" /\ UNCHANGED <<decodes, decoded>>
     \/ hexInput' \in CompleteBitmaps /\ lastSource' = "input" /\ Decode(hexInput')
  /\ decodeTimer' = hexInput'

ToggleBit ==
  /\ bitmapOn
  /\ \E b \in MapBits :
       active' = IF b \in active THEN active \ {b} ELSE active \cup {b}
  /\ hexInput' = BitsToHex(active') /\ lastSource' = "list" /\ DebounceEffect
  /\ bitmapCalm' = (bitmapCalm /\ decodes = {}) /\ UNCHANGED <<bitmapOn, decodes, decoded>>

\* Wiping the text wipes the list.
OnInputChange ==
  /\ bitmapOn /\ hexInput' \in BitmapTexts \ {hexInput} /\ lastSource' = "input"
  /\ active' = IF hexInput' = Empty THEN {} ELSE active
  /\ DebounceEffect /\ bitmapCalm' = (bitmapCalm /\ decodes = {})
  /\ UNCHANGED <<bitmapOn, decodes, decoded>>

\* A complete text is decoded at once, and again by the timer if it is another one.
OnPaste ==
  /\ bitmapOn /\ hexInput' \in CompleteBitmaps /\ lastSource' = "input" /\ Decode(hexInput')
  /\ DebounceEffect /\ bitmapCalm' = (bitmapCalm /\ decodes = {})
  /\ UNCHANGED <<bitmapOn, active>>

TimerDecodes ==
  /\ decodeTimer # Empty /\ decodeTimer' = Empty /\ Decode(decodeTimer)
  /\ UNCHANGED <<bitmapOn, active, hexInput, lastSource, bitmapCalm>>

OnClearBitmap ==
  /\ bitmapOn /\ <<hexInput, active>> # <<Empty, {}>>
  /\ active' = {} /\ hexInput' = Empty /\ lastSource' = "list"
  /\ DebounceEffect /\ bitmapCalm' = (bitmapCalm /\ decodes = {})
  /\ UNCHANGED <<bitmapOn, decodes, decoded>>

\* ParseBitmap of the backend, on what the page sends: the bits that are set.
DecodeLands ==
  \E d \in decodes :
    /\ decodes' = decodes \ {d}
    /\ \/ active' = (IF bitmapOn THEN d[2].bits ELSE active) /\ UNCHANGED bitmapCalm
       \/ bitmapCalm' = FALSE /\ UNCHANGED active
    /\ UNCHANGED <<bitmapOn, hexInput, lastSource, decodeTimer, decoded>>

\* "Use in the Builder", with the active bits; the page is gone.
OnUseInBuilder ==
  /\ bitmapOn /\ active # {}
  /\ bitmapOn' = FALSE /\ active' = {} /\ hexInput' = Empty /\ lastSource' = "none"
  /\ decodeTimer' = Empty /\ decodes' = {} /\ bitmapCalm' = TRUE /\ UNCHANGED decoded

BitmapNext ==
  \/ OpenBitmap \/ ToggleBit \/ OnInputChange \/ OnPaste \/ TimerDecodes
  \/ OnClearBitmap \/ DecodeLands \/ OnUseInBuilder
BitmapSpec == BitmapInit /\ [][BitmapNext]_bitmapVars

-----------------------------------------------------------------------------
BitmapFlagsOK == bitmapOn \in BOOLEAN /\ bitmapCalm \in BOOLEAN

BitmapTypeOK ==
  /\ active \subseteq MapBits /\ hexInput \in BitmapTexts /\ lastSource \in {"none", "input", "list"}
  /\ decodes \subseteq (1 .. MaxDecodes) \X CompleteBitmaps /\ decoded \in 0 .. MaxDecodes
  /\ decodeTimer \in CompleteBitmaps \cup {Empty} /\ BitmapFlagsOK

\* Nothing is changed over an open decode and none fails: once the decodes and the
\* timer are done, a complete text that was typed, pasted or brought and the list
\* are one bitmap, and after a click or a clear the text is that of the list.
CalmTextIsTheList ==
  bitmapCalm /\ bitmapOn /\ decodes = {} /\ decodeTimer = Empty =>
    IF lastSource = "input" THEN hexInput \in CompleteBitmaps => active = hexInput.bits
    ELSE hexInput \in {BitsToHex(active)} \cup (IF active = {} THEN {Empty} ELSE {})
=============================================================================
