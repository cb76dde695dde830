------------------------------- MODULE Injector -------------------------------
(***************************************************************************)
(* The injector panel of the Simulator page: single injections and a loop  *)
(* on a one-second interval, over a persisted form and the page's list of  *)
(* active responders.  A request is answered, or times out after 60 s.     *)
(***************************************************************************)
EXTENDS Naturals, Sequences, FiniteSets

CONSTANTS Ports,          \* ports of local responders
          Slots,          \* bound: requests in flight at once
          MaxResponses,   \* MAX_RESPONSES (100)
          NoTimer

ASSUME InjectorAssumption ==
  MaxResponses \in Nat \ {0} /\ "custom" \notin Ports /\ IsFiniteSet(Slots)

VARIABLES
  form,       \* the store: message (0: blank, or a malformed TPDU), destination,
              \* whether the duration is limited
  listening,  \* ports of the active responders the page lists
  mounted,
  running, busy,
  timer,      \* the two intervals: NoTimer, or what their callbacks captured
  inFlight,   \* requests, by slot
  responses   \* outcomes shown, newest first

injVars == <<form, listening, mounted, running, busy, timer, inFlight, responses>>

Forms == [message : 0 .. 2, destination : Ports \cup {"custom"}, limited : BOOLEAN]
DEFAULTS == [message |-> 0, destination |-> "custom", limited |-> FALSE]

\* Host, port and framing come from the selected session while it is listed, and
\* from the free-form fields otherwise.
Effective(f) == IF f.destination \in listening THEN f.destination ELSE "custom"
Request(f, vary) == [message |-> f.message, to |-> Effective(f), vary |-> vary]
Requests == [message : 1 .. 2, to : Ports \cup {"custom"}, vary : BOOLEAN]
Loops == [request : Requests, limited : BOOLEAN]

InjInit ==
  /\ form = DEFAULTS /\ listening \in SUBSET Ports /\ mounted = TRUE
  /\ running = FALSE /\ busy = FALSE /\ timer = NoTimer
  /\ inFlight = <<>> /\ responses = <<>>

Sending(r) == \E k \in Slots \ DOMAIN inFlight :
                inFlight' = [x \in DOMAIN inFlight \cup {k} |-> IF x = k THEN r ELSE inFlight[x]]

EditForm ==
  /\ mounted /\ form' \in Forms
  /\ UNCHANGED <<listening, mounted, running, busy, timer, inFlight, responses>>

ListChanges ==
  /\ listening' \in SUBSET Ports
  /\ UNCHANGED <<form, mounted, running, busy, timer, inFlight, responses>>

\* The button: the message exactly as typed.
InjectOnce ==
  /\ mounted /\ form.message # 0 /\ ~busy /\ ~running
  /\ Sending(Request(form, FALSE)) /\ busy' = TRUE
  /\ UNCHANGED <<form, listening, mounted, running, timer, responses>>

\* The first message of the loop at once; the interval keeps the form, and the
\* destination, of the render that started it.
StartContinuous ==
  /\ mounted /\ ~running /\ form.message # 0
  /\ running' = TRUE /\ busy' = TRUE
  /\ timer' = [request |-> Request(form, TRUE), limited |-> form.limited]
  /\ Sending(timer'.request)
  /\ UNCHANGED <<form, listening, mounted, responses>>

\* Mutant of Tick: the callback reads the form of now.
TickReadsForm ==
  /\ timer # NoTimer /\ form.message # 0 /\ Sending(Request(form, TRUE)) /\ busy' = TRUE
  /\ UNCHANGED <<form, listening, mounted, running, timer, responses>>

\* The interval does not wait for the answer of its last request.
Tick ==
  /\ timer # NoTimer /\ Sending(timer.request) /\ busy' = TRUE
  /\ UNCHANGED <<form, listening, mounted, running, timer, responses>>

StopLoop == timer' = NoTimer /\ running' = FALSE

\* Mutant of LimitPasses: the limit is the form's of now.
LimitPassesOfForm ==
  /\ timer # NoTimer /\ form.limited /\ StopLoop
  /\ UNCHANGED <<form, listening, mounted, busy, inFlight, responses>>

\* The second interval: the limit set when the loop was started has passed.
LimitPasses ==
  /\ timer # NoTimer /\ timer.limited /\ StopLoop
  /\ UNCHANGED <<form, listening, mounted, busy, inFlight, responses>>

StopContinuous ==
  /\ mounted /\ running /\ StopLoop
  /\ UNCHANGED <<form, listening, mounted, busy, inFlight, responses>>

\* Mutant of ClearAll: the interval goes on.
ClearAllButTimer ==
  /\ mounted /\ running' = FALSE /\ form' = DEFAULTS /\ responses' = <<>>
  /\ UNCHANGED <<listening, mounted, busy, timer, inFlight>>
ClearAll ==
  /\ mounted /\ StopLoop /\ form' = DEFAULTS /\ responses' = <<>>
  /\ UNCHANGED <<listening, mounted, busy, inFlight>>

\* Leaving the page stops the timers; requests in flight are not cancelled.
Unmount ==
  /\ mounted /\ mounted' = FALSE /\ StopLoop
  /\ busy' = FALSE /\ responses' = <<>>
  /\ UNCHANGED <<form, listening, inFlight>>

\* The page again: the store is as it was, the rest starts afresh, and answers
\* to requests of the former panel reach nothing.
Remount ==
  /\ ~mounted /\ mounted' = TRUE /\ inFlight' = <<>>
  /\ UNCHANGED <<form, listening, running, busy, timer, responses>>

\* Mutant of InjectionLands: without the slice.
InjectionLandsUncut ==
  /\ \E k \in DOMAIN inFlight :
       inFlight' = [x \in DOMAIN inFlight \ {k} |-> inFlight[x]]
  /\ IF mounted
     THEN /\ busy' = FALSE
          /\ \E outcome \in {"success", "failure"} : responses' = <<outcome>> \o responses
     ELSE UNCHANGED <<busy, responses>>
  /\ UNCHANGED <<form, listening, mounted, running, timer>>

\* An answer, an error or the time-out; finally: not busy, whatever else waits.
InjectionLands ==
  /\ \E k \in DOMAIN inFlight :
       inFlight' = [x \in DOMAIN inFlight \ {k} |-> inFlight[x]]
  /\ IF mounted
     THEN /\ busy' = FALSE
          /\ \E outcome \in {"success", "failure"} :
               LET l == <<outcome>> \o responses
               IN  responses' = SubSeq(l, 1, IF Len(l) < MaxResponses THEN Len(l)
                                             ELSE MaxResponses)
     ELSE UNCHANGED <<busy, responses>>
  /\ UNCHANGED <<form, listening, mounted, running, timer>>

InjNext ==
  \/ EditForm \/ ListChanges \/ InjectOnce \/ StartContinuous \/ Tick \/ LimitPasses
  \/ StopContinuous \/ ClearAll \/ Unmount \/ Remount \/ InjectionLands

\* Time passes: the limit of a loop comes.
InjFairness == WF_injVars(LimitPasses) /\ WF_injVars(InjectionLands)
InjSpec == InjInit /\ [][InjNext]_injVars /\ InjFairness

-----------------------------------------------------------------------------
InjFlagsOK == mounted \in BOOLEAN /\ running \in BOOLEAN /\ busy \in BOOLEAN

InjTypeOK ==
  /\ InjFlagsOK /\ form \in Forms /\ listening \subseteq Ports
  /\ timer \in {NoTimer} \cup Loops
  /\ DOMAIN inFlight \subseteq Slots /\ \A k \in DOMAIN inFlight : inFlight[k] \in Requests
  /\ responses \in Seq({"success", "failure"}) /\ Len(responses) <= MaxResponses

\* "Clean up timers on unmount so navigating away doesn't leave a zombie loop":
\* an interval runs only behind a mounted panel that offers Stop.
NoZombieLoop == timer # NoTimer => mounted /\ running

\* A panel without a request in flight is not busy: a single injection can be sent.
QuietIsIdle == mounted /\ inFlight = <<>> => ~busy

\* A request that varies its identifiers is one of a loop's, and all of a loop's
\* are what the loop was started with, whatever the form or the list become.
LoopSendsItsRequest ==
  [][running /\ running' =>
       \A k \in DOMAIN inFlight' \ DOMAIN inFlight : inFlight'[k] = timer.request]_injVars

\* A loop with a duration ends, whatever the user does to the form meanwhile.
LimitedLoopEnds == (timer # NoTimer /\ timer.limited) ~> (timer = NoTimer)

\* The three flags of the panel agree: the interval with Stop, "busy" with the requests.
LoopIsOwned == NoZombieLoop /\ QuietIsIdle
=============================================================================
