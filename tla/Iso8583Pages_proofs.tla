----------------------------- MODULE Iso8583Pages_proofs -----------------------------
(* Theorems about the pages and panels of the ISO 8583 toolkit, each for   *)
(* every value of its constants: the injector and the direct injection     *)
(* behind it, the parser, the bitmap, the message builder, the EMV page    *)
(* and the templates.                                                      *)
EXTENDS Injector, DirectInjection, ParserPage, BitmapPage, MessageBuilder, EmvWorkbench,
        TemplateList, TLAPS

(***************************************************************************)
(* Injector: who owns the interval of the loop and what it sends, for      *)
(* every set of responders and any number of requests in flight.           *)
(***************************************************************************)
LEMMA RequestTyped ==
  ASSUME InjTypeOK, form.message # 0
  PROVE  Request(form, TRUE) \in Requests /\ Request(form, FALSE) \in Requests /\ form.limited \in BOOLEAN
  <1>1. form \in Forms BY DEF InjTypeOK
  <1>2. form.message \in 1 .. 2 /\ form.destination \in Ports \cup {"custom"} /\ form.limited \in BOOLEAN
    BY <1>1 DEF Forms
  <1>3. Effective(form) \in Ports \cup {"custom"} BY <1>2 DEF Effective
  <1>4. Request(form, TRUE) \in Requests BY <1>2, <1>3 DEF Request, Requests
  <1>5. Request(form, FALSE) \in Requests BY <1>2, <1>3 DEF Request, Requests
  <1> QED BY <1>2, <1>4, <1>5

\* What is in flight.
InFlightOK == DOMAIN inFlight \subseteq Slots /\ \A k \in DOMAIN inFlight : inFlight[k] \in Requests

\* Sending an injection adds one request to those under way.
LEMMA SentTyped ==
  ASSUME InFlightOK, NEW r \in Requests, Sending(r)
  PROVE  InFlightOK'
  <1>1. PICK k \in Slots \ DOMAIN inFlight :
          inFlight' = [x \in DOMAIN inFlight \cup {k} |-> IF x = k THEN r ELSE inFlight[x]]
    BY DEF Sending
  <1>2. DOMAIN inFlight' = DOMAIN inFlight \cup {k} BY <1>1
  <1> QED BY <1>1, <1>2 DEF InFlightOK

\* Only so many outcomes are kept.
ResponsesOK == responses \in Seq({"success", "failure"}) /\ Len(responses) <= MaxResponses

\* A response that lands takes its request away and joins the list, cut to its length.
LEMMA LandedTyped ==
  ASSUME InFlightOK, ResponsesOK, InjectionLands
  PROVE  InFlightOK' /\ ResponsesOK'
  <1>1. PICK k \in DOMAIN inFlight : inFlight' = [x \in DOMAIN inFlight \ {k} |-> inFlight[x]]
    BY DEF InjectionLands
  <1>2. InFlightOK'
    <2>1. DOMAIN inFlight' = DOMAIN inFlight \ {k} BY <1>1
    <2> QED BY <1>1, <2>1 DEF InFlightOK
  <1>3. CASE UNCHANGED responses BY <1>2, <1>3 DEF ResponsesOK
  <1>4. ASSUME NEW outcome \in {"success", "failure"},
               responses' = LET l == <<outcome>> \o responses
                            IN  SubSeq(l, 1, IF Len(l) < MaxResponses THEN Len(l) ELSE MaxResponses)
        PROVE  ResponsesOK'
    <2> DEFINE l == <<outcome>> \o responses
               n == IF Len(l) < MaxResponses THEN Len(l) ELSE MaxResponses
    <2>1. l \in Seq({"success", "failure"}) BY DEF ResponsesOK
    <2>2. n \in 0 .. Len(l) /\ n <= MaxResponses
      <3>1. Len(l) \in Nat BY <2>1
      <3> HIDE DEF l
      <3> QED BY <3>1, InjectorAssumption
    <2>3. responses' = SubSeq(l, 1, n) BY <1>4
    <2> HIDE DEF l, n
    <2>4. SubSeq(l, 1, n) \in Seq({"success", "failure"}) /\ Len(SubSeq(l, 1, n)) = n BY <2>1, <2>2
    <2> QED BY <2>2, <2>3, <2>4 DEF ResponsesOK
  <1> QED BY <1>2, <1>3, <1>4 DEF InjectionLands

\* The panel starts within its types.
LEMMA InjTypeInitially == InjInit => InjTypeOK
  <1> SUFFICES ASSUME InjInit PROVE InjTypeOK OBVIOUS
  <1>1. InjFlagsOK BY DEF InjInit, InjFlagsOK
  <1>2. form \in Forms BY DEF InjInit, Forms, DEFAULTS
  <1>3. listening \subseteq Ports /\ timer \in {NoTimer} \cup Loops BY DEF InjInit
  <1>4. InFlightOK
    <2>1. DOMAIN <<>> = {} OBVIOUS
    <2> QED BY <2>1 DEF InjInit, InFlightOK
  <1>5. ResponsesOK BY InjectorAssumption DEF InjInit, ResponsesOK
  <1> QED BY <1>1, <1>2, <1>3, <1>4, <1>5
        DEF InjTypeOK, InFlightOK, ResponsesOK

\* Every step of the panel keeps its types.
LEMMA InjTypeStep == InjTypeOK /\ [InjNext]_injVars => InjTypeOK'
  <1> SUFFICES ASSUME InjTypeOK, [InjNext]_injVars PROVE InjTypeOK' OBVIOUS
  <1>0. /\ InjFlagsOK /\ form \in Forms /\ listening \subseteq Ports
        /\ timer \in {NoTimer} \cup Loops /\ InFlightOK /\ ResponsesOK
    BY DEF InjTypeOK, InFlightOK, ResponsesOK
  <1>a. DEFAULTS \in Forms BY DEF DEFAULTS, Forms
  <1>b. <<>> \in Seq({"success", "failure"}) /\ Len(<<>>) <= MaxResponses /\ DOMAIN <<>> = {}
    BY InjectorAssumption
  <1> DEFINE Goal == /\ InjFlagsOK' /\ form' \in Forms /\ listening' \subseteq Ports
                     /\ timer' \in {NoTimer} \cup Loops /\ InFlightOK' /\ ResponsesOK'
  <1> SUFFICES Goal BY DEF InjTypeOK, InFlightOK, ResponsesOK
  <1>1. CASE EditForm BY <1>0, <1>1 DEF EditForm, InjFlagsOK, InFlightOK, ResponsesOK
  <1>2. CASE ListChanges BY <1>0, <1>2 DEF ListChanges, InjFlagsOK, InFlightOK, ResponsesOK
  <1>3. CASE InjectOnce
    <2>1. InFlightOK' BY <1>0, <1>3, RequestTyped, SentTyped DEF InjectOnce
    <2> QED BY <1>0, <1>3, <2>1 DEF InjectOnce, InjFlagsOK, ResponsesOK
  <1>4. CASE StartContinuous
    <2>1. timer' = [request |-> Request(form, TRUE), limited |-> form.limited] /\ form.message # 0
      BY <1>4 DEF StartContinuous
    <2>2. timer' \in Loops BY <2>1, RequestTyped DEF Loops
    <2>3. timer'.request \in Requests BY <2>1, RequestTyped
    <2>4. InFlightOK' BY <1>0, <1>4, <2>3, SentTyped DEF StartContinuous
    <2>5. InjFlagsOK' BY <1>0, <1>4 DEF StartContinuous, InjFlagsOK
    <2> QED BY <1>0, <1>4, <2>2, <2>4, <2>5 DEF StartContinuous, ResponsesOK
  <1>5. CASE Tick
    <2>1. timer \in Loops BY <1>0, <1>5 DEF Tick
    <2>2. timer.request \in Requests BY <2>1 DEF Loops
    <2>3. InFlightOK' BY <1>0, <1>5, <2>2, SentTyped DEF Tick
    <2>4. InjFlagsOK' BY <1>0, <1>5 DEF Tick, InjFlagsOK
    <2> QED BY <1>0, <1>5, <2>3, <2>4 DEF Tick, ResponsesOK
  <1>6. CASE LimitPasses \/ StopContinuous
    BY <1>0, <1>6 DEF LimitPasses, StopContinuous, StopLoop, InjFlagsOK, InFlightOK, ResponsesOK
  <1>7. CASE ClearAll BY <1>0, <1>a, <1>b, <1>7 DEF ClearAll, StopLoop, InjFlagsOK, InFlightOK, ResponsesOK
  <1>8. CASE Unmount BY <1>0, <1>b, <1>8 DEF Unmount, StopLoop, InjFlagsOK, InFlightOK, ResponsesOK
  <1>9. CASE Remount BY <1>0, <1>b, <1>9 DEF Remount, InjFlagsOK, InFlightOK, ResponsesOK
  <1>10. CASE InjectionLands
    <2>1. InFlightOK' /\ ResponsesOK' BY <1>0, <1>10, LandedTyped
    <2>2. InjFlagsOK' BY <1>0, <1>10 DEF InjectionLands, InjFlagsOK
    <2> QED BY <1>0, <1>10, <2>1, <2>2 DEF InjectionLands
  <1>11. CASE UNCHANGED injVars BY <1>0, <1>11 DEF injVars, InjFlagsOK, InFlightOK, ResponsesOK
  <1> QED BY <1>1, <1>2, <1>3, <1>4, <1>5, <1>6, <1>7, <1>8, <1>9, <1>10, <1>11 DEF InjNext

\* An unmounted panel has neither interval nor flags.
LoopInv == LoopIsOwned /\ (mounted = FALSE => timer = NoTimer /\ running = FALSE /\ busy = FALSE)

\* A request goes to a slot that had none.
LEMMA SentIsNew ==
  ASSUME NEW r, Sending(r)
  PROVE  /\ inFlight' # <<>>
         /\ \A k \in DOMAIN inFlight' \ DOMAIN inFlight : inFlight'[k] = r
  <1>1. PICK k \in Slots \ DOMAIN inFlight :
          inFlight' = [x \in DOMAIN inFlight \cup {k} |-> IF x = k THEN r ELSE inFlight[x]]
    BY DEF Sending
  <1>2. DOMAIN inFlight' = DOMAIN inFlight \cup {k} BY <1>1
  <1>3. DOMAIN <<>> = {} OBVIOUS
  <1>4. inFlight' # <<>> BY <1>2, <1>3
  <1> QED BY <1>1, <1>4

\* A landed request makes room and sends none.
LEMMA LandedIsGone ==
  ASSUME InjectionLands
  PROVE  DOMAIN inFlight' \subseteq DOMAIN inFlight
  BY DEF InjectionLands

\* The panel starts without an interval ...
LEMMA LoopInitially == InjInit => LoopInv
  BY DEF InjInit, LoopInv, LoopIsOwned, NoZombieLoop, QuietIsIdle

\* ... and every step keeps interval and flags together.
LEMMA LoopStep == LoopInv /\ [InjNext]_injVars => LoopInv'
  <1> SUFFICES ASSUME LoopInv, [InjNext]_injVars PROVE LoopInv' OBVIOUS
  <1> USE DEF LoopInv, LoopIsOwned, NoZombieLoop, QuietIsIdle
  <1>1. CASE EditForm    BY <1>1 DEF EditForm
  <1>2. CASE ListChanges BY <1>2 DEF ListChanges
  <1>3. CASE InjectOnce
    <2>1. inFlight' # <<>> BY <1>3, SentIsNew DEF InjectOnce
    <2> QED BY <1>3, <2>1 DEF InjectOnce
  <1>4. CASE StartContinuous
    <2>1. inFlight' # <<>> BY <1>4, SentIsNew DEF StartContinuous
    <2> QED BY <1>4, <2>1 DEF StartContinuous
  <1>5. CASE Tick
    <2>1. inFlight' # <<>> BY <1>5, SentIsNew DEF Tick
    <2> QED BY <1>5, <2>1 DEF Tick
  <1>6. CASE LimitPasses    BY <1>6 DEF LimitPasses, StopLoop
  <1>7. CASE StopContinuous BY <1>7 DEF StopContinuous, StopLoop
  <1>8. CASE ClearAll       BY <1>8 DEF ClearAll, StopLoop
  <1>9. CASE Unmount        BY <1>9 DEF Unmount, StopLoop
  <1>10. CASE Remount       BY <1>10 DEF Remount
  <1>11. CASE InjectionLands BY <1>11 DEF InjectionLands
  <1>12. CASE UNCHANGED injVars BY <1>12 DEF injVars
  <1> QED BY <1>1, <1>2, <1>3, <1>4, <1>5, <1>6, <1>7, <1>8, <1>9, <1>10, <1>11, <1>12
          DEF InjNext

\* However the page is left, cleared and opened again while requests are on their way,
\* an interval runs only behind a panel that offers to stop it, and a panel that waits
\* for nothing accepts an injection.
THEOREM LoopOwned == InjSpec => []LoopIsOwned
  <1>1. LoopInv => LoopIsOwned BY DEF LoopInv
  <1> QED BY LoopInitially, LoopStep, <1>1, PTL DEF InjSpec

\* A loop that runs on sends what it was started with, whatever becomes of the form and
\* of the list of responders.
THEOREM LoopSendsOne == InjSpec => LoopSendsItsRequest
  <1> DEFINE Same == running /\ running' =>
               \A k \in DOMAIN inFlight' \ DOMAIN inFlight : inFlight'[k] = timer.request
  <1>1. ASSUME InjNext, running, running' PROVE Same
    <2>1. ~InjectOnce /\ ~StartContinuous BY <1>1 DEF InjectOnce, StartContinuous
    <2>2. CASE Tick
      <3>1. Sending(timer.request) BY <2>2 DEF Tick
      <3> QED BY <3>1, SentIsNew
    <2>3. CASE InjectionLands BY <2>3, LandedIsGone
    <2>4. CASE Remount
      <3>1. DOMAIN inFlight' = {} BY <2>4 DEF Remount
      <3> QED BY <3>1
    <2>5. CASE EditForm \/ ListChanges \/ LimitPasses \/ StopContinuous \/ ClearAll \/ Unmount
      <3>1. inFlight' = inFlight
        BY <2>5 DEF EditForm, ListChanges, LimitPasses, StopContinuous, ClearAll, Unmount
      <3> QED BY <3>1
    <2> QED BY <1>1, <2>1, <2>2, <2>3, <2>4, <2>5 DEF InjNext
  <1>2. [InjNext]_injVars => [Same]_injVars BY <1>1
  <1> QED BY <1>2, PTL DEF InjSpec, LoopSendsItsRequest

(***************************************************************************)
(* DirectInjection: a call on whose form both ends agree is answered with  *)
(* what was asked, for every length a prefix can carry and one it cannot.  *)
(***************************************************************************)
Fits == FramingAgrees /\ asked.length < Prefixes /\ asked.replyLength < Prefixes

\* What makes a reply what was written: with a length prefix the first two bytes that come
\* back are its length; without one nothing comes back but all of it, unless a stop cut it.
FramedReply ==
  asked.framed => /\ outward > 0 => outFront = asked.replyLength
                  /\ handler = "writing" => outward > 0

PlainReply ==
  ~asked.framed /\ ~stopped /\ caller # "done" =>
    IF handler = "closed" THEN outward \in {0, asked.replyLength} ELSE outward = 0

WholeReply ==
  caller = "done" /\ answer.result = "reply" /\ (asked.framed \/ ~stopped) =>
    answer.length = asked.replyLength

Faithful == Fits => FramedReply /\ PlainReply /\ WholeReply

Expected == InReach /\ asked.answered /\ Fits

Unread == handler \in {"backlog", "queued", "reading"}

\* How far both ends are with a message that is to be answered, each with a prefix.
FramedProgress ==
  /\ ~inEnded /\ ~outEnded /\ ~reset
  /\ caller \in {"start", "connect"} => handler = "none" /\ inward = 0 /\ outward = 0
  /\ caller = "prefix" => Unread /\ inward = 0 /\ outward = 0
  /\ caller = "body" => Unread /\ inward = 2 /\ inFront = asked.length /\ outward = 0
  /\ caller = "read" =>
       \/ Unread /\ inward = 2 + asked.length /\ inFront = asked.length /\ outward = 0
       \/ handler = "answering" /\ whole /\ inward = 0 /\ outward = 0
       \/ handler = "writing" /\ inward = 0 /\ outward = 2
       \/ handler = "reading" /\ inward = 0 /\ outward = 2 + asked.replyLength

\* The same without.
PlainProgress ==
  /\ ~reset /\ caller # "prefix"
  /\ caller \in {"start", "connect"} => handler = "none"
  /\ caller = "body" => Unread
  /\ caller # "read" => inward = 0 /\ outward = 0 /\ ~inEnded /\ ~outEnded
  /\ caller = "read" =>
       \/ Unread /\ inward = asked.length /\ inEnded /\ outward = 0 /\ ~outEnded
       \/ handler = "answering" /\ whole /\ inward = 0 /\ outward = 0 /\ ~outEnded
       \/ handler = "writing" /\ inward = 0 /\ outward = 0 /\ ~outEnded
       \/ handler = "closed" /\ outward = asked.replyLength

Progress ==
  Expected => IF caller = "done" THEN answer.result = "reply"
              ELSE IF asked.framed THEN FramedProgress ELSE PlainProgress

\* Nobody takes a connection that is not made.
NotYet == caller \in {"start", "connect"} => handler = "none"

DirectInv == DirectTypeOK /\ NotYet /\ Faithful /\ Progress

\* The request and the session's header are what they were.
LEMMA FixedStep ==
  ASSUME [DirectNext]_directVars
  PROVE  asked' = asked /\ headerSize' = headerSize /\ (stopped => stopped')
  <1> USE DEF Return
  <1>1. CASE InjectDirect BY <1>1 DEF InjectDirect
  <1>2. CASE Connected BY <1>2 DEF Connected
  <1>3. CASE ConnectFails BY <1>3 DEF ConnectFails
  <1>4. CASE SendPrefix BY <1>4 DEF SendPrefix
  <1>5. CASE SendBody BY <1>5 DEF SendBody
  <1>6. CASE ReadFramed BY <1>6 DEF ReadFramed
  <1>7. CASE ReadUntilClose BY <1>7, Zenon DEF ReadUntilClose
  <1>8. CASE CallerReset BY <1>8 DEF CallerReset
  <1>9. CASE ReadTimesOut BY <1>9 DEF ReadTimesOut
  <1>10. CASE Accept BY <1>10 DEF Accept, HandlerKeeps
  <1>11. CASE HandlerStarts BY <1>11 DEF HandlerStarts, HandlerKeeps
  <1>12. CASE ReadMessage
    <2>1. HandlerKeeps BY <1>12 DEF ReadMessage
    <2> QED BY <2>1, Zenon DEF HandlerKeeps
  <1>13. CASE ReadFails BY <1>13 DEF ReadFails, HandlerKeeps
  <1>14. CASE StaySilent BY <1>14 DEF StaySilent, HandlerKeeps
  <1>15. CASE WriteHeader BY <1>15 DEF WriteHeader, HandlerKeeps
  <1>16. CASE WriteReply BY <1>16 DEF WriteReply, HandlerKeeps
  <1>17. CASE WriteFails BY <1>17 DEF WriteFails, HandlerKeeps
  <1>18. CASE StopListener BY <1>18 DEF StopListener
  <1>19. CASE UNCHANGED directVars BY <1>19 DEF directVars
  <1> QED BY <1>1, <1>2, <1>3, <1>4, <1>5, <1>6, <1>7, <1>8, <1>9, <1>10, <1>11, <1>12, <1>13, <1>14, <1>15, <1>16, <1>17, <1>18, <1>19 DEF DirectNext, Caller, Handler

\* What a request is made of.
LEMMA RequestFields ==
  ASSUME asked \in DirectRequests
  PROVE  /\ asked.framed \in BOOLEAN
         /\ asked.length \in Nat \ {0} /\ asked.replyLength \in Nat \ {0}
         /\ asked.replyLength \div Prefixes < Prefixes
  <1>1. asked.framed \in BOOLEAN BY Zenon DEF DirectRequests
  <1>2. asked.length \in Lengths BY Zenon DEF DirectRequests
  <1>3. asked.replyLength \in Lengths BY Zenon DEF DirectRequests
  <1>4. asked.length \in Nat \ {0} BY <1>2, DirectAssumption, Zenon
  <1>5. asked.replyLength \in Nat \ {0} /\ asked.replyLength \div Prefixes < Prefixes
    BY <1>3, DirectAssumption, Zenon
  <1> QED BY <1>1, <1>4, <1>5, Zenon

\* A prefix says less than it can tell apart.
LEMMA PrefixFits ==
  /\ Prefixes \in Nat /\ 0 < Prefixes
  /\ \A n \in Nat : n % Prefixes \in Nat /\ n % Prefixes < Prefixes
  /\ \A n \in Nat : n < Prefixes => n % Prefixes = n /\ n \div Prefixes = 0
  BY SMT DEF Prefixes

\* The invariant holds before anything is sent.
LEMMA DirectInitially == DirectInit => DirectInv
  <1> SUFFICES ASSUME DirectInit PROVE DirectInv OBVIOUS
  <1>1. Unanswered \in Answers BY DEF Unanswered, Answers, Results
  <1>2. DirectTypeOK BY <1>1, PrefixFits DEF DirectInit, DirectTypeOK
  <1>3. Faithful BY DEF DirectInit, Faithful, FramedReply, PlainReply, WholeReply, Unanswered
  <1>4. Progress BY DEF DirectInit, Progress, FramedProgress, PlainProgress
  <1>5. NotYet BY DEF DirectInit, NotYet
  <1> QED BY <1>2, <1>3, <1>4, <1>5 DEF DirectInv

\* Every step of the call keeps its types.
LEMMA DirectTypeStep ==
  ASSUME DirectTypeOK, [DirectNext]_directVars
  PROVE  DirectTypeOK'
  <1>0. /\ asked.length \in Nat \ {0} /\ asked.replyLength \in Nat \ {0}
        /\ asked.replyLength \div Prefixes < Prefixes
    BY RequestFields, Zenon DEF DirectTypeOK
  <1> USE DEF DirectTypeOK
  <1>21. Leads \subseteq Nat /\ \A b \in Leads : b < Prefixes BY DirectAssumption DEF Prefixes
  <1>1. ASSUME NEW r \in Results, NEW n \in Nat, Return(r, n) PROVE DirectTypeOK'
    <2>1. [result |-> r, length |-> n] \in Answers BY <1>1 DEF Answers
    <2> QED BY <1>1, <2>1 DEF Return
  <1>2. CASE InjectDirect BY <1>2, <1>1 DEF InjectDirect, Results
  <1>3. CASE Connected BY <1>3 DEF Connected
  <1>4. CASE ConnectFails BY <1>4, <1>1 DEF ConnectFails, Results
  <1>5. CASE SendPrefix
    <2>1. inward' \in Nat /\ inFront' \in Nat /\ inFront' < Prefixes
      BY <1>0, <1>5, PrefixFits DEF SendPrefix
    <2> QED BY <1>5, <2>1 DEF SendPrefix
  <1>6. CASE SendBody
    <2>1. inFront' \in Nat /\ inFront' < Prefixes BY <1>21, <1>6 DEF SendBody
    <2>2. inward' \in Nat /\ inEnded' \in BOOLEAN BY <1>0, <1>6 DEF SendBody, HalfCloses
    <2> QED BY <1>6, <2>1, <2>2 DEF SendBody
  <1>7. CASE ReadFramed BY <1>0, <1>21, <1>7, <1>1 DEF ReadFramed, Results
  <1>8. CASE ReadUntilClose BY <1>0, <1>21, <1>8, <1>1 DEF ReadUntilClose, Results
  <1>9. CASE CallerReset BY <1>9, <1>1 DEF CallerReset, Results
  <1>10. CASE ReadTimesOut BY <1>10, <1>1 DEF ReadTimesOut, Results
  <1>22. ASSUME HandlerKeeps, outward' \in Nat, Closing \/ Continues PROVE DirectTypeOK'
    <2>1. reset' \in BOOLEAN /\ outEnded' \in BOOLEAN BY <1>22 DEF Closing, Continues
    <2> QED BY <1>22, <2>1 DEF HandlerKeeps, Closing, Continues
  <1> USE DEF HandlerKeeps
  <1>11. CASE Accept
    <2>1. CASE stopped BY <1>11, <1>22, <2>1 DEF Accept, Closes
    <2> QED BY <1>11, <2>1 DEF Accept
  <1>12. CASE HandlerStarts BY <1>12 DEF HandlerStarts
  <1>13. CASE ReadMessage
    <2>1. inward' \in Nat /\ whole' \in BOOLEAN BY <1>0, <1>13 DEF ReadMessage
    <2> QED BY <1>13, <1>21, <2>1 DEF ReadMessage
  <1>14. CASE ReadFails BY <1>14, <1>22 DEF ReadFails, Closes
  <1>15. CASE StaySilent BY <1>15, <1>22 DEF StaySilent, AfterMessage
  <1>16. CASE WriteHeader
    <2>1. outFront' \in Nat /\ outFront' < Prefixes
      <3>1. asked.replyLength % Prefixes \in Nat /\ asked.replyLength % Prefixes < Prefixes
        BY <1>0, PrefixFits
      <3>2. asked.replyLength \div Prefixes \in Nat /\ asked.replyLength \div Prefixes < Prefixes
        BY <1>0 DEF Prefixes
      <3> QED BY <1>16, <3>1, <3>2 DEF WriteHeader
    <2>2. outward' \in Nat BY <1>16 DEF WriteHeader
    <2> QED BY <1>16, <2>1, <2>2 DEF WriteHeader
  <1>17. CASE WriteReply
    <2>1. outward' \in Nat BY <1>0, <1>17 DEF WriteReply
    <2> QED BY <1>17, <1>22, <2>1 DEF WriteReply, AfterMessage
  <1>18. CASE WriteFails
    <2>1. outward' \in Nat BY <1>0, <1>18 DEF WriteFails
    <2> QED BY <1>18, <1>22, <2>1 DEF WriteFails
  <1>19. CASE StopListener BY <1>19 DEF StopListener
  <1>20. CASE UNCHANGED directVars BY <1>20 DEF directVars
  <1> QED BY <1>2, <1>3, <1>4, <1>5, <1>6, <1>7, <1>8, <1>9, <1>10, <1>11, <1>12, <1>13, <1>14,
             <1>15, <1>16, <1>17, <1>18, <1>19, <1>20 DEF DirectNext, Caller, Handler

\* Every step keeps it so that nobody takes a connection that is not made.
LEMMA NotYetStep ==
  ASSUME NotYet, [DirectNext]_directVars
  PROVE  NotYet'
  <1>1. SUFFICES ASSUME caller' \in {"start", "connect"} PROVE handler' = "none"
    BY DEF NotYet
  <1>2. ~Caller
    BY <1>1 DEF Caller, Connected, ConnectFails, Return, SendPrefix, SendBody, ReadFramed,
                ReadUntilClose, CallerReset, ReadTimesOut
  <1>3. ~Handler
    <2>1. Handler => HandlerKeeps
      BY DEF Handler, Accept, HandlerStarts, ReadMessage, ReadFails, StaySilent, WriteHeader,
             WriteReply, WriteFails
    <2>2. Handler => handler = "none" BY <1>1, <2>1 DEF HandlerKeeps, NotYet
    <2> QED
      BY <2>2 DEF Handler, Accept, HandlerStarts, ReadMessage, ReadFails, StaySilent, WriteHeader,
                  WriteReply, WriteFails
  <1>4. CASE InjectDirect BY <1>1, <1>4 DEF InjectDirect, Return, NotYet
  <1>5. CASE StopListener \/ UNCHANGED directVars
    BY <1>1, <1>5 DEF StopListener, directVars, NotYet
  <1> QED BY <1>2, <1>3, <1>4, <1>5 DEF DirectNext

\* What makes a reply what was written stays so, when both ends frame alike.
LEMMA FaithfulStep ==
  ASSUME DirectTypeOK, NotYet, Faithful, [DirectNext]_directVars
  PROVE  Faithful'
  <1> DEFINE Kept == FramedReply' /\ PlainReply' /\ WholeReply'
  <1>0. asked.replyLength \in Nat \ {0} /\ asked.framed \in BOOLEAN
    BY RequestFields, Zenon DEF DirectTypeOK
  <1>1. asked' = asked /\ headerSize' = headerSize /\ (stopped => stopped') BY FixedStep
  <1>2. SUFFICES ASSUME Fits PROVE Kept
    <2>1. Fits' => Fits BY <1>1 DEF Fits, FramingAgrees
    <2> QED BY <1>2, <2>1 DEF Faithful
  <1>3. /\ asked.framed => headerSize = 2
        /\ ~asked.framed => headerSize = 0
        /\ asked.replyLength % Prefixes = asked.replyLength
    BY <1>0, <1>2, PrefixFits DEF Fits, FramingAgrees
  <1>4. FramedReply /\ PlainReply /\ WholeReply BY <1>2 DEF Faithful
  <1>5. outward \in Nat BY DEF DirectTypeOK
  <1> HIDE DEF Kept
  <1>6. ASSUME NEW r, NEW n, Return(r, n),
               r = "reply" /\ (asked.framed \/ ~stopped) => n = asked.replyLength
        PROVE  Kept
    BY <1>1, <1>4, <1>6 DEF Return, FramedReply, PlainReply, WholeReply, Kept
  <1>7. ASSUME outward' = outward, outFront' = outFront, caller' = caller \/ caller' # "done",
               \/ handler' = handler \/ handler' = "closed"
               \/ handler' \notin {"writing", "closed"} /\ handler # "closed",
               answer' = answer, caller = "done" => caller' = "done"
        PROVE  Kept
    BY <1>1, <1>4, <1>7 DEF FramedReply, PlainReply, WholeReply, Kept
  <1>8. CASE InjectDirect
    <2>1. CASE ~asked.valid BY <1>6, <1>8, <2>1 DEF InjectDirect
    <2> QED BY <1>7, <1>8, <2>1 DEF InjectDirect
  <1>9. CASE Connected
    BY <1>9, <1>1, <1>4 DEF Connected, NotYet, FramedReply, PlainReply, WholeReply, Kept
  <1>10. CASE ConnectFails BY <1>6, <1>10 DEF ConnectFails
  <1>11. CASE SendPrefix BY <1>7, <1>11 DEF SendPrefix
  <1>12. CASE SendBody BY <1>7, <1>12 DEF SendBody
  <1>13. CASE ReadFramed
    <2>1. ReplyIsHere => outFront = asked.replyLength
      BY <1>4, <1>5, <1>13 DEF ReplyIsHere, ReadFramed, FramedReply
    <2> QED BY <1>6, <1>13, <2>1 DEF ReadFramed
  <1>14. CASE ReadUntilClose
    <2>1. ~stopped /\ outward # 0 => outward = asked.replyLength
      BY <1>4, <1>14 DEF ReadUntilClose, PlainReply
    <2> QED BY <1>6, <1>14, <2>1 DEF ReadUntilClose
  <1>15. CASE CallerReset BY <1>6, <1>15 DEF CallerReset
  <1>16. CASE ReadTimesOut BY <1>6, <1>16 DEF ReadTimesOut
  <1>17. CASE Accept BY <1>7, <1>17 DEF Accept, HandlerKeeps, Closes, Closing
  <1>18. CASE HandlerStarts BY <1>7, <1>18 DEF HandlerStarts, HandlerKeeps
  <1>19. CASE ReadMessage
    <2>1. outward' = outward /\ outFront' = outFront /\ handler = "reading"
          /\ handler' = "answering" /\ HandlerKeeps
      BY <1>19 DEF ReadMessage
    <2> QED BY <1>7, <2>1 DEF HandlerKeeps
  <1>20. CASE ReadFails BY <1>7, <1>20 DEF ReadFails, HandlerKeeps, Closes, Closing
  <1>21. CASE StaySilent
    BY <1>7, <1>21 DEF StaySilent, HandlerKeeps, AfterMessage, Closing, Continues
  <1>22. CASE WriteHeader
    <2>1. outward' = outward + headerSize /\ handler' = "writing" /\ handler = "answering"
      BY <1>22 DEF WriteHeader
    <2>2. asked.framed => outFront' = asked.replyLength
      BY <1>3, <1>4, <1>5, <1>22 DEF WriteHeader, FramedReply
    <2>3. HandlerKeeps BY <1>22 DEF WriteHeader
    <2> QED BY <1>1, <1>3, <1>4, <1>5, <2>1, <2>2, <2>3
            DEF HandlerKeeps, FramedReply, PlainReply, WholeReply, Kept
  <1>23. CASE WriteReply
    <2>1. outward' = outward + asked.replyLength /\ handler = "writing" /\ outFront' = outFront
          /\ handler' = (IF headerSize = 0 THEN "closed" ELSE "reading") /\ HandlerKeeps
      BY <1>23 DEF WriteReply, AfterMessage, Closing, Continues
    <2> QED BY <1>0, <1>1, <1>3, <1>4, <1>5, <2>1
            DEF HandlerKeeps, FramedReply, PlainReply, WholeReply, Kept
  <1>24. CASE WriteFails
    <2>1. /\ handler' = "closed" /\ outFront' = outFront /\ HandlerKeeps
          /\ stopped \/ caller = "done"
          /\ outward' = outward \/ handler = "writing"
      BY <1>5, <1>24 DEF WriteFails, Closing
    <2> QED BY <1>1, <1>4, <1>5, <2>1 DEF HandlerKeeps, FramedReply, PlainReply, WholeReply, Kept
  <1>25. CASE StopListener BY <1>1, <1>4, <1>25
    DEF StopListener, FramedReply, PlainReply, WholeReply, Kept
  <1>26. CASE UNCHANGED directVars BY <1>7, <1>26 DEF directVars
  <1> QED BY <1>8, <1>9, <1>10, <1>11, <1>12, <1>13, <1>14, <1>15, <1>16, <1>17, <1>18, <1>19,
             <1>20, <1>21, <1>22, <1>23, <1>24, <1>25, <1>26 DEF DirectNext, Caller, Handler

\* A message that is to be answered goes on as FramedProgress tells, with a prefix.
LEMMA FramedStep ==
  ASSUME asked.framed = TRUE, headerSize = 2, asked' = asked, headerSize' = headerSize,
         asked.length \in Nat \ {0}, asked.replyLength \in Nat \ {0},
         asked.length < Prefixes, asked.length % Prefixes = asked.length,
         asked.valid, asked.near, ~stopped, ~asked.slow, asked.answered,
         inward \in Nat, outward \in Nat, inFront \in Nat, outFront \in Nat,
         caller \in {"start", "connect", "prefix", "body", "read", "done"},
         NotYet, FramedReply, FramedProgress, caller # "done", DirectNext, ~stopped'
  PROVE  \/ caller' = "done" /\ answer'.result = "reply"
         \/ caller' # "done" /\ FramedProgress'
  <1> USE DEF FramedProgress, Unread, NotYet
  <1>1. CASE InjectDirect BY <1>1 DEF InjectDirect, Return
  <1>2. CASE Connected BY <1>2 DEF Connected
  <1>3. CASE ConnectFails BY <1>3 DEF ConnectFails
  <1>4. CASE SendPrefix BY <1>4 DEF SendPrefix
  <1>5. CASE SendBody BY <1>5 DEF SendBody, HalfCloses
  <1>6. CASE ReadFramed
    <2>1. ReplyIsHere => outFront = asked.replyLength /\ outward = 2 + asked.replyLength
      BY <1>6 DEF ReadFramed, ReplyIsHere, FramedReply
    <2> QED BY <1>6, <2>1 DEF ReadFramed, Return
  <1>7. CASE ReadUntilClose BY <1>7 DEF ReadUntilClose
  <1>8. CASE CallerReset BY <1>8 DEF CallerReset
  <1>9. CASE ReadTimesOut
    <2>1. Starved => inward < 2 \/ inward - 2 < inFront
      BY <1>9 DEF Starved, Announced, ReadTimesOut
    <2> QED BY <1>9, <2>1 DEF ReadTimesOut, Starved, ReplyIsHere, FramedReply
  <1>10. CASE Accept BY <1>10 DEF Accept, HandlerKeeps, Closes
  <1>11. CASE HandlerStarts BY <1>11 DEF HandlerStarts, HandlerKeeps
  <1>12. CASE ReadMessage
    <2>1. handler = "reading" /\ HandlerKeeps /\ handler' = "answering"
          /\ UNCHANGED <<inEnded, outward, outFront, outEnded, reset>> BY <1>12 DEF ReadMessage
    <2>2. /\ inward >= 2 /\ inFront > 0 /\ inward - 2 >= inFront
          /\ inward' = inward - 2 - inFront
          /\ whole' = (inFront = asked.length)
      BY <1>12 DEF ReadMessage, Announced
    <2>3. caller = "read" /\ inward = 2 + asked.length /\ inFront = asked.length /\ outward = 0
      BY <2>1, <2>2
    <2>4. whole' BY <2>2, <2>3, Zenon
    <2>5. inward' = 0 BY <2>2, <2>3
    <2> QED BY <2>1, <2>3, <2>4, <2>5 DEF HandlerKeeps
  <1>13. CASE ReadFails
    <2>1. inward >= 2 /\ (inFront = 0 \/ inFront >= Prefixes)
      BY <1>13 DEF ReadFails, Announced
    <2>2. inFront = asked.length BY <1>13, <2>1 DEF ReadFails
    <2> QED BY <2>1, <2>2, PrefixFits
  <1>14. CASE StaySilent
    <2>1. handler = "answering" /\ ~(whole /\ asked.answered) BY <1>14 DEF StaySilent
    <2>2. whole BY <2>1
    <2> QED BY <2>1, <2>2
  <1>15. CASE WriteHeader BY <1>15 DEF WriteHeader, HandlerKeeps
  <1>16. CASE WriteReply BY <1>16 DEF WriteReply, AfterMessage, Continues, HandlerKeeps
  <1>17. CASE WriteFails BY <1>17 DEF WriteFails
  <1>18. CASE StopListener BY <1>18 DEF StopListener
  <1> QED BY <1>1, <1>2, <1>3, <1>4, <1>5, <1>6, <1>7, <1>8, <1>9, <1>10, <1>11, <1>12, <1>13,
             <1>14, <1>15, <1>16, <1>17, <1>18 DEF DirectNext, Caller, Handler

\* It goes on as PlainProgress tells, without one.
LEMMA PlainStep ==
  ASSUME asked.framed = FALSE, headerSize = 0, asked' = asked, headerSize' = headerSize,
         asked.length \in Nat \ {0}, asked.replyLength \in Nat \ {0},
         asked.length < Prefixes, asked.length % Prefixes = asked.length,
         asked.valid, asked.near, ~stopped, ~asked.slow, asked.answered,
         inward \in Nat, outward \in Nat, inFront \in Nat, outFront \in Nat,
         caller \in {"start", "connect", "prefix", "body", "read", "done"},
         NotYet, FramedReply, PlainProgress, caller # "done", DirectNext, ~stopped'
  PROVE  \/ caller' = "done" /\ answer'.result = "reply"
         \/ caller' # "done" /\ PlainProgress'
  <1> USE DEF PlainProgress, Unread, NotYet
  <1>1. CASE InjectDirect BY <1>1 DEF InjectDirect, Return
  <1>2. CASE Connected BY <1>2 DEF Connected
  <1>3. CASE ConnectFails BY <1>3 DEF ConnectFails
  <1>4. CASE SendPrefix BY <1>4 DEF SendPrefix
  <1>5. CASE SendBody
    <2>1. inEnded' = TRUE BY <1>5 DEF SendBody, HalfCloses
    <2>2. inward = 0 /\ outward = 0 /\ ~outEnded /\ ~reset
          /\ handler \in {"backlog", "queued", "reading"}
      BY <1>5 DEF SendBody
    <2>3. caller' = "read" /\ inward' = asked.length
          /\ UNCHANGED <<handler, outward, outEnded, reset>>
      BY <1>5, <2>2 DEF SendBody
    <2> QED BY <2>1, <2>2, <2>3
  <1>6. CASE ReadFramed BY <1>6 DEF ReadFramed
  <1>7. CASE ReadUntilClose
    <2>1. outward = asked.replyLength BY <1>7 DEF ReadUntilClose
    <2>2. Return("reply", outward) BY <1>7, <2>1 DEF ReadUntilClose
    <2> QED BY <2>2 DEF Return
  <1>8. CASE CallerReset BY <1>8 DEF CallerReset
  <1>9. CASE ReadTimesOut BY <1>9 DEF ReadTimesOut, Starved
  <1>10. CASE Accept BY <1>10 DEF Accept, HandlerKeeps, Closes
  <1>11. CASE HandlerStarts BY <1>11 DEF HandlerStarts, HandlerKeeps
  <1>12. CASE ReadMessage
    <2>1. handler = "reading" /\ HandlerKeeps /\ handler' = "answering" /\ inEnded
          /\ UNCHANGED <<inEnded, outward, outFront, outEnded, reset>> BY <1>12 DEF ReadMessage
    <2>2. /\ inward' = inward - 0 - inward
          /\ whole' = (inward = asked.length /\ asked.framed = (headerSize = 2))
      BY <1>12 DEF ReadMessage
    <2>3. caller = "read" /\ inward = asked.length /\ outward = 0 /\ ~outEnded /\ ~reset
      BY <2>1
    <2>6. headerSize # 2 OBVIOUS
    <2>4. whole' BY <2>2, <2>3, <2>6, Zenon
    <2>5. inward' = 0 BY <2>2, <2>3
    <2> QED BY <2>1, <2>3, <2>4, <2>5 DEF HandlerKeeps
  <1>13. CASE ReadFails BY <1>13 DEF ReadFails
  <1>14. CASE StaySilent
    <2>1. handler = "answering" /\ ~(whole /\ asked.answered) BY <1>14 DEF StaySilent
    <2>2. whole BY <2>1
    <2> QED BY <2>1, <2>2
  <1>15. CASE WriteHeader BY <1>15 DEF WriteHeader, HandlerKeeps
  <1>16. CASE WriteReply
    <2>1. caller = "read" /\ inward = 0 /\ outward = 0 BY <1>16 DEF WriteReply
    <2>2. caller' = caller /\ handler' = "closed" /\ outward' = asked.replyLength
      BY <1>16, <2>1 DEF WriteReply, AfterMessage, Closing, HandlerKeeps
    <2>3. reset' = (inward > 0 \/ caller \in {"prefix", "body"})
      BY <1>16 DEF WriteReply, AfterMessage, Closing
    <2>4. ~(inward > 0 \/ caller \in {"prefix", "body"}) BY <2>1
    <2>5. ~reset' BY <2>3, <2>4, Zenon
    <2> QED BY <2>1, <2>2, <2>5
  <1>17. CASE WriteFails BY <1>17 DEF WriteFails
  <1>18. CASE StopListener BY <1>18 DEF StopListener
  <1> QED BY <1>1, <1>2, <1>3, <1>4, <1>5, <1>6, <1>7, <1>8, <1>9, <1>10, <1>11, <1>12, <1>13,
             <1>14, <1>15, <1>16, <1>17, <1>18 DEF DirectNext, Caller, Handler

\* The two cases together: an agreed call goes on to its answer.
LEMMA ProgressStep ==
  ASSUME DirectInv, [DirectNext]_directVars
  PROVE  Progress'
  <1> DEFINE Kept == IF caller' = "done" THEN answer'.result = "reply"
                     ELSE IF asked.framed THEN FramedProgress' ELSE PlainProgress'
  <1>0. asked.length \in Nat \ {0} /\ asked.replyLength \in Nat \ {0} /\ asked.framed \in BOOLEAN
    BY RequestFields, Zenon DEF DirectTypeOK, DirectInv
  <1>1. asked' = asked /\ headerSize' = headerSize /\ (stopped => stopped') BY FixedStep
  <1>2. SUFFICES ASSUME Expected, ~stopped' PROVE Kept
    <2>1. Expected' => Expected /\ ~stopped'
      BY <1>1 DEF Expected, InReach, Fits, FramingAgrees
    <2> QED BY <1>1, <1>2, <2>1 DEF Progress
  <1>3. /\ asked.framed => headerSize = 2
        /\ ~asked.framed => headerSize = 0
        /\ asked.length % Prefixes = asked.length /\ asked.length < Prefixes
        /\ asked.valid /\ asked.near /\ ~stopped /\ ~asked.slow /\ asked.answered
    BY <1>0, <1>2, PrefixFits DEF Expected, InReach, Fits, FramingAgrees
  <1>4. IF caller = "done" THEN answer.result = "reply"
        ELSE IF asked.framed THEN FramedProgress ELSE PlainProgress
    BY <1>2 DEF Progress, DirectInv
  <1>5. /\ outward \in Nat /\ inward \in Nat /\ inFront \in Nat /\ outFront \in Nat
        /\ FramedReply /\ NotYet
        /\ caller \in {"start", "connect", "prefix", "body", "read", "done"}
    BY <1>2 DEF DirectTypeOK, DirectInv, Faithful, Expected
  <1>6. CASE caller = "done" \/ UNCHANGED directVars
    <2>1. CASE caller = "done" 
      <3>1. ~InjectDirect /\ ~Caller
        BY <2>1 DEF InjectDirect, Caller, Connected, ConnectFails, SendPrefix, SendBody,
                    ReadFramed, ReadUntilClose, CallerReset, ReadTimesOut
      <3>2. Handler => HandlerKeeps
        BY DEF Handler, Accept, HandlerStarts, ReadMessage, ReadFails, StaySilent, WriteHeader,
               WriteReply, WriteFails
      <3>3. UNCHANGED <<caller, answer>>
        BY <3>1, <3>2 DEF DirectNext, HandlerKeeps, StopListener, directVars
      <3> QED BY <1>4, <2>1, <3>3
    <2>2. CASE UNCHANGED directVars
      BY <1>4, <2>2 DEF directVars, FramedProgress, PlainProgress, Unread
    <2> QED BY <1>6, <2>1, <2>2
  <1>7. CASE caller # "done" /\ DirectNext /\ asked.framed
    BY <1>0, <1>1, <1>2, <1>3, <1>4, <1>5, <1>7, FramedStep
  <1>8. CASE caller # "done" /\ DirectNext /\ ~asked.framed
    BY <1>0, <1>1, <1>2, <1>3, <1>4, <1>5, <1>8, PlainStep
  <1> QED BY <1>6, <1>7, <1>8

\* Every step of the call keeps the invariant.
LEMMA DirectStep == DirectInv /\ [DirectNext]_directVars => DirectInv'
  BY DirectTypeStep, NotYetStep, FaithfulStep, ProgressStep DEF DirectInv

\* A call whose framing is the listener's, for a message it answers in time, is neither left to
\* its timeout nor told of a mismatch, however its steps and the listener's interleave, and the
\* reply InjectDirectAsync returns is, to the last byte, the one the handler wrote: with a length
\* prefix also when the listener is stopped between the prefix and the reply.
THEOREM AgreedCalls == DirectSpec => []AgreedCallsAnswered
  <1>1. DirectInv => AgreedCallsAnswered
    BY DEF DirectInv, AgreedCallsAnswered, Progress, Expected, Fits, Faithful, WholeReply
  <1> QED BY DirectInitially, DirectStep, <1>1, PTL DEF DirectSpec

(***************************************************************************)
(* ParserPage: what is handed over is parsed once and shown.               *)
(***************************************************************************)
\* What is handed over leaves nothing in the history entry, and what it asks for as it lands
\* is all that is asked until the user acts.
Landing ==
  /\ historyState = BlankInput
  /\ landed = handed /\ landed \in Nat /\ landed <= parserRuns
  /\ untouched => \A c \in parserCalls : c[2] = parserInput

ParserInv == ParserTypeOK /\ Landing /\ ArrivalIsShown

\* The invariant holds of the parser as it is first opened.
LEMMA ParserInitially == ParserInit => ParserInv
  <1> SUFFICES ASSUME ParserInit PROVE ParserInv OBVIOUS
  <1> USE DEF ParserInit
  <1>0. ParserFlagsOK BY ParserAssumption DEF ParserFlagsOK, ParserTypeOK
  <1>1. ParserTypeOK BY <1>0, ParserAssumption DEF ParserTypeOK
  <1>2. Landing BY DEF Landing
  <1>3. ArrivalIsShown BY DEF ArrivalIsShown
  <1> QED BY <1>1, <1>2, <1>3 DEF ParserInv

\* A request is numbered, and there is none of that number yet.
LEMMA ParseAsked ==
  ASSUME ParserTypeOK, NEW w \in Wires, NEW S \in SUBSET parserCalls, MutateParse(w, S)
  PROVE  /\ parserRuns' = parserRuns + 1 /\ parserRuns' \in 1 .. MaxParses
         /\ parserCalls' = S \cup {<<parserRuns', w>>}
         /\ parserCalls' \subseteq ParseCalls
         /\ parserPending' = parserRuns' /\ parserError' = FALSE
  BY ParserAssumption DEF MutateParse, ParserTypeOK, ParseCalls

\* Landing with a message asks for it, and for nothing else.
LEMMA Lands ==
  ASSUME ParserInv, NEW w \in Wires \cup {BlankInput}, Land(w),
         handed' = (IF w = BlankInput THEN handed ELSE handed + 1),
         historyState' = BlankInput, UNCHANGED carried
  PROVE  ParserInv'
  <1> USE DEF ParserInv
  <1>1. CASE w = BlankInput
    <2>1. /\ parserOn' = TRUE /\ parserInput' = w /\ parserResult' = NoResult /\ pasteTimer' = FALSE
          /\ parserCalls' = {} /\ parserPending' = 0 /\ parserError' = FALSE
          /\ untouched' = FALSE /\ UNCHANGED <<parserRuns, landed>>
      BY <1>1 DEF Land
    <2>0. ParserFlagsOK' BY <1>1, <2>1, ParserAssumption DEF ParserFlagsOK, ParserTypeOK
    <2>2. ParserTypeOK' BY <2>0, <1>1, <2>1, ParserAssumption DEF ParserTypeOK
    <2>3. Landing' BY <1>1, <2>1 DEF Landing
    <2>4. ArrivalIsShown' BY <2>1 DEF ArrivalIsShown
    <2> QED BY <2>2, <2>3, <2>4
  <1>2. CASE w # BlankInput
    <2>1. /\ parserOn' = TRUE /\ parserInput' = w /\ parserResult' = NoResult /\ pasteTimer' = FALSE
          /\ MutateParse(w, {}) /\ landed' = landed + 1 /\ untouched' = TRUE
      BY <1>2 DEF Land
    <2>2. w \in Wires BY <1>2
    <2>3. /\ parserRuns' = parserRuns + 1 /\ parserRuns' \in 1 .. MaxParses
          /\ parserCalls' = {<<parserRuns', w>>}
          /\ parserCalls' \subseteq ParseCalls
          /\ parserPending' = parserRuns' /\ parserError' = FALSE
      <3>1. {} \in SUBSET parserCalls /\ {} \cup {<<parserRuns', w>>} = {<<parserRuns', w>>} OBVIOUS
      <3>2. ParserTypeOK BY DEF ParserInv
      <3> QED BY <2>1, <2>2, <3>1, <3>2, ParseAsked
    <2>4. landed' \in 0 .. MaxParses /\ handed' \in 0 .. MaxParses
      BY <1>2, <2>1, <2>3, ParserAssumption DEF Landing, ParserTypeOK
    <2>0. ParserFlagsOK' BY <1>2, <2>1, <2>3, <2>4, ParserAssumption DEF ParserFlagsOK, ParserTypeOK
    <2>5. ParserTypeOK' BY <2>0, <1>2, <2>1, <2>3, <2>4, ParserAssumption DEF ParserTypeOK
    <2>6. Landing' BY <1>2, <2>1, <2>3, ParserAssumption DEF Landing, ParserTypeOK
    <2>7. ArrivalIsShown' BY <2>3 DEF ArrivalIsShown
    <2> QED BY <2>5, <2>6, <2>7
  <1> QED BY <1>1, <1>2

\* Every step of the parser keeps the invariant.
LEMMA ParserStep == ParserInv /\ [ParserNext]_parserVars => ParserInv'
  <1> SUFFICES ASSUME ParserInv, [ParserNext]_parserVars PROVE ParserInv' OBVIOUS
  <1>0. ParserTypeOK /\ Landing /\ ArrivalIsShown BY DEF ParserInv
  <1>1. CASE ArriveByState \/ ArriveByStorage
    <2>1. PICK w \in Wires : Land(w) BY <1>1 DEF ArriveByState, ArriveByStorage
    <2>2. handed' = handed + 1 /\ historyState' = BlankInput /\ UNCHANGED carried
      BY <1>0, <1>1 DEF ArriveByState, ArriveByStorage, Landing
    <2> QED BY <2>1, <2>2, Lands, ParserAssumption
  <1>2. CASE Visit
    <2>1. Land(BlankInput) /\ historyState' = BlankInput /\ UNCHANGED <<handed, carried>>
      BY <1>0, <1>2 DEF Visit, Landing
    <2> QED BY <2>1, Lands
  <1>3. ASSUME Unmounts, carried' \in Carried \cup {NoResult}
        PROVE  ParserInv'
    <2>0. ParserFlagsOK' BY <1>0, <1>3, ParserAssumption DEF ParserFlagsOK, ParserTypeOK, Unmounts
    <2>1. ParserTypeOK' BY <2>0, <1>0, <1>3, ParserAssumption DEF ParserTypeOK, Unmounts
    <2>2. Landing' BY <1>0, <1>3 DEF Landing, Unmounts
    <2>3. ArrivalIsShown' BY <1>3 DEF ArrivalIsShown, Unmounts
    <2> QED BY <2>1, <2>2, <2>3 DEF ParserInv
  <1>4. CASE LeaveParser BY <1>0, <1>3, <1>4 DEF LeaveParser, ParserTypeOK
  <1>5. CASE EditInput
    <2>0. ParserFlagsOK' BY <1>0, <1>5 DEF ParserFlagsOK, ParserTypeOK, EditInput
    <2>1. ParserTypeOK' BY <2>0, <1>0, <1>5 DEF ParserTypeOK, EditInput
    <2>2. Landing' BY <1>0, <1>5 DEF Landing, EditInput
    <2>3. ArrivalIsShown' BY <1>5 DEF ArrivalIsShown, EditInput
    <2> QED BY <2>1, <2>2, <2>3 DEF ParserInv
  <1>6. CASE OnParse
    <2>1. /\ pasteTimer' \in {pasteTimer, FALSE} /\ untouched' = FALSE
          /\ UNCHANGED <<parserOn, parserInput, parserResult, historyState, handed, landed, carried>>
      BY <1>6 DEF OnParse
    <2>2. /\ parserRuns' \in 0 .. MaxParses /\ parserRuns <= parserRuns'
          /\ parserCalls' \subseteq ParseCalls
          /\ parserPending' \in 0 .. MaxParses /\ parserError' \in {parserError, FALSE}
      <3>1. CASE parserInput = BlankInput
        <4>1. UNCHANGED <<parserRuns, parserCalls, parserPending, parserError>>
          BY <1>6, <3>1 DEF OnParse
        <4> QED BY <1>0, <4>1 DEF ParserTypeOK
      <3>2. CASE parserInput # BlankInput
        <4>1. parserInput \in Wires /\ MutateParse(parserInput, parserCalls)
          BY <1>0, <1>6, <3>2 DEF OnParse, ParserTypeOK
        <4>2. /\ parserRuns' = parserRuns + 1 /\ parserRuns' \in 1 .. MaxParses
              /\ parserCalls' \subseteq ParseCalls
              /\ parserPending' = parserRuns' /\ parserError' = FALSE
          BY <1>0, <4>1, ParseAsked
        <4>3. parserRuns' \in 0 .. MaxParses /\ parserRuns <= parserRuns' /\ parserPending' \in 0 .. MaxParses
          BY <1>0, <4>2 DEF ParserTypeOK
        <4> QED BY <4>2, <4>3
      <3> QED BY <3>1, <3>2
    <2>0. ParserFlagsOK' BY <1>0, <2>1, <2>2 DEF ParserFlagsOK, ParserTypeOK
    <2>3. ParserTypeOK' BY <2>0, <1>0, <2>1, <2>2 DEF ParserTypeOK
    <2>4. Landing' BY <1>0, <2>1, <2>2 DEF Landing, ParserTypeOK
    <2>5. ArrivalIsShown' BY <2>1 DEF ArrivalIsShown
    <2> QED BY <2>3, <2>4, <2>5 DEF ParserInv
  <1>7. CASE ParseAnswered
    <2>1. PICK c \in parserCalls :
            /\ parserCalls' = parserCalls \ {c}
            /\ parserPending' = IF parserPending = c[1] THEN 0 ELSE parserPending
            /\ \/ /\ \E ok \in BOOLEAN : parserResult' = [of |-> c[2], ok |-> ok]
                  /\ UNCHANGED parserError
               \/ parserError' = (parserError \/ parserPending = c[1]) /\ UNCHANGED parserResult
            /\ UNCHANGED <<parserOn, parserInput, pasteTimer, historyState, parserRuns, handed,
                           landed, untouched, carried>>
      BY <1>7 DEF ParseAnswered
    <2>2. c[2] \in Wires /\ c[1] \in 1 .. MaxParses BY <1>0 DEF ParserTypeOK, ParseCalls
    <2>3. parserResult' \in Parses \cup {NoResult}
      BY <1>0, <2>1, <2>2 DEF ParserTypeOK, Parses
    <2>4. parserError' \in BOOLEAN BY <1>0, <2>1 DEF ParserFlagsOK, ParserTypeOK
    <2>0. ParserFlagsOK' BY <1>0, <2>1, <2>3, <2>4, ParserAssumption DEF ParserFlagsOK, ParserTypeOK
    <2>5. ParserTypeOK' BY <2>0, <1>0, <2>1, <2>3, <2>4, ParserAssumption DEF ParserTypeOK
    <2>6. Landing' BY <1>0, <2>1 DEF Landing
    <2>7. ArrivalIsShown'
      <3> SUFFICES ASSUME untouched
                   PROVE  \/ parserPending' # 0 \/ parserError'
                          \/ parserResult' # NoResult /\ parserResult'.of = parserInput'
        BY <2>1 DEF ArrivalIsShown
      <3>1. c[2] = parserInput BY <1>0 DEF Landing
      <3>2. CASE \E ok \in BOOLEAN : parserResult' = [of |-> c[2], ok |-> ok]
        <4>1. PICK ok \in BOOLEAN : parserResult' = [of |-> c[2], ok |-> ok] BY <3>2
        <4>2. parserResult'.of = parserInput BY <3>1, <4>1
        <4>3. parserResult' \in Parses BY <2>2, <4>1 DEF Parses
        <4>4. NoResult \notin Parses BY ParserAssumption
        <4> QED BY <2>1, <4>2, <4>3, <4>4
      <3>3. CASE parserError' = (parserError \/ parserPending = c[1]) /\ UNCHANGED parserResult
        BY <1>0, <2>1, <2>2, <3>3 DEF ArrivalIsShown
      <3> QED BY <2>1, <3>2, <3>3
    <2> QED BY <2>5, <2>6, <2>7 DEF ParserInv
  <1>8. CASE OnClear
    <2>0. ParserFlagsOK' BY <1>0, <1>8, ParserAssumption DEF ParserFlagsOK, ParserTypeOK, OnClear
    <2>1. ParserTypeOK' BY <2>0, <1>0, <1>8, ParserAssumption DEF ParserTypeOK, OnClear
    <2>2. Landing' BY <1>0, <1>8 DEF Landing, OnClear
    <2>3. ArrivalIsShown' BY <1>8 DEF ArrivalIsShown, OnClear
    <2> QED BY <2>1, <2>2, <2>3 DEF ParserInv
  <1>9. Parsed => parserResult.of \in Wires BY <1>0 DEF Parsed, ParserTypeOK, Parses
  <1>10. CASE OnOpenInBuilder
    <2>1. carried' \in Carried
      BY <1>0, <1>9, <1>10 DEF OnOpenInBuilder, ParserTypeOK, Carried
    <2> QED BY <1>3, <1>10, <2>1 DEF OnOpenInBuilder
  <1>11. CASE OnValidateInEmv BY <1>3, <1>9, <1>11 DEF OnValidateInEmv, Carried
  <1>12. CASE UNCHANGED parserVars
    BY <1>0, <1>12 DEF parserVars, parserView, ParserInv, ParserFlagsOK, ParserTypeOK, Landing, ArrivalIsShown
  <1> QED BY <1>1, <1>2, <1>4, <1>5, <1>6, <1>7, <1>8, <1>10, <1>11, <1>12 DEF ParserNext

(***************************************************************************)
(* BitmapPage: the text is that of the list, or the list that of the       *)
(* text, for every set of fields.                                          *)
(***************************************************************************)
\* The timer is of the text in the box; away from the page nothing is under way.
TimerIsOfText ==
  /\ decodeTimer \in {Empty, hexInput}
  /\ ~bitmapOn => decodes = {} /\ decodeTimer = Empty

\* Nothing was changed over an open decode: each is of the text in the box, and the list
\* is that of a text typed once the decodes are done, or the text is that of the list.
CalmBitmapAgrees ==
  bitmapCalm /\ bitmapOn =>
    /\ \A d \in decodes : d[2] = hexInput
    /\ lastSource = "input" /\ hexInput \in CompleteBitmaps /\ decodes = {} /\ decodeTimer = Empty =>
         active = hexInput.bits
    /\ lastSource # "input" => hexInput = BitsToHex(active) \/ (active = {} /\ hexInput = Empty)

BitmapInv == BitmapFlagsOK /\ BitmapTypeOK /\ TimerIsOfText /\ CalmBitmapAgrees

\* The invariant gives what the run checks.
LEMMA BitmapParts == BitmapInv => CalmTextIsTheList
  BY DEF BitmapInv, CalmBitmapAgrees, CalmTextIsTheList

\* A complete text names data elements of the map only.
LEMMA BitsOfText == \A h \in CompleteBitmaps : h.bits \subseteq MapBits
  BY DEF CompleteBitmaps

\* The text of a list is complete, and the list of that text gives it again.
LEMMA TextOfBits ==
  ASSUME NEW bits \in SUBSET MapBits
  PROVE  BitsToHex(bits) \in CompleteBitmaps /\ BitsToHex(BitsToHex(bits).bits) = BitsToHex(bits)
  <1>0. \A x \in MapBits : x \in Nat BY BitmapAssumption
  <1>1. CASE \E b \in bits : b > 64
    <2>1. BitsToHex(bits) = [bits |-> bits \cup {1}, long |-> TRUE] BY <1>1 DEF BitsToHex
    <2>2. bits \cup {1} \in SUBSET MapBits BY BitmapAssumption
    <2>3. BitsToHex(bits).bits = bits \cup {1} BY <2>1
    <2>4. \E b \in bits \cup {1} : b > 64 BY <1>1
    <2>5. BitsToHex(bits \cup {1}) = [bits |-> (bits \cup {1}) \cup {1}, long |-> TRUE]
      BY <2>4 DEF BitsToHex
    <2>6. (bits \cup {1}) \cup {1} = bits \cup {1} OBVIOUS
    <2>7. [bits |-> bits \cup {1}, long |-> TRUE] \in CompleteBitmaps
      <3>1. [bits |-> bits \cup {1}, long |-> TRUE] \in [bits : SUBSET MapBits, long : BOOLEAN] BY <2>2
      <3>2. \A b : [bits |-> bits \cup {1}, long |-> TRUE] # [bits |-> b, long |-> FALSE] OBVIOUS
      <3> QED BY <3>1, <3>2 DEF CompleteBitmaps
    <2> QED BY <2>1, <2>3, <2>5, <2>6, <2>7
  <1>2. CASE ~\E b \in bits : b > 64
    <2>1. BitsToHex(bits) = [bits |-> bits \cup {}, long |-> FALSE] BY <1>2 DEF BitsToHex
    <2>2. bits \cup {} = bits OBVIOUS
    <2>3. [bits |-> bits, long |-> FALSE] \in CompleteBitmaps
      <3>1. [bits |-> bits, long |-> FALSE] \in [bits : SUBSET MapBits, long : BOOLEAN] OBVIOUS
      <3>2. \A b : (\E x \in b : x > 64) => [bits |-> bits, long |-> FALSE] # [bits |-> b, long |-> FALSE]
        BY <1>2
      <3> QED BY <3>1, <3>2 DEF CompleteBitmaps
    <2>4. BitsToHex(bits).bits = bits BY <2>1, <2>2
    <2> QED BY <2>1, <2>2, <2>3, <2>4
  <1> QED BY <1>1, <1>2

\* A decode that is asked for is the newest, and of the text it was given.
LEMMA DecodeAsked ==
  ASSUME BitmapTypeOK, NEW h \in CompleteBitmaps, Decode(h)
  PROVE  /\ decoded' \in 0 .. MaxDecodes /\ decodes' \subseteq (1 .. MaxDecodes) \X CompleteBitmaps
         /\ decodes' = decodes \cup {<<decoded', h>>} /\ <<decoded', h>>[2] = h
  <1>1. decoded' \in 1 .. MaxDecodes /\ decodes' = decodes \cup {<<decoded', h>>}
    BY BitmapAssumption DEF Decode, BitmapTypeOK
  <1> QED BY <1>1 DEF BitmapTypeOK

\* The invariant holds of the page as it opens.
LEMMA BitmapInitially == BitmapInit => BitmapInv
  <1> SUFFICES ASSUME BitmapInit PROVE BitmapInv OBVIOUS
  <1>1. BitmapFlagsOK BY DEF BitmapFlagsOK, BitmapInit
  <1>2. BitmapTypeOK BY BitmapAssumption, <1>1 DEF BitmapTypeOK, BitmapInit, BitmapTexts
  <1>3. TimerIsOfText BY DEF TimerIsOfText, BitmapInit
  <1>4. CalmBitmapAgrees BY DEF CalmBitmapAgrees, BitmapInit
  <1> QED BY <1>1, <1>2, <1>3, <1>4 DEF BitmapInv

\* Every step of the page keeps the invariant.
LEMMA BitmapStep == BitmapInv /\ [BitmapNext]_bitmapVars => BitmapInv'
  <1> SUFFICES ASSUME BitmapInv, [BitmapNext]_bitmapVars PROVE BitmapInv' OBVIOUS
  <1>0. BitmapFlagsOK /\ BitmapTypeOK /\ TimerIsOfText /\ CalmBitmapAgrees
    BY DEF BitmapInv
  <1>1. CASE OpenBitmap
    <2>1. /\ ~bitmapOn /\ bitmapOn' = TRUE /\ active' = {} /\ bitmapCalm' = TRUE /\ decodeTimer' = hexInput'
          /\ decodes = {} /\ Empty \notin CompleteBitmaps
      BY <1>0, <1>1, BitmapAssumption DEF OpenBitmap, TimerIsOfText
    <2>2. CASE hexInput' = Empty /\ lastSource' = "none" /\ UNCHANGED <<decodes, decoded>>
      <3>1. BitmapFlagsOK' BY <2>1, <2>2 DEF BitmapFlagsOK
      <3>2. BitmapTypeOK' BY <1>0, <2>1, <2>2, <3>1 DEF BitmapTypeOK, BitmapTexts
      <3>3. TimerIsOfText' BY <2>1, <2>2 DEF TimerIsOfText
      <3>4. CalmBitmapAgrees' BY <2>1, <2>2 DEF CalmBitmapAgrees
      <3> QED BY <3>1, <3>2, <3>3, <3>4 DEF BitmapInv
    <2>3. CASE hexInput' \in CompleteBitmaps /\ lastSource' = "input" /\ Decode(hexInput')
      <3>0. /\ decoded' \in 0 .. MaxDecodes /\ decodes' \subseteq (1 .. MaxDecodes) \X CompleteBitmaps
            /\ decodes' = decodes \cup {<<decoded', hexInput'>>} /\ <<decoded', hexInput'>>[2] = hexInput'
        BY <1>0, <2>3, DecodeAsked
      <3>1. BitmapFlagsOK' BY <2>1 DEF BitmapFlagsOK
      <3>2. BitmapTypeOK' BY <1>0, <2>1, <2>3, <3>0, <3>1 DEF BitmapTypeOK, BitmapTexts
      <3>3. TimerIsOfText' BY <2>1 DEF TimerIsOfText
      <3>4. CalmBitmapAgrees' BY <2>1, <2>3, <3>0 DEF CalmBitmapAgrees
      <3> QED BY <3>1, <3>2, <3>3, <3>4 DEF BitmapInv
    <2> QED BY <2>2, <2>3, <1>1 DEF OpenBitmap
  <1>2. CASE ToggleBit
    <2>1. /\ bitmapOn /\ active' \subseteq MapBits /\ hexInput' = BitsToHex(active') /\ lastSource' = "list"
          /\ bitmapCalm' = (bitmapCalm /\ decodes = {}) /\ UNCHANGED <<bitmapOn, decodes, decoded>>
          /\ decodeTimer' = IF hexInput' # hexInput
                            THEN IF lastSource' = "input" /\ hexInput' \in CompleteBitmaps THEN hexInput' ELSE Empty
                            ELSE decodeTimer
      BY <1>0, <1>2 DEF ToggleBit, DebounceEffect, BitmapTypeOK
    <2>2. decodeTimer' \in CompleteBitmaps \cup {Empty} BY <1>0, <2>1 DEF BitmapTypeOK
    <2>3. hexInput' \in CompleteBitmaps BY <2>1, TextOfBits
    <2>4. BitmapFlagsOK' BY <1>0, <2>1, <2>2, <2>3 DEF BitmapFlagsOK
    <2>5. BitmapTypeOK'
      BY <1>0, <2>1, <2>2, <2>3, BitmapAssumption, <2>4
      DEF BitmapTypeOK, BitmapTexts
    <2>6. TimerIsOfText' BY <1>0, <2>1, <2>2, <2>3 DEF TimerIsOfText
    <2>7. CalmBitmapAgrees' BY <1>0, <2>1, <2>2, <2>3 DEF CalmBitmapAgrees
    <2> QED BY <2>4, <2>5, <2>6, <2>7 DEF BitmapInv
  <1>3. CASE OnInputChange
    <2>1. /\ bitmapOn /\ active' \subseteq MapBits /\ hexInput' # hexInput /\ hexInput' \in BitmapTexts
          /\ lastSource' = "input"
          /\ bitmapCalm' = (bitmapCalm /\ decodes = {}) /\ UNCHANGED <<bitmapOn, decodes, decoded>>
          /\ decodeTimer' = IF hexInput' \in CompleteBitmaps THEN hexInput' ELSE Empty
      BY <1>0, <1>3 DEF OnInputChange, DebounceEffect, BitmapTypeOK
    <2>2. decodeTimer' \in CompleteBitmaps \cup {Empty} BY <1>0, <2>1 DEF BitmapTypeOK
    <2>3. Empty \notin CompleteBitmaps BY BitmapAssumption
    <2>4. BitmapFlagsOK' BY <1>0, <2>1, <2>2, <2>3 DEF BitmapFlagsOK
    <2>5. BitmapTypeOK'
      BY <1>0, <2>1, <2>2, <2>3, BitmapAssumption, <2>4
      DEF BitmapTypeOK, BitmapTexts
    <2>6. TimerIsOfText' BY <1>0, <2>1, <2>2, <2>3 DEF TimerIsOfText
    <2>7. CalmBitmapAgrees' BY <1>0, <2>1, <2>2, <2>3 DEF CalmBitmapAgrees
    <2> QED BY <2>4, <2>5, <2>6, <2>7 DEF BitmapInv
  <1>4. CASE OnPaste
    <2>1. /\ bitmapOn /\ hexInput' \in CompleteBitmaps /\ lastSource' = "input" /\ Decode(hexInput')
          /\ bitmapCalm' = (bitmapCalm /\ decodes = {}) /\ UNCHANGED <<bitmapOn, active>>
          /\ decodeTimer' = IF hexInput' # hexInput THEN hexInput' ELSE decodeTimer
      BY <1>0, <1>4 DEF OnPaste, DebounceEffect
    <2>2. decodeTimer' \in CompleteBitmaps \cup {Empty} BY <1>0, <2>1 DEF BitmapTypeOK
    <2>3. /\ decoded' \in 0 .. MaxDecodes /\ decodes' \subseteq (1 .. MaxDecodes) \X CompleteBitmaps
          /\ decodes' = decodes \cup {<<decoded', hexInput'>>} /\ <<decoded', hexInput'>>[2] = hexInput'
      BY <1>0, <2>1, DecodeAsked
    <2>4. BitmapFlagsOK' BY <1>0, <2>1, <2>2, <2>3 DEF BitmapFlagsOK
    <2>5. BitmapTypeOK'
      BY <1>0, <2>1, <2>2, <2>3, BitmapAssumption, <2>4
      DEF BitmapTypeOK, BitmapTexts
    <2>6. TimerIsOfText' BY <1>0, <2>1, <2>2, <2>3 DEF TimerIsOfText
    <2>7. CalmBitmapAgrees' BY <1>0, <2>1, <2>2, <2>3 DEF CalmBitmapAgrees
    <2> QED BY <2>4, <2>5, <2>6, <2>7 DEF BitmapInv
  <1>5. CASE TimerDecodes
    <2>1. /\ decodeTimer # Empty /\ decodeTimer' = Empty /\ Decode(decodeTimer) /\ decodeTimer \in CompleteBitmaps
          /\ UNCHANGED <<bitmapOn, active, hexInput, lastSource, bitmapCalm>>
      BY <1>0, <1>5 DEF TimerDecodes, BitmapTypeOK
    <2>2. /\ decoded' \in 0 .. MaxDecodes /\ decodes' \subseteq (1 .. MaxDecodes) \X CompleteBitmaps
          /\ decodes' = decodes \cup {<<decoded', decodeTimer>>} /\ <<decoded', decodeTimer>>[2] = decodeTimer
      BY <1>0, <2>1, DecodeAsked
    <2>3. decodeTimer = hexInput /\ bitmapOn BY <1>0, <2>1 DEF TimerIsOfText
    <2>4. BitmapFlagsOK' BY <1>0, <2>1, <2>2, <2>3 DEF BitmapFlagsOK
    <2>5. BitmapTypeOK'
      BY <1>0, <2>1, <2>2, <2>3, BitmapAssumption, <2>4
      DEF BitmapTypeOK, BitmapTexts
    <2>6. TimerIsOfText' BY <1>0, <2>1, <2>2, <2>3 DEF TimerIsOfText
    <2>7. CalmBitmapAgrees' BY <1>0, <2>1, <2>2, <2>3 DEF CalmBitmapAgrees
    <2> QED BY <2>4, <2>5, <2>6, <2>7 DEF BitmapInv
  <1>6. CASE OnClearBitmap
    <2>1. /\ bitmapOn /\ active' = {} /\ hexInput' = Empty /\ lastSource' = "list"
          /\ bitmapCalm' = (bitmapCalm /\ decodes = {}) /\ UNCHANGED <<bitmapOn, decodes, decoded>>
          /\ decodeTimer' = IF hexInput' # hexInput
                            THEN IF lastSource' = "input" /\ hexInput' \in CompleteBitmaps THEN hexInput' ELSE Empty
                            ELSE decodeTimer
      BY <1>0, <1>6 DEF OnClearBitmap, DebounceEffect, BitmapTypeOK
    <2>2. decodeTimer' \in CompleteBitmaps \cup {Empty} BY <1>0, <2>1 DEF BitmapTypeOK
    <2>3. Empty \notin CompleteBitmaps BY BitmapAssumption
    <2>4. BitmapFlagsOK' BY <1>0, <2>1, <2>2, <2>3 DEF BitmapFlagsOK
    <2>5. BitmapTypeOK'
      BY <1>0, <2>1, <2>2, <2>3, BitmapAssumption, <2>4
      DEF BitmapTypeOK, BitmapTexts
    <2>6. TimerIsOfText' BY <1>0, <2>1, <2>2, <2>3 DEF TimerIsOfText
    <2>7. CalmBitmapAgrees' BY <1>0, <2>1, <2>2, <2>3 DEF CalmBitmapAgrees
    <2> QED BY <2>4, <2>5, <2>6, <2>7 DEF BitmapInv
  <1>7. CASE DecodeLands
    <2>1. PICK d \in decodes :
            /\ decodes' = decodes \ {d}
            /\ \/ active' = (IF bitmapOn THEN d[2].bits ELSE active) /\ UNCHANGED bitmapCalm
               \/ bitmapCalm' = FALSE /\ UNCHANGED active
            /\ UNCHANGED <<bitmapOn, hexInput, lastSource, decodeTimer, decoded>>
      BY <1>7 DEF DecodeLands
    <2>2. d[2] \in CompleteBitmaps /\ d[2].bits \subseteq MapBits
      BY <1>0, BitsOfText DEF BitmapTypeOK
    <2>3. BitmapFlagsOK' BY <1>0, <2>1 DEF BitmapFlagsOK
    <2>4. BitmapTypeOK' BY <1>0, <2>1, <2>2, <2>3 DEF BitmapTypeOK
    <2>5. TimerIsOfText' BY <1>0, <2>1 DEF TimerIsOfText
    <2>6. CalmBitmapAgrees'
      <3>1. SUFFICES ASSUME bitmapCalm', bitmapOn' PROVE CalmBitmapAgrees' BY DEF CalmBitmapAgrees
      <3>2. bitmapCalm /\ bitmapOn /\ active' = d[2].bits /\ d[2] = hexInput BY <1>0, <2>1, <3>1 DEF CalmBitmapAgrees
      <3>3. lastSource # "input" => hexInput = BitsToHex(active)
        BY <1>0, <2>2, <3>2, BitmapAssumption DEF CalmBitmapAgrees
      <3>4. active \in SUBSET MapBits BY <1>0 DEF BitmapTypeOK
      <3>5. lastSource # "input" => hexInput' = BitsToHex(active') BY <2>1, <3>2, <3>3, <3>4, TextOfBits
      <3> QED BY <1>0, <2>1, <3>2, <3>5 DEF CalmBitmapAgrees
    <2> QED BY <2>3, <2>4, <2>5, <2>6 DEF BitmapInv
  <1>8. CASE OnUseInBuilder
    <2>1. BitmapFlagsOK' BY <1>0, <1>8 DEF BitmapFlagsOK, OnUseInBuilder
    <2>2. BitmapTypeOK'
      BY <1>0, <1>8, BitmapAssumption, <2>1
      DEF BitmapTypeOK, BitmapTexts, OnUseInBuilder
    <2>3. TimerIsOfText' BY <1>0, <1>8 DEF TimerIsOfText, OnUseInBuilder
    <2>4. CalmBitmapAgrees' BY <1>0, <1>8 DEF CalmBitmapAgrees, OnUseInBuilder
    <2> QED BY <2>1, <2>2, <2>3, <2>4 DEF BitmapInv
  <1>9. CASE UNCHANGED bitmapVars
    <2> USE <1>9 DEF bitmapVars
    <2>1. BitmapFlagsOK' BY <1>0 DEF BitmapFlagsOK
    <2>2. BitmapTypeOK' BY <1>0, <2>1 DEF BitmapTypeOK
    <2>3. TimerIsOfText' BY <1>0 DEF TimerIsOfText
    <2>4. CalmBitmapAgrees' BY <1>0 DEF CalmBitmapAgrees
    <2> QED BY <2>1, <2>2, <2>3, <2>4 DEF BitmapInv
  <1> QED BY <1>1, <1>2, <1>3, <1>4, <1>5, <1>6, <1>7, <1>8, <1>9 DEF BitmapNext

(***************************************************************************)
(* MessageBuilder: rows that a rebuild was asked for come to rest, and a   *)
(* value typed stays typed, for any number of fields, values and rebuilds  *)
(* on their way.                                                           *)
(***************************************************************************)
\* Rows that keep their two flags apart.
SoundStates == {r \in FieldStates : r.status = "stale" => ~r.locked}
SoundFields == FieldsOver(SoundStates)

StoreTyped == mti \in MTIs /\ fields \in SoundFields /\ built \in Messages8583 \cup {NoBuild}

BuildsTyped ==
  /\ building \in Builds8583 \cup {NoBuild} /\ regenerating \subseteq Bits
  /\ superseded \in [request : Builds8583, held : SoundFields] \cup {NoBuild}
  /\ live \in Messages8583 \cup {NoBuild}

\* The debounce runs on the page, for a message that has a field.
TimerHasMessage == liveTimer => onPage /\ built # NoBuild /\ fields # <<>>

Preview == [mti |-> mti, values |-> ValuesOf(fields)]

\* With no debounce running and no rebuild lost, the rebuild awaited is of the rows, and
\* the preview is when none is awaited.
PreviewIsCurrent ==
  onPage /\ ~liveTimer /\ ~unsettled =>
    /\ live # NoBuild => built # NoBuild /\ fields # <<>> /\ live = Preview
    /\ live = NoBuild /\ built # NoBuild /\ fields # <<>> => built = Preview

BdBody == BdFlagsOK /\ StoreTyped /\ BuildsTyped /\ TimerHasMessage /\ PreviewIsCurrent
BdInv == BdBody /\ clicks \in 0 .. MaxClicks

-----------------------------------------------------------------------------
\* A function over some bits is a table of fields.
LEMMA MapMade ==
  ASSUME NEW S, NEW B \in SUBSET Bits, NEW f \in [B -> S]
  PROVE  f \in FieldsOver(S)
  BY DEF FieldsOver

\* A table of fields is a function over some bits.
LEMMA MapParts ==
  ASSUME NEW S, NEW f \in FieldsOver(S)
  PROVE  DOMAIN f \in SUBSET Bits /\ f \in [DOMAIN f -> S]
  BY DEF FieldsOver

\* The empty table is a table.
LEMMA NoFields == ASSUME NEW S PROVE <<>> \in FieldsOver(S)
  <1>1. <<>> \in [{} -> S] OBVIOUS
  <1> QED BY <1>1, MapMade

\* A row that is made ok, or to be edited, is a sound row of its value.
LEMMA FieldSound ==
  ASSUME NEW v \in Values, NEW l \in BOOLEAN, NEW s \in {"ok", "editing"}
  PROVE  Field(v, l, s) \in SoundStates /\ Field(v, l, s).value = v
  BY DEF Field, SoundStates, FieldStates

\* Settling a row, or making an unlocked one stale, keeps its value.
LEMMA StatusKeepsValue ==
  ASSUME NEW r \in SoundStates
  PROVE  /\ r.value \in Values
         /\ [r EXCEPT !.status = "ok"] \in SoundStates /\ [r EXCEPT !.status = "ok"].value = r.value
         /\ ~r.locked => [r EXCEPT !.status = "stale"] \in SoundStates
  BY DEF SoundStates, FieldStates

\* Sound rows are rows.
LEMMA SoundIsTyped == ASSUME NEW f \in SoundFields PROVE f \in FieldTables
  <1>1. DOMAIN f \in SUBSET Bits /\ f \in [DOMAIN f -> SoundStates] BY MapParts DEF SoundFields
  <1>2. f \in [DOMAIN f -> FieldStates] BY <1>1 DEF SoundStates
  <1> QED BY <1>1, <1>2, MapMade DEF FieldTables

\* The values of a sound table, and those of its locked rows, can be sent.
LEMMA RowsRead ==
  ASSUME NEW f \in SoundFields
  PROVE  /\ DOMAIN f \in SUBSET Bits /\ f \in [DOMAIN f -> SoundStates]
         /\ ValuesOf(f) \in FieldsOver(Values) /\ Customs(f) \in FieldsOver(Values)
  <1>1. DOMAIN f \in SUBSET Bits /\ f \in [DOMAIN f -> SoundStates] BY MapParts DEF SoundFields
  <1>2. \A b \in DOMAIN f : f[b].value \in Values BY <1>1, StatusKeepsValue
  <1>3. ValuesOf(f) \in [DOMAIN f -> Values] BY <1>2 DEF ValuesOf
  <1>4. {c \in DOMAIN f : f[c].locked} \in SUBSET Bits BY <1>1
  <1>5. Customs(f) \in [{c \in DOMAIN f : f[c].locked} -> Values] BY <1>2 DEF Customs
  <1> QED BY <1>1, <1>3, <1>4, <1>5, MapMade

\* After a change of the rows or of the MTI.
LEMMA Scheduled ==
  ASSUME BdFlagsOK, Schedule, live' = live, onPage' \in BOOLEAN, contextChanged' \in BOOLEAN
  PROVE  BdFlagsOK' /\ TimerHasMessage' /\ PreviewIsCurrent'
  <1>1. liveTimer' = (onPage' /\ built' # NoBuild /\ fields' # <<>>) BY DEF Schedule
  <1>2. unsettled' = IF liveTimer' THEN FALSE ELSE unsettled \/ live # NoBuild BY DEF Schedule
  <1>3. unsettled \in BOOLEAN BY DEF BdFlagsOK
  <1>4. liveTimer' \in BOOLEAN BY <1>1
  <1>5. unsettled' \in BOOLEAN BY <1>2, <1>3
  <1>6. BdFlagsOK' BY <1>4, <1>5 DEF BdFlagsOK
  <1>7. TimerHasMessage' BY <1>1 DEF TimerHasMessage
  <1>8. ~liveTimer' => (~onPage' \/ built' = NoBuild \/ fields' = <<>>) BY <1>1
  <1>9. ~liveTimer' /\ ~unsettled' => live = NoBuild BY <1>2
  <1>10. PreviewIsCurrent' BY <1>8, <1>9 DEF PreviewIsCurrent
  <1> QED BY <1>6, <1>7, <1>10

\* With rows, message, timer and rebuild as they were.
LEMMA Unscheduled ==
  ASSUME BdBody, UNCHANGED <<mti, fields, built, onPage, liveTimer, live, unsettled>>,
         contextChanged' \in BOOLEAN
  PROVE  BdFlagsOK' /\ StoreTyped' /\ TimerHasMessage' /\ PreviewIsCurrent'
  <1>0. BdFlagsOK /\ StoreTyped /\ TimerHasMessage /\ PreviewIsCurrent BY DEF BdBody
  <1>1. BdFlagsOK' BY <1>0 DEF BdFlagsOK
  <1>2. StoreTyped' BY <1>0 DEF StoreTyped
  <1>3. TimerHasMessage' BY <1>0 DEF TimerHasMessage
  <1>4. PreviewIsCurrent' BY <1>0 DEF PreviewIsCurrent, Preview
  <1> QED BY <1>1, <1>2, <1>3, <1>4

\* A build that is asked for, and the one it replaces, are typed.
LEMMA BuildAsked ==
  ASSUME BuildsTyped, NEW q \in Builds8583, AskBuild(q), fields' \in SoundFields
  PROVE  building' \in Builds8583
         /\ superseded' \in [request : Builds8583, held : SoundFields] \cup {NoBuild}
  <1>1. CASE building = NoBuild BY <1>1 DEF AskBuild, BuildsTyped
  <1>2. CASE building # NoBuild
    <2>1. building \in Builds8583 BY <1>2 DEF BuildsTyped
    <2>2. building' = q /\ superseded' = [request |-> building, held |-> fields'] BY <1>2 DEF AskBuild
    <2> QED BY <2>1, <2>2
  <1> QED BY <1>1, <1>2

\* The answer keeps every row that was locked in the fields the callback knows.
LEMMA AnswerMerged ==
  ASSUME NEW q \in Builds8583, NEW known \in SoundFields, SetBuiltResult(q, known)
  PROVE  /\ fields' \in SoundFields /\ built' \in Messages8583 /\ contextChanged' = FALSE
         /\ \A b \in DOMAIN fields' : b \in DOMAIN known /\ known[b].locked => fields'[b] = known[b]
  <1> DEFINE bits == DOMAIN q.customs \cup Prescribed(q.mti)
  <1>0. q.mti \in MTIs /\ q.customs \in FieldsOver(Values) BY DEF Builds8583
  <1>1. DOMAIN q.customs \in SUBSET Bits /\ q.customs \in [DOMAIN q.customs -> Values]
    BY <1>0, MapParts
  <1>2. Prescribed(q.mti) \in SUBSET Bits BY <1>0, BuilderAssumption
  <1>3. bits \in SUBSET Bits BY <1>1, <1>2
  <1>4. DOMAIN known \in SUBSET Bits /\ known \in [DOMAIN known -> SoundStates] BY RowsRead
  <1>5. /\ fields' = MergeAnswer(bits, q.customs, known) /\ contextChanged' = FALSE
        /\ built' = [mti |-> q.mti,
                     values |-> [b \in bits |-> IF b \in DOMAIN q.customs THEN q.customs[b] ELSE "fresh"]]
    BY DEF SetBuiltResult
  <1> HIDE DEF bits
  <1>6. \A b \in DOMAIN q.customs : Field(q.customs[b], TRUE, "ok") \in SoundStates
    BY <1>1, FieldSound
  <1>7. Field("fresh", FALSE, "ok") \in SoundStates BY FieldSound DEF Values
  <1>8. fields' \in [bits -> SoundStates] BY <1>4, <1>5, <1>6, <1>7 DEF MergeAnswer
  <1>9. fields' \in SoundFields BY <1>3, <1>8, MapMade DEF SoundFields
  <1>10. [b \in bits |-> IF b \in DOMAIN q.customs THEN q.customs[b] ELSE "fresh"] \in [bits -> Values]
    BY <1>1 DEF Values
  <1>11. [b \in bits |-> IF b \in DOMAIN q.customs THEN q.customs[b] ELSE "fresh"] \in FieldsOver(Values)
    BY <1>3, <1>10, MapMade
  <1>12. built' \in Messages8583 BY <1>0, <1>5, <1>11 DEF Messages8583
  <1>13. \A b \in DOMAIN fields' : b \in DOMAIN known /\ known[b].locked => fields'[b] = known[b]
    BY <1>5 DEF MergeAnswer
  <1> QED BY <1>5, <1>9, <1>12, <1>13

\* An edit of the table.
LEMMA TableEdited ==
  ASSUME BdBody, NEW f, Edited(f), f \in SoundFields
  PROVE  BdBody'
  <1>0. BdFlagsOK /\ StoreTyped /\ BuildsTyped BY DEF BdBody
  <1>1. /\ fields' = f /\ Schedule
        /\ UNCHANGED <<mti, built, contextChanged, onPage, building, superseded, live, regenerating>>
    BY DEF Edited, requests8583
  <1>2. onPage' \in BOOLEAN /\ contextChanged' \in BOOLEAN BY <1>0, <1>1 DEF BdFlagsOK
  <1>3. BdFlagsOK' /\ TimerHasMessage' /\ PreviewIsCurrent' BY <1>0, <1>1, <1>2, Scheduled
  <1>4. StoreTyped' BY <1>0, <1>1 DEF StoreTyped
  <1>5. BuildsTyped' BY <1>0, <1>1 DEF BuildsTyped
  <1> QED BY <1>3, <1>4, <1>5 DEF BdBody

\* What the user does.
LEMMA UserStep == BdBody /\ UserActs => BdBody'
  <1> SUFFICES ASSUME BdBody, UserActs PROVE BdBody' OBVIOUS
  <1>0. BdFlagsOK /\ StoreTyped /\ BuildsTyped /\ TimerHasMessage /\ PreviewIsCurrent BY DEF BdBody
  <1>1. CASE SetContext
    <2>1. contextChanged' = (built # NoBuild) /\ UNCHANGED <<fields, built, onPage, building, superseded, live, regenerating>>
      BY <1>1 DEF SetContext, requests8583
    <2>2. mti' \in MTIs BY <1>0, <1>1 DEF SetContext, StoreTyped
    <2>3. contextChanged' \in BOOLEAN /\ onPage' \in BOOLEAN BY <1>0, <2>1 DEF BdFlagsOK
    <2>4. StoreTyped' BY <1>0, <2>1, <2>2 DEF StoreTyped
    <2>5. BuildsTyped' BY <1>0, <2>1 DEF BuildsTyped
    <2>6. CASE Schedule
      <3>1. BdFlagsOK' /\ TimerHasMessage' /\ PreviewIsCurrent' BY <1>0, <2>1, <2>3, <2>6, Scheduled
      <3> QED BY <2>4, <2>5, <3>1 DEF BdBody
    <2>7. CASE UNCHANGED <<mti, liveTimer, unsettled>>
      <3>1. BdFlagsOK' /\ TimerHasMessage' /\ PreviewIsCurrent' BY <2>1, <2>3, <2>7, Unscheduled
      <3> QED BY <2>4, <2>5, <3>1 DEF BdBody
    <2> QED BY <1>1, <2>6, <2>7 DEF SetContext
  <1>2. CASE OnBuild
    <2>1. /\ UNCHANGED <<mti, fields, built, onPage, liveTimer, live, unsettled>> /\ regenerating' = regenerating
          /\ contextChanged' \in {contextChanged, FALSE}
          /\ AskBuild([mti |-> mti, customs |-> Customs(fields)])
      BY <1>2 DEF OnBuild
    <2>2. contextChanged' \in BOOLEAN BY <1>0, <2>1 DEF BdFlagsOK
    <2>3. BdFlagsOK' /\ StoreTyped' /\ TimerHasMessage' /\ PreviewIsCurrent' BY <2>1, <2>2, Unscheduled
    <2>4. [mti |-> mti, customs |-> Customs(fields)] \in Builds8583 /\ fields' \in SoundFields
      BY <1>0, <2>1, RowsRead DEF Builds8583, StoreTyped
    <2>5. BuildsTyped'
      <3>1. /\ building' \in Builds8583
            /\ superseded' \in [request : Builds8583, held : SoundFields] \cup {NoBuild}
        BY <1>0, <2>1, <2>4, BuildAsked
      <3> QED BY <1>0, <2>1, <3>1 DEF BuildsTyped
    <2> QED BY <2>3, <2>5 DEF BdBody
  <1>3. CASE OnRegenerateAll
    <2>1. /\ UNCHANGED <<mti, fields, built, onPage, liveTimer, live, unsettled>> /\ regenerating' = regenerating
          /\ contextChanged' \in {contextChanged, FALSE}
          /\ AskBuild([mti |-> mti, customs |-> Customs(fields)])
      BY <1>3 DEF OnRegenerateAll
    <2>2. contextChanged' \in BOOLEAN BY <1>0, <2>1 DEF BdFlagsOK
    <2>3. BdFlagsOK' /\ StoreTyped' /\ TimerHasMessage' /\ PreviewIsCurrent' BY <2>1, <2>2, Unscheduled
    <2>4. [mti |-> mti, customs |-> Customs(fields)] \in Builds8583 /\ fields' \in SoundFields
      BY <1>0, <2>1, RowsRead DEF Builds8583, StoreTyped
    <2>5. BuildsTyped'
      <3>1. /\ building' \in Builds8583
            /\ superseded' \in [request : Builds8583, held : SoundFields] \cup {NoBuild}
        BY <1>0, <2>1, <2>4, BuildAsked
      <3> QED BY <1>0, <2>1, <3>1 DEF BuildsTyped
    <2> QED BY <2>3, <2>5 DEF BdBody
  <1>4. CASE IgnoreContextChange
    <2>1. UNCHANGED <<mti, fields, built, onPage, liveTimer, live, unsettled>> /\ contextChanged' \in {contextChanged, FALSE}
      BY <1>4 DEF IgnoreContextChange, requests8583
    <2>2. contextChanged' \in BOOLEAN BY <1>0, <2>1 DEF BdFlagsOK
    <2>3. BdFlagsOK' /\ StoreTyped' /\ TimerHasMessage' /\ PreviewIsCurrent' BY <2>1, <2>2, Unscheduled
    <2>4. BuildsTyped' BY <1>0, <1>4, <2>1 DEF IgnoreContextChange, requests8583, BuildsTyped
    <2> QED BY <2>3, <2>4 DEF BdBody
  <1>5. CASE MarkCardStale
    <2> DEFINE f == [c \in DOMAIN fields |->
                        IF c \in CardBits /\ ~fields[c].locked
                        THEN [fields[c] EXCEPT !.status = "stale"] ELSE fields[c]]
    <2>1. DOMAIN fields \in SUBSET Bits /\ fields \in [DOMAIN fields -> SoundStates]
      BY <1>0, RowsRead DEF StoreTyped
    <2>2. \A c \in DOMAIN fields : ~fields[c].locked => [fields[c] EXCEPT !.status = "stale"] \in SoundStates
      BY <2>1, StatusKeepsValue
    <2>3. f \in [DOMAIN fields -> SoundStates] BY <2>1, <2>2
    <2>4. Edited(f) BY <1>5 DEF MarkCardStale
    <2> HIDE DEF f
    <2>5. f \in SoundFields BY <2>1, <2>3, MapMade DEF SoundFields
    <2> QED BY <2>4, <2>5, TableEdited
  <1>6. CASE ClearAllFields
    <2>1. /\ mti' = "0200" /\ fields' = <<>> /\ built' = NoBuild /\ contextChanged' = FALSE /\ Schedule
          /\ UNCHANGED <<onPage, building, superseded, live, regenerating>>
      BY <1>6 DEF ClearAllFields, Load, requests8583
    <2>2. BdFlagsOK' /\ TimerHasMessage' /\ PreviewIsCurrent'
      <3>1. onPage' \in BOOLEAN /\ contextChanged' \in BOOLEAN BY <1>0, <2>1 DEF BdFlagsOK
      <3> QED BY <1>0, <2>1, <3>1, Scheduled
    <2>3. StoreTyped' BY <2>1, NoFields DEF StoreTyped, MTIs, SoundFields
    <2>4. BuildsTyped' BY <1>0, <2>1 DEF BuildsTyped
    <2> QED BY <2>2, <2>3, <2>4 DEF BdBody
  <1>7. CASE LoadTemplate
    <2>0. PICK m \in MTIs, bits \in Opened :
            \E f \in [bits -> {Field("fresh", FALSE, "ok"), Field("typed", TRUE, "ok")}] :
              Load(f, m, NoBuild) /\ AskBuild([mti |-> m, customs |-> Customs(f)])
      BY <1>7 DEF LoadTemplate
    <2>1. PICK f \in [bits -> {Field("fresh", FALSE, "ok"), Field("typed", TRUE, "ok")}] :
            Load(f, m, NoBuild) /\ AskBuild([mti |-> m, customs |-> Customs(f)])
      BY <2>0
    <2>2. Schedule /\ UNCHANGED <<onPage, live, regenerating>> BY <1>7 DEF LoadTemplate
    <2>3. bits \in SUBSET Bits BY BuilderAssumption
    <2>4. Field("fresh", FALSE, "ok") \in SoundStates /\ Field("typed", TRUE, "ok") \in SoundStates
      BY FieldSound DEF Values
    <2>5. f \in [bits -> SoundStates] BY <2>4
    <2>6. f \in SoundFields BY <2>3, <2>5, MapMade DEF SoundFields
    <2>7. fields' \in SoundFields /\ mti' \in MTIs /\ built' = NoBuild /\ contextChanged' = FALSE
      BY <2>1, <2>6 DEF Load
    <2>8. [mti |-> m, customs |-> Customs(f)] \in Builds8583
      BY <2>6, RowsRead DEF Builds8583
    <2>9. /\ building' \in Builds8583
          /\ superseded' \in [request : Builds8583, held : SoundFields] \cup {NoBuild}
      BY <1>0, <2>1, <2>7, <2>8, BuildAsked
    <2>10. BuildsTyped' BY <1>0, <2>2, <2>9 DEF BuildsTyped
    <2>11. StoreTyped' BY <2>7 DEF StoreTyped
    <2>12. BdFlagsOK' /\ TimerHasMessage' /\ PreviewIsCurrent'
      <3>1. onPage' \in BOOLEAN /\ contextChanged' \in BOOLEAN BY <1>0, <2>2, <2>7 DEF BdFlagsOK
      <3> QED BY <1>0, <2>2, <3>1, Scheduled
    <2> QED BY <2>10, <2>11, <2>12 DEF BdBody
  <1>8. CASE CreateReversal
    <2> DEFINE D == (DOMAIN fields \cap REVERSAL_ECHO_BITS) \cup {90}
               f == [b \in D |-> IF b = 90 THEN Field("original", TRUE, "ok") ELSE Field(fields[b].value, TRUE, "ok")]
    <2>1. Load(f, "0400", NoBuild) /\ Schedule /\ UNCHANGED <<onPage, building, superseded, live, regenerating>>
      BY <1>8 DEF CreateReversal, requests8583
    <2>2. DOMAIN fields \in SUBSET Bits /\ fields \in [DOMAIN fields -> SoundStates]
      BY <1>0, RowsRead DEF StoreTyped
    <2>3. D \in SUBSET Bits BY <2>2, BuilderAssumption
    <2>4. Field("original", TRUE, "ok") \in SoundStates BY FieldSound DEF Values
    <2>5. \A b \in DOMAIN fields : Field(fields[b].value, TRUE, "ok") \in SoundStates
      BY <2>2, FieldSound, StatusKeepsValue
    <2>6. f \in [D -> SoundStates] BY <2>4, <2>5
    <2> HIDE DEF D, f
    <2>7. f \in SoundFields BY <2>3, <2>6, MapMade DEF SoundFields
    <2>8. fields' \in SoundFields /\ mti' \in MTIs /\ built' = NoBuild /\ contextChanged' = FALSE
      BY <2>1, <2>7 DEF Load, MTIs
    <2>9. StoreTyped' BY <2>8 DEF StoreTyped
    <2>10. BuildsTyped' BY <1>0, <2>1 DEF BuildsTyped
    <2>11. BdFlagsOK' /\ TimerHasMessage' /\ PreviewIsCurrent'
      <3>1. onPage' \in BOOLEAN /\ contextChanged' \in BOOLEAN BY <1>0, <2>1, <2>8 DEF BdFlagsOK
      <3> QED BY <1>0, <2>1, <3>1, Scheduled
    <2> QED BY <2>9, <2>10, <2>11 DEF BdBody
  <1>9. CASE LeaveBuilder
    <2>1. /\ onPage' = FALSE /\ liveTimer' = FALSE /\ live' = NoBuild /\ building' = NoBuild
          /\ UNCHANGED <<mti, fields, built, contextChanged, regenerating, unsettled>>
      BY <1>9 DEF LeaveBuilder
    <2>2. superseded' \in [request : Builds8583, held : SoundFields] \cup {NoBuild}
      <3>1. CASE building = NoBuild BY <1>0, <1>9, <3>1 DEF LeaveBuilder, BuildsTyped
      <3>2. CASE building # NoBuild
        <4>1. superseded' = [request |-> building, held |-> fields] BY <1>9, <3>2 DEF LeaveBuilder
        <4>2. building \in Builds8583 /\ fields \in SoundFields BY <1>0, <3>2 DEF BuildsTyped, StoreTyped
        <4> QED BY <4>1, <4>2
      <3> QED BY <3>1, <3>2
    <2>3. BdFlagsOK' BY <1>0, <2>1 DEF BdFlagsOK
    <2>4. StoreTyped' BY <1>0, <2>1 DEF StoreTyped
    <2>5. BuildsTyped' BY <1>0, <2>1, <2>2 DEF BuildsTyped
    <2>6. TimerHasMessage' /\ PreviewIsCurrent' BY <2>1 DEF TimerHasMessage, PreviewIsCurrent
    <2> QED BY <2>3, <2>4, <2>5, <2>6 DEF BdBody
  <1>10. CASE OpenBuilder
    <2>1. onPage' = TRUE /\ Schedule /\ UNCHANGED <<building, superseded, live, regenerating>>
      BY <1>10 DEF OpenBuilder, requests8583
    <2>2. /\ mti' \in MTIs /\ fields' \in SoundFields /\ built' \in Messages8583 \cup {NoBuild}
          /\ contextChanged' \in {contextChanged, FALSE}
      <3>1. CASE UNCHANGED <<mti, fields, built, contextChanged>> BY <1>0, <3>1 DEF StoreTyped
      <3>2. ASSUME NEW m \in MTIs, NEW bits \in Opened,
                   Load([b \in bits |-> Field("typed", TRUE, "ok")], m,
                        [mti |-> m, values |-> ValuesOf([b \in bits |-> Field("typed", TRUE, "ok")])])
            PROVE  /\ mti' \in MTIs /\ fields' \in SoundFields /\ built' \in Messages8583 \cup {NoBuild}
                   /\ contextChanged' = FALSE
        <4> DEFINE f == [b \in bits |-> Field("typed", TRUE, "ok")]
        <4>1. bits \in SUBSET Bits BY BuilderAssumption
        <4>2. Field("typed", TRUE, "ok") \in SoundStates BY FieldSound DEF Values
        <4>3. f \in [bits -> SoundStates] BY <4>2
        <4>4. mti' = m /\ fields' = f /\ built' = [mti |-> m, values |-> ValuesOf(f)] /\ contextChanged' = FALSE
          BY <3>2 DEF Load
        <4> HIDE DEF f
        <4>5. f \in SoundFields BY <4>1, <4>3, MapMade DEF SoundFields
        <4>6. ValuesOf(f) \in FieldsOver(Values) BY <4>5, RowsRead
        <4>7. [mti |-> m, values |-> ValuesOf(f)] \in Messages8583 BY <4>6 DEF Messages8583
        <4> QED BY <4>4, <4>5, <4>7
      <3>3. ASSUME NEW bits \in Opened,
                   Load([b \in bits |-> IF b \in DOMAIN fields THEN fields[b]
                                        ELSE Field("empty", TRUE, "editing")], mti, NoBuild)
            PROVE  /\ mti' \in MTIs /\ fields' \in SoundFields /\ built' \in Messages8583 \cup {NoBuild}
                   /\ contextChanged' = FALSE
        <4> DEFINE f == [b \in bits |-> IF b \in DOMAIN fields THEN fields[b]
                                        ELSE Field("empty", TRUE, "editing")]
        <4>1. bits \in SUBSET Bits BY BuilderAssumption
        <4>2. Field("empty", TRUE, "editing") \in SoundStates BY FieldSound DEF Values
        <4>3. fields \in [DOMAIN fields -> SoundStates] BY <1>0, RowsRead DEF StoreTyped
        <4>4. f \in [bits -> SoundStates] BY <4>2, <4>3
        <4>5. mti' = mti /\ fields' = f /\ built' = NoBuild /\ contextChanged' = FALSE BY <3>3 DEF Load
        <4> HIDE DEF f
        <4>6. f \in SoundFields BY <4>1, <4>4, MapMade DEF SoundFields
        <4> QED BY <1>0, <4>5, <4>6 DEF StoreTyped
      <3>4. \/ UNCHANGED <<mti, fields, built, contextChanged>>
            \/ \E m \in MTIs, bits \in Opened :
                 Load([b \in bits |-> Field("typed", TRUE, "ok")], m,
                      [mti |-> m, values |-> ValuesOf([b \in bits |-> Field("typed", TRUE, "ok")])])
            \/ \E bits \in Opened :
                 Load([b \in bits |-> IF b \in DOMAIN fields THEN fields[b]
                                      ELSE Field("empty", TRUE, "editing")], mti, NoBuild)
        BY <1>10 DEF OpenBuilder
      <3> QED BY <3>1, <3>2, <3>3, <3>4
    <2>3. onPage' \in BOOLEAN /\ contextChanged' \in BOOLEAN BY <1>0, <2>1, <2>2 DEF BdFlagsOK
    <2>4. BdFlagsOK' /\ TimerHasMessage' /\ PreviewIsCurrent' BY <1>0, <2>1, <2>3, Scheduled
    <2>5. StoreTyped' BY <2>2 DEF StoreTyped
    <2>6. BuildsTyped' BY <1>0, <2>1 DEF BuildsTyped
    <2> QED BY <2>4, <2>5, <2>6 DEF BdBody
  <1>11. CASE \E b \in Bits : UpdateField(b)
    <2>0. PICK b \in Bits : UpdateField(b) BY <1>11
    <2> DEFINE f == [c \in DOMAIN fields |->
                       IF c = b THEN Field("typed", TRUE, "ok")
                       ELSE IF b \in DEPENDENCIES[c] /\ ~fields[c].locked
                       THEN [fields[c] EXCEPT !.status = "stale"] ELSE fields[c]]
    <2>1. DOMAIN fields \in SUBSET Bits /\ fields \in [DOMAIN fields -> SoundStates]
      BY <1>0, RowsRead DEF StoreTyped
    <2>2. /\ Field("typed", TRUE, "ok") \in SoundStates
          /\ \A c \in DOMAIN fields : ~fields[c].locked => [fields[c] EXCEPT !.status = "stale"] \in SoundStates
      BY <2>1, FieldSound, StatusKeepsValue DEF Values
    <2>3. f \in [DOMAIN fields -> SoundStates] BY <2>1, <2>2
    <2>4. Edited(f) BY <2>0 DEF UpdateField
    <2> HIDE DEF f
    <2>5. DOMAIN fields \in SUBSET Bits BY <2>1
    <2>6. f \in SoundFields BY <2>3, <2>5, MapMade DEF SoundFields
    <2> QED BY <2>4, <2>6, TableEdited
  <1>12. CASE \E b \in Bits : KeepField(b)
    <2>0. PICK b \in Bits : KeepField(b) BY <1>12
    <2> DEFINE f == [fields EXCEPT ![b].status = "ok"]
    <2>1. DOMAIN fields \in SUBSET Bits /\ fields \in [DOMAIN fields -> SoundStates]
      BY <1>0, RowsRead DEF StoreTyped
    <2>2. b \in DOMAIN fields /\ [fields[b] EXCEPT !.status = "ok"] \in SoundStates
      BY <2>0, <2>1, StatusKeepsValue DEF KeepField
    <2>3. f \in [DOMAIN fields -> SoundStates] BY <2>1, <2>2
    <2>4. Edited(f) BY <2>0 DEF KeepField
    <2> HIDE DEF f
    <2>5. DOMAIN fields \in SUBSET Bits BY <2>1
    <2>6. f \in SoundFields BY <2>3, <2>5, MapMade DEF SoundFields
    <2> QED BY <2>4, <2>6, TableEdited
  <1>13. CASE \E b \in Bits : RemoveField(b)
    <2>0. PICK b \in Bits : RemoveField(b) BY <1>13
    <2> DEFINE f == [c \in DOMAIN fields \ {b} |-> fields[c]]
    <2>1. DOMAIN fields \in SUBSET Bits /\ fields \in [DOMAIN fields -> SoundStates]
      BY <1>0, RowsRead DEF StoreTyped
    <2>2. \A c \in DOMAIN fields : fields[c] \in SoundStates BY <2>1
    <2>3. f \in [(DOMAIN fields \ {b}) -> SoundStates] BY <2>1, <2>2
    <2>4. Edited(f) BY <2>0 DEF RemoveField
    <2> HIDE DEF f
    <2>5. (DOMAIN fields \ {b}) \in SUBSET Bits BY <2>1
    <2>6. f \in SoundFields BY <2>3, <2>5, MapMade DEF SoundFields
    <2> QED BY <2>4, <2>6, TableEdited
  <1>14. CASE \E b \in Bits : AddField(b)
    <2>0. PICK b \in Bits : AddField(b) BY <1>14
    <2> DEFINE f == [c \in DOMAIN fields \cup {b} |-> IF c = b THEN Field("empty", TRUE, "editing")
                                              ELSE fields[c]]
    <2>1. DOMAIN fields \in SUBSET Bits /\ fields \in [DOMAIN fields -> SoundStates]
      BY <1>0, RowsRead DEF StoreTyped
    <2>2. Field("empty", TRUE, "editing") \in SoundStates BY FieldSound DEF Values
    <2>3. f \in [(DOMAIN fields \cup {b}) -> SoundStates] BY <2>1, <2>2
    <2>4. Edited(f) BY <2>0 DEF AddField
    <2> HIDE DEF f
    <2>5. (DOMAIN fields \cup {b}) \in SUBSET Bits BY <2>1
    <2>6. f \in SoundFields BY <2>3, <2>5, MapMade DEF SoundFields
    <2> QED BY <2>4, <2>6, TableEdited
  <1>15. CASE \E b \in Bits : OnRegenerateField(b)
    <2>0. PICK b \in Bits : OnRegenerateField(b) BY <1>15
    <2>1. UNCHANGED <<mti, fields, built, onPage, liveTimer, live, unsettled>> /\ contextChanged' = contextChanged
      BY <2>0 DEF OnRegenerateField
    <2>2. contextChanged' \in BOOLEAN BY <1>0, <2>1 DEF BdFlagsOK
    <2>3. BdFlagsOK' /\ StoreTyped' /\ TimerHasMessage' /\ PreviewIsCurrent' BY <2>1, <2>2, Unscheduled
    <2>4. BuildsTyped' BY <1>0, <2>0 DEF OnRegenerateField, BuildsTyped
    <2> QED BY <2>3, <2>4 DEF BdBody
  <1> QED BY <1>1, <1>2, <1>3, <1>4, <1>5, <1>6, <1>7, <1>8, <1>9, <1>10, <1>11, <1>12, <1>13, <1>14, <1>15 DEF UserActs

\* What answers and timers do.
BuilderAnswers ==
  BuildLands \/ BuildFails \/ SupersededLands \/ LiveRebuild \/ LiveLands \/ \E b \in Bits : ReplaceField(b)

\* Every answer, in whatever order they land, keeps the invariant.
LEMMA AnswerStep == BdBody /\ BuilderAnswers => BdBody'
  <1> SUFFICES ASSUME BdBody, BuilderAnswers PROVE BdBody' OBVIOUS
  <1>0. BdFlagsOK /\ StoreTyped /\ BuildsTyped /\ TimerHasMessage /\ PreviewIsCurrent BY DEF BdBody
  <1>1. CASE BuildLands
    <2>1. /\ building # NoBuild /\ building' = NoBuild /\ SetBuiltResult(building, fields) /\ Schedule
          /\ UNCHANGED <<mti, onPage, superseded, live, regenerating>>
      BY <1>1 DEF BuildLands
    <2>2. building \in Builds8583 /\ fields \in SoundFields BY <1>0, <2>1 DEF BuildsTyped, StoreTyped
    <2>3. fields' \in SoundFields /\ built' \in Messages8583 /\ contextChanged' = FALSE
      BY <2>1, <2>2, AnswerMerged
    <2>4. StoreTyped' BY <1>0, <2>1, <2>3 DEF StoreTyped
    <2>5. BuildsTyped' BY <1>0, <2>1 DEF BuildsTyped
    <2>6. onPage' \in BOOLEAN /\ contextChanged' \in BOOLEAN BY <1>0, <2>1, <2>3 DEF BdFlagsOK
    <2>7. BdFlagsOK' /\ TimerHasMessage' /\ PreviewIsCurrent' BY <1>0, <2>1, <2>6, Scheduled
    <2> QED BY <2>4, <2>5, <2>7 DEF BdBody
  <1>2. CASE BuildFails
    <2>1. UNCHANGED <<mti, fields, built, onPage, liveTimer, live, unsettled>> /\ contextChanged' \in {contextChanged, FALSE}
      BY <1>2 DEF BuildFails, requests8583
    <2>2. contextChanged' \in BOOLEAN BY <1>0, <2>1 DEF BdFlagsOK
    <2>3. BdFlagsOK' /\ StoreTyped' /\ TimerHasMessage' /\ PreviewIsCurrent' BY <2>1, <2>2, Unscheduled
    <2>4. BuildsTyped' BY <1>0, <1>2, <2>1 DEF BuildFails, requests8583, BuildsTyped
    <2> QED BY <2>3, <2>4 DEF BdBody
  <1>3. CASE SupersededLands
    <2>1. superseded # NoBuild /\ superseded' = NoBuild /\ UNCHANGED <<mti, building, live, regenerating>>
      BY <1>3 DEF SupersededLands
    <2>2. BuildsTyped' BY <1>0, <2>1 DEF BuildsTyped
    <2>3. CASE UNCHANGED <<fields, built, contextChanged, onPage, liveTimer, unsettled>>
      <3>1. contextChanged' \in BOOLEAN BY <1>0, <2>3 DEF BdFlagsOK
      <3>2. BdFlagsOK' /\ StoreTyped' /\ TimerHasMessage' /\ PreviewIsCurrent' BY <2>1, <2>3, <3>1, Unscheduled
      <3> QED BY <2>2, <3>2 DEF BdBody
    <2>4. CASE SetBuiltResult(superseded.request, superseded.held) /\ onPage' = onPage /\ Schedule
      <3>1. superseded.request \in Builds8583 /\ superseded.held \in SoundFields
        BY <1>0, <2>1 DEF BuildsTyped
      <3>2. fields' \in SoundFields /\ built' \in Messages8583 /\ contextChanged' = FALSE
        BY <2>4, <3>1, AnswerMerged
      <3>3. StoreTyped' BY <1>0, <2>1, <3>2 DEF StoreTyped
      <3>4. onPage' \in BOOLEAN /\ contextChanged' \in BOOLEAN BY <1>0, <2>4, <3>2 DEF BdFlagsOK
      <3>5. BdFlagsOK' /\ TimerHasMessage' /\ PreviewIsCurrent' BY <1>0, <2>1, <2>4, <3>4, Scheduled
      <3> QED BY <2>2, <3>3, <3>5 DEF BdBody
    <2> QED BY <1>3, <2>3, <2>4 DEF SupersededLands
  <1>4. CASE LiveRebuild
    <2>1. /\ liveTimer /\ liveTimer' = FALSE /\ live' = Preview
          /\ UNCHANGED <<mti, fields, built, contextChanged, onPage, building, superseded, regenerating, unsettled>>
      BY <1>4 DEF LiveRebuild, Preview
    <2>2. Preview \in Messages8583 BY <1>0, RowsRead DEF Preview, Messages8583, StoreTyped
    <2>3. BdFlagsOK' BY <1>0, <2>1 DEF BdFlagsOK
    <2>4. StoreTyped' BY <1>0, <2>1 DEF StoreTyped
    <2>5. BuildsTyped' BY <1>0, <2>1, <2>2 DEF BuildsTyped
    <2>6. TimerHasMessage' BY <2>1 DEF TimerHasMessage
    <2>7. built # NoBuild /\ fields # <<>> BY <1>0, <2>1 DEF TimerHasMessage
    <2>8. live' # NoBuild BY <2>1, <2>2, BuilderAssumption
    <2>9. PreviewIsCurrent' BY <2>1, <2>7, <2>8 DEF PreviewIsCurrent, Preview
    <2> QED BY <2>3, <2>4, <2>5, <2>6, <2>9 DEF BdBody
  <1>5. CASE LiveLands
    <2>1. /\ live # NoBuild /\ live' = NoBuild
          /\ (built' = live /\ unsettled' = unsettled) \/ (built' = built /\ unsettled' = TRUE)
          /\ UNCHANGED <<mti, fields, contextChanged, onPage, building, superseded, liveTimer, regenerating>>
      BY <1>5 DEF LiveLands
    <2>2. live \in Messages8583 BY <1>0, <2>1 DEF BuildsTyped
    <2>3. unsettled' \in BOOLEAN BY <1>0, <2>1 DEF BdFlagsOK
    <2>4. BdFlagsOK' BY <1>0, <2>1, <2>3 DEF BdFlagsOK
    <2>5. StoreTyped' BY <1>0, <2>1, <2>2 DEF StoreTyped
    <2>6. BuildsTyped' BY <1>0, <2>1 DEF BuildsTyped
    <2>7. TimerHasMessage' BY <1>0, <2>1 DEF TimerHasMessage
    <2>8. PreviewIsCurrent' BY <1>0, <2>1 DEF PreviewIsCurrent, Preview
    <2> QED BY <2>4, <2>5, <2>6, <2>7, <2>8 DEF BdBody
  <1>6. CASE \E b \in Bits : ReplaceField(b)
    <2>0. PICK b \in Bits : ReplaceField(b) BY <1>6
    <2>1. regenerating' \subseteq regenerating /\ UNCHANGED <<mti, built, contextChanged, onPage, building, superseded, live>>
      BY <2>0 DEF ReplaceField
    <2>2. BuildsTyped' BY <1>0, <2>1 DEF BuildsTyped
    <2>3. onPage' \in BOOLEAN /\ contextChanged' \in BOOLEAN BY <1>0, <2>1 DEF BdFlagsOK
    <2>4. CASE UNCHANGED <<fields, liveTimer, unsettled>>
      <3>1. BdFlagsOK' /\ StoreTyped' /\ TimerHasMessage' /\ PreviewIsCurrent' BY <2>1, <2>3, <2>4, Unscheduled
      <3> QED BY <2>2, <3>1 DEF BdBody
    <2>5. CASE /\ b \in DOMAIN fields /\ Schedule
               /\ fields' = [fields EXCEPT ![b] = IF @.locked THEN [@ EXCEPT !.status = "ok"]
                                                  ELSE Field("fresh", FALSE, "ok")]
      <3>1. DOMAIN fields \in SUBSET Bits /\ fields \in [DOMAIN fields -> SoundStates]
        BY <1>0, RowsRead DEF StoreTyped
      <3>2. [fields[b] EXCEPT !.status = "ok"] \in SoundStates /\ Field("fresh", FALSE, "ok") \in SoundStates
        BY <2>5, <3>1, FieldSound, StatusKeepsValue DEF Values
      <3>3. fields' \in [DOMAIN fields -> SoundStates] BY <2>5, <3>1, <3>2
      <3>4. fields' \in SoundFields BY <3>1, <3>3, MapMade DEF SoundFields
      <3>5. StoreTyped' BY <1>0, <2>1, <3>4 DEF StoreTyped
      <3>6. BdFlagsOK' /\ TimerHasMessage' /\ PreviewIsCurrent' BY <1>0, <2>1, <2>3, <2>5, Scheduled
      <3> QED BY <2>2, <3>5, <3>6 DEF BdBody
    <2> QED BY <2>0, <2>4, <2>5 DEF ReplaceField
  <1> QED BY <1>1, <1>2, <1>3, <1>4, <1>5, <1>6 DEF BuilderAnswers

\* The invariant holds of the empty builder.
LEMMA BdInitially == BdInit => BdInv
  <1> SUFFICES ASSUME BdInit PROVE BdInv OBVIOUS
  <1>1. BdFlagsOK BY DEF BdInit, BdFlagsOK
  <1>2. StoreTyped BY NoFields DEF BdInit, StoreTyped, MTIs, SoundFields
  <1>3. BuildsTyped BY DEF BdInit, BuildsTyped
  <1>4. TimerHasMessage /\ PreviewIsCurrent BY DEF BdInit, TimerHasMessage, PreviewIsCurrent
  <1>5. clicks \in 0 .. MaxClicks BY BuilderAssumption DEF BdInit
  <1> QED BY <1>1, <1>2, <1>3, <1>4, <1>5 DEF BdInv, BdBody

\* Every step of the builder keeps the invariant.
LEMMA BdStep == BdInv /\ [BdNext]_bdVars => BdInv'
  <1> SUFFICES ASSUME BdInv, [BdNext]_bdVars PROVE BdInv' OBVIOUS
  <1>0. BdBody /\ clicks \in 0 .. MaxClicks BY DEF BdInv
  <1>1. CASE clicks < MaxClicks /\ clicks' = clicks + 1 /\ UserActs
    <2>1. clicks' \in 0 .. MaxClicks BY <1>0, <1>1, BuilderAssumption
    <2> QED BY <1>0, <1>1, <2>1, UserStep DEF BdInv
  <1>2. CASE BuilderAnswers /\ UNCHANGED clicks
    BY <1>0, <1>2, AnswerStep DEF BdInv
  <1>3. CASE UNCHANGED bdVars
    <2>1. UNCHANGED <<mti, fields, built, contextChanged, onPage, building, superseded, liveTimer, live,
                      regenerating, unsettled, clicks>>
      BY <1>3 DEF bdVars
    <2>2. BdFlagsOK /\ StoreTyped /\ BuildsTyped BY <1>0 DEF BdBody
    <2>3. contextChanged' \in BOOLEAN BY <2>1, <2>2 DEF BdFlagsOK
    <2>4. BdFlagsOK' /\ StoreTyped' /\ TimerHasMessage' /\ PreviewIsCurrent' BY <1>0, <2>1, <2>3, Unscheduled
    <2>5. BuildsTyped' BY <2>1, <2>2 DEF BuildsTyped
    <2> QED BY <1>0, <2>1, <2>4, <2>5 DEF BdInv, BdBody
  <1> QED BY <1>1, <1>2, <1>3 DEF BdNext, BuilderAnswers

\* The invariant gives the type invariant and what the run checks of the rows.
LEMMA BdParts == BdInv => BdTypeOK /\ RowsSettle
  <1> SUFFICES ASSUME BdInv PROVE BdTypeOK /\ RowsSettle OBVIOUS
  <1>0. /\ BdFlagsOK /\ StoreTyped /\ BuildsTyped /\ PreviewIsCurrent /\ clicks \in 0 .. MaxClicks
    BY DEF BdInv, BdBody
  <1>1. fields \in SoundFields BY <1>0 DEF StoreTyped
  <1>2. superseded \in Orphans8583 \cup {NoBuild}
    <2>1. CASE superseded = NoBuild BY <2>1
    <2>2. CASE superseded # NoBuild
      <3>1. superseded \in [request : Builds8583, held : SoundFields] BY <1>0, <2>2 DEF BuildsTyped
      <3>2. superseded.held \in FieldTables BY <3>1, SoundIsTyped
      <3> QED BY <3>1, <3>2 DEF Orphans8583
    <2> QED BY <2>1, <2>2
  <1>3. BdTypeOK BY <1>0, <1>1, <1>2, SoundIsTyped DEF BdTypeOK, StoreTyped, BuildsTyped
  <1>4. PreviewSettles BY <1>0 DEF PreviewSettles, PreviewIsCurrent, Preview
  <1>5. StaleIsUnlocked
    <2>1. \A b \in DOMAIN fields : fields[b] \in SoundStates BY <1>1, RowsRead
    <2> QED BY <2>1 DEF StaleIsUnlocked, SoundStates
  <1> QED BY <1>3, <1>4, <1>5 DEF RowsSettle

\* No answer changes the value of a row that is locked when it lands.
LEMMA TypedStay ==
  ASSUME BdInv, BuildLands \/ LiveLands \/ (\E b \in Bits : ReplaceField(b)),
         NEW k \in DOMAIN fields, fields[k].locked, k \in DOMAIN fields'
  PROVE  fields'[k].value = fields[k].value
  <1>0. fields \in SoundFields /\ BuildsTyped BY DEF BdInv, BdBody, StoreTyped
  <1>1. CASE BuildLands
    <2>1. building \in Builds8583 /\ SetBuiltResult(building, fields) BY <1>0, <1>1 DEF BuildLands, BuildsTyped
    <2>2. fields'[k] = fields[k] BY <1>0, <2>1, AnswerMerged
    <2> QED BY <2>2
  <1>2. CASE LiveLands BY <1>2 DEF LiveLands
  <1>3. ASSUME NEW b \in Bits, ReplaceField(b) PROVE fields'[k].value = fields[k].value
    <2>1. fields \in [DOMAIN fields -> SoundStates] BY <1>0, RowsRead
    <2>2. CASE UNCHANGED fields BY <2>2
    <2>3. CASE /\ b \in DOMAIN fields
               /\ fields' = [fields EXCEPT ![b] = IF @.locked THEN [@ EXCEPT !.status = "ok"]
                                                  ELSE Field("fresh", FALSE, "ok")]
      <3>1. CASE k # b BY <2>1, <2>3, <3>1
      <3>2. CASE k = b
        <4>1. fields'[k] = [fields[k] EXCEPT !.status = "ok"] BY <2>1, <2>3, <3>2
        <4>2. fields[k] \in SoundStates BY <2>1
        <4> QED BY <4>1, <4>2, StatusKeepsValue
      <3> QED BY <3>1, <3>2
    <2> QED BY <1>3, <2>2, <2>3 DEF ReplaceField
  <1> QED BY <1>1, <1>2, <1>3

\* However builds, rebuilds and regenerations answer out of turn, a value the user has typed
\* stays as typed: the answer to a request made before it was typed changes other rows only.
THEOREM TypedStays == BdSpec => TypedValuesStay
  <1> DEFINE Kept ==
        BuildLands \/ LiveLands \/ (\E b \in Bits : ReplaceField(b)) =>
          \A b \in DOMAIN fields : fields[b].locked /\ b \in DOMAIN fields' =>
            fields'[b].value = fields[b].value
  <1>1. BdInv => Kept BY TypedStay
  <1>2. BdInv /\ [BdNext]_bdVars => [Kept]_bdVars BY <1>1
  <1> QED BY BdInitially, BdStep, <1>2, PTL DEF BdSpec, TypedValuesStay

(***************************************************************************)
(* EmvWorkbench: what is parsed is of the text of the tab, and what        *)
(* arrives is parsed once, for every set of tabs and texts.                *)
(***************************************************************************)
\* A request has a number of its own, and the one the open tab observes is under way.
EmvNumbered ==
  /\ \A c \in emvCalls : c[1] <= askedCount
  /\ \A c, d \in emvCalls : c[1] = d[1] => c = d
AskedIsOpen == emvOn /\ emvAsked # NoAnswer => <<emvAsked[1], activeTab, emvAsked[2]>> \in emvCalls

\* While the text found on mounting is untouched, a request of the parse tab is of that
\* text, and is the one observed.
ArrivalIsAsked ==
  emvOn /\ activeTab = "parse" /\ arrival # NoAnswer =>
    /\ inputs["parse"] = arrival
    /\ \A c \in emvCalls : c[2] = "parse" => emvAsked = <<c[1], c[3]>> /\ c[3] = arrival

EmvInv ==
  /\ EmvFlagsOK /\ EmvTypeOK /\ EmvNumbered /\ AskedIsOpen /\ ArrivalIsAsked
  /\ ParsingIsOfText /\ ArrivedIsParsed /\ HintIsTrue

\* A request made.
LEMMA EmvAsks ==
  ASSUME EmvTypeOK, EmvNumbered, NEW t \in EmvTabs, NEW i \in EmvInputs, Ask(t, i)
  PROVE  /\ askedCount' \in 0 .. MaxAsked /\ emvError' = FALSE
         /\ emvAsked' = <<askedCount', i>> /\ emvAsked' \in Asking
         /\ emvCalls' = emvCalls \cup {<<askedCount', t, i>>} /\ emvCalls' \subseteq EmvCalls
         /\ EmvNumbered'
  <1>1. /\ askedCount' = askedCount + 1 /\ askedCount' \in 1 .. MaxAsked
        /\ emvCalls' = emvCalls \cup {<<askedCount', t, i>>}
        /\ emvAsked' = <<askedCount', i>> /\ emvError' = FALSE
    BY EmvAssumption DEF Ask, EmvTypeOK
  <1>2. <<askedCount', i>> \in Asking /\ <<askedCount', t, i>> \in EmvCalls
    BY <1>1 DEF Asking, EmvCalls
  <1>3. emvCalls' \subseteq EmvCalls BY <1>1, <1>2 DEF EmvTypeOK
  <1>4. \A c \in emvCalls : c[1] \in Nat /\ c[1] < askedCount'
    BY <1>1 DEF EmvTypeOK, EmvCalls, EmvNumbered
  <1>5. EmvNumbered' BY <1>1, <1>4 DEF EmvNumbered
  <1> QED BY <1>1, <1>2, <1>3, <1>5

\* What the mounting of a tab leaves: nothing observed, or a request for what it found.
LEMMA EmvMounts ==
  ASSUME EmvTypeOK, EmvNumbered, NEW t \in EmvTabs, MountTab(t), inputs' \in [EmvTabs -> EmvInputs]
  PROVE  /\ askedCount' \in 0 .. MaxAsked /\ emvError' = FALSE /\ emvCalls' \subseteq EmvCalls
         /\ EmvNumbered'
         /\ \/ /\ emvAsked' = NoAnswer /\ UNCHANGED emvCalls
               /\ ~(t = "parse" /\ inputs'["parse"].hex # BlankHex /\ results'["parse"] = NoAnswer)
            \/ /\ t = "parse" /\ emvAsked' = <<askedCount', inputs'["parse"]>> /\ emvAsked' \in Asking
               /\ emvCalls' = emvCalls \cup {<<askedCount', t, inputs'["parse"]>>}
  <1>1. CASE t = "parse" /\ inputs'["parse"].hex # BlankHex /\ results'["parse"] = NoAnswer
    <2>1. Ask("parse", inputs'["parse"]) BY <1>1 DEF MountTab
    <2>2. inputs'["parse"] \in EmvInputs BY <1>1
    <2>3. /\ askedCount' \in 0 .. MaxAsked /\ emvError' = FALSE
          /\ emvAsked' = <<askedCount', inputs'["parse"]>> /\ emvAsked' \in Asking
          /\ emvCalls' = emvCalls \cup {<<askedCount', "parse", inputs'["parse"]>>}
          /\ emvCalls' \subseteq EmvCalls /\ EmvNumbered'
      BY <1>1, <2>1, <2>2, EmvAsks
    <2> QED BY <1>1, <2>3
  <1>2. CASE ~(t = "parse" /\ inputs'["parse"].hex # BlankHex /\ results'["parse"] = NoAnswer)
    <2>1. emvAsked' = NoAnswer /\ emvError' = FALSE /\ UNCHANGED <<emvCalls, askedCount>>
      BY <1>2 DEF MountTab
    <2>2. EmvNumbered' BY <2>1 DEF EmvNumbered
    <2> QED BY <1>2, <2>1, <2>2 DEF EmvTypeOK
  <1> QED BY <1>1, <1>2

\* A page or a tab that is opened, whatever was loaded into it first.
LEMMA EmvOpens ==
  ASSUME EmvInv, emvOn' = TRUE, activeTab' \in EmvTabs, MountTab(activeTab'),
         Arrives(activeTab', emvAsked' # NoAnswer), UNCHANGED cryptoEnabled,
         inputs' \in [EmvTabs -> EmvInputs], results' \in [EmvTabs -> EmvInputs \cup {NoAnswer}],
         loaded' \in EmvInputs, loadedFromParser' \in BOOLEAN, HintIsTrue'
  PROVE  EmvInv'
  <1>0. EmvFlagsOK /\ EmvTypeOK /\ EmvNumbered BY DEF EmvInv
  <1>1. /\ askedCount' \in 0 .. MaxAsked /\ emvError' = FALSE /\ emvCalls' \subseteq EmvCalls
        /\ EmvNumbered'
        /\ \/ emvAsked' = NoAnswer /\ UNCHANGED emvCalls
           \/ /\ activeTab' = "parse" /\ emvAsked' = <<askedCount', inputs'["parse"]>>
              /\ emvAsked' \in Asking
              /\ emvCalls' = emvCalls \cup {<<askedCount', activeTab', inputs'["parse"]>>}
    BY <1>0, EmvMounts
  <1>2. /\ "parse" \in EmvTabs /\ inputs'["parse"] \in EmvInputs /\ inputs'["parse"] # NoAnswer
        /\ NoAnswer \notin Asking
    BY EmvAssumption
  <1>3. arrival' \in {inputs'["parse"], NoAnswer} BY DEF Arrives
  <1>4. arrival' # NoAnswer =>
          /\ arrival' = inputs'["parse"] /\ emvAsked' # NoAnswer /\ \A c \in emvCalls : c[2] # "parse"
    BY DEF Arrives
  <1>5. EmvFlagsOK' BY <1>0, <1>1 DEF EmvFlagsOK
  <1>6. EmvTypeOK' BY <1>1, <1>2, <1>3, <1>5 DEF EmvTypeOK
  <1>7. AskedIsOpen' BY <1>1 DEF AskedIsOpen
  <1>8. ArrivalIsAsked'
    <2> SUFFICES ASSUME arrival' # NoAnswer
                 PROVE  /\ inputs'["parse"] = arrival'
                        /\ \A c \in emvCalls' : c[2] = "parse" =>
                             emvAsked' = <<c[1], c[3]>> /\ c[3] = arrival'
      BY DEF ArrivalIsAsked
    <2> QED BY <1>1, <1>4
  <1>9. ParsingIsOfText' BY <1>1 DEF ParsingIsOfText
  <1>10. ArrivedIsParsed' BY <1>4 DEF ArrivedIsParsed
  <1> QED BY <1>1, <1>5, <1>6, <1>7, <1>8, <1>9, <1>10 DEF EmvInv

\* The invariant holds of the EMV page as it is first opened.
LEMMA EmvInitially == EmvInit => EmvInv
  <1> SUFFICES ASSUME EmvInit PROVE EmvInv OBVIOUS
  <1>1. EmvFlagsOK BY DEF EmvFlagsOK, EmvInit
  <1>2. EmvTypeOK
    <2>1. DefaultInput \in EmvInputs BY DEF DefaultInput, EmvInputs
    <2>2. activeTab \in EmvTabs BY EmvAssumption DEF EmvInit
    <2> QED BY <1>1, <2>1, <2>2, EmvAssumption DEF EmvTypeOK, EmvInit
  <1>3. EmvNumbered BY DEF EmvNumbered, EmvInit
  <1>4. AskedIsOpen BY DEF AskedIsOpen, EmvInit
  <1>5. ArrivalIsAsked BY DEF ArrivalIsAsked, EmvInit
  <1>6. ParsingIsOfText BY DEF ParsingIsOfText, EmvInit
  <1>7. ArrivedIsParsed BY DEF ArrivedIsParsed, EmvInit
  <1>8. HintIsTrue BY DEF HintIsTrue, EmvInit
  <1> QED BY <1>1, <1>2, <1>3, <1>4, <1>5, <1>6, <1>7, <1>8 DEF EmvInv

\* Every step keeps the invariant.
LEMMA EmvStep == EmvInv /\ [EmvNext]_emvVars => EmvInv'
  <1> SUFFICES ASSUME EmvInv, [EmvNext]_emvVars PROVE EmvInv' OBVIOUS
  <1>0. EmvFlagsOK /\ EmvTypeOK /\ EmvNumbered /\ AskedIsOpen /\ ArrivalIsAsked /\ ParsingIsOfText /\ ArrivedIsParsed /\ HintIsTrue
    BY DEF EmvInv
  <1>1. CASE OpenEmv
    <2>1. /\ emvOn' = TRUE /\ activeTab' = activeTab
          /\ UNCHANGED <<inputs, results, loadedFromParser, cryptoEnabled, loaded>>
          /\ MountTab(activeTab') /\ Arrives(activeTab', emvAsked' # NoAnswer)
      BY <1>1 DEF OpenEmv
    <2>2. HintIsTrue' BY <1>0, <2>1 DEF HintIsTrue
    <2>3. loadedFromParser' \in BOOLEAN BY <1>0, <2>1 DEF EmvFlagsOK
    <2> QED BY <1>0, <2>1, <2>2, <2>3, EmvOpens DEF EmvTypeOK
  <1>2. CASE SetActiveTab
    <2>1. /\ emvOn' = TRUE /\ activeTab' \in EmvTabs
          /\ UNCHANGED <<inputs, results, loadedFromParser, cryptoEnabled, loaded>>
          /\ MountTab(activeTab') /\ Arrives(activeTab', emvAsked' # NoAnswer)
      BY <1>2 DEF SetActiveTab
    <2>2. HintIsTrue' BY <1>0, <2>1 DEF HintIsTrue
    <2>3. loadedFromParser' \in BOOLEAN BY <1>0, <2>1 DEF EmvFlagsOK
    <2> QED BY <1>0, <2>1, <2>2, <2>3, EmvOpens DEF EmvTypeOK
  <1>3. CASE LeaveEmv
    <2>1. EmvFlagsOK' BY <1>0, <1>3 DEF EmvFlagsOK, LeaveEmv
    <2>2. EmvTypeOK' BY <1>0, <1>3, EmvAssumption, <2>1 DEF EmvTypeOK, LeaveEmv
    <2>3. EmvNumbered' BY <1>0, <1>3 DEF EmvNumbered, LeaveEmv
    <2>4. AskedIsOpen' BY <1>0, <1>3 DEF AskedIsOpen, LeaveEmv
    <2>5. ArrivalIsAsked' BY <1>0, <1>3 DEF ArrivalIsAsked, LeaveEmv
    <2>6. ParsingIsOfText' BY <1>0, <1>3 DEF ParsingIsOfText, LeaveEmv
    <2>7. ArrivedIsParsed' BY <1>0, <1>3 DEF ArrivedIsParsed, LeaveEmv
    <2>8. HintIsTrue' BY <1>0, <1>3 DEF HintIsTrue, LeaveEmv
    <2> QED BY <2>1, <2>2, <2>3, <2>4, <2>5, <2>6, <2>7, <2>8 DEF EmvInv
  <1>4. CASE ReloadEmv
    <2>1. "parse" \in EmvTabs /\ "validate" \in EmvTabs BY EmvAssumption
    <2>2. EmvFlagsOK' BY <1>0, <1>4, <2>1 DEF EmvFlagsOK, ReloadEmv
    <2>3. EmvTypeOK' BY <1>0, <1>4, <2>1, EmvAssumption, <2>2 DEF EmvTypeOK, ReloadEmv
    <2>4. EmvNumbered' BY <1>0, <1>4, <2>1 DEF EmvNumbered, ReloadEmv
    <2>5. AskedIsOpen' BY <1>0, <1>4, <2>1 DEF AskedIsOpen, ReloadEmv
    <2>6. ArrivalIsAsked' BY <1>0, <1>4, <2>1 DEF ArrivalIsAsked, ReloadEmv
    <2>7. ParsingIsOfText' BY <1>0, <1>4, <2>1 DEF ParsingIsOfText, ReloadEmv
    <2>8. ArrivedIsParsed' BY <1>0, <1>4, <2>1 DEF ArrivedIsParsed, ReloadEmv
    <2>9. HintIsTrue' BY <1>0, <1>4, <2>1 DEF HintIsTrue, ReloadEmv
    <2> QED BY <2>2, <2>3, <2>4, <2>5, <2>6, <2>7, <2>8, <2>9 DEF EmvInv
  <1>5. CASE EditTab
    <2>1. "parse" \in EmvTabs /\ "validate" \in EmvTabs BY EmvAssumption
    <2>2. EmvFlagsOK' BY <1>0, <1>5, <2>1 DEF EmvFlagsOK, EmvTypeOK, mutation, EditTab
    <2>3. EmvTypeOK' BY <1>0, <1>5, <2>1, EmvAssumption, <2>2 DEF EmvTypeOK, mutation, EditTab
    <2>4. EmvNumbered' BY <1>0, <1>5, <2>1 DEF EmvNumbered, EmvTypeOK, mutation, EditTab
    <2>5. AskedIsOpen' BY <1>0, <1>5, <2>1 DEF AskedIsOpen, EmvTypeOK, mutation, EditTab
    <2>6. ArrivalIsAsked' BY <1>0, <1>5, <2>1 DEF ArrivalIsAsked, EmvTypeOK, mutation, EditTab
    <2>7. ParsingIsOfText' BY <1>0, <1>5, <2>1 DEF ParsingIsOfText, EmvTypeOK, mutation, EditTab
    <2>8. ArrivedIsParsed' BY <1>0, <1>5, <2>1 DEF ArrivedIsParsed, EmvTypeOK, mutation, EditTab
    <2>9. HintIsTrue' BY <1>0, <1>5, <2>1 DEF HintIsTrue, EmvTypeOK, mutation, EditTab
    <2> QED BY <2>2, <2>3, <2>4, <2>5, <2>6, <2>7, <2>8, <2>9 DEF EmvInv
  <1>6. CASE HintExpires
    <2>1. EmvFlagsOK' BY <1>0, <1>6 DEF EmvFlagsOK, mutation, HintExpires
    <2>2. EmvTypeOK' BY <1>0, <1>6, EmvAssumption, <2>1 DEF EmvTypeOK, mutation, HintExpires
    <2>3. EmvNumbered' BY <1>0, <1>6 DEF EmvNumbered, mutation, HintExpires
    <2>4. AskedIsOpen' BY <1>0, <1>6 DEF AskedIsOpen, mutation, HintExpires
    <2>5. ArrivalIsAsked' BY <1>0, <1>6 DEF ArrivalIsAsked, mutation, HintExpires
    <2>6. ParsingIsOfText' BY <1>0, <1>6 DEF ParsingIsOfText, mutation, HintExpires
    <2>7. ArrivedIsParsed' BY <1>0, <1>6 DEF ArrivedIsParsed, mutation, HintExpires
    <2>8. HintIsTrue' BY <1>0, <1>6 DEF HintIsTrue, mutation, HintExpires
    <2> QED BY <2>1, <2>2, <2>3, <2>4, <2>5, <2>6, <2>7, <2>8 DEF EmvInv
  <1>7. CASE RunTab
    <2>1. /\ emvOn /\ emvAsked = NoAnswer /\ Ask(activeTab, inputs[activeTab])
          /\ UNCHANGED <<activeTab, inputs, results, loadedFromParser, emvOn, cryptoEnabled,
                         arrival, loaded>>
      BY <1>7 DEF RunTab
    <2>2. activeTab \in EmvTabs /\ inputs[activeTab] \in EmvInputs BY <1>0 DEF EmvTypeOK
    <2>3. /\ askedCount' \in 0 .. MaxAsked /\ emvError' = FALSE
          /\ emvAsked' = <<askedCount', inputs[activeTab]>> /\ emvAsked' \in Asking
          /\ emvCalls' = emvCalls \cup {<<askedCount', activeTab, inputs[activeTab]>>}
          /\ emvCalls' \subseteq EmvCalls /\ EmvNumbered'
      BY <1>0, <2>1, <2>2, EmvAsks
    <2>4. EmvFlagsOK' BY <1>0, <2>1, <2>3 DEF EmvFlagsOK
    <2>5. EmvTypeOK' BY <1>0, <2>1, <2>3, <2>4 DEF EmvTypeOK
    <2>6. AskedIsOpen' BY <2>1, <2>3 DEF AskedIsOpen
    <2>7. ArrivalIsAsked'
      <3>1. \A c \in emvCalls : emvAsked # <<c[1], c[3]>>
        BY <1>0, <2>1, EmvAssumption DEF EmvTypeOK, EmvCalls, Asking
      <3> QED BY <1>0, <2>1, <2>3, <3>1 DEF ArrivalIsAsked
    <2>8. ParsingIsOfText' BY <2>1, <2>3 DEF ParsingIsOfText
    <2>9. ArrivedIsParsed' BY <2>3, EmvAssumption DEF ArrivedIsParsed
    <2>10. HintIsTrue' BY <1>0, <2>1 DEF HintIsTrue
    <2> QED BY <2>3, <2>4, <2>5, <2>6, <2>7, <2>8, <2>9, <2>10 DEF EmvInv
  <1>8. CASE ClearTab
    <2>1. "parse" \in EmvTabs /\ "validate" \in EmvTabs BY EmvAssumption
    <2>2. DefaultInput \in EmvInputs BY DEF DefaultInput, EmvInputs
    <2>3. EmvFlagsOK' BY <1>0, <1>8, <2>1, <2>2 DEF EmvFlagsOK, EmvTypeOK, mutation, ClearTab
    <2>4. EmvTypeOK'
      BY <1>0, <1>8, <2>1, <2>2, EmvAssumption, <2>3
      DEF EmvTypeOK, mutation, ClearTab
    <2>5. EmvNumbered' BY <1>0, <1>8, <2>1, <2>2 DEF EmvNumbered, EmvTypeOK, mutation, ClearTab
    <2>6. AskedIsOpen' BY <1>0, <1>8, <2>1, <2>2 DEF AskedIsOpen, EmvTypeOK, mutation, ClearTab
    <2>7. ArrivalIsAsked'
      BY <1>0, <1>8, <2>1, <2>2
      DEF ArrivalIsAsked, EmvTypeOK, mutation, ClearTab
    <2>8. ParsingIsOfText'
      BY <1>0, <1>8, <2>1, <2>2
      DEF ParsingIsOfText, EmvTypeOK, mutation, ClearTab
    <2>9. ArrivedIsParsed'
      BY <1>0, <1>8, <2>1, <2>2
      DEF ArrivedIsParsed, EmvTypeOK, mutation, ClearTab
    <2>10. HintIsTrue' BY <1>0, <1>8, <2>1, <2>2 DEF HintIsTrue, EmvTypeOK, mutation, ClearTab
    <2> QED BY <2>3, <2>4, <2>5, <2>6, <2>7, <2>8, <2>9, <2>10 DEF EmvInv
  <1>9. CASE EmvAnswered
    <2>1. PICK c \in emvCalls :
            /\ emvCalls' = emvCalls \ {c}
            /\ \/ results' = [results EXCEPT ![c[2]] = c[3]] /\ UNCHANGED emvError
               \/ emvError' = (emvError \/ emvAsked = <<c[1], c[3]>>) /\ UNCHANGED results
            /\ emvAsked' = IF emvAsked = <<c[1], c[3]>> THEN NoAnswer ELSE emvAsked
            /\ UNCHANGED <<activeTab, inputs, loadedFromParser, emvOn, cryptoEnabled, askedCount,
                           arrival, loaded>>
      BY <1>9 DEF EmvAnswered
    <2>2. c[1] \in 1 .. MaxAsked /\ c[2] \in EmvTabs /\ c[3] \in EmvInputs /\ c = <<c[1], c[2], c[3]>>
      BY <1>0 DEF EmvTypeOK, EmvCalls
    <2>3. emvError' \in BOOLEAN BY <1>0, <2>1 DEF EmvFlagsOK
    <2>4. EmvFlagsOK' BY <1>0, <2>1, <2>3 DEF EmvFlagsOK
    <2>5. results' \in [EmvTabs -> EmvInputs \cup {NoAnswer}] BY <1>0, <2>1, <2>2 DEF EmvTypeOK
    <2>6. EmvTypeOK' BY <1>0, <2>1, <2>4, <2>5 DEF EmvTypeOK
    <2>7. EmvNumbered' BY <1>0, <2>1 DEF EmvNumbered
    <2>8. AskedIsOpen'
      <3> SUFFICES ASSUME emvOn, emvAsked' # NoAnswer
                   PROVE  <<emvAsked[1], activeTab, emvAsked[2]>> \in emvCalls'
        BY <2>1 DEF AskedIsOpen
      <3>1. emvAsked # <<c[1], c[3]>> /\ emvAsked \in Asking BY <1>0, <2>1 DEF EmvTypeOK
      <3>2. emvAsked = <<emvAsked[1], emvAsked[2]>> BY <3>1 DEF Asking
      <3>3. <<emvAsked[1], activeTab, emvAsked[2]>> # c BY <2>2, <3>1, <3>2
      <3> QED BY <1>0, <2>1, <3>1, <3>3 DEF AskedIsOpen
    <2>9. ArrivalIsAsked'
      <3> SUFFICES ASSUME emvOn, activeTab = "parse", arrival # NoAnswer,
                          NEW d \in emvCalls', d[2] = "parse"
                   PROVE  emvAsked' = <<d[1], d[3]>> /\ d[3] = arrival
        BY <1>0, <2>1 DEF ArrivalIsAsked
      <3>1. d \in emvCalls /\ d # c BY <2>1
      <3>2. emvAsked = <<d[1], d[3]>> /\ d[3] = arrival BY <1>0, <3>1 DEF ArrivalIsAsked
      <3>3. d[1] # c[1] BY <1>0, <3>1 DEF EmvNumbered
      <3> QED BY <2>1, <3>2, <3>3
    <2>10. ParsingIsOfText' BY <1>0, <2>1 DEF ParsingIsOfText
    <2>11. ArrivedIsParsed'
      <3> SUFFICES ASSUME emvOn, activeTab = "parse", arrival # NoAnswer,
                          emvAsked' = NoAnswer, ~emvError'
                   PROVE  results'["parse"] = arrival
        BY <2>1 DEF ArrivedIsParsed
      <3>0. "parse" \in EmvTabs BY EmvAssumption
      <3>1. CASE emvAsked = NoAnswer
        <4>1. emvAsked # <<c[1], c[3]>> BY <2>2, <3>1, EmvAssumption DEF Asking
        <4>2. c[2] # "parse" BY <1>0, <4>1 DEF ArrivalIsAsked
        <4>3. ~emvError BY <2>1
        <4>4. results["parse"] = arrival BY <1>0, <3>1, <4>3 DEF ArrivedIsParsed
        <4>5. results'["parse"] = results["parse"] BY <1>0, <2>1, <4>2 DEF EmvTypeOK
        <4> QED BY <4>4, <4>5
      <3>2. CASE emvAsked # NoAnswer
        <4>1. emvAsked = <<c[1], c[3]>> BY <2>1, <3>2
        <4>2. <<c[1], "parse", c[3]>> \in emvCalls BY <1>0, <3>2, <4>1 DEF AskedIsOpen
        <4>3. c[2] = "parse" BY <1>0, <2>2, <4>2 DEF EmvNumbered
        <4>4. c[3] = arrival BY <1>0, <4>3 DEF ArrivalIsAsked
        <4>5. results' = [results EXCEPT !["parse"] = c[3]] BY <2>1, <4>1, <4>3
        <4> QED BY <1>0, <3>0, <4>4, <4>5 DEF EmvTypeOK
      <3> QED BY <3>1, <3>2
    <2>12. HintIsTrue' BY <1>0, <2>1 DEF HintIsTrue
    <2> QED BY <2>4, <2>6, <2>7, <2>8, <2>9, <2>10, <2>11, <2>12 DEF EmvInv
  <1>10. CASE \E hex \in Hexes, pan \in Pans \cup {DefaultPan} : LoadFromParser(hex, pan)
    <2>1. PICK hex \in Hexes, pan \in Pans \cup {DefaultPan} : LoadFromParser(hex, pan) BY <1>10
    <2>2. /\ ~emvOn /\ emvOn' = TRUE /\ activeTab' = "parse" /\ UNCHANGED cryptoEnabled
          /\ inputs' = [t \in EmvTabs |->
               [hex |-> IF t \in LoadedTabs THEN hex ELSE inputs[t].hex,
                pan |-> IF FormOf(t).pan /\ pan # DefaultPan THEN pan ELSE inputs[t].pan]]
          /\ loaded' = inputs'["validate"] /\ loadedFromParser' = (pan # DefaultPan)
          /\ results' = [results EXCEPT !["parse"] = NoAnswer]
          /\ MountTab("parse") /\ Arrives("parse", TRUE)
      BY <2>1 DEF LoadFromParser
    <2>3. "parse" \in EmvTabs /\ "validate" \in EmvTabs /\ "parse" \in LoadedTabs
      BY EmvAssumption DEF LoadedTabs
    <2>4. inputs' \in [EmvTabs -> EmvInputs] BY <1>0, <2>2 DEF EmvTypeOK, EmvInputs
    <2>5. results' \in [EmvTabs -> EmvInputs \cup {NoAnswer}] /\ results'["parse"] = NoAnswer
      BY <1>0, <2>2, <2>3 DEF EmvTypeOK
    <2>6. inputs'["parse"].hex = hex BY <2>2, <2>3
    <2>7. MountTab(activeTab') /\ activeTab' \in EmvTabs /\ loaded' \in EmvInputs
      BY <2>2, <2>3, <2>4
    <2>8. loadedFromParser' \in BOOLEAN BY <2>2
    <2>9. HintIsTrue' BY <2>2 DEF HintIsTrue
    <2>10. emvAsked' # NoAnswer
      BY <1>0, <2>2, <2>3, <2>4, <2>5, <2>6, EmvMounts, EmvAssumption
    <2>11. Arrives(activeTab', emvAsked' # NoAnswer) BY <2>2, <2>10 DEF Arrives
    <2> QED BY <2>2, <2>4, <2>5, <2>7, <2>8, <2>9, <2>11, EmvOpens
  <1>11. CASE UNCHANGED emvVars
    <2> USE <1>11 DEF emvVars, mutation
    <2>1. EmvFlagsOK' BY <1>0 DEF EmvFlagsOK
    <2>2. EmvTypeOK' BY <1>0, <2>1 DEF EmvTypeOK
    <2>3. EmvNumbered' BY <1>0 DEF EmvNumbered
    <2>4. AskedIsOpen' BY <1>0 DEF AskedIsOpen
    <2>5. ArrivalIsAsked' BY <1>0 DEF ArrivalIsAsked
    <2>6. ParsingIsOfText' BY <1>0 DEF ParsingIsOfText
    <2>7. ArrivedIsParsed' BY <1>0 DEF ArrivedIsParsed
    <2>8. HintIsTrue' BY <1>0 DEF HintIsTrue
    <2> QED BY <2>1, <2>2, <2>3, <2>4, <2>5, <2>6, <2>7, <2>8 DEF EmvInv
  <1> QED BY <1>1, <1>2, <1>3, <1>4, <1>5, <1>6, <1>7, <1>8, <1>9, <1>10, <1>11 DEF EmvNext

(***************************************************************************)
(* TemplateList: the template loaded is in the table with the content it   *)
(* was loaded with.                                                        *)
(***************************************************************************)
\* Rows have ids that were given out, each its own unless one was imported again.
RowsAreNumbered ==
  /\ nextId \in Nat \ {0} /\ \A r \in templates : r[1] \in Nat /\ r[1] < nextId /\ r[2] \in Nat
  /\ ~reimported => \A r, q \in templates : r[1] = q[1] => r = q

TplInv == RowsAreNumbered /\ LoadedIsTheRow

\* The invariant holds of the empty table.
LEMMA TplInitially == TplInit => TplInv
  BY DEF TplInit, TplInv, RowsAreNumbered, LoadedIsTheRow

\* A row put under an id that no row has, until an import brings one again, leaves the
\* loaded row as it was loaded.
LEMMA RowIsPut ==
  ASSUME TplInv, NEW id \in Nat, id <= nextId, Put(id), UNCHANGED loadedRow,
         ~reimported' => ~reimported /\ \A r \in templates : r[1] # id
  PROVE  TplInv'
  <1>0. RowsAreNumbered /\ LoadedIsTheRow BY DEF TplInv
  <1>1. nextId' = nextId + 1 /\ templates' = templates \cup {<<id, nextId>>} BY DEF Put
  <1>2. RowsAreNumbered'
    <2>1. nextId' \in Nat \ {0} /\ \A r \in templates' : r[1] \in Nat /\ r[1] < nextId' /\ r[2] \in Nat
      BY <1>0, <1>1 DEF RowsAreNumbered
    <2>2. <<id, nextId>>[1] = id OBVIOUS
    <2>3. ~reimported' => \A r, q \in templates' : r[1] = q[1] => r = q
      BY <1>0, <1>1, <2>2 DEF RowsAreNumbered
    <2> QED BY <2>1, <2>3 DEF RowsAreNumbered
  <1>3. LoadedIsTheRow' BY <1>0 DEF LoadedIsTheRow
  <1> QED BY <1>2, <1>3 DEF TplInv

\* Every step of the table keeps the invariant.
LEMMA TplStep == TplInv /\ [TplNext]_tplVars => TplInv'
  <1> SUFFICES ASSUME TplInv, [TplNext]_tplVars PROVE TplInv' OBVIOUS
  <1>0. RowsAreNumbered /\ LoadedIsTheRow BY DEF TplInv
  <1>1. CASE SaveTemplate
    <2>1. nextId \in Nat /\ \A r \in templates : r[1] # nextId BY <1>0 DEF RowsAreNumbered
    <2> QED BY <1>1, <2>1, RowIsPut DEF SaveTemplate
  <1>2. CASE ImportTemplate
    <2>1. PICK id \in 0 .. nextId - 1 :
            /\ Put(IF id = 0 THEN nextId ELSE id)
            /\ reimported' = (reimported \/ id \in TemplateIds) /\ UNCHANGED loadedRow
      BY <1>2 DEF ImportTemplate
    <2>2. nextId \in Nat /\ \A r \in templates : r[1] # nextId BY <1>0 DEF RowsAreNumbered
    <2>3. CASE id = 0
      <3>1. Put(nextId) /\ nextId <= nextId BY <2>1, <2>2, <2>3
      <3>2. ~reimported' => ~reimported BY <2>1
      <3> QED BY <2>1, <2>2, <3>1, <3>2, RowIsPut
    <2>4. CASE id # 0
      <3>1. id \in Nat /\ id <= nextId /\ Put(id) BY <2>1, <2>2, <2>4
      <3>2. ~reimported' => ~reimported /\ \A r \in templates : r[1] # id BY <2>1 DEF TemplateIds
      <3> QED BY <2>1, <3>1, <3>2, RowIsPut
    <2> QED BY <2>3, <2>4
  <1>3. CASE DeleteTemplate
    BY <1>0, <1>3 DEF DeleteTemplate, TplInv, RowsAreNumbered, LoadedIsTheRow
  <1>4. CASE LoadTemplateRow
    <2>1. PICK r \in templates : loadedRow' = <<r[2], First({q \in templates : q[1] = r[1]})[2]>>
      BY <1>4 DEF LoadTemplateRow
    <2>2. UNCHANGED <<templates, nextId, reimported>> BY <1>4 DEF LoadTemplateRow
    <2>3. ~reimported => First({q \in templates : q[1] = r[1]}) = r
      <3>1. ASSUME ~reimported PROVE {q \in templates : q[1] = r[1]} = {r}
        BY <1>0, <3>1 DEF RowsAreNumbered
      <3>2. ~reimported => First({q \in templates : q[1] = r[1]}) \in {r}
        <4>1. r[2] \in Nat BY <1>0, <2>1 DEF RowsAreNumbered
        <4>2. First({r}) = r BY <4>1 DEF First
        <4> QED BY <3>1, <4>2
      <3> QED BY <3>2
    <2>4. LoadedIsTheRow' BY <2>1, <2>2, <2>3 DEF LoadedIsTheRow
    <2>5. RowsAreNumbered' BY <1>0, <2>2 DEF RowsAreNumbered
    <2> QED BY <2>4, <2>5 DEF TplInv
  <1>5. CASE UNCHANGED tplVars BY <1>0, <1>5 DEF tplVars, TplInv, RowsAreNumbered, LoadedIsTheRow
  <1> QED BY <1>1, <1>2, <1>3, <1>4, <1>5 DEF TplNext
=============================================================================
