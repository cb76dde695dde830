--------------------------- MODULE DirectInjection ---------------------------
(***************************************************************************)
(* One call of POST /inject-direct to a Rebatedor: connect, send a message,*)
(* read the reply, close.  A message is its length and, on the wire, a     *)
(* count of bytes with the first two looked at: the caller and the         *)
(* listener may disagree on the length prefix, and then read lengths out   *)
(* of each other's bytes.  Calls share nothing but the listener's session. *)
(***************************************************************************)
EXTENDS Naturals

CONSTANTS Lengths,       \* lengths of messages and of replies
          Leads          \* what the first two bytes of a message are, as a number

\* What two bytes tell apart.
Prefixes == 65536

\* An array's length is an Int32.  An MTI's digits, or a TPDU's 0x60..0x6F, come first:
\* never zero, never a sign bit.
ASSUME DirectAssumption ==
  /\ Lengths \subseteq Nat \ {0} /\ \A n \in Lengths : n \div Prefixes < Prefixes
  /\ Leads \subseteq Nat \ {0} /\ Leads # {} /\ \A b \in Leads : b < Prefixes \div 2

VARIABLES
  asked,       \* the request, and what the other end will make of it
  headerSize,  \* HeaderSize of the session that listens
  stopped,     \* that session is stopped, or never was
  caller,      \* where the call is
  answer,      \* what it returns, and how long the reply in it is
  handler,     \* where the listener's end of the connection is
  inward, inFront, inEnded,   \* bytes the listener has to read, the first two, no more follow
  whole,       \* what it has read is the message that was sent
  outward, outFront, outEnded, \* the same, for the caller
  reset        \* the listener closed over bytes it had not read

directVars == <<asked, headerSize, stopped, caller, answer, handler, inward, inFront, inEnded,
                whole, outward, outFront, outEnded, reset>>

\* framed is IncludeLengthPrefix; valid, that the TPDU override is; near, that the host
\* answers a connection at all; answered, that the session answers such a message;
\* slow, that it takes longer than the timeout.
DirectRequests == [framed : BOOLEAN, valid : BOOLEAN, near : BOOLEAN, length : Lengths,
              answered : BOOLEAN, slow : BOOLEAN, replyLength : Lengths]

Unanswered == [result |-> "none", length |-> 0]
Results == {"none", "reply", "invalid", "connectTimeout", "refused", "timeout", "mismatch", "error"}
Answers == [result : Results, length : Nat]

DirectTypeOK ==
  /\ asked \in DirectRequests /\ headerSize \in {0, 2, 4} /\ stopped \in BOOLEAN
  /\ caller \in {"start", "connect", "prefix", "body", "read", "done"}
  /\ answer \in Answers
  /\ handler \in {"none", "backlog", "queued", "reading", "answering", "writing", "closed", "orphaned"}
  /\ inward \in Nat /\ inFront \in Nat /\ inEnded \in BOOLEAN /\ whole \in BOOLEAN
  /\ outward \in Nat /\ outFront \in Nat /\ outEnded \in BOOLEAN /\ reset \in BOOLEAN
  /\ inFront < Prefixes /\ outFront < Prefixes

DirectInit ==
  /\ asked \in DirectRequests /\ headerSize \in {0, 2, 4} /\ stopped \in BOOLEAN
  /\ caller = "start" /\ answer = Unanswered /\ handler = "none"
  /\ inward = 0 /\ inFront = 0 /\ inEnded = FALSE /\ whole = FALSE
  /\ outward = 0 /\ outFront = 0 /\ outEnded = FALSE /\ reset = FALSE

-----------------------------------------------------------------------------
(* The call.                                                               *)

\* The call returns, and its connection is disposed.
Return(result, length) ==
  /\ caller' = "done" /\ answer' = [result |-> result, length |-> length]
  /\ inEnded' = TRUE
  /\ UNCHANGED <<asked, headerSize, stopped, handler, inward, inFront, whole, outward, outFront,
                 outEnded, reset>>

InjectDirect ==
  /\ caller = "start"
  /\ IF ~asked.valid THEN Return("invalid", 0)
     ELSE /\ caller' = "connect"
          /\ UNCHANGED <<asked, headerSize, stopped, answer, handler, inward, inFront, inEnded,
                         whole, outward, outFront, outEnded, reset>>

\* The operating system completes a connection before the accept loop sees it.
Connected ==
  /\ caller = "connect" /\ asked.near /\ ~stopped
  /\ caller' = IF asked.framed THEN "prefix" ELSE "body"
  /\ handler' = "backlog"
  /\ UNCHANGED <<asked, headerSize, stopped, answer, inward, inFront, inEnded, whole, outward,
                 outFront, outEnded, reset>>

ConnectFails ==
  /\ caller = "connect"
  /\ \/ asked.near /\ stopped /\ Return("refused", 0)
     \/ ~asked.near /\ Return("connectTimeout", 0)

\* The two-byte prefix, modulo 2^16.
SendPrefix ==
  /\ caller = "prefix" /\ ~reset
  /\ caller' = "body"
  /\ inward' = inward + 2 /\ inFront' = asked.length % Prefixes
  /\ UNCHANGED <<asked, headerSize, stopped, answer, handler, inEnded, whole, outward, outFront,
                 outEnded, reset>>

\* Mutant of HalfCloses: the send side stays open.
HalfClosesNever == FALSE

\* Without a prefix the end of the message is the end of the stream.
HalfCloses == ~asked.framed

SendBody ==
  /\ caller = "body" /\ ~reset
  /\ caller' = "read"
  /\ inward' = inward + asked.length
  /\ IF inward = 0 /\ ~asked.framed THEN inFront' \in Leads ELSE UNCHANGED inFront
  /\ inEnded' = HalfCloses
  /\ UNCHANGED <<asked, headerSize, stopped, answer, handler, whole, outward, outFront, outEnded,
                 reset>>

\* Two bytes, and as many as they say.
ReplyIsHere == asked.framed /\ outward >= 2 /\ outward - 2 >= outFront

\* ReadFramedAsync: a reply, an empty one, which throws, or the end before it.
ReadFramed ==
  /\ caller = "read" /\ asked.framed
  /\ \/ ReplyIsHere /\ outFront > 0 /\ Return("reply", outFront)
     \/ ReplyIsHere /\ outFront = 0 /\ Return("error", 0)
     \/ ~ReplyIsHere /\ outEnded /\ Return("mismatch", 0)

\* ReadUntilCloseAsync: whatever came when the other end closes.
ReadUntilClose ==
  /\ caller = "read" /\ ~asked.framed /\ outEnded
  /\ IF outward = 0 THEN Return("mismatch", 0) ELSE Return("reply", outward)

\* A connection reset fails the write or the read under way.
CallerReset ==
  /\ caller \in {"prefix", "body", "read"} /\ reset
  /\ Return("error", 0)

-----------------------------------------------------------------------------
(* The listener's end: accepted, handed to a task, read, answered.         *)

HandlerKeeps == UNCHANGED <<asked, headerSize, stopped, caller, answer>>

\* Disposing a socket with unread bytes resets the connection.
Closing ==
  /\ handler' = "closed" /\ outEnded' = TRUE
  /\ reset' = (inward > 0 \/ caller \in {"prefix", "body"})
  /\ UNCHANGED <<inward, inFront, inEnded, whole, outFront>>

Closes == Closing /\ UNCHANGED outward
Continues ==
  /\ handler' = "reading"
  /\ UNCHANGED <<inward, inFront, inEnded, whole, outFront, outEnded, reset>>

Accept ==
  /\ handler = "backlog" /\ HandlerKeeps
  /\ \/ /\ ~stopped /\ handler' = "queued"
        /\ UNCHANGED <<inward, inFront, inEnded, whole, outward, outFront, outEnded, reset>>
     \/ stopped /\ Closes   \* with the listener goes its backlog

\* Task.Run(f, ct) leaves out f, and its finally block, once ct is cancelled.
HandlerStarts ==
  /\ handler = "queued" /\ HandlerKeeps
  /\ handler' = IF stopped THEN "orphaned" ELSE "reading"
  /\ UNCHANGED <<inward, inFront, inEnded, whole, outward, outFront, outEnded, reset>>

\* The length a header announces.  Four bytes whose first two are not zero are a length
\* above 65535, or from 2^31 on a negative one, which throws: neither is read.
Oversize == Prefixes
Announced ==
  IF headerSize = 2 THEN {inFront} ELSE IF inFront > 0 THEN {Oversize} ELSE Leads

\* ReadMessageAsync comes back with a message of n bytes.
ReadMessage ==
  /\ handler = "reading" /\ ~stopped /\ HandlerKeeps
  /\ \E n \in IF headerSize = 0 THEN {inward} ELSE Announced :
       /\ IF headerSize = 0 THEN inEnded /\ n > 0
          ELSE 0 < n /\ n < Prefixes /\ inward >= headerSize /\ inward - headerSize >= n
       /\ inward' = inward - headerSize - n
       /\ whole' = (n = asked.length /\ asked.framed = (headerSize = 2))
  /\ inFront' \in Leads
  /\ handler' = "answering"
  /\ UNCHANGED <<inEnded, outward, outFront, outEnded, reset>>

\* ... or with null, or not at all, and the connection is closed.
ReadFails ==
  /\ handler = "reading" /\ HandlerKeeps
  /\ \/ stopped
     \/ headerSize = 0 /\ inEnded /\ inward = 0
     \/ headerSize > 0 /\ inward < headerSize /\ inEnded
     \/ headerSize > 0 /\ inward >= headerSize /\ \E n \in Announced :
          n = 0 \/ n >= Prefixes \/ (inward - headerSize < n /\ inEnded)
  /\ Closes

\* One message is all a connection without a length prefix carries.
AfterMessage == IF headerSize = 0 THEN Closing ELSE Continues

\* The message that was sent is answered when the session's policies say so; what was
\* read instead of it may happen to parse.
StaySilent ==
  /\ handler = "answering" /\ HandlerKeeps
  /\ ~(whole /\ asked.answered)
  /\ AfterMessage /\ UNCHANGED outward

\* The reply's length prefix, when the session has one ...
WriteHeader ==
  /\ handler = "answering" /\ ~stopped /\ HandlerKeeps
  /\ whole => asked.answered
  /\ outward' = outward + headerSize
  /\ outFront' = IF outward > 0 \/ headerSize = 0 THEN outFront
                 ELSE IF headerSize = 2 THEN asked.replyLength % Prefixes
                 ELSE asked.replyLength \div Prefixes
  /\ handler' = "writing"
  /\ UNCHANGED <<inward, inFront, inEnded, whole, outEnded, reset>>

\* ... and the reply.
WriteReply ==
  /\ handler = "writing" /\ ~stopped /\ HandlerKeeps
  /\ outward' = outward + asked.replyLength
  /\ AfterMessage

\* A write that is cancelled, or finds the caller gone, may have sent a part.
WriteFails ==
  /\ handler \in {"answering", "writing"} /\ HandlerKeeps
  /\ stopped \/ caller = "done"
  /\ outward' \in {outward, outward + (IF handler = "writing" THEN asked.replyLength - 1 ELSE 0)}
  /\ Closing

-----------------------------------------------------------------------------
StopListener ==
  /\ ~stopped /\ stopped' = TRUE
  /\ UNCHANGED <<asked, headerSize, caller, answer, handler, inward, inFront, inEnded, whole,
                 outward, outFront, outEnded, reset>>

\* The listener will do nothing more for the caller, who waits.
Starved ==
  \/ handler = "orphaned"
  \/ /\ handler = "reading" /\ ~stopped
     /\ IF headerSize = 0 THEN ~inEnded
        ELSE ~inEnded /\ (inward < headerSize \/ \E n \in Announced : inward - headerSize < n)

\* Thirty seconds: longer than anything takes that is not slow.
ReadTimesOut ==
  /\ caller = "read" /\ ~reset /\ ~outEnded
  /\ asked.slow \/ (Starved /\ ~ReplyIsHere)
  /\ Return("timeout", 0)

Caller ==
  \/ Connected \/ ConnectFails \/ SendPrefix \/ SendBody \/ ReadFramed
  \/ ReadUntilClose \/ CallerReset \/ ReadTimesOut

Handler ==
  \/ Accept \/ HandlerStarts \/ ReadMessage \/ ReadFails \/ StaySilent \/ WriteHeader
  \/ WriteReply \/ WriteFails

DirectNext == InjectDirect \/ Caller \/ Handler \/ StopListener

\* A call that has been made, its timers and the listener's threads run.
DirectFairness == WF_directVars(Caller) /\ WF_directVars(Handler)
DirectSpec == DirectInit /\ [][DirectNext]_directVars /\ DirectFairness

-----------------------------------------------------------------------------
InReach == asked.valid /\ asked.near /\ ~stopped /\ ~asked.slow
FramingAgrees == asked.framed = (headerSize = 2) /\ (~asked.framed => headerSize = 0)

\* "Without this both sides deadlock": a call whose framing is the listener's, for a
\* message that is answered in time, neither waits out its timeout nor is told of a
\* mismatch.  Its reply is the one that was written, to the last byte; with a length
\* prefix it is that also when the listener is stopped while writing it.
AgreedCallsAnswered ==
  caller = "done" /\ FramingAgrees /\ asked.length < Prefixes /\ asked.replyLength < Prefixes =>
    /\ InReach /\ asked.answered => answer.result = "reply"
    /\ answer.result = "reply" /\ (asked.framed \/ ~stopped) => answer.length = asked.replyLength

\* A call ends, whatever is at the other end, and so does what the listener started for
\* it, but for the client that a cancelled Task.Run leaves to nobody.
DirectCallEnds ==
  /\ caller \notin {"start", "done"} ~> caller = "done"
  /\ handler = "reading" ~> handler = "closed"
=============================================================================
