--------------------------- MODULE MessageHandling ---------------------------
(***************************************************************************)
(* The IsoSessionHandler loops of one running session: one per connection,  *)
(* each reading, logging, counting and answering its messages in turn, all   *)
(* sharing the message log, the session's record and, for an Injetor, the    *)
(* outbound stream that POST /inject writes to as well.  A step ends where    *)
(* the code touches what another thread can see.                             *)
(***************************************************************************)
EXTENDS Naturals, Sequences

CONSTANTS Conns,      \* the connections of the session
          Calls,      \* concurrent /inject calls, all on InjetorConn
          InjetorConn,
          Kinds,      \* the kinds of message the remote ends send
          MaxSends,   \* bound on the messages the remote ends send
          MaxPuts,    \* bound on the EMV configurations put
          Retention   \* LogRetention

\* good is answered, unknown is not, garbled does not parse, notpdu lacks a TPDU the
\* session requires, blank makes the parser throw.
AllKinds == {"good", "unknown", "garbled", "notpdu", "blank"}

ASSUME KindsAssumption == Kinds \subseteq AllKinds /\ ~ {"notpdu", "blank"} \subseteq Kinds
ASSUME ConnsAssumption == Calls # {} => Conns = {InjetorConn}
ASSUME BoundsAssumption == MaxSends \in Nat /\ MaxPuts \in Nat /\ Retention \in Nat \ {0}

VARIABLES
  auto,       \* AutoRespond
  inbox,      \* messages on their way to the handler
  sends,      \* messages sent so far; their number is a message's id
  hung,       \* the remote end has closed the connection
  pc,         \* where the handler is
  cur,        \* the message it handles
  broken,     \* client.Connected has become false
  cancelled,  \* the session's token
  log,        \* the message log
  processed, rejected,   \* the counters of the session's record
  reg,        \* the value a ++ has loaded
  counted,    \* how many messages of each kind have been counted
  emv,        \* version of the record's EmvResponse
  used,       \* the version the answer in the making is built with
  wire,       \* what each remote end is sent: headers and bodies of frames
  call        \* the /inject calls

vars == <<auto, inbox, sends, hung, pc, cur, broken, cancelled, log, processed, rejected,
          reg, counted, emv, used, wire, call>>

\* refused is what an unknown message becomes once the policy said no.  asked is the
\* EMV version in force when the message was read.
Message == [kind: AllKinds \cup {"refused"}, id: 0..MaxSends, asked: 0..MaxPuts]
NoMessage == [kind |-> "blank", id |-> 0, asked |-> 0]

Entry == [dir: {"Received", "Sent"}, conn: Conns, id: 1..MaxSends, kind: AllKinds \cup {"refused"}]

\* Half a frame: its length prefix or its bytes.
Piece == [part: {"header", "body"}, from: Conns \cup Calls, id: 0..MaxSends]
Header(who, id) == [part |-> "header", from |-> who, id |-> id]
Body(who, id) == [part |-> "body", from |-> who, id |-> id]

PCs == {"read", "log", "load", "store", "resolve", "header", "body", "logSent", "closed"}

TypeOK ==
  /\ auto \in BOOLEAN /\ cancelled \in BOOLEAN /\ sends \in 0..MaxSends
  /\ inbox \in [Conns -> Seq(Message)] /\ cur \in [Conns -> Message]
  /\ pc \in [Conns -> PCs]
  /\ hung \in [Conns -> BOOLEAN] /\ broken \in [Conns -> BOOLEAN]
  /\ reg \in [Conns -> Nat] /\ used \in [Conns -> 0..MaxPuts]
  /\ wire \in [Conns -> Seq(Piece)]
  /\ log \in Seq(Entry) /\ Len(log) <= Retention
  /\ processed \in Nat /\ rejected \in Nat
  /\ counted \in [AllKinds \cup {"refused"} -> Nat]
  /\ emv \in 0..MaxPuts
  /\ call \in [Calls -> {"header", "body", "done"}]

Init ==
  /\ auto \in BOOLEAN
  /\ inbox = [c \in Conns |-> <<>>] /\ sends = 0
  /\ hung = [c \in Conns |-> FALSE] /\ broken = [c \in Conns |-> FALSE]
  /\ pc = [c \in Conns |-> "read"] /\ cur = [c \in Conns |-> NoMessage]
  /\ cancelled = FALSE
  /\ log = <<>>
  /\ processed = 0 /\ rejected = 0
  /\ reg = [c \in Conns |-> 0]
  /\ counted = [k \in AllKinds \cup {"refused"} |-> 0]
  /\ emv = 0 /\ used = [c \in Conns |-> 0]
  /\ wire = [c \in Conns |-> <<>>]
  /\ call = [i \in Calls |-> "header"]

Goto(c, label) == pc' = [pc EXCEPT ![c] = label]

\* Mutant of LogMessage: the newest entry goes first, and the last is evicted.
LogFirst(e) ==
  LET all == <<e>> \o log
  IN  log' = IF Len(all) > Retention THEN SubSeq(all, 1, Retention) ELSE all

\* Mutant of LogMessage: the size is tested before the entry is in.
LogLate(e) == log' = Append(IF Len(log) > Retention THEN Tail(log) ELSE log, e)

\* Append, then evict the oldest.
LogMessage(e) ==
  LET all == Append(log, e)
  IN  log' = IF Len(all) > Retention THEN Tail(all) ELSE all

-----------------------------------------------------------------------------
(* The remote ends and the API.                                             *)

Send(c, kind) ==
  /\ ~ hung[c] /\ pc[c] # "closed" /\ sends < MaxSends
  /\ sends' = sends + 1
  /\ inbox' = [inbox EXCEPT ![c] = Append(@, [kind |-> kind, id |-> sends + 1, asked |-> 0])]
  /\ UNCHANGED <<auto, hung, pc, cur, broken, cancelled, log, processed, rejected, reg,
                 counted, emv, used, wire, call>>

HangUp(c) ==
  /\ ~ hung[c]
  /\ hung' = [hung EXCEPT ![c] = TRUE]
  /\ UNCHANGED <<auto, inbox, sends, pc, cur, broken, cancelled, log, processed, rejected, reg,
                 counted, emv, used, wire, call>>

\* PUT emv-config replaces the record's EmvResponse.
PutEmv ==
  /\ emv < MaxPuts
  /\ emv' = emv + 1
  /\ UNCHANGED <<auto, inbox, sends, hung, pc, cur, broken, cancelled, log, processed, rejected,
                 reg, counted, used, wire, call>>

ClearLog ==
  /\ log' = <<>> /\ log # <<>>
  /\ UNCHANGED <<auto, inbox, sends, hung, pc, cur, broken, cancelled, processed, rejected, reg,
                 counted, emv, used, wire, call>>

\* The session is stopped: its token is cancelled.
Stop ==
  /\ ~ cancelled
  /\ cancelled' = TRUE
  /\ UNCHANGED <<auto, inbox, sends, hung, pc, cur, broken, log, processed, rejected, reg,
                 counted, emv, used, wire, call>>

\* /inject writes the prefix and the message to the Injetor's stream itself.
InjectWrite(i) ==
  /\ call[i] \in {"header", "body"} /\ ~ cancelled /\ ~ broken[InjetorConn]
  /\ IF call[i] = "header"
     THEN wire' = [wire EXCEPT ![InjetorConn] = Append(@, Header(i, 0))]
     ELSE wire' = [wire EXCEPT ![InjetorConn] = Append(@, Body(i, 0))]
  /\ call' = [call EXCEPT ![i] = IF @ = "header" THEN "body" ELSE "done"]
  /\ UNCHANGED <<auto, inbox, sends, hung, pc, cur, broken, cancelled, log, processed, rejected,
                 reg, counted, emv, used>>

-----------------------------------------------------------------------------
(* One handler.                                                             *)

\* Mutant of Loops: the token alone is looked at.
LoopsUncancelled(c) == ~ cancelled

\* The loop's condition: not cancelled, still connected.
Loops(c) == ~ cancelled /\ ~ broken[c]

Read(c) ==
  /\ pc[c] = "read" /\ Loops(c) /\ inbox[c] # <<>>
  /\ inbox' = [inbox EXCEPT ![c] = Tail(@)]
  /\ cur' = [cur EXCEPT ![c] = [Head(inbox[c]) EXCEPT !.asked = emv]]
  /\ Goto(c, IF Head(inbox[c]).kind = "blank" THEN "closed" ELSE "log")
  /\ UNCHANGED <<auto, sends, hung, broken, cancelled, log, processed, rejected, reg, counted,
                 emv, used, wire, call>>

\* Cancelled, disconnected, or at the end of the stream.
Leave(c) ==
  /\ pc[c] = "read"
  /\ ~ Loops(c) \/ (hung[c] /\ inbox[c] = <<>>)
  /\ Goto(c, "closed")
  /\ UNCHANGED <<auto, inbox, sends, hung, cur, broken, cancelled, log, processed, rejected, reg,
                 counted, emv, used, wire, call>>

LogReceived(c) ==
  /\ pc[c] = "log"
  /\ LogMessage([dir |-> "Received", conn |-> c, id |-> cur[c].id, kind |-> cur[c].kind])
  /\ Goto(c, "load")
  /\ UNCHANGED <<auto, inbox, sends, hung, cur, broken, cancelled, processed, rejected, reg,
                 counted, emv, used, wire, call>>

\* Mutant of Counter: a message that will be refused is not counted as processed first.
CounterOnce(kind) == IF kind = "good" THEN "processed" ELSE "rejected"

\* Which counter a logged message goes to.
Counter(kind) == IF kind \in {"good", "unknown"} THEN "processed" ELSE "rejected"

\* A property's ++ loads ...
Load(c) ==
  /\ pc[c] = "load"
  /\ reg' = [reg EXCEPT ![c] = IF Counter(cur[c].kind) = "processed" THEN processed ELSE rejected]
  /\ Goto(c, "store")
  /\ UNCHANGED <<auto, inbox, sends, hung, cur, broken, cancelled, log, processed, rejected,
                 counted, emv, used, wire, call>>

\* Mutant of AfterCount: a refused message ends the connection.
AfterCountHangsUp(kind) ==
  CASE auto /\ kind = "good"    -> "resolve"
    [] auto /\ kind = "unknown" -> "log"
    [] kind = "refused"         -> "closed"
    [] OTHER                    -> "read"

\* Where a message goes on once it is counted: to an answer, to a refusal, to the next.
AfterCount(kind) ==
  CASE auto /\ kind = "good"    -> "resolve"
    [] auto /\ kind = "unknown" -> "log"
    [] OTHER                    -> "read"

\* ... and stores.
Store(c) ==
  /\ pc[c] = "store"
  /\ counted' = [counted EXCEPT ![cur[c].kind] = @ + 1]
  /\ LET k == Counter(cur[c].kind) IN
       /\ processed' = IF k = "processed" THEN reg[c] + 1 ELSE processed
       /\ rejected' = IF k = "rejected" THEN reg[c] + 1 ELSE rejected
  /\ cur' = [cur EXCEPT ![c].kind = IF auto /\ @ = "unknown" THEN "refused" ELSE @]
  /\ Goto(c, AfterCount(cur[c].kind))
  /\ UNCHANGED <<auto, inbox, sends, hung, broken, cancelled, log, reg, emv, used, wire, call>>

\* Mutant of EffectiveEmv: the configuration the handler was started with.
StartedEmv == 0

\* The EMV configuration an answer is built with: the live record's.
EffectiveEmv == emv

Resolve(c) ==
  /\ pc[c] = "resolve"
  /\ used' = [used EXCEPT ![c] = EffectiveEmv]
  /\ Goto(c, "header")
  /\ UNCHANGED <<auto, inbox, sends, hung, cur, broken, cancelled, log, processed, rejected, reg,
                 counted, emv, wire, call>>

\* WriteMessageAsync: the length prefix, then the message.
Write(c) ==
  /\ pc[c] \in {"header", "body"} /\ ~ cancelled
  /\ wire' = [wire EXCEPT ![c] =
                Append(@, IF pc[c] = "header" THEN Header(c, cur[c].id) ELSE Body(c, cur[c].id))]
  /\ Goto(c, IF pc[c] = "header" THEN "body" ELSE "logSent")
  /\ UNCHANGED <<auto, inbox, sends, hung, cur, broken, cancelled, log, processed, rejected, reg,
                 counted, emv, used, call>>

\* Cancelled, or the remote end is gone: the message is given up.
WriteFails(c) ==
  /\ pc[c] \in {"header", "body"}
  /\ cancelled \/ hung[c]
  /\ broken' = [broken EXCEPT ![c] = @ \/ ~ cancelled]
  /\ Goto(c, "read")
  /\ UNCHANGED <<auto, inbox, sends, hung, cur, cancelled, log, processed, rejected, reg,
                 counted, emv, used, wire, call>>

LogSent(c) ==
  /\ pc[c] = "logSent"
  /\ LogMessage([dir |-> "Sent", conn |-> c, id |-> cur[c].id, kind |-> cur[c].kind])
  /\ Goto(c, "read")
  /\ UNCHANGED <<auto, inbox, sends, hung, cur, broken, cancelled, processed, rejected, reg,
                 counted, emv, used, wire, call>>

Handle(c) ==
  \/ Read(c) \/ Leave(c) \/ LogReceived(c) \/ Load(c) \/ Store(c) \/ Resolve(c)
  \/ Write(c) \/ WriteFails(c) \/ LogSent(c)

Next ==
  \/ \E c \in Conns : Handle(c) \/ HangUp(c) \/ \E k \in Kinds : Send(c, k)
  \/ \E i \in Calls : InjectWrite(i)
  \/ PutEmv \/ ClearLog \/ Stop

Spec == Init /\ [][Next]_vars

\* A handler whose step is possible takes one.
Fairness == \A c \in Conns : WF_vars(Handle(c))
FairSpec == Spec /\ Fairness

-----------------------------------------------------------------------------
IsAnswer(c, p) == p.part = "body" /\ p.from = c

\* What each remote end is sent is whole frames, a length prefix and then the message
\* it is about, the answers in the order of the requests and none twice.  Only the last
\* frame can be torn: after a write that failed or was cancelled nothing is written.
FramesIntact ==
  \A c \in Conns :
    /\ \A i \in 1..Len(wire[c]) :
         IF i % 2 = 1 THEN wire[c][i].part = "header"
         ELSE wire[c][i] = [wire[c][i - 1] EXCEPT !.part = "body"]
    /\ \A i, j \in 1..Len(wire[c]) :
         i < j /\ IsAnswer(c, wire[c][i]) /\ IsAnswer(c, wire[c][j]) => wire[c][i].id < wire[c][j].id

Stage(e) == IF e.dir = "Sent" THEN 2 ELSE IF e.kind = "refused" THEN 1 ELSE 0

\* Whatever was evicted or cleared, the log tells each connection's story in order:
\* message after message, the received before the refused or the sent, none twice.
LogInOrder ==
  \A i, j \in 1..Len(log) :
    i < j /\ log[i].conn = log[j].conn =>
      log[i].id < log[j].id \/ (log[i].id = log[j].id /\ Stage(log[i]) < Stage(log[j]))

\* "The change applies to the next inbound message": an answer is built with a
\* configuration at least as new as the one in force when its request was read.
EmvFresh ==
  \A c \in Conns : pc[c] \in {"header", "body", "logSent"} => used[c] >= cur[c].asked

\* A session with a single connection counts every message it logs: what was parsed
\* as processed, what was refused as rejected, an unknown MTI as both.
CountersExact ==
  (\E c \in Conns : Conns = {c}) =>
    /\ processed = counted["good"] + counted["unknown"]
    /\ rejected = counted["garbled"] + counted["notpdu"] + counted["refused"]

Waiting(c, id) == auto /\ \E i \in 1..Len(inbox[c]) : inbox[c][i].id = id /\ inbox[c][i].kind = "good"
Answered(c, id) == Body(c, id) \in {wire[c][i] : i \in 1..Len(wire[c])}
Died(c) == pc[c] = "closed" /\ cur[c].kind = "blank"

\* Every request that can be answered is, whatever came before it on its connection,
\* unless the connection or the session ends or a blank frame killed the handler.
RequestsAnswered ==
  \A c \in Conns : \A id \in 1..MaxSends :
    Waiting(c, id) ~> (Answered(c, id) \/ hung[c] \/ cancelled \/ Died(c))
=============================================================================
