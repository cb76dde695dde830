------------------------ MODULE MessageHandling_proofs ------------------------
(* Invariance theorems about MessageHandling, for every set of connections, *)
(* calls and kinds, and every bound.                                        *)
EXTENDS MessageHandling, TLAPS

USE KindsAssumption, BoundsAssumption

-----------------------------------------------------------------------------
(* Types.  That an entry names a message somebody sent rests on how far the *)
(* handler has come with it.                                               *)

\* The message a handler is at work on.
AtWork(c) == pc[c] \notin {"read", "closed"}

Numbered ==
  \A c \in Conns :
    /\ \A i \in 1..Len(inbox[c]) : inbox[c][i].id \in 1..sends /\ inbox[c][i].kind # "refused"
    /\ AtWork(c) => cur[c].id \in 1..sends /\ cur[c].kind # "blank"

TypeInv == TypeOK /\ Numbered

\* The log stays a bounded sequence of entries.
LEMMA LogMessageType ==
  ASSUME log \in Seq(Entry), Len(log) <= Retention, NEW e \in Entry, LogMessage(e)
  PROVE  log' \in Seq(Entry) /\ Len(log') <= Retention
  <1> DEFINE all == Append(log, e)
  <1>1. all \in Seq(Entry) /\ Len(all) = Len(log) + 1 /\ all # <<>>
    OBVIOUS
  <1>2. CASE Len(all) > Retention
    <2>1. log' = Tail(all)
      BY <1>2 DEF LogMessage
    <2> QED BY <1>1, <2>1
  <1>3. CASE ~ (Len(all) > Retention)
    <2>1. log' = all
      BY <1>3 DEF LogMessage
    <2> QED BY <1>1, <1>3, <2>1
  <1> QED BY <1>2, <1>3

\* What the remote ends and the API do.
LEMMA OutsideType ==
  ASSUME TypeInv,
         \/ \E c \in Conns : HangUp(c) \/ \E k \in Kinds : Send(c, k)
         \/ \E i \in Calls : InjectWrite(i)
         \/ PutEmv \/ ClearLog \/ Stop
  PROVE  TypeInv'
  <1> USE DEF TypeInv, TypeOK, Numbered, AtWork
  <1>1. ASSUME NEW c \in Conns, HangUp(c) PROVE TypeInv'
    BY <1>1 DEF HangUp
  <1>2. ASSUME NEW c \in Conns, NEW k \in Kinds, Send(c, k) PROVE TypeInv'
    <2> DEFINE m == [kind |-> k, id |-> sends + 1, asked |-> 0]
    <2>0. sends' = sends + 1 /\ sends < MaxSends /\ sends \in Nat /\ MaxSends \in Nat /\ 0 \in 0..MaxPuts
      BY <1>2 DEF Send
    <2>1. m \in Message /\ sends' = sends + 1 /\ sends' \in 0..MaxSends /\ m.kind # "refused"
      <3>1. k \in AllKinds /\ k # "refused"
        BY DEF AllKinds
      <3>2. sends + 1 \in 0..MaxSends
        BY <2>0
      <3> QED BY <2>0, <3>1, <3>2 DEF Message
    <2>2. inbox' = [inbox EXCEPT ![c] = Append(inbox[c], m)]
      BY <1>2 DEF Send
    <2>3. inbox[c] \in Seq(Message) /\ Append(inbox[c], m) \in Seq(Message)
      BY <2>1
    <2>4. \A i \in 1..Len(Append(inbox[c], m)) :
            /\ Append(inbox[c], m)[i].id \in 1..(sends + 1)
            /\ Append(inbox[c], m)[i].kind # "refused"
      BY <2>1, <2>3
    <2>5. inbox' \in [Conns -> Seq(Message)]
      BY <2>2, <2>3
    <2>6. Numbered'
      <3>1. pc' = pc /\ cur' = cur /\ sends' = sends + 1 /\ sends \in Nat
        BY <1>2 DEF Send
      <3>2. \A d \in Conns : inbox'[d] = IF d = c THEN Append(inbox[c], m) ELSE inbox[d]
        BY <2>2
      <3>3. ASSUME NEW d \in Conns, NEW i \in 1..Len(inbox'[d])
            PROVE  inbox'[d][i].id \in 1..(sends + 1) /\ inbox'[d][i].kind # "refused"
        <4>1. CASE d = c BY <2>4, <3>2, <4>1
        <4>2. CASE d # c
          <5>1. inbox'[d] = inbox[d] BY <3>2, <4>2
          <5>2. inbox[d][i].id \in 1..sends /\ inbox[d][i].kind # "refused" BY <5>1
          <5> QED BY <3>1, <5>1, <5>2
        <4> QED BY <4>1, <4>2
      <3>4. \A d \in Conns : AtWork(d) => cur[d].id \in 1..(sends + 1) /\ cur[d].kind # "blank"
        BY <3>1
      <3> QED BY <3>1, <3>3, <3>4
    <2> QED BY <1>2, <2>1, <2>5, <2>6 DEF Send
  <1>3. ASSUME NEW i \in Calls, InjectWrite(i) PROVE TypeInv'
    <2>1. InjetorConn \in Conns
      BY ConnsAssumption
    <2>2. Header(i, 0) \in Piece /\ Body(i, 0) \in Piece
      BY DEF Header, Body, Piece
    <2>4. \A p \in Piece : Append(wire[InjetorConn], p) \in Seq(Piece)
      BY <2>1
    <2>5. \/ wire' = [wire EXCEPT ![InjetorConn] = Append(wire[InjetorConn], Header(i, 0))]
          \/ wire' = [wire EXCEPT ![InjetorConn] = Append(wire[InjetorConn], Body(i, 0))]
      BY <1>3 DEF InjectWrite
    <2>3. wire' \in [Conns -> Seq(Piece)]
      BY <2>1, <2>2, <2>4, <2>5
    <2> QED BY <1>3, <2>3 DEF InjectWrite
  <1>4. CASE PutEmv   BY <1>4 DEF PutEmv
  <1>5. CASE ClearLog BY <1>5 DEF ClearLog
  <1>6. CASE Stop     BY <1>6 DEF Stop
  <1> QED BY <1>1, <1>2, <1>3, <1>4, <1>5, <1>6

\* What a handler does.
LEMMA HandleType ==
  ASSUME TypeInv, NEW c \in Conns, Handle(c)
  PROVE  TypeInv'
  <1> USE DEF TypeInv, TypeOK, Numbered, AtWork, PCs, Goto
  <1>1. CASE Read(c)
    <2>1. inbox[c] \in Seq(Message) /\ inbox[c] # <<>>
      BY <1>1 DEF Read
    <2>2. Head(inbox[c]) \in Message /\ Tail(inbox[c]) \in Seq(Message) /\ 1 \in 1..Len(inbox[c])
          /\ Head(inbox[c]) = inbox[c][1]
      BY <2>1
    <2>3. [Head(inbox[c]) EXCEPT !.asked = emv] \in Message
      BY <2>2 DEF Message
    <2>4. \A i \in 1..Len(Tail(inbox[c])) : i + 1 \in 1..Len(inbox[c]) /\ Tail(inbox[c])[i] = inbox[c][i + 1]
      BY <2>1
    <2>5. inbox' \in [Conns -> Seq(Message)] /\ cur' \in [Conns -> Message] /\ pc' \in [Conns -> PCs]
      BY <1>1, <2>2, <2>3 DEF Read
    <2>6. Numbered'
      <3>1. \A d \in Conns : \A i \in 1..Len(inbox'[d]) :
              inbox'[d][i].id \in 1..sends /\ inbox'[d][i].kind # "refused"
        <4>1. /\ inbox'[c] = Tail(inbox[c])
              /\ \A d \in Conns : d # c => inbox'[d] = inbox[d]
          BY <1>1 DEF Read
        <4>2. \A d \in Conns : \A i \in 1..Len(inbox[d]) :
                inbox[d][i].id \in 1..sends /\ inbox[d][i].kind # "refused"
          OBVIOUS
        <4> HIDE DEF TypeInv, TypeOK, Numbered, AtWork
        <4>3. \A i \in 1..Len(inbox'[c]) :
                inbox'[c][i].id \in 1..sends /\ inbox'[c][i].kind # "refused"
          BY <2>4, <4>1, <4>2
        <4> QED BY <4>1, <4>2, <4>3
      <3>2. AtWork(c)' => cur'[c].id \in 1..sends /\ cur'[c].kind # "blank"
        BY <1>1, <2>2, <2>3 DEF Read, Message
      <3>3. \A d \in Conns : d # c => pc'[d] = pc[d] /\ cur'[d] = cur[d]
        BY <1>1 DEF Read
      <3> QED BY <1>1, <3>1, <3>2, <3>3 DEF Read
    <2> QED BY <1>1, <2>5, <2>6 DEF Read
  <1>2. CASE Leave(c)
    BY <1>2 DEF Leave
  <1>3. CASE LogReceived(c) \/ LogSent(c)
    <2>1. \A d \in {"Received", "Sent"} :
            [dir |-> d, conn |-> c, id |-> cur[c].id, kind |-> cur[c].kind] \in Entry
      <3>1. AtWork(c)
        BY <1>3 DEF LogReceived, LogSent
      <3>2. cur[c].id \in 1..sends /\ sends \in 0..MaxSends /\ MaxSends \in Nat
        BY <3>1
      <3>3. cur[c].id \in 1..MaxSends /\ cur[c].kind \in AllKinds \cup {"refused"}
        BY <3>2 DEF Message
      <3> QED BY <3>3 DEF Entry
    <2>3. PICK d \in {"Received", "Sent"} :
            LogMessage([dir |-> d, conn |-> c, id |-> cur[c].id, kind |-> cur[c].kind])
      BY <1>3 DEF LogReceived, LogSent
    <2>2. log' \in Seq(Entry) /\ Len(log') <= Retention
      BY <2>1, <2>3, LogMessageType
    <2> QED BY <1>3, <2>2 DEF LogReceived, LogSent
  <1>4. CASE Load(c)
    BY <1>4 DEF Load
  <1>5. CASE Store(c)
    <2>1. cur[c] \in Message /\ cur[c].kind # "blank" /\ cur[c].kind \in AllKinds \cup {"refused"}
      BY <1>5 DEF Store, Message
    <2>2. [cur[c] EXCEPT !.kind = IF auto /\ cur[c].kind = "unknown" THEN "refused" ELSE cur[c].kind]
            \in Message
      BY <2>1 DEF Message
    <2>3. cur' \in [Conns -> Message] /\ pc' \in [Conns -> PCs] /\ processed' \in Nat /\ rejected' \in Nat
      BY <1>5, <2>2 DEF Store, AfterCount, Counter
    <2>4. counted' \in [AllKinds \cup {"refused"} -> Nat]
      BY <1>5, <2>1 DEF Store
    <2>5. Numbered'
      BY <1>5, <2>1, <2>2 DEF Store, AfterCount, Message
    <2> QED BY <1>5, <2>3, <2>4, <2>5 DEF Store
  <1>6. CASE Resolve(c)
    BY <1>6 DEF Resolve, EffectiveEmv
  <1>7. CASE Write(c)
    <2>1. Header(c, cur[c].id) \in Piece /\ Body(c, cur[c].id) \in Piece
      BY DEF Header, Body, Piece, Message
    <2>2. wire' \in [Conns -> Seq(Piece)]
      BY <1>7, <2>1 DEF Write
    <2> QED BY <1>7, <2>2 DEF Write
  <1>8. CASE WriteFails(c)
    BY <1>8 DEF WriteFails
  <1> QED BY <1>1, <1>2, <1>3, <1>4, <1>5, <1>6, <1>7, <1>8 DEF Handle

\* Every variable keeps its type, and messages are numbered as they were sent.
LEMMA TypeInvariant == Spec => []TypeInv
  <1>1. Init => TypeInv
    <2> SUFFICES ASSUME Init PROVE TypeInv
      OBVIOUS
    <2>1. NoMessage \in Message
      BY DEF NoMessage, Message, AllKinds
    <2>2. hung \in [Conns -> BOOLEAN] /\ broken \in [Conns -> BOOLEAN] /\ auto \in BOOLEAN
          /\ cancelled \in BOOLEAN
      BY ZenonT(20) DEF Init
    <2> QED BY <2>1, <2>2 DEF Init, TypeInv, TypeOK, Numbered, AtWork, PCs
  <1>2. TypeInv /\ [Next]_vars => TypeInv'
    <2> SUFFICES ASSUME TypeInv, [Next]_vars PROVE TypeInv'
      OBVIOUS
    <2>1. CASE UNCHANGED vars
      BY <2>1 DEF vars, TypeInv, TypeOK, Numbered, AtWork
    <2> QED BY <2>1, OutsideType, HandleType DEF Next
  <1> QED BY <1>1, <1>2, PTL DEF Spec

\* Type correctness of the handler loops.
THEOREM TypeCorrect == Spec => []TypeOK
  BY TypeInvariant, PTL DEF TypeInv

-----------------------------------------------------------------------------
(* What an answer is built with, and what is counted.                       *)

\* The version in force when a message was read is not a later one than now's.
EmvInv ==
  /\ \A c \in Conns : cur[c].asked <= emv
  /\ EmvFresh

\* Every step keeps the invariant.
LEMMA EmvStep ==
  ASSUME TypeInv, EmvInv, [Next]_vars
  PROVE  EmvInv'
  <1> USE DEF TypeInv, TypeOK, EmvInv, EmvFresh, Goto
  <1>1. \A c \in Conns : cur[c].asked \in Nat /\ used[c] \in Nat /\ emv \in Nat
    BY DEF Message
  <1>2. ASSUME NEW c \in Conns, Handle(c) PROVE EmvInv'
    <2>1. CASE Read(c)
      <3>1. inbox[c] \in Seq(Message) /\ inbox[c] # <<>> /\ Head(inbox[c]) \in Message
        BY <2>1 DEF Read
      <3>2. cur'[c].asked = emv /\ pc'[c] \notin {"header", "body", "logSent"} /\ emv' = emv
        BY <2>1, <3>1 DEF Read, Message
      <3>3. \A d \in Conns : d # c => cur'[d] = cur[d] /\ pc'[d] = pc[d]
        BY <2>1 DEF Read
      <3>4. used' = used
        BY <2>1 DEF Read
      <3>5. ASSUME NEW d \in Conns PROVE cur'[d].asked <= emv'
        <4>1. CASE d = c BY <1>1, <3>2, <4>1
        <4>2. CASE d # c
          <5>1. cur'[d] = cur[d] /\ cur[d].asked <= emv /\ emv' = emv
            BY <3>2, <3>3, <4>2
          <5> QED BY <5>1
        <4> QED BY <4>1, <4>2
      <3>6. ASSUME NEW d \in Conns, pc'[d] \in {"header", "body", "logSent"}
            PROVE  used'[d] >= cur'[d].asked
        BY <3>2, <3>3, <3>4, <3>6
      <3> QED BY <3>5, <3>6
    <2>2. CASE Store(c)
      <3>1. cur'[c].asked = cur[c].asked
        <4>1. \E k : cur' = [cur EXCEPT ![c] = [cur[c] EXCEPT !.kind = k]]
          BY <2>2, Zenon DEF Store
        <4>2. cur[c] \in Message
          OBVIOUS
        <4> QED BY <4>1, <4>2 DEF Message
      <3>4. pc'[c] = AfterCount(cur[c].kind)
        BY <2>2 DEF Store
      <3>5. AfterCount(cur[c].kind) \notin {"header", "body", "logSent"}
        BY DEF AfterCount
      <3>2. \A d \in Conns : d # c => cur'[d] = cur[d] /\ pc'[d] = pc[d]
        BY <2>2 DEF Store
      <3>3. used' = used /\ emv' = emv
        BY <2>2 DEF Store
      <3> QED BY <1>1, <3>1, <3>2, <3>3, <3>4, <3>5
    <2>3. CASE Resolve(c)
      <3>1. used'[c] = emv /\ cur' = cur /\ emv' = emv
        BY <2>3 DEF Resolve, EffectiveEmv
      <3>2. \A d \in Conns : d # c => used'[d] = used[d] /\ pc'[d] = pc[d]
        BY <2>3 DEF Resolve
      <3> QED BY <1>1, <3>1, <3>2
    <2>4. CASE Leave(c) \/ LogReceived(c) \/ Load(c) \/ Write(c) \/ WriteFails(c) \/ LogSent(c)
      <3>1. UNCHANGED <<cur, emv, used>>
        BY <2>4 DEF Leave, LogReceived, Load, Write, WriteFails, LogSent
      <3>2. \A d \in Conns : pc'[d] \in {"header", "body", "logSent"} =>
              pc[d] \in {"header", "body", "logSent"}
        BY <2>4 DEF Leave, LogReceived, Load, Write, WriteFails, LogSent
      <3> QED BY <3>1, <3>2
    <2> QED BY <1>2, <2>1, <2>2, <2>3, <2>4 DEF Handle
  <1>3. CASE PutEmv
    BY <1>1, <1>3 DEF PutEmv
  <1>4. CASE \/ \E c \in Conns : HangUp(c) \/ \E k \in Kinds : Send(c, k)
             \/ \E i \in Calls : InjectWrite(i)
             \/ ClearLog \/ Stop \/ UNCHANGED vars
    <2>1. UNCHANGED <<cur, emv, used, pc>>
      BY <1>4 DEF HangUp, Send, InjectWrite, ClearLog, Stop, vars
    <2> QED BY <2>1
  <1> QED BY <1>2, <1>3, <1>4 DEF Next

\* An answer is built with a configuration at least as new as the one in force when
\* its request was read, whoever puts one in between.
THEOREM EmvNeverStale == Spec => []EmvFresh
  <1>1. Init => EmvInv
    BY DEF Init, EmvInv, EmvFresh, NoMessage
  <1> QED BY <1>1, EmvStep, TypeInvariant, PTL DEF Spec, EmvInv

\* A lone handler's ++ loads the counter it will store.
Reloaded(c) ==
  pc[c] = "store" =>
    reg[c] = IF Counter(cur[c].kind) = "processed" THEN processed ELSE rejected

Totals ==
  /\ processed = counted["good"] + counted["unknown"]
  /\ rejected = counted["garbled"] + counted["notpdu"] + counted["refused"]

CountInv == \A c \in Conns : Conns = {c} => Reloaded(c) /\ Totals

\* With one handler, every step keeps the counter it loaded the counter it stores over.
LEMMA CountStep ==
  ASSUME TypeInv, CountInv, [Next]_vars, NEW c \in Conns, Conns = {c}
  PROVE  Reloaded(c)' /\ Totals'
  <1>1. Reloaded(c) /\ Totals
    BY DEF CountInv
  <1>2. CASE Store(c)
    <2>1. /\ cur[c].kind \in AllKinds \cup {"refused"} /\ cur[c].kind # "blank" /\ pc[c] = "store"
          /\ pc'[c] # "store"
      BY <1>2 DEF Store, Goto, AfterCount, TypeInv, TypeOK, Numbered, AtWork, Message
    <2>2. counted' = [counted EXCEPT ![cur[c].kind] = counted[cur[c].kind] + 1]
      BY <1>2 DEF Store
    <2>3. counted \in [AllKinds \cup {"refused"} -> Nat]
      BY DEF TypeInv, TypeOK
    <2>4. CASE cur[c].kind \in {"good", "unknown"}
      <3>1. reg[c] = processed /\ processed' = processed + 1 /\ rejected' = rejected
        BY <1>1, <1>2, <2>1, <2>4 DEF Store, Reloaded, Counter
      <3>2. counted'["good"] + counted'["unknown"] = counted["good"] + counted["unknown"] + 1
        BY <2>2, <2>3, <2>4 DEF AllKinds
      <3>3. \A k \in {"garbled", "notpdu", "refused"} : counted'[k] = counted[k]
        BY <2>2, <2>3, <2>4 DEF AllKinds
      <3> QED BY <1>1, <2>1, <3>1, <3>2, <3>3 DEF Totals, Reloaded
    <2>5. CASE cur[c].kind \in {"garbled", "notpdu", "refused"}
      <3>1. reg[c] = rejected /\ rejected' = rejected + 1 /\ processed' = processed
        BY <1>1, <1>2, <2>1, <2>5 DEF Store, Reloaded, Counter
      <3>2. counted'["garbled"] + counted'["notpdu"] + counted'["refused"]
              = counted["garbled"] + counted["notpdu"] + counted["refused"] + 1
        BY <2>2, <2>3, <2>5 DEF AllKinds
      <3>3. \A k \in {"good", "unknown"} : counted'[k] = counted[k]
        BY <2>2, <2>3, <2>5 DEF AllKinds
      <3> QED BY <1>1, <2>1, <3>1, <3>2, <3>3 DEF Totals, Reloaded
    <2> QED BY <2>1, <2>4, <2>5 DEF AllKinds
  <1>3. CASE Load(c)
    BY <1>1, <1>3 DEF Load, Reloaded, Totals, Goto, TypeInv, TypeOK
  <1>4. CASE \/ Read(c) \/ Leave(c) \/ LogReceived(c) \/ Resolve(c) \/ Write(c)
             \/ WriteFails(c) \/ LogSent(c)
    <2>1. UNCHANGED <<processed, rejected, counted>> /\ pc'[c] # "store"
      BY <1>4 DEF Read, Leave, LogReceived, Resolve, Write, WriteFails, LogSent, Goto,
                  TypeInv, TypeOK
    <2> QED BY <1>1, <2>1 DEF Reloaded, Totals
  <1>5. CASE \/ \E d \in Conns : HangUp(d) \/ \E k \in Kinds : Send(d, k)
             \/ \E i \in Calls : InjectWrite(i)
             \/ PutEmv \/ ClearLog \/ Stop \/ UNCHANGED vars
    <2>1. UNCHANGED <<processed, rejected, counted, pc, reg, cur>>
      BY <1>5 DEF HangUp, Send, InjectWrite, PutEmv, ClearLog, Stop, vars
    <2> QED BY <1>1, <2>1 DEF Reloaded, Totals
  <1> QED BY <1>2, <1>3, <1>4, <1>5 DEF Next, Handle

\* A session with a single connection counts every message it logs, although each
\* count is a load and a store.
THEOREM CountedOnce == Spec => []CountersExact
  <1>1. Init => CountInv
    BY DEF Init, CountInv, Reloaded, Totals, AllKinds
  <1>2. TypeInv /\ CountInv /\ [Next]_vars => CountInv'
    BY CountStep DEF CountInv
  <1>3. CountInv => CountersExact
    BY DEF CountInv, Totals, CountersExact
  <1> QED BY <1>1, <1>2, <1>3, TypeInvariant, PTL DEF Spec

-----------------------------------------------------------------------------
(* The order of the log.  It rests on how far each handler has come: what   *)
(* it has logged of the message at hand is of a stage below Due, and every  *)
(* message still in its inbox is newer than that one.                       *)

Refused(c) == cur[c].kind = "refused"

Due(c) ==
  CASE pc[c] = "log"                 -> IF Refused(c) THEN 1 ELSE 0
    [] pc[c] \in {"load", "store"}   -> IF Refused(c) THEN 2 ELSE 1
    [] pc[c] \in {"read", "closed"}  -> 3
    [] OTHER                         -> 2

\* e was logged before what its handler logs next.
Before(e, c) == e.id < cur[c].id \/ (e.id = cur[c].id /\ Stage(e) < Due(c))

LogBehind == \A i \in 1..Len(log) : Before(log[i], log[i].conn)

InboxAhead ==
  \A c \in Conns :
    /\ cur[c].id <= sends
    /\ \A i \in 1..Len(inbox[c]) : cur[c].id < inbox[c][i].id
    /\ \A i, j \in 1..Len(inbox[c]) : i < j => inbox[c][i].id < inbox[c][j].id

OrderInv == LogInOrder /\ LogBehind /\ InboxAhead

Follows(e, f) == e.conn = f.conn => e.id < f.id \/ (e.id = f.id /\ Stage(e) < Stage(f))

\* An entry that every entry of its connection precedes can be appended, and the
\* oldest evicted.
LEMMA AppendInOrder ==
  ASSUME log \in Seq(Entry), LogInOrder, NEW e \in Entry, LogMessage(e),
         \A i \in 1..Len(log) : Follows(log[i], e)
  PROVE  /\ LogInOrder'
         /\ \A i \in 1..Len(log') : log'[i] = e \/ \E j \in 1..Len(log) : log'[i] = log[j]
  <1> DEFINE all == Append(log, e)
             n == Len(log)
  <1>1. n \in Nat /\ all \in Seq(Entry) /\ Len(all) = n + 1 /\ all # <<>>
    OBVIOUS
  <1>2. \A i \in 1..n : all[i] = log[i]
    OBVIOUS
  <1>3. all[n + 1] = e
    OBVIOUS
  <1>4. ASSUME NEW i \in 1..(n + 1), NEW j \in 1..(n + 1), i < j PROVE Follows(all[i], all[j])
    <2>1. i \in 1..n
      BY <1>1, <1>4
    <2>2. CASE j = n + 1
      BY <1>2, <1>3, <2>1, <2>2
    <2>3. CASE j \in 1..n
      BY <1>2, <1>4, <2>1, <2>3 DEF LogInOrder, Follows
    <2> QED BY <1>1, <2>2, <2>3
  <1>5. PICK k \in {0, 1} : /\ Len(log') = n + 1 - k
                           /\ \A i \in 1..(n + 1 - k) : log'[i] = all[i + k]
    <2>1. CASE Len(all) > Retention
      <3>1. log' = Tail(all)
        BY <2>1 DEF LogMessage
      <3>2. Len(log') = n + 1 - 1 /\ \A i \in 1..(n + 1 - 1) : log'[i] = all[i + 1]
        BY <1>1, <3>1
      <3> QED BY <3>2
    <2>2. CASE ~ (Len(all) > Retention)
      <3>1. log' = all
        BY <2>2 DEF LogMessage
      <3>2. Len(log') = n + 1 - 0 /\ \A i \in 1..(n + 1 - 0) : log'[i] = all[i + 0]
        BY <1>1, <3>1
      <3> QED BY <3>2
    <2> QED BY <2>1, <2>2
  <1>6. \A i \in 1..Len(log') : i + k \in 1..(n + 1) /\ log'[i] = all[i + k]
    BY <1>1, <1>5
  <1>7. LogInOrder'
    <2> SUFFICES ASSUME NEW i \in 1..Len(log'), NEW j \in 1..Len(log'), i < j
                 PROVE  Follows(log'[i], log'[j])
      BY DEF LogInOrder, Follows, Stage
    <2>1. i + k < j + k
      BY <1>1, <1>5
    <2> QED BY <1>4, <1>6, <2>1
  <1>8. ASSUME NEW i \in 1..Len(log')
        PROVE  log'[i] = e \/ \E j \in 1..Len(log) : log'[i] = log[j]
    <2>1. CASE i + k = n + 1
      BY <1>3, <1>6, <2>1
    <2>2. CASE i + k \in 1..n
      BY <1>2, <1>6, <2>2
    <2> QED BY <1>1, <1>6, <2>1, <2>2
  <1> QED BY <1>7, <1>8

\* What an entry of the log, and how far a handler is, can be.
LEMMA EntryType ==
  ASSUME NEW f \in Entry
  PROVE  f.conn \in Conns /\ f.id \in Nat /\ Stage(f) \in 0..2
  BY DEF Entry, Stage

\* The stage a handler logs next is one of four.
LEMMA DueType ==
  ASSUME NEW c \in Conns
  PROVE  Due(c) \in 0..3 /\ Due(c)' \in 0..3
  BY DEF Due

\* What was logged before stays so while the handler goes on with its message.
LEMMA BeforeKept ==
  ASSUME TypeInv, NEW f \in Entry, NEW c \in Conns, Before(f, c),
         cur'[c].id = cur[c].id, Due(c)' >= Due(c)
  PROVE  Before(f, c)'
  <1>1. Due(c) \in 0..3 /\ Due(c)' \in 0..3 /\ Stage(f) \in 0..2 /\ f.id \in Nat
    BY EntryType, DueType
  <1>2. Stage(f)' = Stage(f)
    BY DEF Stage
  <1> QED BY <1>1, <1>2 DEF Before

\* LogBehind, said of the entries themselves.
LEMMA BehindType ==
  ASSUME TypeInv, LogBehind, NEW i \in 1..Len(log)
  PROVE  \E f \in Entry : f = log[i] /\ f.conn \in Conns /\ Before(f, f.conn)
  <1>1. log[i] \in Entry
    BY DEF TypeInv, TypeOK
  <1> QED BY <1>1, EntryType DEF LogBehind

\* A step that logs nothing, and takes no handler back within its message.
LEMMA OrderKept ==
  ASSUME TypeInv, OrderInv, log' = log, sends' = sends, inbox' = inbox,
         \A c \in Conns : cur'[c].id = cur[c].id /\ Due(c)' >= Due(c)
  PROVE  OrderInv'
  <1>1. LogInOrder'
    BY DEF OrderInv, LogInOrder, Stage
  <1>2. LogBehind'
    <2> SUFFICES ASSUME NEW i \in 1..Len(log) PROVE Before(log[i], log[i].conn)'
      BY DEF LogBehind
    <2>1. PICK f \in Entry : f = log[i] /\ f.conn \in Conns /\ Before(f, f.conn)
      BY BehindType DEF OrderInv
    <2>2. PICK c \in Conns : c = f.conn
      BY <2>1
    <2>3. Before(f, c)'
      BY <2>1, <2>2, BeforeKept
    <2> QED BY <2>1, <2>2, <2>3 DEF Before, Stage
  <1>3. InboxAhead'
    BY DEF OrderInv, InboxAhead
  <1> QED BY <1>1, <1>2, <1>3 DEF OrderInv

\* A handler that logs something of its message logs what was due.
LEMMA OrderLogs ==
  ASSUME TypeInv, OrderInv, NEW c \in Conns, LogReceived(c) \/ LogSent(c)
  PROVE  OrderInv'
  <1>1. PICK d \in {"Received", "Sent"} :
          /\ LogMessage([dir |-> d, conn |-> c, id |-> cur[c].id, kind |-> cur[c].kind])
          /\ d = "Received" => pc[c] = "log" /\ pc'[c] = "load"
          /\ d = "Sent" => pc[c] = "logSent" /\ pc'[c] = "read"
    BY DEF LogReceived, LogSent, Goto, TypeInv, TypeOK
  <1>2. UNCHANGED <<cur, inbox, sends>> /\ \A x \in Conns : x # c => pc'[x] = pc[x]
    BY DEF LogReceived, LogSent, Goto, TypeInv, TypeOK
  <1>3. cur[c].id \in 1..sends /\ sends \in 0..MaxSends /\ cur[c].kind \in AllKinds \cup {"refused"}
    BY <1>1 DEF Numbered, AtWork, Message, TypeInv, TypeOK
  <1>4. [dir |-> d, conn |-> c, id |-> cur[c].id, kind |-> cur[c].kind] \in Entry
    BY <1>3 DEF Entry
  <1>5. PICK e \in Entry : e = [dir |-> d, conn |-> c, id |-> cur[c].id, kind |-> cur[c].kind]
    BY <1>4
  <1>6. Stage(e) = Due(c) /\ Due(c)' >= Due(c) + 1 /\ Due(c) \in 0..2 /\ Due(c)' \in 0..3
    BY <1>1, <1>2, <1>5 DEF Stage, Due, Refused
  <1>7. ASSUME NEW i \in 1..Len(log) PROVE Follows(log[i], e)
    <2>1. PICK f \in Entry : f = log[i] /\ f.conn \in Conns /\ Before(f, f.conn)
      BY BehindType DEF OrderInv
    <2> QED BY <1>5, <1>6, <2>1 DEF Before, Follows
  <1>8. /\ LogInOrder'
        /\ \A i \in 1..Len(log') : log'[i] = e \/ \E j \in 1..Len(log) : log'[i] = log[j]
    BY <1>1, <1>5, <1>7, AppendInOrder DEF OrderInv, TypeInv, TypeOK
  <1>9. \A x \in Conns : Due(x)' >= Due(x) /\ cur'[x].id = cur[x].id
    <2> TAKE x \in Conns
    <2>1. CASE x = c BY <1>2, <1>6, <2>1
    <2>2. CASE x # c
      <3>1. Due(x)' = Due(x) BY <1>2, <2>2 DEF Due, Refused
      <3> QED BY <1>2, <3>1, DueType
    <2> QED BY <2>1, <2>2
  <1>10. ASSUME NEW i \in 1..Len(log') PROVE Before(log[i], log[i].conn)'
    <2>1. CASE log'[i] = e
      BY <1>2, <1>5, <1>6, <2>1 DEF Before, Stage
    <2>2. CASE \E j \in 1..Len(log) : log'[i] = log[j]
      <3>1. PICK j \in 1..Len(log) : log'[i] = log[j]
        BY <2>2
      <3>2. PICK f \in Entry : f = log[j] /\ f.conn \in Conns /\ Before(f, f.conn)
        BY BehindType DEF OrderInv
      <3>3. PICK x \in Conns : x = f.conn
        BY <3>2
      <3>4. Before(f, x)'
        BY <1>9, <3>2, <3>3, BeforeKept
      <3> QED BY <3>1, <3>2, <3>3, <3>4 DEF Before, Stage
    <2> QED BY <1>8, <2>1, <2>2
  <1>11. InboxAhead'
    BY <1>2 DEF OrderInv, InboxAhead
  <1> QED BY <1>8, <1>10, <1>11 DEF OrderInv, LogBehind

\* The next message is newer than everything logged of the last.
LEMMA OrderReads ==
  ASSUME TypeInv, OrderInv, NEW c \in Conns, Read(c)
  PROVE  OrderInv'
  <1>1. inbox[c] \in Seq(Message) /\ inbox[c] # <<>> /\ 1 \in 1..Len(inbox[c])
        /\ Head(inbox[c]) = inbox[c][1] /\ inbox[c][1] \in Message
    BY DEF Read, TypeInv, TypeOK
  <1>2. /\ cur'[c].id = inbox[c][1].id /\ inbox'[c] = Tail(inbox[c])
        /\ log' = log /\ sends' = sends
    BY <1>1 DEF Read, Message, TypeInv, TypeOK
  <1>3. \A d \in Conns : d # c => cur'[d] = cur[d] /\ pc'[d] = pc[d] /\ inbox'[d] = inbox[d]
    BY DEF Read, Goto, TypeInv, TypeOK
  <1>4. cur[c].id < inbox[c][1].id /\ inbox[c][1].id \in 1..sends /\ cur[c].id \in Nat
    BY <1>1 DEF OrderInv, InboxAhead, Numbered, Message, TypeInv, TypeOK
  <1>5. LogInOrder'
    BY <1>2 DEF OrderInv, LogInOrder, Stage
  <1>6. ASSUME NEW i \in 1..Len(log) PROVE Before(log[i], log[i].conn)'
    <2>1. PICK f \in Entry : f = log[i] /\ f.conn \in Conns /\ Before(f, f.conn)
      BY BehindType DEF OrderInv
    <2>2. PICK x \in Conns : x = f.conn
      BY <2>1
    <2>3. CASE x = c
      <3>1. f.id \in Nat /\ f.id <= cur[c].id
        BY <1>4, <2>1, <2>2, <2>3, EntryType DEF Before
      <3>2. f.id < cur'[c].id
        BY <1>2, <1>4, <3>1
      <3> QED BY <1>2, <2>1, <2>2, <2>3, <3>2 DEF Before
    <2>4. CASE x # c
      <3>1. Due(x)' = Due(x) /\ cur'[x].id = cur[x].id
        BY <1>3, <2>4 DEF Due, Refused
      <3>2. Before(f, x)'
        BY <2>1, <2>2, <3>1, DueType, BeforeKept
      <3> QED BY <1>2, <2>1, <2>2, <3>2 DEF Before, Stage
    <2> QED BY <2>3, <2>4
  <1>7. \A i \in 1..Len(Tail(inbox[c])) :
          i + 1 \in 1..Len(inbox[c]) /\ Tail(inbox[c])[i] = inbox[c][i + 1]
    BY <1>1
  <1>8. InboxAhead'
    <2> SUFFICES ASSUME NEW d \in Conns
                 PROVE  /\ cur'[d].id <= sends
                        /\ \A i \in 1..Len(inbox'[d]) : cur'[d].id < inbox'[d][i].id
                        /\ \A i, j \in 1..Len(inbox'[d]) : i < j => inbox'[d][i].id < inbox'[d][j].id
      BY <1>2 DEF InboxAhead
    <2>1. CASE d = c
      <3>1. \A i, j \in 1..Len(inbox[c]) : i < j => inbox[c][i].id < inbox[c][j].id
        BY DEF OrderInv, InboxAhead
      <3>2. \A i \in 1..Len(Tail(inbox[c])) : 1 < i + 1
        BY <1>1
      <3>3. \A i \in 1..Len(Tail(inbox[c])) : inbox[c][1].id < Tail(inbox[c])[i].id
        BY <1>1, <1>7, <3>1, <3>2
      <3>4. ASSUME NEW i \in 1..Len(Tail(inbox[c])), NEW j \in 1..Len(Tail(inbox[c])), i < j
            PROVE  Tail(inbox[c])[i].id < Tail(inbox[c])[j].id
        <4>1. i + 1 < j + 1
          BY <1>1, <3>4
        <4> QED BY <1>7, <3>1, <4>1
      <3>5. inbox'[d] = Tail(inbox[c]) /\ cur'[d].id = inbox[c][1].id /\ inbox[c][1].id <= sends
        BY <1>2, <1>4, <2>1 DEF TypeInv, TypeOK
      <3> QED BY <3>3, <3>4, <3>5
    <2>2. CASE d # c
      BY <1>3, <2>2 DEF OrderInv, InboxAhead
    <2> QED BY <2>1, <2>2
  <1> QED BY <1>2, <1>5, <1>6, <1>8 DEF OrderInv, LogBehind

\* Every other step of a handler goes on with its message.
LEMMA OrderHandles ==
  ASSUME TypeInv, OrderInv, NEW c \in Conns,
         Leave(c) \/ Load(c) \/ Store(c) \/ Resolve(c) \/ Write(c) \/ WriteFails(c)
  PROVE  OrderInv'
  <1>1. UNCHANGED <<log, sends, inbox>>
    BY DEF Leave, Load, Store, Resolve, Write, WriteFails
  <1>2. ASSUME NEW d \in Conns, d # c PROVE cur'[d].id = cur[d].id /\ Due(d)' >= Due(d)
    <2>1. cur'[d] = cur[d] /\ pc'[d] = pc[d]
      BY <1>2 DEF Leave, Load, Store, Resolve, Write, WriteFails, Goto, TypeInv, TypeOK
    <2>2. Due(d)' = Due(d)
      BY <2>1 DEF Due, Refused
    <2> QED BY <2>1, <2>2, DueType
  <1>3. cur'[c].id = cur[c].id /\ Due(c)' >= Due(c)
    <2>1. CASE Store(c)
      <3>1. /\ pc[c] = "store" /\ pc'[c] = AfterCount(cur[c].kind)
            /\ cur' = [cur EXCEPT ![c].kind = IF auto /\ cur[c].kind = "unknown" THEN "refused"
                                              ELSE cur[c].kind]
        BY <2>1 DEF Store, Goto, TypeInv, TypeOK
      <3>2. cur'[c].id = cur[c].id
            /\ cur'[c].kind = IF auto /\ cur[c].kind = "unknown" THEN "refused" ELSE cur[c].kind
        BY <3>1 DEF Message, TypeInv, TypeOK
      <3>3. CASE AfterCount(cur[c].kind) = "log"
        <4>1. auto /\ cur[c].kind = "unknown"
          BY <3>3 DEF AfterCount
        <4> QED BY <3>1, <3>2, <3>3, <4>1 DEF Due, Refused
      <3>4. CASE AfterCount(cur[c].kind) = "resolve"
        <4>1. cur[c].kind = "good"
          BY <3>4 DEF AfterCount
        <4> QED BY <3>1, <3>2, <3>4, <4>1 DEF Due, Refused
      <3>5. CASE AfterCount(cur[c].kind) = "read"
        BY <3>1, <3>2, <3>5 DEF Due
      <3> QED BY <3>3, <3>4, <3>5 DEF AfterCount
    <2>2. CASE Leave(c) \/ Load(c) \/ Resolve(c) \/ Write(c) \/ WriteFails(c)
      <3>1. cur' = cur
        BY <2>2 DEF Leave, Load, Resolve, Write, WriteFails
      <3>2. \/ pc[c] = "load" /\ pc'[c] = "store"
            \/ pc'[c] \in {"read", "closed"}
            \/ pc[c] \in {"resolve", "header", "body"} /\ pc'[c] \in {"header", "body", "logSent"}
        BY <2>2 DEF Leave, Load, Resolve, Write, WriteFails, Goto, TypeInv, TypeOK
      <3> QED BY <3>1, <3>2 DEF Due, Refused
    <2> QED BY <2>1, <2>2
  <1> QED BY <1>1, <1>2, <1>3, OrderKept

\* A message sent is newer than all before it.
LEMMA OrderSends ==
  ASSUME TypeInv, OrderInv, NEW c \in Conns, NEW k \in Kinds, Send(c, k)
  PROVE  OrderInv'
  <1> DEFINE m == [kind |-> k, id |-> sends + 1, asked |-> 0]
  <1>1. /\ UNCHANGED <<log, cur, pc>> /\ sends' = sends + 1 /\ sends \in Nat
        /\ inbox' = [inbox EXCEPT ![c] = Append(inbox[c], m)]
    BY DEF Send, TypeInv, TypeOK
  <1>2. LogInOrder' /\ LogBehind'
    BY <1>1 DEF OrderInv, LogInOrder, LogBehind, Before, Due, Refused, Stage
  <1>3. \A i \in 1..Len(inbox[c]) : inbox[c][i].id <= sends /\ inbox[c][i].id \in Nat
    BY DEF TypeInv, TypeOK, Numbered
  <1>4. inbox[c] \in Seq(Message) /\ Len(Append(inbox[c], m)) = Len(inbox[c]) + 1
        /\ Len(inbox[c]) \in Nat
    BY DEF TypeInv, TypeOK
  <1>5. \A i \in 1..Len(inbox[c]) : Append(inbox[c], m)[i] = inbox[c][i]
    BY <1>4
  <1>6. Append(inbox[c], m)[Len(inbox[c]) + 1] = m
    BY <1>4
  <1>7. ASSUME NEW d \in Conns
        PROVE  /\ cur[d].id <= sends + 1
               /\ \A i \in 1..Len(inbox'[d]) : cur[d].id < inbox'[d][i].id
               /\ \A i, j \in 1..Len(inbox'[d]) : i < j => inbox'[d][i].id < inbox'[d][j].id
    <2>1. cur[d].id <= sends /\ cur[d].id \in Nat
      BY DEF OrderInv, InboxAhead, TypeInv, TypeOK, Message
    <2>2. CASE d # c
      <3>1. inbox'[d] = inbox[d]
        BY <1>1, <2>2 DEF TypeInv, TypeOK
      <3>2. /\ \A i \in 1..Len(inbox[d]) : cur[d].id < inbox[d][i].id
            /\ \A i, j \in 1..Len(inbox[d]) : i < j => inbox[d][i].id < inbox[d][j].id
        BY DEF OrderInv, InboxAhead
      <3>3. cur[d].id <= sends + 1
        <4>1. sends \in Nat
          BY <1>1
        <4> QED BY <2>1, <4>1
      <3> QED BY <3>1, <3>2, <3>3
    <2>3. CASE d = c
      <3>1. inbox'[d] = Append(inbox[c], m)
        BY <1>1, <2>3 DEF TypeInv, TypeOK
      <3>2. ASSUME NEW i \in 1..(Len(inbox[c]) + 1) PROVE cur[c].id < Append(inbox[c], m)[i].id
        <4>1. CASE i = Len(inbox[c]) + 1
          BY <1>1, <1>6, <2>1, <2>3, <4>1
        <4>2. CASE i \in 1..Len(inbox[c])
          BY <1>5, <4>2 DEF OrderInv, InboxAhead
        <4> QED BY <1>4, <4>1, <4>2
      <3>3. ASSUME NEW i \in 1..(Len(inbox[c]) + 1), NEW j \in 1..(Len(inbox[c]) + 1), i < j
            PROVE  Append(inbox[c], m)[i].id < Append(inbox[c], m)[j].id
        <4>1. i \in 1..Len(inbox[c])
          BY <1>4, <3>3
        <4>2. CASE j = Len(inbox[c]) + 1
          <5>1. Append(inbox[c], m)[i].id <= sends /\ Append(inbox[c], m)[i].id \in Nat
            BY <1>3, <1>5, <4>1
          <5> QED BY <1>1, <1>6, <4>2, <5>1
        <4>3. CASE j \in 1..Len(inbox[c])
          BY <1>5, <3>3, <4>1, <4>3 DEF OrderInv, InboxAhead
        <4> QED BY <1>4, <4>2, <4>3
      <3> QED BY <1>1, <1>4, <2>1, <2>3, <3>1, <3>2, <3>3
    <2> QED BY <2>2, <2>3
  <1> QED BY <1>1, <1>2, <1>7 DEF OrderInv, InboxAhead

\* The order of the log, and what it rests on, is invariant.
LEMMA OrderInvariant == Spec => []OrderInv
  <1>1. Init => OrderInv
    BY DEF Init, OrderInv, LogInOrder, LogBehind, InboxAhead, NoMessage
  <1>2. TypeInv /\ OrderInv /\ [Next]_vars => OrderInv'
    <2> SUFFICES ASSUME TypeInv, OrderInv, [Next]_vars PROVE OrderInv'
      OBVIOUS
    <2>1. CASE \E c \in Conns : Handle(c)
      BY <2>1, OrderReads, OrderLogs, OrderHandles DEF Handle
    <2>2. CASE \E c \in Conns : \E k \in Kinds : Send(c, k)
      BY <2>2, OrderSends
    <2>3. CASE ClearLog
      BY <2>3 DEF ClearLog, OrderInv, LogInOrder, LogBehind, InboxAhead
    <2>4. CASE \/ \E c \in Conns : HangUp(c)
               \/ \E i \in Calls : InjectWrite(i)
               \/ PutEmv \/ Stop \/ UNCHANGED vars
      <3>1. UNCHANGED <<log, sends, inbox, cur, pc>>
        BY <2>4 DEF HangUp, InjectWrite, PutEmv, Stop, vars
      <3>2. \A c \in Conns : Due(c)' >= Due(c)
        <4>1. \A c \in Conns : Due(c)' = Due(c)
          BY <3>1 DEF Due, Refused
        <4> QED BY <4>1, DueType
      <3> QED BY <3>1, <3>2, OrderKept
    <2> QED BY <2>1, <2>2, <2>3, <2>4 DEF Next
  <1> QED BY <1>1, <1>2, TypeInvariant, PTL DEF Spec

\* Whatever was evicted or cleared and however many connections share it, the log
\* tells each connection's story in order and no part of it twice.
THEOREM LogOrdered == Spec => []LogInOrder
  BY OrderInvariant, PTL DEF OrderInv

-----------------------------------------------------------------------------
(* Frames on a stream with one writer.                                      *)

\* Prefix and bytes in turn, each bytes those its prefix announced.
Framed(w) ==
  \A i \in 1..Len(w) :
    IF i % 2 = 1 THEN w[i].part = "header" ELSE w[i] = [w[i - 1] EXCEPT !.part = "body"]

Ascending(c, w) ==
  \A i, j \in 1..Len(w) : i < j /\ IsAnswer(c, w[i]) /\ IsAnswer(c, w[j]) => w[i].id < w[j].id

\* A prefix without its bytes is the handler's own, about to be completed, or the last
\* thing the stream is given.
HalfFrame(c) ==
  /\ pc[c] = "body" => /\ Len(wire[c]) % 2 = 1
                       /\ wire[c][Len(wire[c])] = Header(c, cur[c].id)
  /\ Len(wire[c]) % 2 = 1 => pc[c] = "body" \/ cancelled \/ broken[c]
  /\ broken[c] => pc[c] \in {"read", "closed"}

\* What has been answered is older than the message at work, or is it, once its answer
\* is out.
AnsweredUpTo(c) ==
  \A i \in 1..Len(wire[c]) :
    IsAnswer(c, wire[c][i]) =>
      \/ wire[c][i].id < cur[c].id
      \/ wire[c][i].id = cur[c].id /\ pc[c] \in {"logSent", "read", "closed"}

WireOf(c) == Framed(wire[c]) /\ Ascending(c, wire[c]) /\ HalfFrame(c) /\ AnsweredUpTo(c)
WireInv == \A c \in Conns : WireOf(c)

\* A length is even or odd.
LEMMA Parity == \A n \in Nat : n % 2 = 0 \/ n % 2 = 1
  OBVIOUS

\* The piece a framed stream lacks keeps it framed.
LEMMA AppendFramed ==
  ASSUME NEW w \in Seq(Piece), NEW p \in Piece, Framed(w),
         IF Len(w) % 2 = 0 THEN p.part = "header" ELSE p = [w[Len(w)] EXCEPT !.part = "body"]
  PROVE  Framed(Append(w, p))
  <1> DEFINE n == Len(w)
             all == Append(w, p)
  <1>1. n \in Nat /\ Len(all) = n + 1 /\ all[n + 1] = p /\ \A i \in 1..n : all[i] = w[i]
    OBVIOUS
  <1>2. ASSUME NEW i \in 1..n
        PROVE  IF i % 2 = 1 THEN all[i].part = "header" ELSE all[i] = [all[i - 1] EXCEPT !.part = "body"]
    <2>1. all[i] = w[i]
      BY <1>1
    <2>2. IF i % 2 = 1 THEN w[i].part = "header" ELSE w[i] = [w[i - 1] EXCEPT !.part = "body"]
      BY DEF Framed
    <2>3. CASE i % 2 = 1
      BY <2>1, <2>2, <2>3
    <2>4. CASE i % 2 # 1
      <3>1. i - 1 \in 1..n
        BY <1>1, <2>4
      <3> QED BY <1>1, <2>1, <2>2, <2>4, <3>1
    <2> QED BY <2>3, <2>4
  <1>3. IF (n + 1) % 2 = 1 THEN p.part = "header" ELSE p = [all[n] EXCEPT !.part = "body"]
    <2>1. CASE n % 2 = 0
      <3>1. (n + 1) % 2 = 1
        BY <1>1, <2>1
      <3> QED BY <2>1, <3>1
    <2>2. CASE n % 2 # 0
      <3>1. (n + 1) % 2 # 1 /\ n \in 1..n
        BY <1>1, <2>2
      <3> QED BY <1>1, <2>2, <3>1
    <2> QED BY <2>1, <2>2
  <1> HIDE DEF n, all
  <1>4. ASSUME NEW i \in 1..(n + 1)
        PROVE  IF i % 2 = 1 THEN all[i].part = "header" ELSE all[i] = [all[i - 1] EXCEPT !.part = "body"]
    <2>1. CASE i = n + 1
      <3>1. (n + 1) - 1 = n
        BY <1>1
      <3> QED BY <1>1, <1>3, <2>1, <3>1
    <2>2. CASE i # n + 1
      <3>1. i \in 1..n
        BY <1>1, <2>2
      <3> QED BY <1>2, <3>1
    <2> QED BY <2>1, <2>2
  <1>5. Framed(all)
    BY <1>1, <1>4 DEF Framed
  <1> QED BY <1>5 DEF all

\* A piece that is no answer, or a newer one than all before it, keeps the answers in order.
LEMMA AppendAscending ==
  ASSUME NEW c \in Conns, NEW w \in Seq(Piece), NEW p \in Piece, Ascending(c, w),
         IsAnswer(c, p) => \A i \in 1..Len(w) : IsAnswer(c, w[i]) => w[i].id < p.id
  PROVE  Ascending(c, Append(w, p))
  <1> DEFINE n == Len(w)
             all == Append(w, p)
  <1>1. n \in Nat /\ Len(all) = n + 1 /\ all[n + 1] = p /\ \A i \in 1..n : all[i] = w[i]
    OBVIOUS
  <1> HIDE DEF all
  <1>2. ASSUME NEW i \in 1..(n + 1), NEW j \in 1..(n + 1), i < j,
               IsAnswer(c, all[i]), IsAnswer(c, all[j])
        PROVE  all[i].id < all[j].id
    <2>1. i \in 1..n
      BY <1>1, <1>2
    <2>2. CASE j = n + 1
      BY <1>1, <1>2, <2>1, <2>2
    <2>3. CASE j \in 1..n
      BY <1>1, <1>2, <2>1, <2>3 DEF Ascending
    <2> QED BY <1>1, <2>2, <2>3
  <1>3. Ascending(c, all)
    BY <1>1, <1>2 DEF Ascending
  <1> QED BY <1>3 DEF all

\* A step that writes nothing to a stream and leaves the progress of its handler sound.
LEMMA WireKept ==
  ASSUME NEW c \in Conns, WireOf(c), wire'[c] = wire[c], cur'[c].id = cur[c].id,
         HalfFrame(c)',
         pc[c] \in {"logSent", "read", "closed"} => pc'[c] \in {"logSent", "read", "closed"}
  PROVE  WireOf(c)'
  BY DEF WireOf, Framed, Ascending, AnsweredUpTo, IsAnswer

\* A handler writes its prefix after whole frames, and then its bytes.
LEMMA WireWrites ==
  ASSUME TypeInv, NEW c \in Conns, WireOf(c), Write(c)
  PROVE  WireOf(c)'
  <1> DEFINE w == wire[c]
             p == IF pc[c] = "header" THEN Header(c, cur[c].id) ELSE Body(c, cur[c].id)
  <1>1. w \in Seq(Piece) /\ Len(w) \in Nat /\ cur[c].id \in 0..MaxSends
    BY DEF TypeInv, TypeOK, Message
  <1>2. p \in Piece /\ p.from = c /\ p.id = cur[c].id
    BY <1>1 DEF Header, Body, Piece
  <1>3. wire'[c] = Append(w, p) /\ cur' = cur /\ broken' = broken /\ cancelled' = cancelled /\ ~ cancelled
    BY DEF Write, TypeInv, TypeOK
  <1>4. /\ pc[c] = "header" => pc'[c] = "body"
        /\ pc[c] = "body" => pc'[c] = "logSent"
        /\ pc[c] \in {"header", "body"}
    BY DEF Write, Goto, TypeInv, TypeOK
  <1>5. ~ broken[c] /\ ~ broken'[c]
    BY <1>3, <1>4 DEF WireOf, HalfFrame
  <1>6. /\ pc[c] = "header" => Len(w) % 2 = 0 /\ p = Header(c, cur[c].id)
        /\ pc[c] = "body" => /\ Len(w) % 2 = 1 /\ p = Body(c, cur[c].id)
                             /\ w[Len(w)] = Header(c, cur[c].id)
    <2>1. Len(w) % 2 = 0 \/ Len(w) % 2 = 1
      BY <1>1, Parity
    <2> QED BY <1>3, <1>5, <2>1 DEF WireOf, HalfFrame
  <1>7. Body(c, cur[c].id) = [Header(c, cur[c].id) EXCEPT !.part = "body"]
        /\ Header(c, cur[c].id).part = "header"
    BY DEF Header, Body
  <1> HIDE DEF w, p
  <1>8. Framed(Append(w, p))
    <2>1. Framed(w)
      BY DEF WireOf, w
    <2>2. IF Len(w) % 2 = 0 THEN p.part = "header" ELSE p = [w[Len(w)] EXCEPT !.part = "body"]
      BY <1>4, <1>6, <1>7
    <2> QED BY <1>1, <1>2, <2>1, <2>2, AppendFramed
  <1>9. \A i \in 1..Len(w) : IsAnswer(c, w[i]) => w[i].id < cur[c].id
    BY <1>4 DEF WireOf, AnsweredUpTo, w
  <1>10. Ascending(c, Append(w, p))
    <2>1. Ascending(c, w)
      BY DEF WireOf, w
    <2> QED BY <1>1, <1>2, <1>9, <2>1, AppendAscending
  <1>11. Len(Append(w, p)) = Len(w) + 1 /\ Append(w, p)[Len(w) + 1] = p
         /\ \A i \in 1..Len(w) : Append(w, p)[i] = w[i]
    BY <1>1, <1>2
  <1>12. HalfFrame(c)'
    <2>1. CASE pc[c] = "header"
      <3>1. (Len(w) + 1) % 2 = 1
        BY <1>1, <1>6, <2>1
      <3> QED BY <1>3, <1>4, <1>5, <1>6, <1>11, <2>1, <3>1 DEF HalfFrame, Header
    <2>2. CASE pc[c] = "body"
      <3>1. (Len(w) + 1) % 2 # 1
        BY <1>1, <1>6, <2>2
      <3> QED BY <1>3, <1>4, <1>5, <1>11, <2>2, <3>1 DEF HalfFrame
    <2> QED BY <1>4, <2>1, <2>2
  <1>13. AnsweredUpTo(c)'
    <2> SUFFICES ASSUME NEW i \in 1..(Len(w) + 1), IsAnswer(c, Append(w, p)[i])
                 PROVE  \/ Append(w, p)[i].id < cur[c].id
                        \/ Append(w, p)[i].id = cur[c].id /\ pc'[c] \in {"logSent", "read", "closed"}
      BY <1>3, <1>11 DEF AnsweredUpTo, IsAnswer
    <2>1. CASE i = Len(w) + 1
      <3>1. pc[c] = "body"
        BY <1>4, <1>6, <1>7, <1>11, <2>1 DEF IsAnswer
      <3> QED BY <1>2, <1>4, <1>11, <2>1, <3>1
    <2>2. CASE i \in 1..Len(w)
      BY <1>9, <1>11, <2>2
    <2> QED BY <1>1, <2>1, <2>2
  <1>14. Framed(wire[c])' /\ Ascending(c, wire[c])'
    BY <1>3, <1>8, <1>10 DEF Framed, Ascending, IsAnswer
  <1> QED BY <1>12, <1>13, <1>14 DEF WireOf

\* The other steps of a handler write nothing.
LEMMA WireHandles ==
  ASSUME TypeInv, OrderInv, NEW c \in Conns, WireOf(c), Handle(c)
  PROVE  WireOf(c)'
  <1>1. CASE Read(c)
    <2>1. inbox[c] # <<>> /\ inbox[c] \in Seq(Message) /\ 1 \in 1..Len(inbox[c])
          /\ Head(inbox[c]) = inbox[c][1] /\ inbox[c][1] \in Message
      BY <1>1 DEF Read, TypeInv, TypeOK
    <2>2. cur'[c].id = inbox[c][1].id /\ cur[c].id < inbox[c][1].id
      BY <1>1, <2>1 DEF Read, Message, TypeInv, TypeOK, OrderInv, InboxAhead
    <2>3. UNCHANGED <<wire, broken, cancelled>> /\ pc[c] = "read" /\ pc'[c] \in {"log", "closed"}
          /\ ~ broken[c] /\ ~ cancelled
      BY <1>1 DEF Read, Loops, Goto, TypeInv, TypeOK
    <2>4. HalfFrame(c)'
      BY <2>3 DEF WireOf, HalfFrame
    <2>5. AnsweredUpTo(c)'
      <3>1. \A i \in 1..Len(wire[c]) : IsAnswer(c, wire[c][i]) =>
              wire[c][i].id = cur[c].id \/ wire[c][i].id < cur[c].id
        BY DEF WireOf, AnsweredUpTo
      <3>2. ASSUME NEW i \in 1..Len(wire[c]) PROVE wire[c][i].id \in Nat
        <4>1. wire[c][i] \in Piece
          BY DEF TypeInv, TypeOK
        <4> QED BY <4>1 DEF Piece
      <3>3. cur[c].id \in Nat /\ inbox[c][1].id \in Nat
        BY <2>1 DEF TypeInv, TypeOK, Message
      <3>4. \A i \in 1..Len(wire[c]) : IsAnswer(c, wire[c][i]) => wire[c][i].id < inbox[c][1].id
        BY <2>2, <3>1, <3>2, <3>3
      <3> QED BY <2>2, <2>3, <3>4 DEF AnsweredUpTo, IsAnswer
    <2> QED BY <2>3, <2>4, <2>5 DEF WireOf, Framed, Ascending, IsAnswer
  <1>2. CASE Write(c)
    BY <1>2, WireWrites
  <1>3. CASE Store(c)
    <2>1. cur'[c].id = cur[c].id
      BY <1>3 DEF Store, Message, TypeInv, TypeOK
    <2>2. /\ UNCHANGED <<wire, broken, cancelled>> /\ pc[c] = "store"
          /\ pc'[c] \in {"resolve", "log", "read"}
      BY <1>3 DEF Store, AfterCount, Goto, TypeInv, TypeOK
    <2>3. HalfFrame(c)'
      BY <2>2 DEF WireOf, HalfFrame
    <2> QED BY <2>1, <2>2, <2>3, WireKept
  <1>4. CASE WriteFails(c)
    <2>1. /\ UNCHANGED <<wire, cur, cancelled>> /\ pc[c] \in {"header", "body"} /\ pc'[c] = "read"
          /\ broken'[c] = (broken[c] \/ ~ cancelled)
      BY <1>4 DEF WriteFails, Goto, TypeInv, TypeOK
    <2>2. HalfFrame(c)'
      BY <2>1, Zenon DEF WireOf, HalfFrame
    <2> QED BY <2>1, <2>2, WireKept
  <1>5. CASE Leave(c) \/ LogReceived(c) \/ Load(c) \/ Resolve(c) \/ LogSent(c)
    <2>1. /\ UNCHANGED <<wire, cur, cancelled, broken>>
          /\ pc[c] # "body" /\ pc'[c] # "body"
          /\ pc[c] \in {"read", "logSent"} => pc'[c] \in {"read", "closed"}
          /\ pc[c] # "closed"
          /\ pc[c] = "read" => pc'[c] = "closed"
      BY <1>5 DEF Leave, LogReceived, Load, Resolve, LogSent, Goto, TypeInv, TypeOK
    <2>2. HalfFrame(c)'
      BY <2>1 DEF WireOf, HalfFrame
    <2> QED BY <2>1, <2>2, WireKept
  <1> QED BY <1>1, <1>2, <1>3, <1>4, <1>5 DEF Handle

\* Every step of a handler, with no injection on its stream, keeps the wire framed and
\* ascending.
LEMMA WireStep ==
  ASSUME Calls = {}, TypeInv, OrderInv, WireInv, [Next]_vars
  PROVE  WireInv'
  <1> SUFFICES ASSUME NEW c \in Conns PROVE WireOf(c)'
    BY DEF WireInv
  <1>1. WireOf(c)
    BY DEF WireInv
  <1>2. CASE Handle(c)
    BY <1>1, <1>2, WireHandles
  <1>3. CASE \E d \in Conns : d # c /\ Handle(d)
    <2>1. UNCHANGED <<wire[c], cur[c], pc[c], broken[c], cancelled>>
      BY <1>3 DEF Handle, Read, Leave, LogReceived, Load, Store, Resolve, Write, WriteFails,
                  LogSent, Goto, TypeInv, TypeOK
    <2>2. HalfFrame(c)'
      BY <1>1, <2>1 DEF WireOf, HalfFrame
    <2> QED BY <1>1, <2>1, <2>2, WireKept
  <1>4. CASE \/ \E d \in Conns : HangUp(d) \/ \E k \in Kinds : Send(d, k)
             \/ PutEmv \/ ClearLog \/ Stop \/ UNCHANGED vars
    <2>1. UNCHANGED <<wire, cur, pc, broken>>
      BY <1>4 DEF HangUp, Send, PutEmv, ClearLog, Stop, vars
    <2>3. cancelled => cancelled'
      <3>1. CASE Stop BY <3>1, Zenon DEF Stop
      <3>2. CASE UNCHANGED cancelled BY <3>2, Zenon
      <3> QED BY <1>4, <3>1, <3>2 DEF HangUp, Send, PutEmv, ClearLog, vars
    <2>2. HalfFrame(c)'
      BY <1>1, <2>1, <2>3 DEF WireOf, HalfFrame
    <2> QED BY <1>1, <2>1, <2>2, WireKept
  <1> QED BY <1>2, <1>3, <1>4 DEF Next

\* A stream only its handler writes to carries whole frames in the order of the requests,
\* however many connections, cancellations and broken pipes there are.
THEOREM FramesWhole == ASSUME Calls = {} PROVE Spec => []FramesIntact
  <1>1. Init => WireInv
    <2> SUFFICES ASSUME Init, NEW c \in Conns PROVE WireOf(c)
      BY DEF WireInv
    <2>1. pc[c] = "read" /\ wire[c] = <<>>
      BY DEF Init
    <2>2. ~ broken[c]
      BY Zenon DEF Init
    <2>3. Len(<<>>) = 0 /\ 0 % 2 # 1 /\ \A i \in 1..0 : FALSE
      OBVIOUS
    <2>4. Framed(<<>>) /\ Ascending(c, <<>>)
      BY <2>3 DEF Framed, Ascending
    <2>5. HalfFrame(c) /\ AnsweredUpTo(c)
      BY <2>1, <2>2, <2>3 DEF HalfFrame, AnsweredUpTo
    <2> QED BY <2>1, <2>4, <2>5 DEF WireOf
  <1>2. WireInv => FramesIntact
    BY DEF WireInv, WireOf, Framed, Ascending, FramesIntact
  <1>3. TypeInv /\ OrderInv /\ WireInv /\ [Next]_vars => WireInv'
    BY WireStep
  <1> QED BY <1>1, <1>2, <1>3, OrderInvariant, TypeInvariant, PTL DEF Spec
=============================================================================
