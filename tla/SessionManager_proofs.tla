------------------------ MODULE SessionManager_proofs ------------------------
(* Theorems about SessionManager, for every set of ids, attempts, stops,   *)
(* connections, ports and configurations: its invariants, and that it      *)
(* implements SessionSlots for callers that wait for each answer.          *)
EXTENDS SessionManager, TLAPS

USE ConfigsAssumption, NoAttemptAssumption

\* No call of StartSessionAsync leaves the declared values of any variable.
LEMMA StartTypeOK ==
  ASSUME TypeOK, NEW r \in Attempts, BeginStart(r) \/ StartStep(r)
  PROVE  TypeOK'
  <1> USE DEF TypeOK, Go, Id, Injetor, inputs, tables, stopVars, connVars, SessionConfig,
               StartPc, Status, Sock
  <1>1. CASE RefuseRunning(r)  BY <1>1 DEF RefuseRunning
  <1>2. CASE ValidateConfig(r) BY <1>2 DEF ValidateConfig
  <1>3. CASE AddSession(r)     BY <1>3 DEF AddSession
  <1>4. CASE ListenerThrows(r) BY <1>4 DEF ListenerThrows
  <1>5. CASE TryAdd(r)         BY <1>5 DEF TryAdd
  <1>6. CASE TryAddFails(r)    BY <1>6 DEF TryAddFails
  <1>7. CASE Connect(r)        BY <1>7 DEF Connect
  <1>8. CASE Listen(r)         BY <1>8 DEF Listen
  <1>9. CASE OpenFails(r)      BY <1>9 DEF OpenFails
  <1>10. CASE SetActive(r)     BY <1>10 DEF SetActive
  <1>11. CASE SpawnLoop(r)     BY <1>11 DEF SpawnLoop, Loop
  <1>12. CASE RemoveFailed(r)  BY <1>12 DEF RemoveFailed
  <1> QED
    BY <1>1, <1>2, <1>3, <1>4, <1>5, <1>6, <1>7, <1>8, <1>9, <1>10, <1>11, <1>12
    DEF BeginStart, StartStep

\* Nor does a background loop.
LEMMA LoopTypeOK ==
  ASSUME TypeOK, NEW r \in Attempts, LoopBegins(r) \/ LoopQuits(r) \/ LoopEnds(r)
  PROVE  TypeOK'
  <1> USE DEF TypeOK, inputs, tables, stopVars, connVars, Status, Sock, Loop
  <1>1. CASE LoopBegins(r) BY <1>1 DEF LoopBegins
  <1>2. CASE LoopQuits(r)  BY <1>2 DEF LoopQuits
  <1>3. CASE LoopEnds(r)   BY <1>3 DEF LoopEnds
  <1> QED BY <1>1, <1>2, <1>3

\* Nor the arrival and the end of a client connection.
LEMMA ConnTypeOK ==
  ASSUME TypeOK, NEW c \in Conns,
         (\E r \in Attempts : Accept(r, c)) \/ HandlerBegins(c) \/ HandlerEnds(c)
  PROVE  TypeOK'
  <1> USE DEF TypeOK, inputs, tables, stopVars, connVars, Loop, ConnPc
  <1>1. ASSUME NEW r \in Attempts, Accept(r, c) PROVE TypeOK'
    BY <1>1 DEF Accept
  <1>2. CASE HandlerBegins(c) BY <1>2 DEF HandlerBegins
  <1>3. CASE HandlerEnds(c)   BY <1>3 DEF HandlerEnds
  <1> QED BY <1>1, <1>2, <1>3

\* Nor a call of StopSessionAsync.
LEMMA StopTypeOK ==
  ASSUME TypeOK, NEW s \in Stops, TryRemove(s) \/ StopStep(s)
  PROVE  TypeOK'
  <1> USE DEF TypeOK, GoStop, inputs, tables, stopVars, connVars, StopPc, Status, Sock,
               MarkStored
  <1>1. CASE TryRemove(s)        BY <1>1 DEF TryRemove
  <1>2. CASE CancelToken(s)      BY <1>2 DEF CancelToken
  <1>3. CASE DisposeTransport(s) BY <1>3 DEF DisposeTransport
  <1>4. CASE MarkStopped(s)      BY <1>4 DEF MarkStopped
  <1>5. CASE RemoveSession(s)    BY <1>5 DEF RemoveSession
  <1> QED BY <1>1, <1>2, <1>3, <1>4, <1>5 DEF StopStep

\* Nor any step the agent takes by itself.
LEMMA ProceedTypeOK == ASSUME TypeOK, Proceed PROVE TypeOK'
  <1>1. CASE ApplicationStopping
    BY <1>1 DEF ApplicationStopping, TypeOK, inputs, tables, stopVars, connVars
  <1> QED BY <1>1, StartTypeOK, LoopTypeOK, ConnTypeOK, StopTypeOK DEF Proceed

\* Type correctness of the session manager under any interleaving of calls.
THEOREM TypeCorrect == Spec => []TypeOK
  <1>1. Init => TypeOK
    <2> SUFFICES ASSUME Init PROVE TypeOK
      OBVIOUS
    <2>1. cancelled \in [Attempts -> BOOLEAN] /\ stopping \in BOOLEAN
      BY ZenonT(20) DEF Init
    <2>2. /\ cfg \in [Attempts -> Configs] /\ stopId \in [Stops -> Ids]
          /\ pc \in [Attempts -> StartPc] /\ status \in [Attempts -> Status]
          /\ sock \in [Attempts -> Sock] /\ loop \in [Attempts -> Loop]
          /\ stopPc \in [Stops -> StopPc] /\ conn \in [Conns -> ConnPc]
      BY DEF Init, StartPc, Status, Sock, Loop, StopPc, ConnPc
    <2>3. /\ sessions \in [Ids -> Attempts \cup {NoAttempt}]
          /\ store \in [Ids -> Attempts \cup {NoAttempt}]
          /\ taken \in [Stops -> Attempts \cup {NoAttempt}]
          /\ owner \in [Conns -> Attempts \cup {NoAttempt}]
      BY DEF Init
    <2> QED BY <2>1, <2>2, <2>3 DEF TypeOK
  <1>2. TypeOK /\ [Next]_vars => TypeOK'
    <2> SUFFICES ASSUME TypeOK, [Next]_vars PROVE TypeOK'
      OBVIOUS
    <2>1. CASE Proceed BY <2>1, ProceedTypeOK
    <2>2. CASE UNCHANGED vars
      BY <2>2 DEF vars, TypeOK
    <2> QED BY <2>1, <2>2, StartTypeOK, StopTypeOK DEF Next
  <1> QED BY <1>1, <1>2, PTL DEF Spec

-----------------------------------------------------------------------------
(***************************************************************************)
(* The running table under any interleaving.  TableEntryLive and           *)
(* TeardownExclusive are not inductive: that TryAdd never inserts an entry  *)
(* a stop has seen rests on how far the call has come (NotYetTabled), and   *)
(* that a cancelled source is never handed out again on which stop holds it *)
(* (HeldByStop).                                                           *)
(***************************************************************************)
BeforeTable == {"idle", "register", "tryAdd", "refused", "invalid", "conflict", "thrown"}

\* A call that has not inserted its entry has nothing a stop could touch.
NotYetTabled ==
  \A r \in Attempts : pc[r] \in BeforeTable =>
    /\ ~ cancelled[r]
    /\ sock[r] = "none"
    /\ \A s \in Stops : taken[s] # r

\* What a stop has removed, it holds; past CancelAsync the source is cancelled;
\* and only the stop that holds an entry has cancelled it.
HeldByStop ==
  /\ \A s \in Stops :
       /\ stopPc[s] = "idle" => taken[s] = NoAttempt
       /\ stopPc[s] \in {"cancel", "dispose"} => taken[s] # NoAttempt
       /\ stopPc[s] \notin {"idle", "cancel"} /\ taken[s] # NoAttempt => cancelled[taken[s]]
  /\ \A r \in Attempts : cancelled[r] => \E s \in Stops : taken[s] = r

\* A loop belongs to a call that ran to its end, and a transport is disposed by a
\* stop that cancelled first, by the failing call itself or by the ended loop.
LoopAndSocket ==
  \A r \in Attempts :
    /\ loop[r] # "none" => pc[r] = "started"
    /\ sock[r] = "disposed" => cancelled[r] \/ pc[r] = "failed" \/ loop[r] = "ended"

TableInv == TableEntryLive /\ TeardownExclusive /\ NotYetTabled /\ HeldByStop /\ LoopAndSocket

\* A call of StartSessionAsync keeps the table sound, also when it fails and
\* removes an entry that is not its own.
LEMMA StartTableInv ==
  ASSUME TypeOK, TableInv, NEW r \in Attempts, BeginStart(r) \/ StartStep(r)
  PROVE  TableInv'
  <1> USE DEF TypeOK, TableInv, TableEntryLive, TeardownExclusive, NotYetTabled, HeldByStop,
               LoopAndSocket, BeforeTable, Go, Id, Injetor, inputs, tables, stopVars, connVars
  <1>1. CASE RefuseRunning(r)  BY <1>1 DEF RefuseRunning
  <1>2. CASE ValidateConfig(r) BY <1>2 DEF ValidateConfig
  <1>3. CASE AddSession(r)     BY <1>3 DEF AddSession
  <1>4. CASE ListenerThrows(r) BY <1>4 DEF ListenerThrows
  <1>5. CASE TryAdd(r)         BY <1>5 DEF TryAdd
  <1>6. CASE TryAddFails(r)    BY <1>6 DEF TryAddFails
  <1>7. CASE Connect(r)        BY <1>7 DEF Connect
  <1>8. CASE Listen(r)         BY <1>8 DEF Listen
  <1>9. CASE OpenFails(r)      BY <1>9 DEF OpenFails
  <1>10. CASE SetActive(r)     BY <1>10 DEF SetActive
  <1>11. CASE SpawnLoop(r)     BY <1>11 DEF SpawnLoop
  <1>12. CASE RemoveFailed(r)  BY <1>12 DEF RemoveFailed
  <1> QED
    BY <1>1, <1>2, <1>3, <1>4, <1>5, <1>6, <1>7, <1>8, <1>9, <1>10, <1>11, <1>12
    DEF BeginStart, StartStep

\* So do the loops and the connection handlers, which never touch the table.
LEMMA LoopTableInv ==
  ASSUME TypeOK, TableInv, NEW r \in Attempts, LoopBegins(r) \/ LoopQuits(r) \/ LoopEnds(r)
  PROVE  TableInv'
  <1> USE DEF TypeOK, TableInv, TableEntryLive, TeardownExclusive, NotYetTabled, HeldByStop,
               LoopAndSocket, BeforeTable, Id, inputs, tables, stopVars, connVars
  <1>1. CASE LoopBegins(r) BY <1>1 DEF LoopBegins
  <1>2. CASE LoopQuits(r)  BY <1>2 DEF LoopQuits
  <1>3. CASE LoopEnds(r)   BY <1>3 DEF LoopEnds
  <1> QED BY <1>1, <1>2, <1>3

\* Nor do the clients that come and go.
LEMMA ConnTableInv ==
  ASSUME TypeOK, TableInv, NEW c \in Conns,
         (\E r \in Attempts : Accept(r, c)) \/ HandlerBegins(c) \/ HandlerEnds(c)
  PROVE  TableInv'
  <1> USE DEF TypeOK, TableInv, TableEntryLive, TeardownExclusive, NotYetTabled, HeldByStop,
               LoopAndSocket, BeforeTable, Id, inputs, tables, stopVars, connVars
  <1>1. ASSUME NEW r \in Attempts, Accept(r, c) PROVE TableInv'
    BY <1>1 DEF Accept
  <1>2. CASE HandlerBegins(c) BY <1>2 DEF HandlerBegins
  <1>3. CASE HandlerEnds(c)   BY <1>3 DEF HandlerEnds
  <1> QED BY <1>1, <1>2, <1>3

\* A stop takes an entry out of the table in one step and tears it down alone.
LEMMA StopTableInv ==
  ASSUME TypeOK, TableInv, NEW s \in Stops, TryRemove(s) \/ StopStep(s)
  PROVE  TableInv'
  <1> USE DEF TypeOK, TableInv, TableEntryLive, TeardownExclusive, NotYetTabled, HeldByStop,
               LoopAndSocket, BeforeTable, GoStop, MarkStored, Id, inputs, tables, stopVars,
               connVars
  <1>1. CASE TryRemove(s)        BY <1>1 DEF TryRemove
  <1>2. CASE CancelToken(s)      BY <1>2 DEF CancelToken
  <1>3. CASE DisposeTransport(s) BY <1>3 DEF DisposeTransport
  <1>4. CASE MarkStopped(s)      BY <1>4 DEF MarkStopped
  <1>5. CASE RemoveSession(s)    BY <1>5 DEF RemoveSession
  <1> QED BY <1>1, <1>2, <1>3, <1>4, <1>5 DEF StopStep

\* Nor does any other step the agent takes by itself.
LEMMA ProceedTableInv == ASSUME TypeOK, TableInv, Proceed PROVE TableInv'
  <1>1. CASE ApplicationStopping
    BY <1>1 DEF ApplicationStopping, TableInv, TableEntryLive, TeardownExclusive, NotYetTabled,
                HeldByStop, LoopAndSocket, Id, inputs, tables, stopVars, connVars
  <1> QED BY <1>1, StartTableInv, LoopTableInv, ConnTableInv, StopTableInv DEF Proceed

\* TableInv is inductive given the types.
LEMMA TableInvariant == Spec => [](TypeOK /\ TableInv)
  <1>1. Init => TableInv
    BY DEF Init, TableInv, TableEntryLive, TeardownExclusive, NotYetTabled, HeldByStop,
           LoopAndSocket, BeforeTable
  <1>2. TypeOK /\ TableInv /\ [Next]_vars => TableInv'
    <2> SUFFICES ASSUME TypeOK, TableInv, [Next]_vars PROVE TableInv'
      OBVIOUS
    <2>1. CASE Proceed BY <2>1, ProceedTableInv
    <2>2. CASE UNCHANGED vars
      BY <2>2 DEF vars, TableInv, TableEntryLive, TeardownExclusive, NotYetTabled, HeldByStop,
                  LoopAndSocket, Id
    <2> QED BY <2>1, <2>2, StartTableInv, StopTableInv DEF Next
  <1> QED BY <1>1, <1>2, TypeCorrect, PTL DEF Spec

\* However starts and stops of one id interleave, the running table holds only
\* entries nobody has torn down.
THEOREM TableSound == Spec => []TableEntryLive
  BY TableInvariant, PTL DEF TableInv

\* No entry is torn down by two stops, also when a failing start removed it first, and
\* no transport is disposed under a running loop whose token is still live.
THEOREM TeardownSound == Spec => []TeardownOrdered
  <1>1. TypeOK /\ TableInv => TeardownExclusive /\ DisposeAfterCancel
    BY DEF TypeOK, TableInv, LoopAndSocket, DisposeAfterCancel
  <1> QED BY <1>1, TableInvariant, PTL DEF TeardownOrdered

-----------------------------------------------------------------------------
(***************************************************************************)
(* One call per id at a time.  What the table, the store and the record's   *)
(* status say of an id is then a function of the one call in flight on it,  *)
(* or of the last one.                                                     *)
(***************************************************************************)
Starting(r) == pc[r] \notin StartDone \cup {"idle"}
Stopping(s) == stopPc[s] \notin {"idle", "done"}

OneInFlight ==
  /\ \A r, q \in Attempts : Starting(r) /\ Starting(q) /\ Id(r) = Id(q) => r = q
  /\ \A r \in Attempts, s \in Stops : ~ (Starting(r) /\ Stopping(s) /\ Id(r) = stopId[s])
  /\ \A s, t \in Stops : Stopping(s) /\ Stopping(t) /\ stopId[s] = stopId[t] => s = t

\* The entry and the record an id shows, by how far the calls on it have come.
RecordOf(i, r) ==
  Id(r) = i /\ pc[r] \notin {"idle", "register", "refused", "invalid"}

EntryOfStart(r) ==
  /\ pc[r] \in {"register", "tryAdd"} => sessions[Id(r)] = NoAttempt
  /\ pc[r] \in {"tryAdd", "open", "activate", "spawn", "untable"} => store[Id(r)] = r
  /\ pc[r] \in {"open", "activate", "spawn", "untable"} => sessions[Id(r)] = r
  /\ pc[r] = "started" /\ ~ Taken(r) => sessions[Id(r)] = r /\ store[Id(r)] = r

EntryOfStop(s) ==
  /\ Stopping(s) => sessions[stopId[s]] = NoAttempt
  /\ taken[s] # NoAttempt =>
       /\ Id(taken[s]) = stopId[s]
       /\ pc[taken[s]] = "started"
       /\ Stopping(s) => store[stopId[s]] = taken[s]

EntryAndRecord ==
  /\ \A i \in Ids : store[i] # NoAttempt => RecordOf(i, store[i])
  /\ \A r \in Attempts : EntryOfStart(r)
  /\ \A s \in Stops : EntryOfStop(s)

\* The transport: open from the moment the call opened it until its loop, the stop
\* that took it, or the failing call lets go of it.
SocketHeld ==
  \A r \in Attempts :
    /\ pc[r] \in {"activate", "spawn"} => sock[r] = "open"
    /\ pc[r] = "started" /\ ~ Taken(r) /\ loop[r] \in {"queued", "running", "ending"}
         => sock[r] = "open"
    /\ sock[r] = "open" => pc[r] \in {"activate", "spawn", "started"}
    /\ sock[r] = "open" => \A s \in Stops : taken[s] = r => stopPc[s] \in {"cancel", "dispose"}

\* The status, by how far the call, its loop and its stop have come.
StatusOf(r) ==
  /\ pc[r] \in {"idle", "register", "refused", "invalid"} => status[r] = "None"
  /\ pc[r] \in {"tryAdd", "open", "activate"} => status[r] = "Starting"
  /\ pc[r] = "spawn" => status[r] = "Active"
  /\ pc[r] \in {"untable", "failed"} => status[r] \in {"Error", "Stopped"}
  /\ pc[r] = "untable" => status[r] = "Error"
  /\ pc[r] = "thrown" => BadPort(r) /\ status[r] \in {"Starting", "Stopped"}
  /\ pc[r] # "conflict"
  /\ pc[r] = "started" => status[r] \in {"Active", "Stopped"} /\ loop[r] # "none"
  /\ pc[r] = "started" /\ ~ Taken(r) /\ loop[r] \in {"queued", "running", "ending"}
       => status[r] = "Active"
  /\ loop[r] = "ended" => status[r] = "Stopped"
  /\ loop[r] = "never" => cancelled[r] \/ stopping
  /\ \A s \in Stops : taken[s] = r /\ stopPc[s] \in {"remove", "done"} => status[r] = "Stopped"

StatusFollows == \A r \in Attempts : StatusOf(r)

SerialInv == OneInFlight /\ EntryAndRecord /\ SocketHeld /\ StatusFollows

\* A caller that waits is a caller: what holds of Spec holds of SerialSpec.
LEMMA SerialIsSpec == SerialSpec => [](TypeOK /\ TableInv)
  <1>1. [SerialNext]_vars => [Next]_vars
    BY DEF SerialNext, Next
  <1> QED BY <1>1, TableInvariant, PTL DEF SerialSpec, Spec

\* A call of StartSessionAsync begins when nothing else is in flight on the id.
LEMMA BeginStartSerialInv ==
  ASSUME TypeOK, TableInv, SerialInv, NEW r \in Attempts, Quiet(Id(r)), BeginStart(r)
  PROVE  SerialInv'
  <1> USE DEF TypeOK, TableInv, SerialInv, OneInFlight, EntryAndRecord,
               RecordOf, EntryOfStart, EntryOfStop, SocketHeld,
               StatusFollows, StatusOf, TableEntryLive, TeardownExclusive, NotYetTabled, HeldByStop,
               LoopAndSocket, BeforeTable, StartDone, Starting, Stopping, Taken, Token,
               BadPort, Id, Injetor, inputs, tables, stopVars, connVars, Quiet, Go
  <1>1. CASE RefuseRunning(r) BY <1>1 DEF RefuseRunning
  <1>2. CASE ValidateConfig(r) BY <1>2 DEF ValidateConfig
  <1> QED BY <1>1, <1>2 DEF BeginStart

\* No other attempt and no stop is at work on the id of a call that is, and none
\* that ran to its end there still has its entry.
LEMMA AloneOnId ==
  ASSUME TypeOK, SerialInv, NEW r \in Attempts, pc[r] \in {"register", "tryAdd"}
  PROVE  /\ \A q \in Attempts : q # r /\ Id(q) = Id(r) =>
                ~ Starting(q) /\ ~ (pc[q] = "started" /\ ~ Taken(q))
         /\ \A s \in Stops : stopId[s] = Id(r) => ~ Stopping(s)
  <1>1. Starting(r) BY DEF Starting, StartDone
  <1>2. sessions[Id(r)] = NoAttempt BY DEF SerialInv, EntryAndRecord, EntryOfStart
  <1>3. ASSUME NEW q \in Attempts, q # r, Id(q) = Id(r)
        PROVE  ~ Starting(q) /\ ~ (pc[q] = "started" /\ ~ Taken(q))
    <2>1. ~ Starting(q) BY <1>1, <1>3 DEF SerialInv, OneInFlight
    <2>2. ~ (pc[q] = "started" /\ ~ Taken(q))
      BY <1>2, <1>3, q # NoAttempt DEF SerialInv, EntryAndRecord, EntryOfStart
    <2> QED BY <2>1, <2>2
  <1>4. ASSUME NEW s \in Stops, stopId[s] = Id(r) PROVE ~ Stopping(s)
    BY <1>1, <1>4 DEF SerialInv, OneInFlight
  <1> QED BY <1>3, <1>4

\* A new record goes under an id nobody else is using.
LEMMA AddSessionEntry ==
  ASSUME TypeOK, SerialInv, NEW r \in Attempts, AddSession(r)
  PROVE  EntryAndRecord'
  <1> USE DEF Go, inputs, tables, stopVars, connVars
  <1>1. pc[r] \in {"register", "tryAdd"} BY DEF AddSession
  <1>2. r # NoAttempt /\ Id(r) \in Ids
    BY DEF TypeOK, Id, SessionConfig
  <1>3. \A q \in Attempts : Id(q)' = Id(q) /\ Taken(q)' = Taken(q)
    BY DEF AddSession, Id, Taken
  <1>4. \A s \in Stops : Stopping(s)' = Stopping(s) /\ stopId[s] \in Ids
    BY DEF AddSession, Stopping, TypeOK
  <1>5. \A i \in Ids : (store[i] # NoAttempt => RecordOf(i, store[i]))'
    BY <1>2 DEF AddSession, SerialInv, EntryAndRecord, RecordOf, TypeOK, Id
  <1>6. ASSUME NEW q \in Attempts PROVE EntryOfStart(q)'
    <2>1. EntryOfStart(q) BY DEF SerialInv, EntryAndRecord
    <2>2. Id(q) \in Ids BY DEF TypeOK, Id, SessionConfig
    <2>3. CASE q = r
      BY <1>1, <1>2, <1>3, <2>1, <2>3 DEF AddSession, EntryOfStart, TypeOK
    <2>4. CASE q # r /\ Id(q) = Id(r)
      <3>1. ~ Starting(q) /\ ~ (pc[q] = "started" /\ ~ Taken(q)) BY <1>1, <2>4, AloneOnId
      <3>2. pc'[q] = pc[q] BY <2>4 DEF AddSession, TypeOK
      <3> QED BY <1>3, <3>1, <3>2 DEF EntryOfStart, Starting, StartDone
    <2>5. CASE Id(q) # Id(r)
      <3>1. /\ pc'[q] = pc[q] /\ sessions'[Id(q)] = sessions[Id(q)]
            /\ store'[Id(q)] = store[Id(q)]
        BY <2>2, <2>5 DEF AddSession, TypeOK
      <3> QED BY <1>3, <2>1, <3>1 DEF EntryOfStart
    <2> QED BY <2>3, <2>4, <2>5
  <1>7. ASSUME NEW s \in Stops PROVE EntryOfStop(s)'
    <2>1. EntryOfStop(s) BY DEF SerialInv, EntryAndRecord
    <2>2. stopId'[s] = stopId[s] /\ taken'[s] = taken[s] /\ Stopping(s)' = Stopping(s)
      BY <1>4 DEF AddSession
    <2>3. taken[s] # NoAttempt =>
            Id(taken[s])' = Id(taken[s]) /\ pc'[taken[s]] = pc[taken[s]]
      BY <1>1, <1>3, <2>1 DEF AddSession, EntryOfStop, TypeOK
    <2>4. Stopping(s) =>
            sessions'[stopId[s]] = sessions[stopId[s]] /\ store'[stopId[s]] = store[stopId[s]]
      BY <1>1, <1>4, AloneOnId DEF AddSession, TypeOK
    <2> QED BY <2>1, <2>2, <2>3, <2>4 DEF EntryOfStop
  <1> QED BY <1>5, <1>6, <1>7 DEF EntryAndRecord

\* So does a new entry.
LEMMA TryAddEntry ==
  ASSUME TypeOK, SerialInv, NEW r \in Attempts, TryAdd(r)
  PROVE  EntryAndRecord'
  <1> USE DEF Go, inputs, tables, stopVars, connVars
  <1>1. pc[r] \in {"register", "tryAdd"} BY DEF TryAdd
  <1>2. r # NoAttempt /\ Id(r) \in Ids
    BY DEF TypeOK, Id, SessionConfig
  <1>3. \A q \in Attempts : Id(q)' = Id(q) /\ Taken(q)' = Taken(q)
    BY DEF TryAdd, Id, Taken
  <1>4. \A s \in Stops : Stopping(s)' = Stopping(s) /\ stopId[s] \in Ids
    BY DEF TryAdd, Stopping, TypeOK
  <1>5. \A i \in Ids : (store[i] # NoAttempt => RecordOf(i, store[i]))'
    BY <1>2 DEF TryAdd, SerialInv, EntryAndRecord, RecordOf, TypeOK, Id
  <1>6. ASSUME NEW q \in Attempts PROVE EntryOfStart(q)'
    <2>1. EntryOfStart(q) BY DEF SerialInv, EntryAndRecord
    <2>2. Id(q) \in Ids BY DEF TypeOK, Id, SessionConfig
    <2>3. CASE q = r
      BY <1>1, <1>2, <1>3, <2>1, <2>3 DEF TryAdd, EntryOfStart, TypeOK
    <2>4. CASE q # r /\ Id(q) = Id(r)
      <3>1. ~ Starting(q) /\ ~ (pc[q] = "started" /\ ~ Taken(q)) BY <1>1, <2>4, AloneOnId
      <3>2. pc'[q] = pc[q] BY <2>4 DEF TryAdd, TypeOK
      <3> QED BY <1>3, <3>1, <3>2 DEF EntryOfStart, Starting, StartDone
    <2>5. CASE Id(q) # Id(r)
      <3>1. /\ pc'[q] = pc[q] /\ sessions'[Id(q)] = sessions[Id(q)]
            /\ store'[Id(q)] = store[Id(q)]
        BY <2>2, <2>5 DEF TryAdd, TypeOK
      <3> QED BY <1>3, <2>1, <3>1 DEF EntryOfStart
    <2> QED BY <2>3, <2>4, <2>5
  <1>7. ASSUME NEW s \in Stops PROVE EntryOfStop(s)'
    <2>1. EntryOfStop(s) BY DEF SerialInv, EntryAndRecord
    <2>2. stopId'[s] = stopId[s] /\ taken'[s] = taken[s] /\ Stopping(s)' = Stopping(s)
      BY <1>4 DEF TryAdd
    <2>3. taken[s] # NoAttempt =>
            Id(taken[s])' = Id(taken[s]) /\ pc'[taken[s]] = pc[taken[s]]
      BY <1>1, <1>3, <2>1 DEF TryAdd, EntryOfStop, TypeOK
    <2>4. Stopping(s) =>
            sessions'[stopId[s]] = sessions[stopId[s]] /\ store'[stopId[s]] = store[stopId[s]]
      BY <1>1, <1>4, AloneOnId DEF TryAdd, TypeOK
    <2> QED BY <2>1, <2>2, <2>3, <2>4 DEF EntryOfStop
  <1> QED BY <1>5, <1>6, <1>7 DEF EntryAndRecord

\* It goes on alone on that id.
LEMMA StartSerialInv ==
  ASSUME TypeOK, TableInv, SerialInv, NEW r \in Attempts, StartStep(r)
  PROVE  SerialInv'
  <1> USE DEF TypeOK, TableInv, SerialInv, OneInFlight, EntryAndRecord,
               RecordOf, EntryOfStart, EntryOfStop, SocketHeld,
               StatusFollows, StatusOf, TableEntryLive, TeardownExclusive, NotYetTabled, HeldByStop,
               LoopAndSocket, BeforeTable, StartDone, Starting, Stopping, Taken, Token,
               BadPort, Id, Injetor, inputs, tables, stopVars, connVars, Go
  <1>1. CASE AddSession(r)
    <2>1. OneInFlight' BY <1>1 DEF AddSession
    <2>2. EntryAndRecord' BY <1>1, AddSessionEntry
    <2>3. SocketHeld' BY <1>1 DEF AddSession
    <2>4. StatusFollows' BY <1>1 DEF AddSession
    <2> QED BY <2>1, <2>2, <2>3, <2>4
  <1>2. CASE ListenerThrows(r) BY <1>2 DEF ListenerThrows
  <1>3. CASE TryAdd(r)
    <2>1. OneInFlight' BY <1>3 DEF TryAdd
    <2>2. EntryAndRecord' BY <1>3, TryAddEntry
    <2>3. SocketHeld' BY <1>3 DEF TryAdd
    <2>4. StatusFollows' BY <1>3 DEF TryAdd
    <2> QED BY <2>1, <2>2, <2>3, <2>4
  <1>4. CASE TryAddFails(r) BY <1>4 DEF TryAddFails
  <1>5. CASE Connect(r) BY <1>5 DEF Connect
  <1>6. CASE Listen(r) BY <1>6 DEF Listen
  <1>7. CASE OpenFails(r) BY <1>7 DEF OpenFails
  <1>8. CASE SetActive(r) BY <1>8 DEF SetActive
  <1>9. CASE SpawnLoop(r) BY <1>9 DEF SpawnLoop
  <1>10. CASE RemoveFailed(r) BY <1>10 DEF RemoveFailed
  <1> QED BY <1>1, <1>2, <1>3, <1>4, <1>5, <1>6, <1>7, <1>8, <1>9, <1>10 DEF StartStep

\* Loops end by themselves: the entry stays, the record says Stopped.
LEMMA LoopSerialInv ==
  ASSUME TypeOK, TableInv, SerialInv, NEW r \in Attempts,
         LoopBegins(r) \/ LoopQuits(r) \/ LoopEnds(r)
  PROVE  SerialInv'
  <1> USE DEF TypeOK, TableInv, SerialInv, OneInFlight, EntryAndRecord,
               RecordOf, EntryOfStart, EntryOfStop, SocketHeld,
               StatusFollows, StatusOf, TableEntryLive, TeardownExclusive, NotYetTabled, HeldByStop,
               LoopAndSocket, BeforeTable, StartDone, Starting, Stopping, Taken, Token,
               BadPort, Id, Injetor, inputs, tables, stopVars, connVars
  <1>1. CASE LoopBegins(r) BY <1>1 DEF LoopBegins
  <1>2. CASE LoopQuits(r) BY <1>2 DEF LoopQuits
  <1>3. CASE LoopEnds(r) BY <1>3 DEF LoopEnds
  <1> QED BY <1>1, <1>2, <1>3

\* Connections come and go without touching the id's state, except that a framer
\* error ends the loop.
LEMMA ConnSerialInv ==
  ASSUME TypeOK, TableInv, SerialInv, NEW c \in Conns,
         (\E r \in Attempts : Accept(r, c)) \/ HandlerBegins(c) \/ HandlerEnds(c)
  PROVE  SerialInv'
  <1> USE DEF TypeOK, TableInv, SerialInv, OneInFlight, EntryAndRecord,
               RecordOf, EntryOfStart, EntryOfStop, SocketHeld,
               StatusFollows, StatusOf, TableEntryLive, TeardownExclusive, NotYetTabled, HeldByStop,
               LoopAndSocket, BeforeTable, StartDone, Starting, Stopping, Taken, Token,
               BadPort, Id, Injetor, inputs, tables, stopVars, connVars
  <1>1. ASSUME NEW r \in Attempts, Accept(r, c) PROVE SerialInv'
    BY <1>1 DEF Accept
  <1>2. CASE HandlerBegins(c) BY <1>2 DEF HandlerBegins
  <1>3. CASE HandlerEnds(c) BY <1>3 DEF HandlerEnds
  <1> QED BY <1>1, <1>2, <1>3

\* A stop begins when nothing else is in flight on the id.
LEMMA TryRemoveSerialInv ==
  ASSUME TypeOK, TableInv, SerialInv, NEW s \in Stops, Quiet(stopId[s]), TryRemove(s)
  PROVE  SerialInv'
  <1> USE DEF TypeOK, TableInv, SerialInv, OneInFlight, EntryAndRecord,
               RecordOf, EntryOfStart, EntryOfStop, SocketHeld,
               StatusFollows, StatusOf, TableEntryLive, TeardownExclusive, NotYetTabled, HeldByStop,
               LoopAndSocket, BeforeTable, StartDone, Starting, Stopping, Taken, Token,
               BadPort, Id, Injetor, inputs, tables, stopVars, connVars, Quiet, GoStop
  <1> QED BY DEF TryRemove

\* It tears down the entry it took and marks that very record.
LEMMA StopSerialInv ==
  ASSUME TypeOK, TableInv, SerialInv, NEW s \in Stops, StopStep(s)
  PROVE  SerialInv'
  <1> USE DEF TypeOK, TableInv, SerialInv, OneInFlight, EntryAndRecord,
               RecordOf, EntryOfStart, EntryOfStop, SocketHeld,
               StatusFollows, StatusOf, TableEntryLive, TeardownExclusive, NotYetTabled, HeldByStop,
               LoopAndSocket, BeforeTable, StartDone, Starting, Stopping, Taken, Token,
               BadPort, Id, Injetor, inputs, tables, stopVars, connVars, GoStop, MarkStored
  <1>1. CASE CancelToken(s) BY <1>1 DEF CancelToken
  <1>2. CASE DisposeTransport(s) BY <1>2 DEF DisposeTransport
  <1>3. CASE MarkStopped(s)
    <2>1. OneInFlight' BY <1>3 DEF MarkStopped
    <2>2. EntryAndRecord' BY <1>3 DEF MarkStopped
    <2>3. SocketHeld' BY <1>3 DEF MarkStopped
    <2>4. StatusFollows'
      <3>1. ASSUME NEW q \in Attempts, store[stopId[s]] = q
            PROVE  /\ pc[q] \in {"started", "thrown", "failed"}
                   /\ pc[q] = "started" => Taken(q)
                   /\ status'[q] = "Stopped"
        BY <1>3, <3>1 DEF MarkStopped
      <3>2. ASSUME NEW q \in Attempts, store[stopId[s]] # q
            PROVE  status'[q] = status[q] /\ taken[s] # q
        BY <1>3, <3>2 DEF MarkStopped
      <3>3. ASSUME NEW q \in Attempts PROVE StatusOf(q)'
        <4>1. CASE store[stopId[s]] = q BY <1>3, <3>1, <4>1 DEF MarkStopped
        <4>2. CASE store[stopId[s]] # q BY <1>3, <3>2, <4>2 DEF MarkStopped
        <4> QED BY <4>1, <4>2
      <3> QED BY <3>3
    <2> QED BY <2>1, <2>2, <2>3, <2>4
  <1>4. CASE RemoveSession(s)
    <2>1. OneInFlight' BY <1>4 DEF RemoveSession
    <2>2. EntryAndRecord' BY <1>4 DEF RemoveSession
    <2>3. SocketHeld' BY <1>4 DEF RemoveSession
    <2>4. StatusFollows'
      <3>1. ASSUME NEW q \in Attempts, store[stopId[s]] = q
            PROVE  /\ pc[q] \in {"started", "thrown", "failed"}
                   /\ pc[q] = "started" => Taken(q)
                   /\ status'[q] = "Stopped"
        BY <1>4, <3>1 DEF RemoveSession
      <3>2. ASSUME NEW q \in Attempts, store[stopId[s]] # q
            PROVE  status'[q] = status[q] /\ taken[s] # q
        BY <1>4, <3>2 DEF RemoveSession
      <3>3. ASSUME NEW q \in Attempts PROVE StatusOf(q)'
        <4>1. CASE store[stopId[s]] = q BY <1>4, <3>1, <4>1 DEF RemoveSession
        <4>2. CASE store[stopId[s]] # q BY <1>4, <3>2, <4>2 DEF RemoveSession
        <4> QED BY <4>1, <4>2
      <3> QED BY <3>3
    <2> QED BY <2>1, <2>2, <2>3, <2>4
  <1> QED BY <1>1, <1>2, <1>3, <1>4 DEF StopStep

\* Whatever goes on by itself leaves each id's entry, record, transport and status
\* in step with the call in flight on it.
LEMMA ProceedSerialInv == ASSUME TypeOK, TableInv, SerialInv, Proceed PROVE SerialInv'
  <1>1. CASE ApplicationStopping
    BY <1>1 DEF ApplicationStopping, SerialInv, OneInFlight, EntryAndRecord, RecordOf,
                EntryOfStart, EntryOfStop, SocketHeld, StatusFollows, StatusOf, StartDone,
                Starting, Stopping, Taken, BadPort, Id, Injetor, inputs, tables, stopVars,
                connVars
  <1> QED BY <1>1, StartSerialInv, LoopSerialInv, ConnSerialInv, StopSerialInv DEF Proceed

\* SerialInv is inductive for callers that wait, given the types and TableInv.
LEMMA SerialInvariant == SerialSpec => [](TypeOK /\ TableInv /\ SerialInv)
  <1>1. Init => SerialInv
    <2> SUFFICES ASSUME Init PROVE SerialInv
      OBVIOUS
    <2>1. OneInFlight BY DEF Init, OneInFlight, Starting, Stopping
    <2>2. EntryAndRecord
      BY DEF Init, EntryAndRecord, EntryOfStart, EntryOfStop, Stopping, Id, SessionConfig
    <2>3. SocketHeld BY DEF Init, SocketHeld
    <2>4. StatusFollows BY DEF Init, StatusFollows, StatusOf
    <2> QED BY <2>1, <2>2, <2>3, <2>4 DEF SerialInv
  <1>2. TypeOK /\ TableInv /\ SerialInv /\ [SerialNext]_vars => SerialInv'
    <2> SUFFICES ASSUME TypeOK, TableInv, SerialInv, [SerialNext]_vars PROVE SerialInv'
      OBVIOUS
    <2>1. CASE Proceed BY <2>1, ProceedSerialInv
    <2>2. CASE UNCHANGED vars
      BY <2>2 DEF vars, SerialInv, OneInFlight, EntryAndRecord, RecordOf, EntryOfStart,
                  EntryOfStop, SocketHeld, StatusFollows, StatusOf, Starting, Stopping, Taken,
                  BadPort, Id, Injetor
    <2> QED BY <2>1, <2>2, BeginStartSerialInv, TryRemoveSerialInv DEF SerialNext
  <1> QED BY <1>1, <1>2, SerialIsSpec, PTL DEF SerialSpec

\* For callers that wait for each answer on an id: a loop that runs and no stop has
\* taken is the one the table and the store show under its id, as Active.
THEOREM RunningReached == SerialSpec => []RunningIsReachable
  <1>1. TypeOK /\ TableInv /\ SerialInv => RunningIsReachable
    BY DEF RunningIsReachable, TypeOK, TableInv, LoopAndSocket, SerialInv, EntryAndRecord,
           EntryOfStart, StatusFollows, StatusOf
  <1> QED BY <1>1, SerialInvariant, PTL

\* An id with no call in flight and no entry in the table holds no socket.
THEOREM IdleFreed == SerialSpec => []IdleIdHoldsNothing
  <1>1. TypeOK /\ TableInv /\ SerialInv => IdleIdHoldsNothing
    <2> SUFFICES ASSUME TypeOK, TableInv, SerialInv PROVE IdleIdHoldsNothing
      OBVIOUS
    <2> SUFFICES ASSUME NEW i \in Ids, Quiet(i), sessions[i] = NoAttempt,
                        NEW r \in Attempts, Id(r) = i, sock[r] = "open"
                 PROVE  FALSE
      BY DEF IdleIdHoldsNothing
    <2>1. pc[r] = "started"
      BY DEF Quiet, StartDone, SerialInv, SocketHeld
    <2>2. PICK s \in Stops : taken[s] = r
      BY <2>1 DEF SerialInv, EntryAndRecord, EntryOfStart, Taken
    <2>3. stopId[s] = i
      BY <2>2 DEF SerialInv, EntryAndRecord, EntryOfStop
    <2> QED BY <2>2, <2>3 DEF Quiet, SerialInv, SocketHeld
  <1> QED BY <1>1, SerialInvariant, PTL

\* An id with no call in flight is listed only while its transport is open, unless
\* the record is that of a port no listener can have.
THEOREM ListedOpen == SerialSpec => []ValidListedAreOpen
  <1>1. TypeOK /\ TableInv /\ SerialInv => ValidListedAreOpen
    <2> SUFFICES ASSUME TypeOK, TableInv, SerialInv PROVE ValidListedAreOpen
      OBVIOUS
    <2> SUFFICES ASSUME NEW i \in Ids, Quiet(i), ~ stopping, store[i] # NoAttempt,
                        ~ BadPort(store[i]), status[store[i]] \in {"Starting", "Active"}
                 PROVE  /\ sock[store[i]] = "open"
                        /\ loop[store[i]] \in {"queued", "running", "ending"}
      BY DEF ValidListedAreOpen, ListedIsOpen
    <2> DEFINE r == store[i]
    <2>1. r \in Attempts /\ Id(r) = i
      BY DEF TypeOK, SerialInv, EntryAndRecord, RecordOf
    <2>2. pc[r] = "started"
      BY <2>1 DEF Quiet, StartDone, SerialInv, EntryAndRecord, RecordOf, StatusFollows, StatusOf
    <2>3. ~ Taken(r)
      <3> SUFFICES ASSUME NEW s \in Stops, taken[s] = r PROVE FALSE
        BY DEF Taken
      <3>1. stopId[s] = i
        BY <2>1 DEF SerialInv, EntryAndRecord, EntryOfStop
      <3>2. stopPc[s] = "done"
        BY <2>1, <3>1 DEF Quiet, TableInv, HeldByStop
      <3> QED BY <2>1, <3>2 DEF SerialInv, StatusFollows, StatusOf
    <2>4. loop[r] \in {"queued", "running", "ending"}
      <3>1. ~ cancelled[r]
        BY <2>1, <2>3 DEF TableInv, HeldByStop, Taken
      <3> QED BY <2>1, <2>2, <3>1 DEF TypeOK, Loop, SerialInv, StatusFollows, StatusOf
    <2> QED BY <2>1, <2>2, <2>3, <2>4 DEF SerialInv, SocketHeld
  <1> QED BY <1>1, SerialInvariant, PTL

\* A step of StartSessionAsync moves its own record forward, or none.
LEMMA StartStatusForward ==
  ASSUME TypeOK, SerialInv, NEW q \in Attempts, BeginStart(q) \/ StartStep(q),
         NEW r \in Attempts, status'[r] # status[r]
  PROVE  <<status[r], status'[r]>> \in StatusChanges
  <1> USE DEF TypeOK, Go, StatusChanges, SerialInv, StatusFollows, StatusOf
  <1>1. CASE RefuseRunning(q) BY <1>1 DEF RefuseRunning
  <1>2. CASE ValidateConfig(q) BY <1>2 DEF ValidateConfig
  <1>3. CASE AddSession(q) BY <1>3 DEF AddSession
  <1>4. CASE OpenFails(q) BY <1>4 DEF OpenFails
  <1>5. CASE SetActive(q) BY <1>5 DEF SetActive
  <1>6. CASE ListenerThrows(q) BY <1>6 DEF ListenerThrows
  <1>7. CASE TryAdd(q) BY <1>7 DEF TryAdd
  <1>8. CASE TryAddFails(q) BY <1>8 DEF TryAddFails
  <1>9. CASE Connect(q) BY <1>9 DEF Connect
  <1>10. CASE Listen(q) BY <1>10 DEF Listen
  <1>11. CASE SpawnLoop(q) BY <1>11 DEF SpawnLoop
  <1>12. CASE RemoveFailed(q) BY <1>12 DEF RemoveFailed
  <1> QED
    BY <1>1, <1>2, <1>3, <1>4, <1>5, <1>6, <1>7, <1>8, <1>9, <1>10, <1>11, <1>12
    DEF BeginStart, StartStep

\* A loop that ends, and a stop, change only a record that has left None to Stopped.
LEMMA StopStatusForward ==
  ASSUME TypeOK, TableInv, SerialInv, NEW r \in Attempts, status'[r] # status[r],
         \/ \E q \in Attempts : LoopBegins(q) \/ LoopQuits(q) \/ LoopEnds(q)
         \/ \E s \in Stops : TryRemove(s) \/ StopStep(s)
  PROVE  <<status[r], status'[r]>> \in StatusChanges
  <1>1. status'[r] = "Stopped" /\ status[r] # "None"
    <2>1. ASSUME NEW q \in Attempts, LoopBegins(q) \/ LoopQuits(q) PROVE FALSE
      BY <2>1 DEF LoopBegins, LoopQuits
    <2>2. ASSUME NEW q \in Attempts, LoopEnds(q)
          PROVE  status'[r] = "Stopped" /\ status[r] # "None"
      <3>1. r = q /\ status'[r] = "Stopped" /\ loop[r] = "ending"
        BY <2>2 DEF LoopEnds, TypeOK
      <3> QED BY <3>1 DEF TableInv, LoopAndSocket, SerialInv, StatusFollows, StatusOf
    <2>3. ASSUME NEW s \in Stops, TryRemove(s) \/ CancelToken(s) \/ DisposeTransport(s)
          PROVE  FALSE
      BY <2>3 DEF TryRemove, CancelToken, DisposeTransport
    <2>4. ASSUME NEW s \in Stops, MarkStopped(s) \/ RemoveSession(s)
          PROVE  status'[r] = "Stopped" /\ status[r] # "None"
      <3>1. r = store[stopId[s]] /\ status'[r] = "Stopped" /\ stopId[s] \in Ids
        BY <2>4 DEF MarkStopped, RemoveSession, MarkStored, TypeOK
      <3>2. RecordOf(stopId[s], r) BY <3>1 DEF SerialInv, EntryAndRecord, TypeOK
      <3> QED BY <3>1, <3>2 DEF RecordOf, TypeOK, SerialInv, StatusFollows, StatusOf, StartPc
    <2> QED BY <2>1, <2>2, <2>3, <2>4 DEF StopStep
  <1> QED BY <1>1 DEF TypeOK, Status, StatusChanges

\* No step of a caller that waits, of a loop or of a stop takes a record back.
THEOREM StatusNeverBack == SerialSpec => StatusForward
  <1>1. TypeOK /\ TableInv /\ SerialInv /\ [SerialNext]_vars =>
          [\A r \in Attempts : status'[r] # status[r] =>
             <<status[r], status'[r]>> \in StatusChanges]_status
    <2> SUFFICES ASSUME TypeOK, TableInv, SerialInv, SerialNext,
                        NEW r \in Attempts, status'[r] # status[r]
                 PROVE  <<status[r], status'[r]>> \in StatusChanges
      BY DEF vars
    <2>1. CASE \E c \in Conns : (\E q \in Attempts : Accept(q, c)) \/ HandlerBegins(c)
                                \/ HandlerEnds(c)
      BY <2>1 DEF Accept, HandlerBegins, HandlerEnds
    <2>2. CASE ApplicationStopping
      BY <2>2 DEF ApplicationStopping
    <2> QED BY <2>1, <2>2, StartStatusForward, StopStatusForward DEF SerialNext, Proceed
  <1> QED BY <1>1, SerialInvariant, PTL DEF SerialSpec, StatusForward

(***************************************************************************)
(* The refinement of SessionSlots.                                         *)
(***************************************************************************)
Mapped == <<SlotHolders, SlotPhases>>

\* A step that leaves who holds what, and every transport's phase, is a stutter.
LEMMA SameMapped ==
  ASSUME \A i \in Ids, q \in Attempts : Held(i, q)' <=> Held(i, q),
         \A q \in Attempts : Phase(q)' = Phase(q)
  PROVE  UNCHANGED Mapped
  BY DEF Mapped, SlotHolders, SlotPhases

\* The same for one slot and one phase that change.
LEMMA PhaseMoves ==
  ASSUME NEW r \in Attempts, NEW p, Phase(r)' = p,
         \A q \in Attempts : q # r => Phase(q)' = Phase(q)
  PROVE  SlotPhases' = [SlotPhases EXCEPT ![r] = p]
  BY DEF SlotPhases

\* A step that moves no holder leaves the slots as they are.
LEMMA HoldersStay ==
  ASSUME \A i \in Ids, q \in Attempts : Held(i, q)' <=> Held(i, q)
  PROVE  SlotHolders' = SlotHolders
  BY DEF SlotHolders

\* A step that moves the holders of one slot changes that slot alone.
LEMMA HoldersMove ==
  ASSUME NEW i \in Ids, NEW H, {q \in Attempts : Held(i, q)}' = H,
         \A j \in Ids, q \in Attempts : j # i => (Held(j, q)' <=> Held(j, q))
  PROVE  SlotHolders' = [SlotHolders EXCEPT ![i] = H]
  BY DEF SlotHolders

\* A fresh agent: every slot is free and every session new.
LEMMA InitMapped == ASSUME Init PROVE Slots!SlotsInit
  <1>1. \A i \in Ids, q \in Attempts : ~ Held(i, q)
    BY DEF Init, Held
  <1>2. \A q \in Attempts : Phase(q) = "new"
    BY DEF Init, Phase
  <1> QED BY <1>1, <1>2 DEF Slots!SlotsInit, SlotHolders, SlotPhases

\* A start that goes on, or gives up, before it touched the table.
LEMMA QuietStartMapped ==
  ASSUME TypeOK, TableInv, SerialInv, NEW r \in Attempts,
         \/ BeginStart(r) \/ AddSession(r) \/ ListenerThrows(r) \/ TryAddFails(r)
         \/ OpenFails(r) \/ SetActive(r) \/ SpawnLoop(r)
  PROVE  UNCHANGED Mapped
  <1> USE DEF Go, inputs, tables, stopVars
  <1>1. \A i \in Ids, q \in Attempts : Held(i, q)' <=> Held(i, q)
    BY DEF BeginStart, RefuseRunning, ValidateConfig, AddSession, ListenerThrows, TryAddFails,
           OpenFails, SetActive, SpawnLoop, Held
  <1>2. \A q \in Attempts : Phase(q)' = Phase(q)
    <2>1. sock' = sock
      BY DEF BeginStart, RefuseRunning, ValidateConfig, AddSession, ListenerThrows, TryAddFails,
             OpenFails, SetActive, SpawnLoop
    <2>2. pc[r] \in {"activate", "spawn"} => sock[r] = "open"
      BY DEF SerialInv, SocketHeld
    <2>3. \A q \in Attempts : q # r => pc'[q] = pc[q]
      BY DEF BeginStart, RefuseRunning, ValidateConfig, AddSession, ListenerThrows, TryAddFails,
             OpenFails, SetActive, SpawnLoop, TypeOK
    <2>4. \/ pc[r] \in {"activate", "spawn"}
          \/ pc[r] = "open" /\ pc'[r] = "untable"
          \/ /\ pc[r] \in {"idle", "register", "tryAdd"}
             /\ pc'[r] \in {"refused", "invalid", "register", "tryAdd", "thrown", "conflict"}
      BY DEF BeginStart, RefuseRunning, ValidateConfig, AddSession, ListenerThrows, TryAddFails,
             OpenFails, SetActive, SpawnLoop, TypeOK
    <2> QED BY <2>1, <2>2, <2>3, <2>4 DEF Phase
  <1> QED BY <1>1, <1>2, SameMapped

\* TryAdd takes a free slot.
LEMMA TryAddMapped ==
  ASSUME TypeOK, TableInv, SerialInv, NEW r \in Attempts, NEW i \in Ids, i = Id(r), TryAdd(r)
  PROVE  Slots!Reserve(i, r)
  <1> USE DEF Go, inputs, tables, stopVars
  <1>1. r # NoAttempt
    BY DEF TypeOK
  <1>2. pc[r] \in {"register", "tryAdd"}
    BY DEF TryAdd
  <1>3. \A s \in Stops : stopId[s] = i => stopPc[s] \notin {"cancel", "dispose"}
    BY <1>2, AloneOnId DEF Stopping
  <1>4. \A q \in Attempts : ~ Held(i, q)
    BY <1>3 DEF TryAdd, Held
  <1>5. SlotHolders[i] = {}
    BY <1>4 DEF SlotHolders
  <1>6. Phase(r) = "new"
    BY <1>2 DEF Phase, TableInv, NotYetTabled, BeforeTable
  <1>7. \A q \in Attempts : Held(i, q)' <=> q = r
    BY <1>1, <1>3 DEF TryAdd, Held, TypeOK
  <1>8. \A j \in Ids, q \in Attempts : j # i => (Held(j, q)' <=> Held(j, q))
    BY DEF TryAdd, Held, TypeOK
  <1>9. SlotHolders' = [SlotHolders EXCEPT ![i] = {r}]
    <2>1. {q \in Attempts : Held(i, q)}' = {r}
      BY <1>7
    <2> QED BY <1>8, <2>1, HoldersMove
  <1>10. SlotPhases' = [SlotPhases EXCEPT ![r] = "reserved"]
    <2>1. Phase(r)' = "reserved"
      BY <1>2 DEF TryAdd, Phase, TypeOK, TableInv, NotYetTabled, BeforeTable
    <2>2. \A q \in Attempts : q # r => Phase(q)' = Phase(q)
      BY DEF TryAdd, Phase, TypeOK
    <2> QED BY <2>1, <2>2, PhaseMoves
  <1> QED BY <1>5, <1>6, <1>9, <1>10 DEF Slots!Reserve, SlotPhases

\* Who holds the id of a session that is opening, running, or in a stop's hands.
LEMMA HeldAlone ==
  ASSUME TypeOK, TableInv, SerialInv, NEW r \in Attempts, NEW i \in Ids, Held(i, r)
  PROVE  i = Id(r) /\ SlotHolders[i] = {r}
  <1>1. r # NoAttempt
    BY DEF TypeOK
  <1>2. i = Id(r)
    BY <1>1 DEF Held, TypeOK, TableInv, TableEntryLive, SerialInv, EntryAndRecord, EntryOfStop
  <1>3. ASSUME NEW q \in Attempts, Held(i, q) PROVE q = r
    <2>1. q # NoAttempt
      BY DEF TypeOK
    <2> QED
      BY <1>1, <1>3, <2>1
      DEF Held, TypeOK, SerialInv, OneInFlight, EntryAndRecord, EntryOfStop, Stopping
  <1> QED BY <1>2, <1>3 DEF SlotHolders

\* Connecting, or binding the listener, opens the holder's transport.
LEMMA OpenMapped ==
  ASSUME TypeOK, TableInv, SerialInv, NEW r \in Attempts, NEW i \in Ids, i = Id(r),
         Connect(r) \/ Listen(r)
  PROVE  Slots!OpenTransport(i, r)
  <1> USE DEF Go, inputs, tables, stopVars
  <1>1. pc[r] = "open" /\ sock[r] = "none"
    BY DEF Connect, Listen, SerialInv, SocketHeld, TypeOK, Sock, TableInv, LoopAndSocket, HeldByStop,
           EntryAndRecord, EntryOfStart, EntryOfStop, Id, TableEntryLive
  <1>2. Held(i, r)
    BY <1>1 DEF Held, SerialInv, EntryAndRecord, EntryOfStart
  <1>3. \A j \in Ids, q \in Attempts : Held(j, q)' <=> Held(j, q)
    BY DEF Connect, Listen, Held
  <1>4. Phase(r) = "reserved" /\ Phase(r)' = "open"
    BY <1>1 DEF Connect, Listen, Phase, TypeOK
  <1>5. \A q \in Attempts : q # r => Phase(q)' = Phase(q)
    BY DEF Connect, Listen, Phase, TypeOK
  <1> QED BY <1>2, <1>3, <1>4, <1>5, HeldAlone, HoldersStay, PhaseMoves
          DEF Slots!OpenTransport, SlotPhases

\* A start that failed frees the slot it held.
LEMMA RemoveFailedMapped ==
  ASSUME TypeOK, TableInv, SerialInv, NEW r \in Attempts, NEW i \in Ids, i = Id(r),
         RemoveFailed(r)
  PROVE  Slots!Release(i, r)
  <1> USE DEF Go, inputs, tables, stopVars
  <1>1. r # NoAttempt
    BY DEF TypeOK
  <1>2. Held(i, r)
    BY DEF RemoveFailed, Held, SerialInv, EntryAndRecord, EntryOfStart
  <1>3. \A s \in Stops : stopId[s] = i => stopPc[s] \notin {"cancel", "dispose"}
    BY DEF RemoveFailed, SerialInv, OneInFlight, Starting, StartDone, Stopping
  <1>4. \A q \in Attempts : ~ Held(i, q)'
    BY <1>3 DEF RemoveFailed, Held, TypeOK
  <1>5. \A j \in Ids, q \in Attempts : j # i => (Held(j, q)' <=> Held(j, q))
    BY DEF RemoveFailed, Held, TypeOK
  <1>6. {q \in Attempts : Held(i, q)}' = {}
    BY <1>4
  <1>7. sock[r] # "open"
    BY DEF RemoveFailed, SerialInv, SocketHeld
  <1>8. Phase(r)' = "over"
    BY <1>7 DEF RemoveFailed, Phase, TypeOK
  <1>9. \A q \in Attempts : q # r => Phase(q)' = Phase(q)
    BY DEF RemoveFailed, Phase, TypeOK
  <1> QED BY <1>2, <1>5, <1>6, <1>8, <1>9, HeldAlone, HoldersMove, PhaseMoves
          DEF Slots!Release

\* A loop lets go of its transport, or its transport was gone before.
LEMMA LoopMapped ==
  ASSUME TypeOK, TableInv, SerialInv, NEW r \in Attempts, NEW i \in Ids, i = Id(r),
         LoopBegins(r) \/ LoopQuits(r) \/ LoopEnds(r)
  PROVE  Slots!EndTransport(i, r) \/ UNCHANGED Mapped
  <1> USE DEF inputs, tables, stopVars
  <1>1. \A j \in Ids, q \in Attempts : Held(j, q)' <=> Held(j, q)
    BY DEF LoopBegins, LoopQuits, LoopEnds, Held
  <1>2. \A q \in Attempts : q # r => Phase(q)' = Phase(q)
    BY DEF LoopBegins, LoopQuits, LoopEnds, Phase, TypeOK
  <1>3. CASE sock'[r] = sock[r]
    <2>1. Phase(r)' = Phase(r)
      BY <1>3 DEF LoopBegins, LoopQuits, LoopEnds, Phase
    <2> QED BY <1>1, <1>2, <2>1, SameMapped
  <1>4. CASE sock'[r] # sock[r] /\ sock[r] = "open"
    <2>1. LoopEnds(r) /\ loop[r] = "ending"
      BY <1>4 DEF LoopBegins, LoopQuits, LoopEnds
    <2>2. pc[r] = "started" /\ sock'[r] = "disposed" /\ pc' = pc
      BY <1>4, <2>1 DEF LoopEnds, TableInv, LoopAndSocket, TypeOK
    <2>4. Phase(r) = "open" /\ Phase(r)' = "over"
      BY <1>4, <2>2 DEF Phase
    <2>3. Held(i, r)
      BY <1>4, <2>2 DEF Held, SerialInv, SocketHeld, EntryAndRecord, EntryOfStart, EntryOfStop, Taken
    <2> QED BY <1>1, <1>2, <2>3, <2>4, HeldAlone, HoldersStay, PhaseMoves
            DEF Slots!EndTransport, SlotPhases
  <1>5. CASE sock'[r] # sock[r] /\ sock[r] # "open"
    <2>1. pc[r] = "started" /\ sock'[r] = "disposed" /\ pc' = pc
      BY <1>5 DEF LoopBegins, LoopQuits, LoopEnds, TableInv, LoopAndSocket, TypeOK
    <2>2. Phase(r)' = Phase(r)
      BY <1>5, <2>1 DEF Phase
    <2> QED BY <1>1, <1>2, <2>2, SameMapped
  <1> QED BY <1>3, <1>4, <1>5

\* Clients that come and go touch no slot.
LEMMA ConnMapped ==
  ASSUME TypeOK, NEW c \in Conns,
         (\E r \in Attempts : Accept(r, c)) \/ HandlerBegins(c) \/ HandlerEnds(c)
  PROVE  UNCHANGED Mapped
  <1>1. UNCHANGED <<stopId, pc, sock, sessions, taken, stopPc>>
    BY DEF Accept, HandlerBegins, HandlerEnds, inputs, tables, stopVars
  <1> QED BY <1>1, SameMapped DEF Held, Phase

\* A stop holds the id it took the entry of until it has disposed the transport,
LEMMA StopMapped ==
  ASSUME TypeOK, TableInv, SerialInv, NEW s \in Stops,
         \/ Quiet(stopId[s]) /\ TryRemove(s)
         \/ CancelToken(s) \/ MarkStopped(s) \/ RemoveSession(s)
  PROVE  UNCHANGED Mapped
  <1> USE DEF GoStop, inputs, tables, stopVars
  <1>1. \A q \in Attempts : Phase(q)' = Phase(q)
    BY DEF TryRemove, CancelToken, MarkStopped, RemoveSession, Phase
  <1>2. ASSUME NEW i \in Ids, NEW q \in Attempts PROVE Held(i, q)' <=> Held(i, q)
    <2>1. q # NoAttempt
      BY DEF TypeOK
    <2>2. CASE Quiet(stopId[s]) /\ TryRemove(s) /\ i = stopId[s]
      <3>1. \A t \in Stops : stopId[t] = i => stopPc[t] \notin {"cancel", "dispose"}
        BY <2>2 DEF Quiet, TryRemove
      <3>2. Held(i, q) <=> sessions[i] = q
        BY <3>1 DEF Held
      <3>3. Held(i, q)' <=> sessions[i] = q
        BY <2>1, <2>2, <3>1 DEF TryRemove, Held, TypeOK
      <3> QED BY <3>2, <3>3
    <2>3. CASE TryRemove(s) /\ i # stopId[s]
      BY <2>3 DEF TryRemove, Held, TypeOK
    <2>4. CASE CancelToken(s) \/ MarkStopped(s) \/ RemoveSession(s)
      BY <2>4 DEF CancelToken, MarkStopped, RemoveSession, Held, TypeOK
    <2> QED BY <2>2, <2>3, <2>4
  <1> QED BY <1>1, <1>2, SameMapped

\* and frees it then.
LEMMA DisposeMapped ==
  ASSUME TypeOK, TableInv, SerialInv, NEW s \in Stops, NEW r \in Attempts, r = taken[s],
         NEW i \in Ids, i = stopId[s], DisposeTransport(s)
  PROVE  Slots!Release(i, r)
  <1> USE DEF GoStop, inputs, tables, stopVars
  <1>1. r # NoAttempt /\ Stopping(s)
    BY DEF TypeOK, DisposeTransport, Stopping
  <1>2. Held(i, r)
    BY DEF DisposeTransport, Held
  <1>3. sessions[i] = NoAttempt
    BY <1>1 DEF SerialInv, EntryAndRecord, EntryOfStop
  <1>4. \A t \in Stops : t # s /\ stopId[t] = i => stopPc[t] \notin {"cancel", "dispose"}
    BY <1>1 DEF SerialInv, OneInFlight, Stopping
  <1>5. \A q \in Attempts : ~ Held(i, q)'
    BY <1>3, <1>4 DEF DisposeTransport, Held, TypeOK
  <1>6. {q \in Attempts : Held(i, q)}' = {}
    BY <1>5
  <1>7. \A j \in Ids, q \in Attempts : j # i => (Held(j, q)' <=> Held(j, q))
    BY DEF DisposeTransport, Held, TypeOK
  <1>8. pc[r] = "started"
    BY <1>1 DEF SerialInv, EntryAndRecord, EntryOfStop
  <1>9. Phase(r)' = "over"
    BY <1>8 DEF DisposeTransport, Phase, TypeOK
  <1>10. \A q \in Attempts : q # r => Phase(q)' = Phase(q)
    BY DEF DisposeTransport, Phase, TypeOK
  <1> QED BY <1>2, <1>6, <1>7, <1>9, <1>10, HeldAlone, HoldersMove, PhaseMoves
          DEF Slots!Release

\* Every step of such a caller, and of what it set going, is a step on the slots
\* or none at all.
LEMMA StepMapped ==
  ASSUME TypeOK, TableInv, SerialInv, SerialNext
  PROVE  Slots!SlotsNext \/ UNCHANGED Mapped
  <1>1. ASSUME NEW r \in Attempts,
               \/ BeginStart(r) \/ StartStep(r) \/ LoopBegins(r) \/ LoopQuits(r) \/ LoopEnds(r)
        PROVE  Slots!SlotsNext \/ UNCHANGED Mapped
    <2>1. Id(r) \in Ids
      BY DEF TypeOK, Id, SessionConfig
    <2> QED
      BY <1>1, <2>1, QuietStartMapped, TryAddMapped, OpenMapped, RemoveFailedMapped, LoopMapped
      DEF StartStep, Slots!SlotsNext
  <1>2. ASSUME NEW s \in Stops, (Quiet(stopId[s]) /\ TryRemove(s)) \/ StopStep(s)
        PROVE  Slots!SlotsNext \/ UNCHANGED Mapped
    <2>1. CASE DisposeTransport(s)
      <3>1. taken[s] \in Attempts /\ stopId[s] \in Ids
        BY <2>1 DEF TypeOK, TableInv, HeldByStop, DisposeTransport, GoStop
      <3> QED BY <2>1, <3>1, DisposeMapped DEF Slots!SlotsNext
    <2> QED BY <1>2, <2>1, StopMapped DEF StopStep
  <1>3. CASE \/ ApplicationStopping
             \/ \E c \in Conns : \/ HandlerBegins(c) \/ HandlerEnds(c)
                                \/ \E r \in Attempts : Accept(r, c)
    <2>1. CASE ApplicationStopping
      BY <2>1, SameMapped
      DEF ApplicationStopping, Held, Phase, inputs, tables, stopVars
    <2> QED BY <1>3, <2>1, ConnMapped
  <1> QED BY <1>1, <1>2, <1>3 DEF SerialNext, Proceed

\* For callers that wait for each answer the session manager implements one slot
\* per id: taken only when free, its holder's transport the only one open, freed
\* together with the transport, and never opened again by the same session.
THEOREM SlotsImplemented == SerialSpec => ImplementsSlots
  <1>1. Init => Slots!SlotsInit
    BY InitMapped
  <1>2. TypeOK /\ TableInv /\ SerialInv /\ [SerialNext]_vars =>
          [Slots!SlotsNext]_<<SlotHolders, SlotPhases>>
    <2>1. CASE UNCHANGED vars
      BY <2>1, SameMapped DEF vars, Held, Phase, Mapped
    <2> QED BY <2>1, StepMapped DEF Mapped
  <1> QED BY <1>1, <1>2, SerialInvariant, PTL DEF SerialSpec, ImplementsSlots, Slots!SlotsSpec
=============================================================================
