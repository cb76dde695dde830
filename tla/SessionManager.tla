--------------------------- MODULE SessionManager ---------------------------
(***************************************************************************)
(* The life of the agent's TCP sessions: TcpSessionManager (the running    *)
(* table _sessions, the transports, the background loops) together with    *)
(* InMemorySessionStore (the records the REST API shows).                  *)
(*                                                                         *)
(* Requests run on thread-pool threads with no lock around them, so every  *)
(* access to shared state is an action of its own.  An attempt is one call *)
(* of StartSessionAsync; it stands for the record, the ActiveSession, the  *)
(* TcpListener or TcpClient and the cancellation source that call creates, *)
(* none of which is ever shared with another attempt.                      *)
(***************************************************************************)
EXTENDS Naturals, FiniteSets

CONSTANTS Ids,        \* session identifiers
          Attempts,   \* calls of StartSessionAsync
          Stops,      \* calls of StopSessionAsync
          Conns,      \* client connections arriving at a listener
          Ports,      \* TCP ports of the host
          Configs,    \* the SessionConfig values callers may send
          NoAttempt,  \* "no entry under this id"
          NoPort      \* a TcpPort outside 0..65535

Modes == {"Rebatedor", "Injetor"}

\* The parts of SessionConfig that decide the control flow: target says that
\* TargetHost and TargetPort are given, framed that HeaderSize is 0, 2 or 4
\* (the sizes LengthPrefixMessageFramer accepts).
SessionConfig == [id: Ids, mode: Modes, port: Ports \cup {NoPort}, target: BOOLEAN, framed: BOOLEAN]

ASSUME ConfigsAssumption == Configs \subseteq SessionConfig
ASSUME NoAttemptAssumption == NoAttempt \notin Attempts

VARIABLES
  cfg,        \* the request body of each attempt (fixed when the call is made)
  stopId,     \* the id each stop request names (fixed when the call is made)
  pc,         \* where each StartSessionAsync call is
  status,     \* SimulatorSession.Status of the attempt's record
  sock,       \* the attempt's TcpListener / TcpClient
  cancelled,  \* the attempt's CancellationTokenSource was cancelled by a stop
  loop,       \* the attempt's AcceptLoop / InjetorReadLoop task
  sessions,   \* TcpSessionManager._sessions
  store,      \* InMemorySessionStore._sessions
  stopPc,     \* where each StopSessionAsync call is
  taken,      \* the entry a stop removed from _sessions
  conn,       \* the task that owns each accepted client
  owner,      \* the attempt whose listener accepted the client
  stopping    \* IHostApplicationLifetime.ApplicationStopping has fired

inputs == <<cfg, stopId>>
tables == <<sessions, store>>
stopVars == <<stopPc, taken>>
connVars == <<conn, owner>>
vars == <<cfg, stopId, pc, status, sock, cancelled, loop, sessions, store,
          stopPc, taken, conn, owner, stopping>>

StartPc == {"idle", "register", "tryAdd", "open", "activate", "spawn", "untable", "started",
            "refused", "invalid", "conflict", "thrown", "failed"}
StartDone == {"started", "refused", "invalid", "conflict", "thrown", "failed"}
Status == {"None", "Starting", "Active", "Stopped", "Error"}
Sock == {"none", "open", "disposed"}
Loop == {"none", "queued", "running", "ending", "ended", "never"}
StopPc == {"idle", "cancel", "dispose", "mark", "remove", "done"}
ConnPc == {"none", "queued", "handling", "closed", "leaked"}

TypeOK ==
  /\ cfg \in [Attempts -> Configs]
  /\ stopId \in [Stops -> Ids]
  /\ pc \in [Attempts -> StartPc]
  /\ status \in [Attempts -> Status]
  /\ sock \in [Attempts -> Sock]
  /\ cancelled \in [Attempts -> BOOLEAN]
  /\ loop \in [Attempts -> Loop]
  /\ sessions \in [Ids -> Attempts \cup {NoAttempt}]
  /\ store \in [Ids -> Attempts \cup {NoAttempt}]
  /\ stopPc \in [Stops -> StopPc]
  /\ taken \in [Stops -> Attempts \cup {NoAttempt}]
  /\ conn \in [Conns -> ConnPc]
  /\ owner \in [Conns -> Attempts \cup {NoAttempt}]
  /\ stopping \in BOOLEAN

\* A fresh agent process; which requests it will receive is open.
Init ==
  /\ cfg \in [Attempts -> Configs]
  /\ stopId \in [Stops -> Ids]
  /\ pc = [r \in Attempts |-> "idle"]
  /\ status = [r \in Attempts |-> "None"]
  /\ sock = [r \in Attempts |-> "none"]
  /\ cancelled = [r \in Attempts |-> FALSE]
  /\ loop = [r \in Attempts |-> "none"]
  /\ sessions = [i \in Ids |-> NoAttempt]
  /\ store = [i \in Ids |-> NoAttempt]
  /\ stopPc = [s \in Stops |-> "idle"]
  /\ taken = [s \in Stops |-> NoAttempt]
  /\ conn = [c \in Conns |-> "none"]
  /\ owner = [c \in Conns |-> NoAttempt]
  /\ stopping = FALSE

Id(r) == cfg[r].id
Injetor(r) == cfg[r].mode = "Injetor"


\* The token of the attempt's linked source: a stop or the host cancels it.
Token(r) == cancelled[r] \/ stopping

Go(r, from, to) == pc[r] = from /\ pc' = [pc EXCEPT ![r] = to]
GoStop(s, from, to) == stopPc[s] = from /\ stopPc' = [stopPc EXCEPT ![s] = to]

(***************************************************************************)
(* StartSessionAsync                                                       *)
(***************************************************************************)
\* The constructor of TcpListener rejects the port.
BadPort(r) == ~ Injetor(r) /\ cfg[r].port = NoPort

\* "already running" is decided by the table alone.
RefuseRunning(r) ==
  /\ sessions[Id(r)] # NoAttempt
  /\ Go(r, "idle", "refused")
  /\ UNCHANGED <<inputs, status, sock, cancelled, loop, tables, stopVars, connVars, stopping>>

\* Mutant of ValidateConfig: the ContainsKey test is dropped.
ValidateUnchecked(r) ==
  /\ Go(r, "idle", IF Injetor(r) /\ ~cfg[r].target THEN "invalid" ELSE "register")
  /\ UNCHANGED <<inputs, status, sock, cancelled, loop, tables, stopVars, connVars, stopping>>

ValidateConfig(r) ==
  /\ sessions[Id(r)] = NoAttempt
  /\ Go(r, "idle", IF Injetor(r) /\ ~cfg[r].target THEN "invalid" ELSE "register")
  /\ UNCHANGED <<inputs, status, sock, cancelled, loop, tables, stopVars, connVars, stopping>>

\* The record replaces whatever the store held under the id.
AddSession(r) ==
  /\ Go(r, "register", "tryAdd")
  /\ status' = [status EXCEPT ![r] = "Starting"]
  /\ store' = [store EXCEPT ![Id(r)] = r]
  /\ UNCHANGED <<inputs, sock, cancelled, loop, sessions, stopVars, connVars, stopping>>

\* ArgumentOutOfRangeException escapes: the call answers 500, the record stays.
ListenerThrows(r) ==
  /\ BadPort(r)
  /\ Go(r, "tryAdd", "thrown")
  /\ UNCHANGED <<inputs, status, sock, cancelled, loop, tables, stopVars, connVars, stopping>>

TryAdd(r) ==
  /\ ~ BadPort(r)
  /\ sessions[Id(r)] = NoAttempt
  /\ Go(r, "tryAdd", "open")
  /\ sessions' = [sessions EXCEPT ![Id(r)] = r]
  /\ UNCHANGED <<inputs, status, sock, cancelled, loop, store, stopVars, connVars, stopping>>

TryAddFails(r) ==
  /\ ~ BadPort(r)
  /\ sessions[Id(r)] # NoAttempt
  /\ Go(r, "tryAdd", "conflict")
  /\ UNCHANGED <<inputs, status, sock, cancelled, loop, tables, stopVars, connVars, stopping>>

PortFree(p) ==
  \A q \in Attempts : ~ (sock[q] = "open" /\ ~ Injetor(q) /\ cfg[q].port = p)

\* ConnectAsync completes: not once the token is cancelled or the client disposed.
Connect(r) ==
  /\ Injetor(r)
  /\ ~ Token(r)
  /\ sock[r] = "none"
  /\ Go(r, "open", "activate")
  /\ sock' = [sock EXCEPT ![r] = "open"]
  /\ UNCHANGED <<inputs, status, cancelled, loop, tables, stopVars, connVars, stopping>>

\* TcpListener.Start creates a new socket even after Dispose closed the old one.
Listen(r) ==
  /\ ~ Injetor(r)
  /\ PortFree(cfg[r].port)
  /\ Go(r, "open", "activate")
  /\ sock' = [sock EXCEPT ![r] = "open"]
  /\ UNCHANGED <<inputs, status, cancelled, loop, tables, stopVars, connVars, stopping>>

\* The remote refuses or times out, the token is cancelled, the client is
\* disposed; or the port is taken, by one of our listeners or another process.
OpenFails(r) ==
  /\ Go(r, "open", "untable")
  /\ status' = [status EXCEPT ![r] = "Error"]
  /\ UNCHANGED <<inputs, sock, cancelled, loop, tables, stopVars, connVars, stopping>>

\* Mutant of SetActive: the status is written after the loop was spawned.
SetActiveLate(r) ==
  /\ \/ Go(r, "activate", "spawn") /\ UNCHANGED status
     \/ /\ pc[r] = "started" /\ UNCHANGED pc
        /\ status' = [status EXCEPT ![r] = "Active"]
  /\ UNCHANGED <<inputs, sock, cancelled, loop, tables, stopVars, connVars, stopping>>

SetActive(r) ==
  /\ Go(r, "activate", "spawn")
  /\ status' = [status EXCEPT ![r] = "Active"]
  /\ UNCHANGED <<inputs, sock, cancelled, loop, tables, stopVars, connVars, stopping>>

SpawnLoop(r) ==
  /\ Go(r, "spawn", "started")
  /\ loop' = [loop EXCEPT ![r] = "queued"]
  /\ UNCHANGED <<inputs, status, sock, cancelled, tables, stopVars, connVars, stopping>>

\* TryRemove(id) removes the entry under the id, whoever's it is.
RemoveFailed(r) ==
  /\ Go(r, "untable", "failed")
  /\ sessions' = [sessions EXCEPT ![Id(r)] = NoAttempt]
  /\ sock' = IF Injetor(r) THEN [sock EXCEPT ![r] = "disposed"] ELSE sock
  /\ UNCHANGED <<inputs, status, cancelled, loop, store, stopVars, connVars, stopping>>

\* The controller passes ApplicationStopping, not the request's own token, so
\* nothing cancels a call that has begun except a stop and the host.
BeginStart(r) == RefuseRunning(r) \/ ValidateConfig(r)

StartStep(r) ==
  \/ AddSession(r) \/ ListenerThrows(r) \/ TryAdd(r) \/ TryAddFails(r)
  \/ Connect(r) \/ Listen(r) \/ OpenFails(r)
  \/ SetActive(r) \/ SpawnLoop(r) \/ RemoveFailed(r)

(***************************************************************************)
(* AcceptLoop and InjetorReadLoop                                          *)
(***************************************************************************)
\* Task.Run(body, token) drops the body when the token is cancelled before a
\* pool thread picks it up.  A reader whose framer rejects HeaderSize goes
\* straight to its finally block.
LoopBegins(r) ==
  /\ loop[r] = "queued"
  /\ loop' = [loop EXCEPT ![r] =
       IF Token(r) THEN "never"
       ELSE IF Injetor(r) /\ ~ cfg[r].framed THEN "ending" ELSE "running"]
  /\ UNCHANGED <<inputs, pc, status, sock, cancelled, tables, stopVars, connVars, stopping>>

\* The wait ends: the token is cancelled, the remote closes or breaks the outbound
\* connection, or AcceptTcpClientAsync throws something other than a cancellation.
LoopQuits(r) ==
  /\ loop[r] = "running"
  /\ loop' = [loop EXCEPT ![r] = "ending"]
  /\ UNCHANGED <<inputs, pc, status, sock, cancelled, tables, stopVars, connVars, stopping>>

\* Mutant of LoopCancelled: the accept or read does not observe the token.
LoopDeaf(r) == FALSE /\ LoopQuits(r)

LoopCancelled(r) == Token(r) /\ LoopQuits(r)

\* Mutant of LoopEnds: the finally block forgets the record.
LoopEndsSilently(r) ==
  /\ loop[r] = "ending"
  /\ loop' = [loop EXCEPT ![r] = "ended"]
  /\ sock' = IF Injetor(r) /\ ~ cfg[r].framed THEN sock ELSE [sock EXCEPT ![r] = "disposed"]
  /\ UNCHANGED <<inputs, pc, status, cancelled, tables, stopVars, connVars, stopping>>

\* The finally block; the entry in _sessions stays.  The reader's stream is
\* disposed when HandleRebatedorAsync returns, so not when it never began.
LoopEnds(r) ==
  /\ loop[r] = "ending"
  /\ loop' = [loop EXCEPT ![r] = "ended"]
  /\ sock' = IF Injetor(r) /\ ~ cfg[r].framed THEN sock ELSE [sock EXCEPT ![r] = "disposed"]
  /\ status' = [status EXCEPT ![r] = "Stopped"]
  /\ UNCHANGED <<inputs, pc, cancelled, tables, stopVars, connVars, stopping>>

\* A client is accepted and its handler queued; an unsupported HeaderSize makes
\* the handler's constructor throw, which ends the loop and forgets the client.
Accept(r, c) ==
  /\ loop[r] = "running"
  /\ ~ Injetor(r) /\ ~ Token(r)
  /\ sock[r] = "open"
  /\ conn[c] = "none"
  /\ owner' = [owner EXCEPT ![c] = r]
  /\ conn' = [conn EXCEPT ![c] = IF cfg[r].framed THEN "queued" ELSE "leaked"]
  /\ loop' = IF cfg[r].framed THEN loop ELSE [loop EXCEPT ![r] = "ending"]
  /\ UNCHANGED <<inputs, pc, status, sock, cancelled, tables, stopVars, stopping>>

HandlerBegins(c) ==
  /\ conn[c] = "queued"
  /\ conn' = [conn EXCEPT ![c] = IF Token(owner[c]) THEN "leaked" ELSE "handling"]
  /\ UNCHANGED <<inputs, pc, status, sock, cancelled, loop, tables, stopVars, owner, stopping>>

\* The lambda's finally block: the peer closed, an error, or the token.
HandlerEnds(c) ==
  /\ conn[c] = "handling"
  /\ conn' = [conn EXCEPT ![c] = "closed"]
  /\ UNCHANGED <<inputs, pc, status, sock, cancelled, loop, tables, stopVars, owner, stopping>>

(***************************************************************************)
(* StopSessionAsync                                                        *)
(***************************************************************************)
\* Mutant of TryRemove: the entry's source is not cancelled.
TryRemoveNoCancel(s) ==
  /\ GoStop(s, "idle", IF sessions[stopId[s]] = NoAttempt THEN "mark" ELSE "dispose")
  /\ taken' = [taken EXCEPT ![s] = sessions[stopId[s]]]
  /\ sessions' = [sessions EXCEPT ![stopId[s]] = NoAttempt]
  /\ UNCHANGED <<inputs, pc, status, sock, cancelled, loop, store, connVars, stopping>>

\* Mutant of TryRemove: the entry is looked up but left in the table.
TryGet(s) ==
  /\ GoStop(s, "idle", IF sessions[stopId[s]] = NoAttempt THEN "mark" ELSE "cancel")
  /\ taken' = [taken EXCEPT ![s] = sessions[stopId[s]]]
  /\ UNCHANGED <<inputs, pc, status, sock, cancelled, loop, tables, connVars, stopping>>

TryRemove(s) ==
  /\ GoStop(s, "idle", IF sessions[stopId[s]] = NoAttempt THEN "mark" ELSE "cancel")
  /\ taken' = [taken EXCEPT ![s] = sessions[stopId[s]]]
  /\ sessions' = [sessions EXCEPT ![stopId[s]] = NoAttempt]
  /\ UNCHANGED <<inputs, pc, status, sock, cancelled, loop, store, connVars, stopping>>

CancelToken(s) ==
  /\ GoStop(s, "cancel", "dispose")
  /\ cancelled' = [cancelled EXCEPT ![taken[s]] = TRUE]
  /\ UNCHANGED <<inputs, pc, status, sock, loop, tables, taken, connVars, stopping>>

\* Mutant of DisposeTransport: only the listener is disposed.
DisposeListener(s) ==
  /\ GoStop(s, "dispose", "mark")
  /\ sock' = IF Injetor(taken[s]) THEN sock ELSE [sock EXCEPT ![taken[s]] = "disposed"]
  /\ UNCHANGED <<inputs, pc, status, cancelled, loop, tables, taken, connVars, stopping>>

DisposeTransport(s) ==
  /\ GoStop(s, "dispose", "mark")
  /\ sock' = [sock EXCEPT ![taken[s]] = "disposed"]
  /\ UNCHANGED <<inputs, pc, status, cancelled, loop, tables, taken, connVars, stopping>>

\* Mutant of MarkStored: a status SessionStatus does not have.
MarkRemoved(i) ==
  status' = IF store[i] = NoAttempt THEN status ELSE [status EXCEPT ![store[i]] = "Removed"]

\* status after the record now stored under the id is marked Stopped, if any.
MarkStored(i) ==
  status' = IF store[i] = NoAttempt THEN status ELSE [status EXCEPT ![store[i]] = "Stopped"]

MarkStopped(s) ==
  /\ GoStop(s, "mark", "remove")
  /\ MarkStored(stopId[s])
  /\ UNCHANGED <<inputs, pc, sock, cancelled, loop, tables, taken, connVars, stopping>>

\* RemoveSession keeps the record and marks it a second time, after the await
\* of the hub notification.
RemoveSession(s) ==
  /\ GoStop(s, "remove", "done")
  /\ MarkStored(stopId[s])
  /\ UNCHANGED <<inputs, pc, sock, cancelled, loop, tables, taken, connVars, stopping>>

StopStep(s) ==
  CancelToken(s) \/ DisposeTransport(s) \/ MarkStopped(s) \/ RemoveSession(s)

(***************************************************************************)
(* The host                                                                *)
(***************************************************************************)
ApplicationStopping ==
  /\ ~ stopping
  /\ stopping' = TRUE
  /\ UNCHANGED <<inputs, pc, status, sock, cancelled, loop, tables, stopVars, connVars>>

\* The steps the thread pool owes: see Fairness.
LoopStep(r) == LoopBegins(r) \/ LoopCancelled(r) \/ LoopEnds(r)
HandlerStep(c) == HandlerBegins(c) \/ (HandlerEnds(c) /\ Token(owner[c]))

\* What the agent, its peers and its host do once the requests are there.
Proceed ==
  \/ \E r \in Attempts : StartStep(r) \/ LoopBegins(r) \/ LoopQuits(r) \/ LoopEnds(r)
  \/ \E r \in Attempts, c \in Conns : Accept(r, c)
  \/ \E c \in Conns : HandlerBegins(c) \/ HandlerEnds(c)
  \/ \E s \in Stops : StopStep(s)
  \/ ApplicationStopping

Next ==
  \/ Proceed
  \/ \E r \in Attempts : BeginStart(r)
  \/ \E s \in Stops : TryRemove(s)

Spec == Init /\ [][Next]_vars

\* The thread pool runs every call and task that can go on; ConnectAsync ends
\* because the operating system times out.  Callers, peers and the host are
\* under no obligation.
Fairness ==
  /\ \A r \in Attempts : WF_vars(StartStep(r)) /\ WF_vars(LoopStep(r))
  /\ \A s \in Stops : WF_vars(StopStep(s))
  /\ \A c \in Conns : WF_vars(HandlerStep(c))

FairSpec == Spec /\ Fairness

(***************************************************************************)
(* One call at a time per id: callers that wait for the answer of a start   *)
(* or a stop before they send the next one for the same id.  Calls on       *)
(* different ids, loops, clients and the host still interleave freely.      *)
(***************************************************************************)
Quiet(i) ==
  /\ \A r \in Attempts : Id(r) = i => pc[r] \in StartDone \cup {"idle"}
  /\ \A s \in Stops : stopId[s] = i => stopPc[s] \in {"idle", "done"}

SerialNext ==
  \/ Proceed
  \/ \E r \in Attempts : Quiet(Id(r)) /\ BeginStart(r)
  \/ \E s \in Stops : Quiet(stopId[s]) /\ TryRemove(s)

SerialSpec == Init /\ [][SerialNext]_vars

-----------------------------------------------------------------------------
(***************************************************************************)
(* What holds whatever the interleaving                                    *)
(***************************************************************************)
\* An entry of the running table has never been torn down: its attempt is past
\* TryAdd and carries that id, no stop has it in hand and none has cancelled it.
\* GetInjetorClient relies on it when it hands the entry's client to an inject.
TableEntryLive ==
  \A i \in Ids : LET r == sessions[i] IN
    r # NoAttempt =>
      /\ Id(r) = i
      /\ ~ cancelled[r]
      /\ pc[r] \in {"open", "activate", "spawn", "started", "untable"}
      /\ \A s \in Stops : taken[s] # r

\* Whatever failing starts remove behind its back, one attempt is torn down by
\* at most one stop: no double CancelAsync and Dispose (TryRemove hands it out once).
TeardownExclusive ==
  \A s, t \in Stops : s # t /\ taken[s] # NoAttempt => taken[s] # taken[t]

\* A transport is disposed under a running loop only after that loop's token was
\* cancelled: an ordinary stop never surfaces as a broken connection (CancelAsync
\* comes before Dispose, and nobody else disposes a transport with a live loop).
DisposeAfterCancel ==
  \A r \in Attempts : loop[r] = "running" /\ sock[r] = "disposed" => cancelled[r]

\* What is torn down is torn down once, and in order.
TeardownOrdered == TeardownExclusive /\ DisposeAfterCancel

(***************************************************************************)
(* What a caller that waits for each answer can rely on                    *)
(***************************************************************************)
Taken(r) == \E s \in Stops : taken[s] = r

\* A running loop that no stop has taken is the one the table and the store
\* show under its id, as Active: DELETE, /inject and PUT emv-config reach it.
RunningIsReachable ==
  \A r \in Attempts : loop[r] = "running" /\ ~ Taken(r) =>
    sessions[Id(r)] = r /\ store[Id(r)] = r /\ status[r] = "Active"

\* When no call on an id is in flight and the table has no entry for it, no
\* attempt on that id holds a socket: DELETE "closes the TCP listener/connection".
IdleIdHoldsNothing ==
  \A i \in Ids : Quiet(i) /\ sessions[i] = NoAttempt =>
    \A r \in Attempts : Id(r) = i => sock[r] # "open"

\* The record GET /sessions shows for i stands for an open transport whose loop
\* is alive or about to begin.
ListedIsOpen(i) ==
  LET r == store[i] IN
    r # NoAttempt /\ status[r] \in {"Starting", "Active"} =>
      sock[r] = "open" /\ loop[r] \in {"queued", "running", "ending"}

\* While the host runs, an id with no call in flight is listed only when its
\* transport is open; a start with an impossible port, which throws after the record
\* was stored, excepted.
ValidListedAreOpen ==
  \A i \in Ids : Quiet(i) /\ ~ stopping /\ (store[i] # NoAttempt => ~ BadPort(store[i]))
    => ListedIsOpen(i)

StatusChanges == {<<"None", "Starting">>, <<"Starting", "Active">>, <<"Starting", "Error">>,
                  <<"Starting", "Stopped">>, <<"Active", "Stopped">>, <<"Error", "Stopped">>}

\* A record never goes back: Starting, then Active or Error, then Stopped (a DELETE
\* stops a record left in Starting by an impossible port).
StatusForward ==
  [][\A r \in Attempts : status'[r] # status[r] =>
       <<status[r], status'[r]>> \in StatusChanges]_status

(***************************************************************************)
(* The abstract specification SessionManager implements for such callers    *)
(***************************************************************************)
\* An id is held by its entry in the table, and then by the entry a stop has
\* removed until that stop has disposed the transport.
Held(i, r) ==
  \/ sessions[i] = r
  \/ \E s \in Stops : stopId[s] = i /\ taken[s] = r /\ stopPc[s] \in {"cancel", "dispose"}

Phase(r) ==
  IF sock[r] = "open" THEN "open"
  ELSE IF pc[r] \in {"open", "untable"} THEN "reserved"
  ELSE IF pc[r] \in {"activate", "spawn", "started", "failed"} THEN "over" ELSE "new"

SlotHolders == [i \in Ids |-> {r \in Attempts : Held(i, r)}]
SlotPhases == [r \in Attempts |-> Phase(r)]

Slots == INSTANCE SessionSlots
  WITH Sessions <- Attempts, holders <- SlotHolders, phase <- SlotPhases

\* One slot per id: a start takes it only when it is free, only its holder's
\* transport is open, a stop frees it together with the transport, and nothing
\* opens a transport again afterwards.
ImplementsSlots == Slots!SlotsSpec

(***************************************************************************)
(* What must eventually happen                                             *)
(***************************************************************************)
LoopGone(r) == loop[r] \in {"none", "never", "ended"}

\* A stop that cancelled a session's source brings down its loop and the
\* handlers of the clients it accepted.
StopWindsDown ==
  /\ \A r \in Attempts : cancelled[r] ~> LoopGone(r)
  /\ \A c \in Conns : conn[c] = "handling" /\ cancelled[owner[c]] ~> conn[c] = "closed"

\* The host's ApplicationStopping alone brings down every loop.
HostStopDrains == \A r \in Attempts : stopping /\ loop[r] # "none" ~> loop[r] \in {"never", "ended"}

\* Whoever ends them, the caller of a stop or the host, sessions wind down.
EndedWindDown == StopWindsDown /\ HostStopDrains

(***************************************************************************)
(* What the texts around the code say                                      *)
(***************************************************************************)

\* The handler task "owns disposal in its own finally block": no accepted
\* client is left without a task that will dispose it.
AcceptedIsOwned == \A c \in Conns : conn[c] # "leaked"
=============================================================================
