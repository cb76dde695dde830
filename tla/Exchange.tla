------------------------------- MODULE Exchange -------------------------------
(***************************************************************************)
(* Two simulator sessions on the two ends of one TCP connection: an Injetor *)
(* (TcpSessionManager.InjetorReadLoop) that dialled a Rebatedor.  Both run   *)
(* the same IsoSessionHandler loop, and AutoRespond is on by default at both *)
(* ends, so an answer is itself a message that the other end may answer.     *)
(* Handling one message is one step here: a handler reads its next frame     *)
(* only after it has finished with the last, and this module is about what   *)
(* goes over the wire; the steps inside are MessageHandling's.               *)
(***************************************************************************)
EXTENDS AutoResponder, FiniteSets

CONSTANTS Requests,    \* the messages users inject (hop 0)
          Ends,        \* the session configurations tried
          MaxInjects   \* bound on injected messages

Sides == {"inj", "reb"}
Peer(e) == IF e = "inj" THEN "reb" ELSE "inj"

Niis == {"A", "B", "fresh"}
NoTpdu == <<>>
Tpdu == {NoTpdu} \cup (Niis \X Niis)

\* The answers counted along one exchange: past MaxHops only their parity is kept.
MaxHops == 6
Hops == 0..MaxHops + 2
NextHop(h) == IF h < MaxHops + 2 THEN h + 1 ELSE MaxHops + 1

\* A framed message: rich when it carries field values the responder cannot put
\* back into the layout; hop counts the answers since the injected request.
Message == [mti: Mti, tpdu: Tpdu, rich: BOOLEAN, hop: Hops]

\* The parts of SessionConfig that decide what is sent.
EndConfig == [map: {DefaultMap, [m \in {} |-> NoMti]}, policy: Policies, custom: Mti \cup {NoMti},
              auto: BOOLEAN, tpduMode: TpduModes, legacy: BOOLEAN]

\* A is the Injetor's own address, B the Rebatedor's.
ASSUME RequestsAssumption ==
  Requests \subseteq {m \in Message : m.hop = 0 /\ m.tpdu \in {NoTpdu, <<"A", "B">>}}
ASSUME EndsAssumption == Ends \subseteq EndConfig
ASSUME MaxInjectsAssumption == MaxInjects \in Nat

VARIABLES
  end,      \* the two sessions' configurations (fixed)
  wire,     \* what each end has still to read
  open,     \* the connection is up
  injects   \* messages injected so far

vars == <<end, wire, open, injects>>

TypeOK ==
  /\ end \in [Sides -> Ends]
  /\ wire \in [Sides -> Seq(Message)]
  /\ open \in BOOLEAN
  /\ injects \in 0..MaxInjects

Init ==
  /\ end \in [Sides -> Ends]
  /\ wire = [e \in Sides |-> <<>>]
  /\ open = TRUE
  /\ injects = 0

\* TpduBuilder recognises a TPDU by the four digits that follow it.
HasTpdu(m) == m.tpdu # NoTpdu /\ IsValid(m.mti)

\* Only one with a TPDU gets past a session that requires it, only four digits parse.
Rejected(e, m) == end[e].tpduMode = "Required" /\ ~ HasTpdu(m)
Parses(m) == IsValid(m.mti)
Resolved(e, m) == ResolveResponseMti(m.mti, end[e])

Answers(e, m) == ~ Rejected(e, m) /\ Parses(m) /\ end[e].auto /\ Resolved(e, m) # NoMti

\* BuildResponseHex throws on an MTI that is not one, and on values it cannot echo.
Builds(e, m) == IsValid(Resolved(e, m)) /\ ~ m.rich
AnswerMti(e, m) == IF Builds(e, m) THEN Resolved(e, m) ELSE ResponseMti(m.mti)

\* Mutant of AnswerTpdu: the inbound TPDU is sent back as it came.
CopiedTpdu(e, m) ==
  IF ~ EffectiveUseTpdu(end[e], HasTpdu(m)) THEN NoTpdu
  ELSE IF HasTpdu(m) THEN m.tpdu ELSE <<"fresh", "fresh">>

\* Destination and source swap; a TPDU of its own when the inbound had none.
Invert(t) == <<t[2], t[1]>>
AnswerTpdu(e, m) ==
  IF ~ EffectiveUseTpdu(end[e], HasTpdu(m)) THEN NoTpdu
  ELSE IF HasTpdu(m) THEN Invert(m.tpdu) ELSE <<"fresh", "fresh">>

Answer(e, m) ==
  [mti |-> AnswerMti(e, m), tpdu |-> AnswerTpdu(e, m), rich |-> FALSE, hop |-> NextHop(m.hop)]

\* A user posts to /inject of the Injetor session.
Inject(m) ==
  /\ open /\ injects < MaxInjects
  /\ injects' = injects + 1
  /\ wire' = [wire EXCEPT !["reb"] = Append(@, m)]
  /\ UNCHANGED <<end, open>>

\* Mutant of Drop: a message refused for want of a TPDU is not consumed.
DropAccepted(e) ==
  /\ open /\ wire[e] # <<>>
  /\ ~ Answers(e, Head(wire[e])) /\ ~ Rejected(e, Head(wire[e]))
  /\ wire' = [wire EXCEPT ![e] = Tail(@)]
  /\ UNCHANGED <<end, open, injects>>

\* The handler of end e reads a message it does not answer: logged, counted, dropped.
Drop(e) ==
  /\ open /\ wire[e] # <<>>
  /\ ~ Answers(e, Head(wire[e]))
  /\ wire' = [wire EXCEPT ![e] = Tail(@)]
  /\ UNCHANGED <<end, open, injects>>

\* It answers what it resolved, or the last resort.
Respond(e) ==
  /\ open /\ wire[e] # <<>>
  /\ LET m == Head(wire[e]) IN
       /\ Answers(e, m)
       /\ wire' = [wire EXCEPT ![e] = Tail(@), ![Peer(e)] = Append(@, Answer(e, m))]
  /\ UNCHANGED <<end, open, injects>>

\* A stop, an error or either process' end closes the connection; what was on the
\* wire is lost.
Close ==
  /\ open
  /\ open' = FALSE
  /\ wire' = [e \in Sides |-> <<>>]
  /\ UNCHANGED <<end, injects>>

Handle(e) == Drop(e) \/ Respond(e)

Next ==
  \/ \E m \in Requests : Inject(m)
  \/ \E e \in Sides : Handle(e)
  \/ Close

Spec == Init /\ [][Next]_vars

\* Each handler goes on reading as long as there is something to read.
Fairness == \A e \in Sides : WF_vars(Handle(e))
FairSpec == Spec /\ Fairness

-----------------------------------------------------------------------------
InFlight(e) == {wire[e][i] : i \in 1..Len(wire[e])}

\* A session whose every answer is a response: the default map, and Derive or
\* Reject for the rest.
Calm(c) == c.map = DefaultMap /\ c.policy \in {"Reject", "Derive"}

\* A Custom value that is not itself something a calm session answers.
FinalCustom(c) ==
  c.policy = "Custom" => c.custom = NoMti \/ ~ IsValid(c.custom) \/ c.custom[3] \notin {0, 2, 4}

\* One end is calm, the other keeps the default map and never answers with a fixed
\* request.
StormFree == \E e \in Sides :
  Calm(end[e]) /\ end[Peer(e)].map = DefaultMap /\ FinalCustom(end[Peer(e)])

\* Answers to answers come to an end: under a storm-free pair of configurations no
\* injected message sets off more than MaxHops answers, whatever policy, TPDU mode
\* and failing builds meet at the two ends.
NoStorm == StormFree => \A e \in Sides : \A m \in InFlight(e) : m.hop <= MaxHops

\* Between ends that accept a TPDU and mirror it, it travels with the exchange: source
\* and destination change places at every hop, so each end is addressed by its own.
TpduAlternates ==
  (\A e \in Sides : end[e].tpduMode \in {"Optional", "Required"}) =>
    \A e \in Sides : \A m \in InFlight(e) :
      HasTpdu(m) => m.tpdu = IF m.hop % 2 = 0 THEN <<"A", "B">> ELSE <<"B", "A">>

\* A storm-free exchange falls silent: once its answers are spent, nothing is left
\* on the wire for either handler.
FallsSilent == StormFree => <>[](\A e \in Sides : wire[e] = <<>>)
=============================================================================
