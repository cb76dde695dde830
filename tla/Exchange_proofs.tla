--------------------------- MODULE Exchange_proofs ---------------------------
(* Theorems about AutoResponder and Exchange: what the auto-responder turns *)
(* an MTI into, and that two sessions which answer each other fall silent   *)
(* after at most MaxHops answers, for every set of requests and every pair   *)
(* of storm-free configurations.                                           *)
EXTENDS Exchange, TLAPS, SequenceTheorems

\* A derived response differs from its request and is not itself derivable, so a
\* session that derives never answers an answer.
LEMMA DerivedIsFinal ==
  ASSUME NEW m \in Mti, DeriveMtiResponse(m) # NoMti
  PROVE  /\ DeriveMtiResponse(m) \in Mti
         /\ IsValid(DeriveMtiResponse(m))
         /\ DeriveMtiResponse(m)[3] = m[3] + 1
         /\ m[3] \in {0, 2, 4}
  <1> USE DEF DeriveMtiResponse, Mti, IsValid, Increment, NonDigit, NoMti
  <1>1. m[3] \in {0, 2, 4} /\ IsValid(m) OBVIOUS
  <1>2. DeriveMtiResponse(m) = [m EXCEPT ![3] = m[3] + 1] BY <1>1
  <1>3. [m EXCEPT ![3] = m[3] + 1] \in [1..4 -> 0..10] BY <1>1
  <1>4. Len([m EXCEPT ![3] = m[3] + 1]) = 4 BY <1>3
  <1>5. \A i \in 1..4 : [m EXCEPT ![3] = m[3] + 1][i] # 10 BY <1>1
  <1> QED BY <1>1, <1>2, <1>3, <1>4, <1>5

\* The default map does the same for the requests it knows.
LEMMA MappedIsFinal ==
  ASSUME NEW m \in DOMAIN DefaultMap
  PROVE  /\ DefaultMap[m] \in Mti
         /\ IsValid(DefaultMap[m])
         /\ DefaultMap[m][3] = m[3] + 1
         /\ m[3] \in {0, 2}
  <1> USE DEF DefaultMap, MappedRequests, Mti, IsValid, Increment, NonDigit
  <1>1. m \in [1..4 -> 0..10] /\ m[3] \in {0, 2} /\ (\A i \in 1..4 : m[i] # 10)
    OBVIOUS
  <1>2. DefaultMap[m] = [m EXCEPT ![3] = m[3] + 1] OBVIOUS
  <1>3. [m EXCEPT ![3] = m[3] + 1] \in [1..4 -> 0..10] BY <1>1
  <1>4. Len([m EXCEPT ![3] = m[3] + 1]) = 4 BY <1>3
  <1>5. \A i \in 1..4 : [m EXCEPT ![3] = m[3] + 1][i] # 10 BY <1>1
  <1> QED BY <1>1, <1>2, <1>3, <1>4, <1>5

\* The last-resort MTI is an MTI, its function digit one up.
LEMMA ResponseMtiType ==
  ASSUME NEW m \in Mti
  PROVE  /\ ResponseMti(m) \in Mti
         /\ IsValid(m) => ResponseMti(m)[3] = m[3] + 1
  <1>1. CASE m[3] # NonDigit
    <2>1. ResponseMti(m) = [m EXCEPT ![3] = m[3] + 1] BY <1>1 DEF ResponseMti, Increment
    <2>2. m[3] \in 0..9 BY <1>1 DEF Mti, NonDigit
    <2> QED BY <2>1, <2>2 DEF Mti, NonDigit
  <1>2. CASE m[3] = NonDigit
    BY <1>2 DEF ResponseMti, Mti, IsValid
  <1> QED BY <1>1, <1>2

\* What a session resolves is an MTI or nothing.
LEMMA ResolvedType ==
  ASSUME NEW c \in EndConfig, NEW m \in Mti
  PROVE  ResolveResponseMti(m, c) \in Mti \cup {NoMti}
  <1>1. CASE m \in DOMAIN c.map
    <2>1. c.map = DefaultMap BY <1>1 DEF EndConfig
    <2> QED BY <1>1, <2>1, MappedIsFinal DEF ResolveResponseMti
  <1>2. CASE m \notin DOMAIN c.map
    <2>1. DeriveMtiResponse(m) \in Mti \cup {NoMti} BY DerivedIsFinal
    <2>2. c.policy \in Policies /\ c.custom \in Mti \cup {NoMti} BY DEF EndConfig
    <2> QED BY <1>2, <2>1, <2>2 DEF ResolveResponseMti, Policies
  <1> QED BY <1>1, <1>2

\* An answer is a message.
LEMMA AnswerType ==
  ASSUME NEW e \in Sides, end[e] \in EndConfig, NEW m \in Message, Answers(e, m)
  PROVE  Answer(e, m) \in Message
  <1>1. m.mti \in Mti /\ m.tpdu \in Tpdu /\ m.hop \in Hops BY DEF Message
  <1>2. Resolved(e, m) \in Mti BY <1>1, ResolvedType DEF Resolved, Answers
  <1>3. AnswerMti(e, m) \in Mti BY <1>1, <1>2, ResponseMtiType DEF AnswerMti
  <1>4. AnswerTpdu(e, m) \in Tpdu
    BY <1>1 DEF AnswerTpdu, Tpdu, Invert, HasTpdu, Niis
  <1>5. NextHop(m.hop) \in Hops BY <1>1 DEF NextHop, Hops, MaxHops
  <1> QED BY <1>2, <1>3, <1>4, <1>5 DEF Answer, Message

\* Type correctness of the exchange.
THEOREM TypeCorrect == Spec => []TypeOK
  <1> USE RequestsAssumption, EndsAssumption, MaxInjectsAssumption
  <1>1. Init => TypeOK
    BY DEF Init, TypeOK, Sides
  <1>2. TypeOK /\ [Next]_vars => TypeOK'
    <2> SUFFICES ASSUME TypeOK, [Next]_vars PROVE TypeOK'
      OBVIOUS
    <2>1. ASSUME NEW m \in Requests, Inject(m) PROVE TypeOK'
      <3>1. m \in Message OBVIOUS
      <3>2. wire["reb"] \in Seq(Message) /\ wire' = [wire EXCEPT !["reb"] = Append(wire["reb"], m)]
        BY <2>1 DEF Inject, TypeOK, Sides
      <3>3. wire' \in [Sides -> Seq(Message)]
        BY <3>1, <3>2 DEF TypeOK, Sides
      <3> QED BY <2>1, <3>3 DEF Inject, TypeOK
    <2>2. ASSUME NEW e \in Sides, Drop(e) PROVE TypeOK'
      <3>1. wire[e] \in Seq(Message) /\ wire[e] # <<>> BY <2>2 DEF Drop, TypeOK
      <3>2. wire' = [wire EXCEPT ![e] = Tail(wire[e])] BY <2>2 DEF Drop
      <3>3. Tail(wire[e]) \in Seq(Message) BY <3>1
      <3> QED BY <2>2, <3>2, <3>3 DEF Drop, TypeOK
    <2>3. ASSUME NEW e \in Sides, Respond(e) PROVE TypeOK'
      <3> DEFINE m == Head(wire[e])
      <3>1. wire[e] \in Seq(Message) /\ wire[e] # <<>> /\ wire[Peer(e)] \in Seq(Message)
            /\ Peer(e) \in Sides /\ Peer(e) # e
        BY <2>3 DEF Respond, TypeOK, Peer, Sides
      <3>2. m \in Message /\ Tail(wire[e]) \in Seq(Message) BY <3>1
      <3>3. Answers(e, m) BY <2>3 DEF Respond
      <3>4. Answer(e, m) \in Message
        BY <3>2, <3>3, AnswerType DEF TypeOK
      <3>5. wire' \in [Sides -> Seq(Message)]
        <4>1. wire' = [wire EXCEPT ![e] = Tail(wire[e]),
                                   ![Peer(e)] = Append(wire[Peer(e)], Answer(e, m))]
          BY <2>3, <3>1 DEF Respond, TypeOK
        <4>2. Append(wire[Peer(e)], Answer(e, m)) \in Seq(Message) BY <3>1, <3>4
        <4> QED BY <3>1, <3>2, <4>1, <4>2 DEF TypeOK
      <3> QED BY <2>3, <3>5 DEF Respond, TypeOK
    <2>4. CASE Close
      <3>1. [e \in Sides |-> <<>>] \in [Sides -> Seq(Message)] OBVIOUS
      <3> QED BY <2>4, <3>1 DEF Close, TypeOK
    <2>5. CASE UNCHANGED vars
      BY <2>5 DEF vars, TypeOK
    <2> QED BY <2>1, <2>2, <2>3, <2>4, <2>5 DEF Next, Handle
  <1> QED BY <1>1, <1>2, PTL DEF Spec

-----------------------------------------------------------------------------
\* A Custom value that is no MTI: every answer falls back on the last resort, which
\* increments the function digit of what it answers.
Falling(c) == c.policy = "Custom" /\ c.custom # NoMti /\ ~ IsValid(c.custom)

\* How far a message on its way to the calm end can have come.
ToCalm(c, m) ==
  IF Falling(c) THEN m.hop <= m.mti[3] /\ m.hop <= 6
  ELSE m.hop <= 1 \/ (m.hop <= 3 /\ m.mti[3] \notin {0, 2, 4})

\* And one on its way to the other end, whose configuration is c.
ToOther(c, m) ==
  IF Falling(c) THEN m.hop <= m.mti[3] /\ m.hop <= 5
  ELSE m.hop = 0 \/ (m.hop <= 2 /\ m.mti[3] \in {1, 3, 5} /\ ~ m.rich)

\* Seen from a calm end k: what is in flight is within these bounds.
Bounded(k) ==
  Calm(end[k]) /\ end[Peer(k)].map = DefaultMap /\ FinalCustom(end[Peer(k)]) =>
    /\ \A m \in InFlight(k) : ToCalm(end[Peer(k)], m)
    /\ \A m \in InFlight(Peer(k)) : ToOther(end[Peer(k)], m)

StormInv == TypeOK /\ \A k \in Sides : Bounded(k)

\* A calm end answers requests alone, and its answer is a response whatever the
\* fields of the request: the last resort increments the same digit.
LEMMA CalmAnswer ==
  ASSUME NEW e \in Sides, end[e] \in EndConfig, Calm(end[e]), NEW m \in Message, Answers(e, m)
  PROVE  /\ m.mti[3] \in {0, 2, 4}
         /\ Answer(e, m).mti[3] = m.mti[3] + 1
         /\ Answer(e, m).hop = NextHop(m.hop)
         /\ ~ Answer(e, m).rich
  <1> DEFINE r == Resolved(e, m)
  <1>1. m.mti \in Mti /\ IsValid(m.mti) /\ r # NoMti BY DEF Message, Answers, Parses
  <1>2. m.mti[3] \in {0, 2, 4} /\ r[3] = m.mti[3] + 1
    <2>1. CASE m.mti \in DOMAIN DefaultMap
      BY <2>1, MappedIsFinal DEF Resolved, ResolveResponseMti, Calm
    <2>2. CASE m.mti \notin DOMAIN DefaultMap
      <3>1. r = DeriveMtiResponse(m.mti)
        BY <1>1, <2>2 DEF Resolved, ResolveResponseMti, Calm
      <3> QED BY <1>1, <3>1, DerivedIsFinal
    <2> QED BY <2>1, <2>2
  <1>3. AnswerMti(e, m)[3] = m.mti[3] + 1
    BY <1>1, <1>2, ResponseMtiType DEF AnswerMti
  <1> QED BY <1>2, <1>3 DEF Answer

\* An end that keeps the default map and has no request for a Custom value either
\* increments the function digit, or echoes a message it could build, or sends a
\* fixed MTI that nobody calm answers; with a Custom value that is no MTI it always
\* increments.
LEMMA OtherAnswer ==
  ASSUME NEW e \in Sides, end[e] \in EndConfig, end[e].map = DefaultMap, FinalCustom(end[e]),
         NEW m \in Message, Answers(e, m)
  PROVE  /\ Answer(e, m).hop = NextHop(m.hop)
         /\ \/ Answer(e, m).mti[3] = m.mti[3] + 1 /\ (m.mti[3] \in {1, 3, 5} => m.rich \/ Falling(end[e]))
            \/ ~ Falling(end[e]) /\ Answer(e, m).mti[3] = m.mti[3]
            \/ ~ Falling(end[e]) /\ Answer(e, m).mti[3] \notin {0, 2, 4}
  <1> DEFINE r == Resolved(e, m)
             c == end[e]
  <1>1. m.mti \in Mti /\ IsValid(m.mti) /\ r # NoMti BY DEF Message, Answers, Parses
  <1>2. Answer(e, m).hop = NextHop(m.hop) /\ Answer(e, m).mti = AnswerMti(e, m) BY DEF Answer
  <1>3. ~ Builds(e, m) => AnswerMti(e, m)[3] = m.mti[3] + 1
    BY <1>1, ResponseMtiType DEF AnswerMti
  <1>4. Builds(e, m) => AnswerMti(e, m) = r /\ IsValid(r) BY DEF AnswerMti, Builds
  <1>5. CASE m.mti \in DOMAIN DefaultMap
    <2>1. r = DefaultMap[m.mti] BY <1>5 DEF Resolved, ResolveResponseMti
    <2>2. r[3] = m.mti[3] + 1 /\ m.mti[3] \in {0, 2} BY <1>5, <2>1, MappedIsFinal
    <2> QED BY <1>2, <1>3, <1>4, <2>2
  <1>6. CASE m.mti \notin DOMAIN DefaultMap /\ c.policy = "Derive"
    <2>1. r = DeriveMtiResponse(m.mti) BY <1>6 DEF Resolved, ResolveResponseMti
    <2>2. r[3] = m.mti[3] + 1 /\ m.mti[3] \in {0, 2, 4} BY <1>1, <2>1, DerivedIsFinal
    <2> QED BY <1>2, <1>3, <1>4, <2>2
  <1>7. CASE m.mti \notin DOMAIN DefaultMap /\ c.policy = "Echo"
    <2>1. r = m.mti /\ ~ Falling(c) BY <1>7 DEF Resolved, ResolveResponseMti, Falling
    <2>2. ~ Builds(e, m) => m.rich BY <1>1, <2>1 DEF Builds
    <2> QED BY <1>2, <1>3, <1>4, <2>1, <2>2
  <1>8. CASE m.mti \notin DOMAIN DefaultMap /\ c.policy = "Custom"
    <2>1. r = c.custom BY <1>8 DEF Resolved, ResolveResponseMti
    <2>2. Falling(c) <=> ~ IsValid(r) BY <1>1, <1>8, <2>1 DEF Falling
    <2>3. ~ Builds(e, m) => m.rich \/ Falling(c) BY <2>2 DEF Builds
    <2>4. Builds(e, m) => ~ Falling(c) /\ r[3] \notin {0, 2, 4}
      BY <1>1, <1>4, <1>8, <2>1, <2>2 DEF FinalCustom
    <2> QED BY <1>2, <1>3, <1>4, <2>3, <2>4
  <1>9. c.policy # "Reject" \/ m.mti \in DOMAIN DefaultMap
    BY <1>1 DEF Resolved, ResolveResponseMti
  <1> QED BY <1>5, <1>6, <1>7, <1>8, <1>9 DEF EndConfig, Policies

\* What is in a queue after a message was put into it.
LEMMA AfterAppend ==
  ASSUME NEW S, NEW s \in Seq(S), NEW x \in S, NEW i \in 1..Len(Append(s, x))
  PROVE  Append(s, x)[i] = x \/ \E j \in 1..Len(s) : Append(s, x)[i] = s[j]
  <1>1. Len(Append(s, x)) = Len(s) + 1 /\ Len(s) \in Nat OBVIOUS
  <1>2. CASE i = Len(s) + 1 BY <1>2
  <1>3. CASE i \in 1..Len(s)
    <2>1. Append(s, x)[i] = s[i] BY <1>3
    <2> QED BY <1>3, <2>1
  <1> QED BY <1>1, <1>2, <1>3

\* And after the first was taken out.
LEMMA AfterTail ==
  ASSUME NEW S, NEW s \in Seq(S), s # <<>>, NEW i \in 1..Len(Tail(s))
  PROVE  \E j \in 1..Len(s) : Tail(s)[i] = s[j]
  <1>1. Len(Tail(s)) = Len(s) - 1 /\ Len(s) \in Nat OBVIOUS
  <1>2. i + 1 \in 1..Len(s) /\ Tail(s)[i] = s[i + 1] BY <1>1
  <1> QED BY <1>2

\* What each step adds to what is in flight: an injected message at the Rebatedor's
\* end, an answer to something in flight at the end opposite the handler's, no more.
LEMMA InFlightGrows ==
  ASSUME TypeOK, [Next]_vars, NEW x \in Sides
  PROVE  \A a \in InFlight(x)' :
           \/ a \in InFlight(x)
           \/ a \in Requests
           \/ \E m \in InFlight(Peer(x)) :
                m \in Message /\ Answers(Peer(x), m) /\ a = Answer(Peer(x), m)
  <1> USE RequestsAssumption, EndsAssumption
  <1>0. /\ Sides = {"inj", "reb"} /\ Peer("inj") = "reb" /\ Peer("reb") = "inj"
        /\ wire["inj"] \in Seq(Message) /\ wire["reb"] \in Seq(Message)
    BY DEF Sides, Peer, TypeOK
  <1>1. ASSUME NEW m \in Requests, Inject(m)
        PROVE  \A a \in InFlight(x)' : a \in InFlight(x) \/ a \in Requests
    <2>1. m \in Message /\ m.hop = 0 OBVIOUS
    <2>2. wire' = [wire EXCEPT !["reb"] = Append(wire["reb"], m)] BY <1>1 DEF Inject
    <2>3. CASE x = "reb"
      <3>1. wire'[x] = Append(wire[x], m) BY <2>2, <2>3 DEF TypeOK
      <3>2. \A i \in 1..Len(Append(wire[x], m)) :
              Append(wire[x], m)[i] = m \/ \E j \in 1..Len(wire[x]) : Append(wire[x], m)[i] = wire[x][j]
        BY <1>0, <2>1, <2>3, AfterAppend
      <3> QED BY <2>1, <3>1, <3>2 DEF InFlight
    <2>4. CASE x # "reb"
      <3>1. wire'[x] = wire[x] BY <2>2, <2>4 DEF TypeOK
      <3> QED BY <3>1 DEF InFlight
    <2> QED BY <2>3, <2>4
  <1>2. ASSUME NEW e \in Sides, Drop(e) PROVE \A a \in InFlight(x)' : a \in InFlight(x)
    <2>1. wire' = [wire EXCEPT ![e] = Tail(wire[e])] /\ wire[e] # <<>> /\ wire[e] \in Seq(Message)
      BY <1>2 DEF Drop, TypeOK
    <2>2. CASE x = e
      <3>1. wire'[x] = Tail(wire[x]) BY <2>1, <2>2 DEF TypeOK
      <3>2. \A i \in 1..Len(Tail(wire[x])) : \E j \in 1..Len(wire[x]) : Tail(wire[x])[i] = wire[x][j]
        BY <2>1, <2>2, AfterTail
      <3> QED BY <3>1, <3>2 DEF InFlight
    <2>3. CASE x # e
      <3>1. wire'[x] = wire[x] BY <2>1, <2>3 DEF TypeOK
      <3> QED BY <3>1 DEF InFlight
    <2> QED BY <2>2, <2>3
  <1>3. ASSUME NEW e \in Sides, Respond(e)
        PROVE  \A a \in InFlight(x)' :
                 \/ a \in InFlight(x)
                 \/ \E m \in InFlight(Peer(x)) :
                      m \in Message /\ Answers(Peer(x), m) /\ a = Answer(Peer(x), m)
    <2> DEFINE m == Head(wire[e])
    <2>1. wire[e] \in Seq(Message) /\ wire[e] # <<>> /\ Answers(e, m) /\ Peer(e) # e /\ Peer(e) \in Sides
      BY <1>0, <1>3 DEF Respond
    <2>2. m \in Message /\ m = wire[e][1] /\ 1 \in 1..Len(wire[e]) BY <2>1
    <2>3. m \in InFlight(e) BY <2>2 DEF InFlight
    <2>4. Answer(e, m) \in Message BY <2>1, <2>2, AnswerType DEF TypeOK
    <2>5. wire' = [wire EXCEPT ![e] = Tail(wire[e]), ![Peer(e)] = Append(wire[Peer(e)], Answer(e, m))]
      BY <1>3, <2>1 DEF Respond, TypeOK
    <2>6. CASE x = e
      <3>1. wire'[x] = Tail(wire[x]) BY <2>1, <2>5, <2>6 DEF TypeOK
      <3>2. \A i \in 1..Len(Tail(wire[x])) : \E j \in 1..Len(wire[x]) : Tail(wire[x])[i] = wire[x][j]
        BY <2>1, <2>6, AfterTail
      <3> QED BY <3>1, <3>2 DEF InFlight
    <2>7. CASE x # e
      <3>0. x = Peer(e) /\ Peer(x) = e BY <1>0, <2>7
      <3>1. wire'[x] = Append(wire[x], Answer(e, m)) BY <2>1, <2>5, <3>0 DEF TypeOK
      <3>2. \A i \in 1..Len(Append(wire[x], Answer(e, m))) :
              \/ Append(wire[x], Answer(e, m))[i] = Answer(e, m)
              \/ \E j \in 1..Len(wire[x]) : Append(wire[x], Answer(e, m))[i] = wire[x][j]
        BY <1>0, <2>4, <3>0, AfterAppend
      <3> QED BY <2>1, <2>2, <2>3, <3>0, <3>1, <3>2 DEF InFlight
    <2> QED BY <2>6, <2>7
  <1>4. CASE Close
    <2>1. wire'[x] = <<>> BY <1>4 DEF Close
    <2> QED BY <2>1 DEF InFlight
  <1>5. CASE UNCHANGED vars
    BY <1>5 DEF vars, InFlight
  <1> QED BY <1>1, <1>2, <1>3, <1>4, <1>5 DEF Next, Handle

\* The bounds hold to begin with and every step keeps them.
LEMMA StormInvariant == Spec => []StormInv
  <1>1. Init => StormInv
    <2> SUFFICES ASSUME Init PROVE StormInv
      OBVIOUS
    <2>1. TypeOK
      BY EndsAssumption, RequestsAssumption, MaxInjectsAssumption DEF Init, TypeOK, Sides
    <2>2. \A x \in Sides : Peer(x) \in Sides /\ InFlight(x) = {}
      BY DEF Init, InFlight, Sides, Peer
    <2> QED BY <2>1, <2>2 DEF StormInv, Bounded
  <1>2. TypeOK' /\ StormInv /\ [Next]_vars => StormInv'
    <2> SUFFICES ASSUME TypeOK', StormInv, [Next]_vars, NEW k \in Sides PROVE Bounded(k)'
      BY DEF StormInv
    <2> DEFINE o == Peer(k)
    <2>1. o \in Sides /\ Peer(o) = k BY DEF Sides, Peer
    <2>2. TypeOK /\ Bounded(k) BY DEF StormInv
    <2>3. end' = end BY DEF Next, Inject, Handle, Drop, Respond, Close, vars
    <2>4. end[k] \in EndConfig /\ end[o] \in EndConfig BY <2>1, <2>2, EndsAssumption DEF TypeOK
    <2> SUFFICES ASSUME Calm(end[k]), end[o].map = DefaultMap, FinalCustom(end[o])
                 PROVE  /\ \A a \in InFlight(k)' : ToCalm(end[o], a)
                        /\ \A a \in InFlight(o)' : ToOther(end[o], a)
      BY <2>3 DEF Bounded
    <2>5. /\ \A m \in InFlight(k) : ToCalm(end[o], m)
          /\ \A m \in InFlight(o) : ToOther(end[o], m)
      BY <2>2 DEF Bounded
    <2>6. ASSUME NEW a \in Requests PROVE ToCalm(end[o], a) /\ ToOther(end[o], a)
      <3>1. a.mti[3] \in 0..10 /\ a.hop = 0 BY RequestsAssumption DEF Message, Mti, NonDigit
      <3> QED BY <2>6, <3>1 DEF ToCalm, ToOther
    <2>7. ASSUME NEW m \in InFlight(o), m \in Message, Answers(o, m)
          PROVE  ToCalm(end[o], Answer(o, m))
      <3>1. ToOther(end[o], m) BY <2>5
      <3>2. m.mti[3] \in 0..10 /\ m.hop \in 0..8 /\ m.rich \in BOOLEAN
        BY <2>7 DEF Message, Mti, NonDigit, Hops, MaxHops
      <3>3. m.hop <= 5 /\ Answer(o, m).hop = m.hop + 1
        BY <2>1, <2>4, <2>7, <3>1, <3>2, OtherAnswer DEF ToOther, NextHop, MaxHops
      <3>4. /\ \/ Answer(o, m).mti[3] = m.mti[3] + 1 /\ (m.mti[3] \in {1, 3, 5} => m.rich \/ Falling(end[o]))
               \/ ~ Falling(end[o]) /\ Answer(o, m).mti[3] = m.mti[3]
               \/ ~ Falling(end[o]) /\ Answer(o, m).mti[3] \notin {0, 2, 4}
        BY <2>1, <2>4, <2>7, OtherAnswer
      <3>5. CASE Falling(end[o]) BY <3>1, <3>2, <3>3, <3>4, <3>5 DEF ToOther, ToCalm
      <3>6. CASE ~ Falling(end[o]) BY <3>1, <3>2, <3>3, <3>4, <3>6 DEF ToOther, ToCalm
      <3> QED BY <3>5, <3>6
    <2>8. ASSUME NEW m \in InFlight(k), m \in Message, Answers(k, m)
          PROVE  ToOther(end[o], Answer(k, m))
      <3>1. ToCalm(end[o], m) BY <2>5
      <3>2. m.mti[3] \in {0, 2, 4} /\ Answer(k, m).mti[3] = m.mti[3] + 1 /\ ~ Answer(k, m).rich
            /\ Answer(k, m).hop = NextHop(m.hop)
        BY <2>4, <2>8, CalmAnswer
      <3>3. m.hop \in 0..8 BY <2>8 DEF Message, Hops, MaxHops
      <3>4. m.hop <= 4 BY <3>1, <3>2, <3>3 DEF ToCalm
      <3>5. Answer(k, m).hop = m.hop + 1 BY <3>2, <3>3, <3>4 DEF NextHop, MaxHops
      <3> QED BY <3>1, <3>2, <3>3, <3>5 DEF ToCalm, ToOther
    <2>9. \A a \in InFlight(k)' : ToCalm(end[o], a)
      <3>1. \A a \in InFlight(k)' :
              \/ a \in InFlight(k)
              \/ a \in Requests
              \/ \E m \in InFlight(o) : m \in Message /\ Answers(o, m) /\ a = Answer(o, m)
        BY <2>2, InFlightGrows
      <3> QED BY <2>5, <2>6, <2>7, <3>1
    <2>10. \A a \in InFlight(o)' : ToOther(end[o], a)
      <3>1. \A a \in InFlight(o)' :
              \/ a \in InFlight(o)
              \/ a \in Requests
              \/ \E m \in InFlight(k) : m \in Message /\ Answers(k, m) /\ a = Answer(k, m)
        BY <2>1, <2>2, InFlightGrows
      <3> QED BY <2>5, <2>6, <2>8, <3>1
    <2> QED BY <2>9, <2>10
  <1> QED BY <1>1, <1>2, TypeCorrect, PTL DEF Spec

\* Whatever is injected and however the two ends are configured, a storm-free pair
\* never counts more than MaxHops answers along one exchange.
THEOREM StormBounded == Spec => []NoStorm
  <1>1. StormInv => NoStorm
    <2> SUFFICES ASSUME StormInv, StormFree, NEW e \in Sides, NEW m \in InFlight(e)
                 PROVE  m.hop <= MaxHops
      BY DEF NoStorm
    <2>1. PICK k \in Sides :
            Calm(end[k]) /\ end[Peer(k)].map = DefaultMap /\ FinalCustom(end[Peer(k)])
      BY DEF StormFree
    <2>2. \A x \in InFlight(k) : ToCalm(end[Peer(k)], x)
      BY <2>1 DEF StormInv, Bounded
    <2>3. \A x \in InFlight(Peer(k)) : ToOther(end[Peer(k)], x)
      BY <2>1 DEF StormInv, Bounded
    <2>4. m.hop \in 0..8
      <3>1. wire[e] \in Seq(Message) BY DEF StormInv, TypeOK
      <3>2. m \in Message BY <3>1 DEF InFlight
      <3> QED BY <3>2 DEF Message, Hops, MaxHops
    <2>5. e = k \/ e = Peer(k) BY DEF Sides, Peer
    <2> QED BY <2>2, <2>3, <2>4, <2>5 DEF ToCalm, ToOther, MaxHops
  <1> QED BY <1>1, StormInvariant, PTL

-----------------------------------------------------------------------------
\* The TPDU a message of this many hops carries when nobody made up a new one.
Addressed(m) == m.tpdu = NoTpdu \/ m.tpdu = IF m.hop % 2 = 0 THEN <<"A", "B">> ELSE <<"B", "A">>

Mirrored == \A e \in Sides : end[e].tpduMode \in {"Optional", "Required"}

AlternateInv == TypeOK /\ (Mirrored => \A e \in Sides : \A m \in InFlight(e) : Addressed(m))

\* One more answer changes the parity, also where the count saturates.
LEMMA ParityFlips ==
  ASSUME NEW h \in Hops
  PROVE  NextHop(h) % 2 = 0 <=> h % 2 # 0
  <1>1. h \in 0..8
    BY DEF Hops, MaxHops
  <1>2. h = 0 \/ h = 1 \/ h = 2 \/ h = 3 \/ h = 4 \/ h = 5 \/ h = 6 \/ h = 7 \/ h = 8
    BY <1>1
  <1> QED BY <1>2 DEF NextHop, MaxHops

\* An end that mirrors a TPDU never makes one up: what it answers with no TPDU had none.
LEMMA AnswerAddressed ==
  ASSUME NEW e \in Sides, end[e].tpduMode \in {"Optional", "Required"},
         NEW m \in Message, Addressed(m), Answers(e, m)
  PROVE  Addressed(Answer(e, m))
  <1>1. Answer(e, m).tpdu = AnswerTpdu(e, m) /\ Answer(e, m).hop = NextHop(m.hop)
    BY DEF Answer
  <1>2. CASE ~ HasTpdu(m)
    <2>1. end[e].tpduMode = "Optional"
      BY <1>2 DEF Answers, Rejected
    <2>2. AnswerTpdu(e, m) = NoTpdu
      BY <1>2, <2>1 DEF AnswerTpdu, EffectiveUseTpdu
    <2> QED BY <1>1, <2>2 DEF Addressed
  <1>3. CASE HasTpdu(m)
    <2>1. EffectiveUseTpdu(end[e], TRUE)
      BY DEF EffectiveUseTpdu
    <2>2. AnswerTpdu(e, m) = <<m.tpdu[2], m.tpdu[1]>>
      BY <1>3, <2>1 DEF AnswerTpdu, Invert
    <2>3. m.tpdu = IF m.hop % 2 = 0 THEN <<"A", "B">> ELSE <<"B", "A">>
      BY <1>3 DEF HasTpdu, Addressed
    <2>4. NextHop(m.hop) % 2 = 0 <=> m.hop % 2 # 0
      BY ParityFlips DEF Message
    <2>5. CASE m.hop % 2 = 0
      BY <1>1, <2>2, <2>3, <2>4, <2>5 DEF Addressed
    <2>6. CASE m.hop % 2 # 0
      BY <1>1, <2>2, <2>3, <2>4, <2>6 DEF Addressed
    <2> QED BY <2>5, <2>6
  <1> QED BY <1>2, <1>3

\* The addresses hold to begin with, and every step keeps them.
LEMMA AlternateInvariant == Spec => []AlternateInv
  <1>1. Init => AlternateInv
    <2> SUFFICES ASSUME Init PROVE AlternateInv
      OBVIOUS
    <2>1. TypeOK
      BY EndsAssumption, RequestsAssumption, MaxInjectsAssumption DEF Init, TypeOK, Sides
    <2>2. \A x \in Sides : InFlight(x) = {}
      BY DEF Init, InFlight, Sides
    <2> QED BY <2>1, <2>2 DEF AlternateInv
  <1>2. TypeOK' /\ AlternateInv /\ [Next]_vars => AlternateInv'
    <2> SUFFICES ASSUME TypeOK', AlternateInv, [Next]_vars, Mirrored,
                        NEW x \in Sides, NEW a \in InFlight(x)'
                 PROVE  Addressed(a)
      <3>1. [Next]_vars => end' = end
        BY DEF Next, Inject, Handle, Drop, Respond, Close, vars
      <3> QED BY <3>1 DEF AlternateInv, Mirrored
    <2>1. TypeOK /\ Peer(x) \in Sides /\ \A m \in InFlight(Peer(x)) : Addressed(m)
      BY DEF AlternateInv, Peer, Sides
    <2>2. CASE a \in InFlight(x)
      BY <2>2 DEF AlternateInv
    <2>3. CASE a \in Requests
      BY <2>3, RequestsAssumption DEF Addressed
    <2>4. CASE \E m \in InFlight(Peer(x)) :
                 m \in Message /\ Answers(Peer(x), m) /\ a = Answer(Peer(x), m)
      BY <2>1, <2>4, AnswerAddressed DEF Mirrored
    <2> QED BY <2>1, <2>2, <2>3, <2>4, InFlightGrows
  <1> QED BY <1>1, <1>2, TypeCorrect, PTL DEF Spec

\* Between ends that accept a TPDU and mirror it, source and destination change
\* places at every hop of every exchange.
THEOREM TpduMirrored == Spec => []TpduAlternates
  <1>1. AlternateInv => TpduAlternates
    BY DEF AlternateInv, Mirrored, Addressed, TpduAlternates, HasTpdu
  <1> QED BY <1>1, AlternateInvariant, PTL
=============================================================================
