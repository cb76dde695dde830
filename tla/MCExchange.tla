------------------------------ MODULE MCExchange ------------------------------
(* Finite instances of Exchange.                                           *)
EXTENDS Exchange, TLC

End(policy, custom, mode, legacy) ==
  [map |-> DefaultMap, policy |-> policy, custom |-> custom, auto |-> TRUE,
   tpduMode |-> mode, legacy |-> legacy]

\* Every policy: Custom with a response, with something that is no MTI, with nothing,
\* and with a request.
EndsPolicies ==
  {End(p, NoMti, "Optional", FALSE) : p \in Policies}
    \cup {End("Custom", c, "Optional", FALSE) :
            c \in {<<0, 2, 1, 0>>, <<0, 2, NonDigit, 0>>, <<0, 2, 0, 0>>}}
    \cup {[End("Derive", NoMti, "Optional", FALSE) EXCEPT !.auto = FALSE]}

\* Every TPDU mode, with an end that echoes so that messages keep moving.
EndsTpdu ==
  {End(p, NoMti, t, l) : p \in {"Derive", "Echo"}, t \in TpduModes, l \in BOOLEAN}

Request(mti, tpdu, rich) == [mti |-> mti, tpdu |-> tpdu, rich |-> rich, hop |-> 0]

\* A mapped request, one that must be derived, a response, an advice of a function
\* nobody answers; with and without a TPDU and with fields that cannot be echoed.
RequestsAll ==
  {Request(m, t, r) : m \in {<<0, 2, 0, 0>>, <<0, 6, 0, 0>>, <<0, 2, 1, 0>>, <<0, 6, 6, 0>>},
                      t \in {NoTpdu, <<"A", "B">>}, r \in BOOLEAN}

EndsAll == EndsPolicies \cup EndsTpdu
=============================================================================
