---------------------------- MODULE AutoResponder ----------------------------
(* Which MTI a simulator session answers with, and whether the answer      *)
(* carries a TPDU.  An MTI is its four characters; only the third, the      *)
(* function digit, takes part in a computation: 0..9 are the digits, and    *)
(* NonDigit is what follows '9' and stands for every other character.       *)
EXTENDS Naturals, Sequences

NonDigit == 10
Mti == [1..4 -> 0..NonDigit]

\* No response: a null ResponseMti.
NoMti == <<>>

\* MtiParser: exactly four decimal digits.
IsValid(m) == Len(m) = 4 /\ \A i \in 1..4 : m[i] # NonDigit

\* Incrementing the function digit: a request becomes its response.
Increment(m) == [m EXCEPT ![3] = @ + 1]

\* Mutant of DeriveMtiResponse: every digit is incremented, a response's too.
DeriveAny(m) == IF IsValid(m) THEN [m EXCEPT ![3] = (@ + 1) % 10] ELSE NoMti

DeriveMtiResponse(m) ==
  IF IsValid(m) /\ m[3] \in {0, 2, 4} THEN Increment(m) ELSE NoMti

\* The map a session gets when it brings no rules of its own.
MappedRequests == {<<0, 1, 0, 0>>, <<0, 2, 0, 0>>, <<0, 4, 0, 0>>, <<0, 4, 2, 0>>, <<0, 8, 0, 0>>}
DefaultMap == [m \in MappedRequests |-> Increment(m)]

Policies == {"Reject", "Derive", "Echo", "Custom"}

\* c.map is ResponseRules.MtiResponseMap, c.custom UnknownMtiCustomValue (NoMti
\* when it is not configured).
ResolveResponseMti(m, c) ==
  IF m \in DOMAIN c.map THEN c.map[m]
  ELSE CASE c.policy = "Reject" -> NoMti
         [] c.policy = "Derive" -> DeriveMtiResponse(m)
         [] c.policy = "Echo"   -> m
         [] c.policy = "Custom" -> c.custom

\* The MTI of the last-resort response (RC 96): the function digit is incremented
\* whatever it is, a response's too; a character that is no digit is left alone.
ResponseMti(m) == IF m[3] # NonDigit THEN Increment(m) ELSE m

TpduModes == {"Auto", "Required", "Optional", "Strip"}

\* c.legacy is UseTpdu, or the role's default when that is null.
EffectiveUseTpdu(c, hasTpdu) ==
  CASE c.tpduMode = "Required" -> TRUE
    [] c.tpduMode = "Optional" -> hasTpdu
    [] c.tpduMode = "Strip"    -> FALSE
    [] c.tpduMode = "Auto"     -> c.legacy
=============================================================================
