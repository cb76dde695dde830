--------------------------------- MODULE UsedIn ---------------------------------
(***************************************************************************)
(* The "used in" tab of a field of the reference: the occurrences of the   *)
(* field's name over every message type, split into those that one parser  *)
(* can be reused for and those that it must be adapted to.                 *)
(***************************************************************************)
EXTENDS Naturals, Sequences, FiniteSets

CONSTANTS UsedInTypes,      \* message types, <<family prefix, version>>
          XsdTypes,         \* names of XSD types
          Cardinalities,    \* <<minOccurs, maxOccurs>>
          MaxOccurrences    \* bound: occurrences of one name

ASSUME UsedInAssumption == MaxOccurrences \in Nat /\ \A c \in Cardinalities : c[1] \in Nat

VARIABLES
  occurrences,      \* the answer, in the order of the index; empty until it comes
  current,          \* the place in it of the field the panel shows
  openFamilies, openRows

usedInVars == <<occurrences, current, openFamilies, openRows>>

Occurrences == [mt : UsedInTypes, type : XsdTypes, card : Cardinalities]
IsMandatory(o) == o.card[1] > 0

\* The index adds a message type's fields together.
Grouped(s) == \A i, j, k \in DOMAIN s : i < j /\ j < k /\ s[i].mt = s[k].mt => s[j].mt = s[i].mt

\* The first occurrence of the name in the current message type.
Reference(s, mt) ==
  LET here == {i \in DOMAIN s : s[i].mt = mt}
  IN  IF here = {} THEN s[1] ELSE s[CHOOSE i \in here : \A j \in here : i <= j]

Compatible(o, ref) == o.type = ref.type /\ o.card = ref.card

\* The message types listed for a family, a version for every occurrence.
VersionsOf(s, ref, family) == SelectSeq(s, LAMBDA o : Compatible(o, ref) /\ o.mt[1] = family)
Adapted(s, ref) == {i \in DOMAIN s : ~Compatible(s[i], ref)}

\* The texts of an adapted row.
Differences(o, ref) ==
  (IF o.type # ref.type THEN {"type"} ELSE {}) \cup
  (IF o.card = ref.card THEN {}
   ELSE IF IsMandatory(o) # IsMandatory(ref) THEN {IF IsMandatory(o) THEN "mandatory" ELSE "optional"}
   ELSE {"cardinality"})

UsedInInit ==
  /\ occurrences = <<>> /\ current = 0 /\ openFamilies = {} /\ openRows = {}

\* The panel's field is among them; its family's group starts open.
UsedInLands ==
  /\ occurrences = <<>>
  /\ occurrences' \in {s \in UNION {[1 .. n -> Occurrences] : n \in 1 .. MaxOccurrences} : Grouped(s)}
  /\ current' \in DOMAIN occurrences'
  /\ openFamilies' = {occurrences'[current'].mt[1]} /\ UNCHANGED openRows

Flip(S, x) == IF x \in S THEN S \ {x} ELSE S \cup {x}
ref == Reference(occurrences, occurrences[current].mt)

ToggleFamilyGroup(p) ==
  /\ occurrences # <<>> /\ VersionsOf(occurrences, ref, p) # <<>>
  /\ openFamilies' = Flip(openFamilies, p)
  /\ UNCHANGED <<occurrences, current, openRows>>

ToggleRow(i) ==
  /\ i \in Adapted(occurrences, ref)
  /\ openRows' = Flip(openRows, i)
  /\ UNCHANGED <<occurrences, current, openFamilies>>

UsedInNext ==
  \/ UsedInLands
  \/ \E p \in {mt[1] : mt \in UsedInTypes} : ToggleFamilyGroup(p)
  \/ \E i \in DOMAIN occurrences : ToggleRow(i)
UsedInSpec == UsedInInit /\ [][UsedInNext]_usedInVars

-----------------------------------------------------------------------------
\* An open row names a difference, whichever way the two shapes differ, and never
\* a requirement that the reference makes too.
RowsNameADifference ==
  \A i \in openRows :
    LET d == Differences(occurrences[i], ref)
    IN  d # {} /\ Cardinality(d \cap {"mandatory", "optional", "cardinality"}) <= 1
=============================================================================
