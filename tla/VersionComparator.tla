--------------------------- MODULE VersionComparator ---------------------------
(***************************************************************************)
(* The version comparator, on its page or in the parser's dialog, where    *)
(* the version compared from is that of the parsed message.  An action     *)
(* ends when React has run the effects of its render.                      *)
(***************************************************************************)
EXTENDS Integers, Sequences, FiniteSetsExt

CONSTANTS Versions(_, _),   \* the catalogue: versions (numbers) of a family's message id
          CmpFamilies, Ids(_), \* its families; ids of a family, by number
          MessageVersions,  \* versions a parsed message can be of
          MaxCompares       \* bound: comparisons asked

\* Families, ids and versions are positive numbers; a family has a first id, and each
\* of its ids an oldest and a newest version.
ASSUME ComparatorAssumption ==
  /\ MaxCompares \in Nat /\ MessageVersions \subseteq Nat
  /\ CmpFamilies # {} /\ CmpFamilies \subseteq Nat \ {0}
  /\ \A f \in CmpFamilies :
       /\ Ids(f) \subseteq Nat /\ \E i \in Ids(f) : \A j \in Ids(f) : i <= j
       /\ \A i \in Ids(f) :
            /\ Versions(f, i) \subseteq Nat \ {0}
            /\ \E lo \in Versions(f, i), hi \in Versions(f, i) :
                 \A v \in Versions(f, i) : lo <= v /\ v <= hi

VARIABLES
  cmpOn, lockedFrom,         \* lockedFrom: <<>>, or <<family, id, version>>
  cmpListed,                 \* the catalogue has landed
  cmpFamily, cmpId, fromVersion, toVersion,   \* 0: none
  cmpAsked, cmpResult,       \* <<>>, or <<family, id, from, to>>
  cmpError, compares

cmpPicks == <<cmpFamily, cmpId, fromVersion, toVersion>>
cmpRun == <<cmpAsked, cmpResult, cmpError, compares>>
cmpVars == <<cmpOn, lockedFrom, cmpListed, cmpPicks, cmpRun>>

Offered(listed, f, i) == IF listed /\ f # 0 THEN Versions(f, i) ELSE {}
Oldest(vs) == IF vs = {} THEN 0 ELSE Min(vs)
Newest(vs) == IF vs = {} THEN 0 ELSE Max(vs)

CmpInit ==
  /\ cmpOn = FALSE /\ lockedFrom = <<>> /\ cmpListed = FALSE
  /\ cmpFamily = 0 /\ cmpId = 0 /\ fromVersion = 0 /\ toVersion = 0
  /\ cmpAsked = <<>> /\ cmpResult = <<>> /\ cmpError = FALSE /\ compares = 0

\* Mutant of Reseed: the effect depends on the family alone.
ReseedByFamily ==
  IF lockedFrom' = <<>> /\ cmpFamily' # cmpFamily
    THEN LET vs == Offered(cmpListed', cmpFamily', cmpId')
         IN  fromVersion' = Oldest(vs) /\ toVersion' = Newest(vs)
    ELSE UNCHANGED <<fromVersion, toVersion>>

\* "When the family / message id changes, reseed both ends", unless one is locked.
Reseed ==
  LET vs == Offered(cmpListed', cmpFamily', cmpId')
  IN  IF lockedFrom' = <<>>
         /\ <<cmpFamily', cmpId', vs>> # <<cmpFamily, cmpId, Offered(cmpListed, cmpFamily, cmpId)>>
        THEN fromVersion' = Oldest(vs) /\ toVersion' = Newest(vs)
        ELSE UNCHANGED <<fromVersion, toVersion>>

CmpCatalogueLands ==
  /\ ~cmpListed /\ cmpListed' = TRUE
  /\ UNCHANGED <<cmpOn, lockedFrom, cmpFamily, cmpId, cmpRun>> /\ Reseed

\* The page waits for the catalogue; the dialog does not.
OpenComparator(locked) ==
  /\ ~cmpOn /\ cmpOn' = TRUE /\ lockedFrom' = locked /\ UNCHANGED <<cmpListed, cmpRun>>
  /\ locked = <<>> => cmpListed
  /\ cmpFamily' = IF locked # <<>> THEN locked[1] ELSE CHOOSE f \in CmpFamilies : TRUE
  /\ cmpId' = IF locked # <<>> THEN locked[2] ELSE Min(Ids(cmpFamily'))
  /\ LET vs == Offered(cmpListed, cmpFamily', cmpId')
     IN  /\ toVersion' = Newest(vs)
         /\ fromVersion' = IF locked # <<>> THEN locked[3] ELSE Oldest(vs)

\* A comparison that is under way is lost.
CloseComparator ==
  /\ cmpOn /\ cmpOn' = FALSE /\ lockedFrom' = <<>> /\ UNCHANGED <<cmpListed, compares>>
  /\ cmpFamily' = 0 /\ cmpId' = 0 /\ fromVersion' = 0 /\ toVersion' = 0
  /\ cmpAsked' = <<>> /\ cmpResult' = <<>> /\ cmpError' = FALSE

PickFamily ==
  /\ cmpOn /\ lockedFrom = <<>> /\ cmpFamily' \in CmpFamilies \ {cmpFamily}
  /\ cmpId' = Min(Ids(cmpFamily')) /\ UNCHANGED <<cmpOn, lockedFrom, cmpListed, cmpRun>> /\ Reseed

PickId ==
  /\ cmpOn /\ lockedFrom = <<>> /\ cmpId' \in Ids(cmpFamily) \ {cmpId}
  /\ UNCHANGED <<cmpOn, lockedFrom, cmpListed, cmpFamily, cmpRun>> /\ Reseed

PickFrom ==
  /\ cmpOn /\ lockedFrom = <<>>
  /\ fromVersion' \in Offered(cmpListed, cmpFamily, cmpId) \ {fromVersion}
  /\ UNCHANGED <<cmpOn, lockedFrom, cmpListed, cmpFamily, cmpId, toVersion, cmpRun>>

PickTo ==
  /\ cmpOn /\ toVersion' \in Offered(cmpListed, cmpFamily, cmpId) \ {toVersion}
  /\ UNCHANGED <<cmpOn, lockedFrom, cmpListed, cmpFamily, cmpId, fromVersion, cmpRun>>

\* The result is dropped at once; two versions the catalogue has are asked for.
RunCompare ==
  /\ cmpOn /\ cmpAsked = <<>> /\ fromVersion # 0 /\ toVersion # 0
  /\ compares < MaxCompares /\ compares' = compares + 1 /\ cmpResult' = <<>>
  /\ IF {fromVersion, toVersion} \subseteq Offered(cmpListed, cmpFamily, cmpId)
       THEN cmpAsked' = <<cmpFamily, cmpId, fromVersion, toVersion>> /\ cmpError' = FALSE
       ELSE cmpError' = TRUE /\ UNCHANGED cmpAsked
  /\ UNCHANGED <<cmpOn, lockedFrom, cmpListed, cmpPicks>>

CompareEnds ==
  /\ cmpAsked # <<>> /\ cmpAsked' = <<>>
  /\ \/ cmpResult' = cmpAsked /\ UNCHANGED cmpError
     \/ cmpError' = TRUE /\ UNCHANGED cmpResult
  /\ UNCHANGED <<cmpOn, lockedFrom, cmpListed, cmpPicks, compares>>

CmpNext ==
  \/ CmpCatalogueLands \/ OpenComparator(<<>>) \/ CloseComparator
  \/ \E f \in CmpFamilies : \E i \in Ids(f) : \E v \in MessageVersions : OpenComparator(<<f, i, v>>)
  \/ PickFamily \/ PickId \/ PickFrom \/ PickTo \/ RunCompare \/ CompareEnds
CmpSpec == CmpInit /\ [][CmpNext]_cmpVars

-----------------------------------------------------------------------------
CmpFlagsOK == cmpOn \in BOOLEAN /\ cmpListed \in BOOLEAN /\ cmpError \in BOOLEAN
Compared == Nat \X Nat \X Nat \X Nat

CmpTypeOK ==
  /\ CmpFlagsOK /\ compares \in 0 .. MaxCompares
  /\ cmpFamily \in CmpFamilies \cup {0} /\ cmpId \in Nat
  /\ fromVersion \in Nat /\ toVersion \in Nat
  /\ lockedFrom = <<>> \/ lockedFrom \in Nat \X Nat \X Nat
  /\ cmpAsked = <<>> \/ cmpAsked \in Compared
  /\ cmpResult = <<>> \/ cmpResult \in Compared

\* "So the dropdowns never reference a non-existent version": on the page both ends
\* are versions of the message id that is picked, whatever was picked before.
DropdownsExist ==
  cmpOn /\ lockedFrom = <<>> => {fromVersion, toVersion} \subseteq Versions(cmpFamily, cmpId)

\* In the dialog every comparison starts from the version of the parsed message.
ImpactIsOfTheMessage ==
  lockedFrom # <<>> => \A c \in {cmpAsked, cmpResult} : c # <<>> => <<c[1], c[2], c[3]>> = lockedFrom
=============================================================================
