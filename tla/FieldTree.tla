------------------------------- MODULE FieldTree -------------------------------
(***************************************************************************)
(* Expansion in the reference tree.  A row is mounted while all its        *)
(* ancestors are expanded and forgets its own expansion when it is not; a  *)
(* field found by the search must be in sight.                             *)
(***************************************************************************)
EXTENDS Naturals, FiniteSets

CONSTANTS TreeNodes, NoNode,
          Above(_)     \* a node's ancestors, the nodes whose xpath its own begins with

ASSUME TreeAssumption ==
  /\ NoNode \notin TreeNodes
  /\ \A n \in TreeNodes : /\ Above(n) \subseteq TreeNodes \ {n}
                          /\ \A m \in Above(n) : Above(m) \subseteq Above(n)

VARIABLES
  treeShown,   \* the page renders the tree
  expanded,    \* mounted complex rows that are expanded
  highlight,   \* highlightXPath
  folded       \* history: the user has folded a row since the highlight came

treeVars == <<treeShown, expanded, highlight, folded>>

IsComplex(n) == \E m \in TreeNodes : n \in Above(m)
IsAncestorOf(n, target) == target # NoNode /\ n \in Above(target)
DepthOf(n) == Cardinality(Above(n))

\* useState's first value: the root by defaultExpanded, the path to the
\* highlight, the shallow levels.
Initially(n, h) == IsComplex(n) /\ (Above(n) = {} \/ IsAncestorOf(n, h) \/ DepthOf(n) < 2)

Mounted(e) == {n \in TreeNodes : Above(n) \subseteq e}

\* What is expanded once every row has mounted that can: the rows that were there
\* before keep to e, the others start from their first value, and a row is there
\* under expanded ancestors alone.
Settle(e, before, h) ==
  {n \in TreeNodes : \A m \in Above(n) \cup {n} : IF m \in before THEN m \in e ELSE Initially(m, h)}

TreeInit == treeShown = FALSE /\ expanded = {} /\ highlight = NoNode /\ folded = FALSE

\* The tree of the type lands, with the highlight the resolver sets; or leaves.
MountTree ==
  /\ ~treeShown /\ treeShown' = TRUE
  /\ highlight' \in TreeNodes \cup {NoNode} /\ folded' = FALSE
  /\ expanded' = Settle({}, {}, highlight')
UnmountTree ==
  /\ treeShown /\ treeShown' = FALSE /\ expanded' = {}
  /\ highlight' = NoNode /\ folded' = FALSE

\* The layout effect of the mounted rows, and of those that it mounts.
HighlightChanges ==
  /\ treeShown /\ highlight' \in TreeNodes \ {highlight} /\ folded' = FALSE
  /\ expanded' = Settle(expanded \cup (Above(highlight') \cap Mounted(expanded)),
                        Mounted(expanded), highlight')
  /\ UNCHANGED treeShown

HighlightEnds ==
  /\ highlight # NoNode /\ highlight' = NoNode /\ UNCHANGED <<treeShown, expanded, folded>>

\* A click on a row, which also selects it, or on its chevron.
Toggle ==
  /\ treeShown
  /\ \E n \in {x \in Mounted(expanded) : IsComplex(x)} :
       IF n \in expanded
         THEN expanded' = (expanded \ {n}) \cap Mounted(expanded \ {n}) /\ folded' = TRUE
         ELSE expanded' = Settle(expanded \cup {n}, Mounted(expanded), highlight)
              /\ UNCHANGED folded
  /\ UNCHANGED <<treeShown, highlight>>

TreeNext == MountTree \/ UnmountTree \/ HighlightChanges \/ HighlightEnds \/ Toggle
TreeSpec == TreeInit /\ [][TreeNext]_treeVars

-----------------------------------------------------------------------------
\* The field found is in sight however deep it is and whatever the user had
\* folded before, until a row is folded by hand.
HighlightInSight ==
  treeShown /\ highlight # NoNode /\ ~folded => highlight \in Mounted(expanded)
=============================================================================
