---------------------------- MODULE MCSchemaStore ----------------------------
(* A finite instance of SchemaStore with uploads that overlap.             *)
EXTENDS SchemaStore, TLC

CONSTANTS x1, x2, n1, n2

MCRequests == {<<x1, n1>>, <<x2, n1>>, <<x1, n2>>}
MCShipped == x1 :> n1

\* Nothing chooses among the uploads.
Symmetry == Permutations(Uploads)
=============================================================================
