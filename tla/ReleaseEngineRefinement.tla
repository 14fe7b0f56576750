---------------------- MODULE ReleaseEngineRefinement ----------------------
(***************************************************************************)
(* ReleaseEngine implements ReleaseLog: the log is the stored manifests in *)
(* the order of their revision numbers.                                    *)
(***************************************************************************)
EXTENDS ReleaseEngine

StoredManifests ==
  LET Nth(i) == CHOOSE n \in Revisions : Cardinality({m \in Revisions : m <= n}) = i
  IN [i \in 1..Cardinality(Revisions) |-> configs[Nth(i)].manifest]

Log == INSTANCE ReleaseLog WITH log <- StoredManifests, forgot <- trimmed

\* Every process together, whatever they interleave and wherever one dies,
\* keeps the history the log that list, history, status and rollback read.
ImplementsReleaseLog == Log!Spec
=============================================================================
