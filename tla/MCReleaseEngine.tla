-------------------------- MODULE MCReleaseEngine --------------------------
(***************************************************************************)
(* Two processes and three operations on one release: enough for a deploy  *)
(* to meet another deploy, a prune or an uninstall between any two of its  *)
(* calls, and two networks: one to be created, and one that may be there,  *)
(* be missing for good, or be of the wrong scope.                          *)
(***************************************************************************)
EXTENDS ReleaseEngineRefinement

CONSTANTS plain, withNet, net, sub, c1, c2

MCUses == [m \in Manifests |-> IF m = plain THEN {} ELSE Networks]

=============================================================================
