----------------------------- MODULE ReleaseLog -----------------------------
(***************************************************************************)
(* What the release history of charts/release.go promises its readers: a   *)
(* log of what was deployed, in order.  Entries are only ever added at its *)
(* end or taken out of it, and never rewritten.  Once an entry has been    *)
(* taken out the promise is weaker: a deploy that had already picked its   *)
(* number may then add its entry below newer ones.                         *)
(***************************************************************************)
EXTENDS Sequences, SequencesExt, Naturals

CONSTANT Manifests

VARIABLES
  log,      \* the manifests deployed and still remembered, oldest first
  forgot    \* whether an entry has ever been taken out

vars == <<log, forgot>>

Init == log = <<>> /\ forgot = FALSE

\* A deploy is recorded.
Record(man) ==
  \E i \in 1..(Len(log) + 1) :
    /\ ~forgot => i = Len(log) + 1
    /\ log' = InsertAt(log, i, man)
    /\ UNCHANGED forgot

\* A prune or an uninstall takes one entry out, or finds it already gone.
Forget ==
  /\ \/ \E i \in 1..Len(log) : log' = RemoveAt(log, i)
     \/ UNCHANGED log
  /\ forgot' = TRUE

Next == Forget \/ \E man \in Manifests : Record(man)

Spec == Init /\ [][Next]_vars
=============================================================================
