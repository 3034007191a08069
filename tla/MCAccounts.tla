------------------------------- MODULE MCAccounts ------------------------------
(* Instances of Accounts for TLC.                                                *)
EXTENDS Accounts, TLC

CONSTANTS c1, c2, c3, ann, obrien, spliced, p1, p2, quoted

\* The one that may leave and a second registration compete for ann, and the third
\* comes back to it, or comes too early, or with a login that is a query.
OneName ==
  (c1 :> [op : {"reg"}, login : {ann}, password : {p1, p2}]) @@
  (c2 :> [op : {"reg"}, login : {ann, obrien}, password : Password]) @@
  (c3 :> [op : {"auth"}, login : {ann, spliced}, password : {p1, p2}])

\* None, an id somebody has and one that nobody has.
AnyId == {-1, 1, 7}

Symmetry == Permutations(Worker) \cup Permutations({p1, p2})
================================================================================
