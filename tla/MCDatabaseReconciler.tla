------------------------ MODULE MCDatabaseReconciler ------------------------
(* Instances of DatabaseReconciler for TLC: every object asks for the one  *)
(* database name, so that all of them are rivals wherever they meet.       *)
EXTENDS DatabaseOwnership, TLC

CONSTANTS d1, k1, k2, s1, s2

\* s1 and s2 are the database of that name on the servers of k1 and k2.
OneSchema == [o \in Objects |-> [k \in Connections |-> IF k = k1 THEN s1 ELSE s2]]

\* Any object on any server, or only d1 on any.
Anywhere == [o \in Objects |-> Connections]
OnlyD1   == [o \in Objects |-> IF o = d1 THEN Connections ELSE {k2}]

\* Users move an object from k1 to k2, or there and back.
There   == {<<k1, k2>>}
AndBack == {<<k1, k2>>, <<k2, k1>>}

\* Objects are interchangeable wherever a run treats them alike.
ObjectSymmetry == Permutations(Objects)
=============================================================================
