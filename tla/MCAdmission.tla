---------------------------- MODULE MCAdmission ----------------------------
(* An instance of Admission for TLC: two character sets with a collation   *)
(* each, so that a pair read across a change of the defaults is invalid.   *)
EXTENDS Admission

CONSTANTS theConnection, theSchema, latin1, latin1_ci, utf8, utf8_ci

Pairs == {<<latin1, latin1_ci>>, <<utf8, utf8_ci>>}

OneSchema == [d \in Databases |-> theSchema]

Written(admin, charset, collation) ==
  [admin |-> admin, charset |-> charset, collation |-> collation]

\* Nothing, everything, half of it, a pair that does not exist, no reference.
Written5 == {
  Written(theConnection, Unset, Unset), Written(theConnection, utf8, utf8_ci),
  Written(theConnection, utf8, Unset),  Written(theConnection, latin1, utf8_ci),
  Written(NoObject, latin1, utf8_ci)}
=============================================================================
