----------------------- MODULE DatabaseUserOwnership -----------------------
(***************************************************************************)
(* The DatabaseUser controller implements Ownership: the stage of an       *)
(* object and the name it asks for are read off what the API server stores *)
(* of it, and the holder of a name is the object whose CREATE USER made    *)
(* the account.  To name another AdminConnection is to ask for another     *)
(* name, that of the account on the other server.                          *)
(***************************************************************************)
EXTENDS DatabaseUserReconciler

Stage(r) ==
  IF r.phase = "live" /\ r.finalizer THEN "protected" ELSE r.phase

Creator(n) == IF Exists(n) THEN accounts[n].creator ELSE Absent

\* Do users ask for another name, and for another one on the same server?
Asking   == Edited # {} /\ \E s, t \in Specs : s.username # t.username
Renaming == /\ Edited # {}
            /\ \E s, t \in Specs : /\ s.username # t.username
                                  /\ Host[s.username] = Host[t.username]

Promise == INSTANCE Ownership
             WITH life         <- [o \in Objects |-> Stage(api[o])],
                  wants        <- [o \in Objects |-> api[o].spec.username],
                  holder       <- [n \in Names |-> Creator(n)],
                  MayRename    <- Asking,
                  MayLeave     <- Renaming \/ "drop" \in Faults

\* However statements, updates, events, edits and rivals interleave, each step
\* of the DatabaseUser controller is one of Ownership or changes neither an
\* object's stage nor a name's holder (Reconcile as a whole, with UserMine).
ImplementsOwnership == Promise!Spec
=============================================================================
