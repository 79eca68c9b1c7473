----------------------------- MODULE Ownership -----------------------------
(***************************************************************************)
(* What the operator promises of its objects and of the things on a MySQL  *)
(* server that they stand for: of Database objects and databases, and of   *)
(* DatabaseUser objects and accounts.  There is no cache, queue, ledger or *)
(* worker in it: an object is protected by its finalizer before it takes a *)
(* name, it takes a name that is free and only then, and it gives the name *)
(* back when its user has deleted it, or for another one, and never        *)
(* otherwise.  What was there before is nobody's.                          *)
(*                                                                         *)
(* DatabaseOwnership and DatabaseUserOwnership show that the controllers   *)
(* implement this specification; Admission composes it with the            *)
(* AdminConnection controller and the admission webhook.                   *)
(***************************************************************************)

CONSTANTS
  Objects,       \* UIDs of objects
  Names,         \* names of databases, or accounts, on the MySQL server
  Absent,        \* the holder of a name that is free
  Foreign,       \* the holder of what was not made by the operator
  MayRename,     \* may users ask for another name?
  MayLeave       \* may an object vanish and leave what it asks for behind?

VARIABLES
  life,          \* life[o]: what the API server stores of o
  wants,         \* wants[o]: the name o asks for
  holder         \* holder[n]: the object that n was made for, or Absent

vars == <<life, wants, holder>>

Stages == {"absent", "live", "protected", "deleting", "gone"}

\* An edit reaches the server late, so that any name may still be meant then.
Meant(o)   == IF MayRename THEN Names ELSE {wants[o]}
Held(o)    == {n \in Meant(o) : holder[n] = o}
Free(n)    == holder[n] = Absent

Become(o, stage) == life' = [life EXCEPT ![o] = stage]

-----------------------------------------------------------------------------
(* Users.                                                                  *)

Create(o) ==
  /\ life[o] = "absent" /\ Become(o, "live")
  /\ \E n \in Names : wants' = [wants EXCEPT ![o] = n]
  /\ UNCHANGED holder

Edit(o) ==
  /\ MayRename
  /\ \E n \in Names : wants' = [wants EXCEPT ![o] = n]
  /\ UNCHANGED <<life, holder>>

\* The API server removes an object without finalizer at once.
Delete(o) ==
  /\ \/ life[o] = "live" /\ Become(o, "gone")
     \/ life[o] = "protected" /\ Become(o, "deleting")
  /\ UNCHANGED <<wants, holder>>

-----------------------------------------------------------------------------
(* The controller.                                                         *)

Protect(o) ==
  /\ life[o] = "live" /\ Become(o, "protected")
  /\ UNCHANGED <<wants, holder>>

\* The deletion may come while CREATE DATABASE, or USER, is on its way.
Acquire(o) ==
  /\ life[o] \in {"protected", "deleting"}
  /\ \E n \in Meant(o) : Free(n) /\ holder' = [holder EXCEPT ![n] = o]
  /\ UNCHANGED <<life, wants>>

Rename(o) ==
  /\ MayRename
  /\ life[o] \in {"protected", "deleting"}
  /\ \E m \in Held(o), n \in Names :
       Free(n) /\ holder' = [holder EXCEPT ![m] = Absent, ![n] = o]
  /\ UNCHANGED <<life, wants>>

\* A name that an object could not give back before it vanished, for want of
\* the one it asked for last, may be given back after.
Release(o) ==
  /\ life[o] = "deleting" \/ (MayRename /\ life[o] = "gone")
  /\ \E n \in Held(o) : holder' = [holder EXCEPT ![n] = Absent]
  /\ UNCHANGED <<life, wants>>

\* What it asked for earlier may stay behind.
Vanish(o) ==
  /\ life[o] = "deleting" /\ (holder[wants[o]] = o => MayLeave)
  /\ Become(o, "gone")
  /\ UNCHANGED <<wants, holder>>

-----------------------------------------------------------------------------

Init ==
  /\ life = [o \in Objects |-> "absent"]
  /\ wants \in [Objects -> Names]
  /\ holder \in [Names -> {Absent, Foreign}]

Next ==
  \E o \in Objects :
    \/ Create(o) \/ Edit(o) \/ Delete(o)
    \/ Protect(o) \/ Acquire(o) \/ Rename(o) \/ Release(o) \/ Vanish(o)

Spec == Init /\ [][Next]_vars

\* Nothing stays that the controller could move on: no object is without a
\* finalizer, without a name that is free, or being deleted, for ever.
Progress ==
  \A o \in Objects :
    /\ ~<>[](life[o] = "live")
    /\ ~<>[](life[o] = "protected" /\ Free(wants[o]))
    /\ ~<>[](life[o] = "deleting")

LiveSpec == Spec /\ Progress
=============================================================================
