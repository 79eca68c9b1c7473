------------------------- MODULE DatabaseOwnership -------------------------
(***************************************************************************)
(* The Database controller implements Ownership: the stage of an object is *)
(* read off what the API server stores of it, and the holder of a name is  *)
(* the object whose CREATE DATABASE made the database.  To name another    *)
(* AdminConnection is to ask for another name, that of the database on the *)
(* other server.                                                           *)
(***************************************************************************)
EXTENDS DatabaseReconciler

Stage(r) ==
  IF r.phase = "live" /\ r.finalizer THEN "protected" ELSE r.phase

Promise == INSTANCE Ownership
             WITH life         <- [o \in Objects |-> Stage(api[o])],
                  Names        <- Schemas,
                  wants        <- [o \in Objects |-> Asked(o)],
                  holder       <- server,
                  MayRename    <- Moves # {},
                  MayLeave     <- Faults \cap {"write", "drop"} # {}

\* However statements, updates, events and rivals interleave, each step of the
\* Database controller is one of Ownership or changes neither an object's stage
\* nor a name's holder (Reconcile as a whole).
ImplementsOwnership == Promise!Spec

\* Without faults the controller also keeps its promises (Reconcile, with the
\* requeues, the watches and the sync period that start it).
ImplementsProgress == Promise!LiveSpec

-----------------------------------------------------------------------------
(* What the ledger adds to the inductive invariants of DatabaseReconciler. *)

\* A finalizer still stands for the object.
Kept(o) == Stage(api[o]) \in {"protected", "deleting"}

\* What is o's on a server is there under a finalizer, or was left behind on a
\* server that o had moved away from when it went.
Lawful(o, s) == Kept(o) \/ (Stage(api[o]) = "gone" /\ s # Asked(o))

\* Every copy of an object that is gone names the server that it named last, so
\* that a row it has left on another one is out of the reach of late copies.
LastInv ==
  \A o \in Objects : api[o].phase = "gone" =>
    /\ cached[o].phase = "deleting" => cached[o].connection = api[o].connection
    /\ obj = o /\ inst.phase = "deleting" => inst.connection = api[o].connection

\* An object that is gone has no row where it was last, so that a late copy of
\* it, which still shows the deletion, drops nothing.
RowInv ==
  /\ \A o \in Objects : \A s \in ledger[o] : Lawful(o, s)
  /\ pc = "drop" /\ ~Kept(obj) => server[schema] = Absent
  /\ pc = "removeFinalizer" => schema \notin ledger[obj]

\* When no statement fails, an object has a row for its database, once it is
\* recorded, and the database goes before the object does.
HeldInv ==
  Faults \cap {"write", "drop"} = {} =>
    /\ \A o \in Objects, s \in Schemas :
         server[s] = o =>
           /\ Lawful(o, s)
           /\ s \in ledger[o] \/ (pc = "record" /\ obj = o /\ s = schema)
    /\ pc \in {"forget", "removeFinalizer"} => server[schema] # obj
=============================================================================
