----------------------------- MODULE Admission -----------------------------
(***************************************************************************)
(* The AdminConnection controller, the admission webhook and the Database  *)
(* objects it judges, which behave as Ownership says.  The webhook reads   *)
(* the status that the controller stored some time ago, and every update   *)
(* of a Database object passes it: a user's, and those with which the      *)
(* Database controller adds and removes the finalizer.  Updates of the     *)
(* status do not.                                                          *)
(***************************************************************************)
EXTENDS AdminConnectionReconciler

CONSTANTS
  Databases,   \* UIDs of Database objects
  Schemas, SpecName, Absent, Foreign, MayLeave,   \* as in Ownership
  Specs        \* what users write: AdminConnection, character set, collation

ASSUME AdmissionAssumption ==
  \A s \in Specs :
    /\ s # NoObject
    /\ s.admin \in Objects \cup {NoObject}
    /\ s.charset \in Charsets \cup {Unset}
    /\ s.collation \in Collations \cup {Unset}

VARIABLES
  life,        \* life[d]: the stage of Database d
  holder,      \* holder[s]: the object that database s was created for
  spec         \* spec[d]: its specification, or NoObject

INSTANCE DatabaseWebhook
Own == INSTANCE Ownership
         WITH Objects <- Databases, Names <- Schemas, wants <- SpecName,
              MayRename <- FALSE

vars == <<adminVars, life, holder, spec>>

\* Does a reconcile of d get a connection?
Usable(d) ==
  /\ spec[d].admin # NoObject
  /\ cached[spec[d].admin].phase = "live"
  /\ online

\* Does an update that leaves the specification alone pass the webhook?
Admitted(d) == ValidateCharsetCollationCombo(spec[d], cached)

-----------------------------------------------------------------------------
(* Users.                                                                  *)

UserCreate(d) ==
  /\ Own!Create(d)
  /\ \E s \in Specs :
       ValidateCharsetCollationCombo(s, cached) /\ spec' = [spec EXCEPT ![d] = s]
  /\ UNCHANGED adminVars

UserEdit(d) ==
  /\ life[d] \in {"live", "protected", "deleting"}
  /\ \E s \in Specs \ {spec[d]} :
       ValidateCharsetCollationCombo(s, cached) /\ spec' = [spec EXCEPT ![d] = s]
  /\ UNCHANGED <<adminVars, life, holder>>

UserDelete(d) == Own!Delete(d) /\ UNCHANGED <<adminVars, spec>>

-----------------------------------------------------------------------------
(* The Database controller.                                                *)

Protect(d) ==
  /\ Own!Protect(d) /\ Usable(d) /\ Admitted(d)
  /\ UNCHANGED <<adminVars, spec>>

Acquire(d) == Own!Acquire(d) /\ Usable(d) /\ UNCHANGED <<adminVars, spec>>
Release(d) == Own!Release(d) /\ Usable(d) /\ UNCHANGED <<adminVars, spec>>

\* The update that removes the finalizer is an update like any other.
Vanish(d) ==
  /\ Own!Vanish(d) /\ Usable(d) /\ Admitted(d)
  /\ UNCHANGED <<adminVars, spec>>

\* The finalizer of a Database without a connection ends the process, with
\* the AdminConnection controller in it.
Panic(d) ==
  /\ life[d] = "deleting" /\ ~Usable(d)
  /\ Restart
  /\ UNCHANGED <<life, holder, spec>>

-----------------------------------------------------------------------------
(* Specification.                                                          *)

Init ==
  /\ AdminInit
  /\ Own!Init
  /\ spec = [d \in Databases |-> NoObject]

Next ==
  \/ AdminNext /\ UNCHANGED <<life, holder, spec>>
  \/ \E d \in Databases :
       \/ UserCreate(d) \/ UserEdit(d) \/ UserDelete(d)
       \/ Protect(d) \/ Acquire(d) \/ Release(d) \/ Vanish(d) \/ Panic(d)

Spec == Init /\ [][Next]_vars

\* A Database being deleted may take its name in one last CREATE DATABASE; the
\* next reconcile knows of the deletion and takes it to its end.
FairSpec ==
  /\ Spec /\ AdminFairness
  /\ \A d \in Databases :
       WF_vars(Protect(d)) /\ WF_vars(Release(d)) /\ SF_vars(Vanish(d))

-----------------------------------------------------------------------------
(* Properties.                                                             *)

\* Every variable has its type; a Database that users have made has a
\* specification of theirs.
TypeOK ==
  /\ AdminTypeOK
  /\ life \in [Databases -> Own!Stages]
  /\ holder \in [Schemas -> Databases \cup {Absent, Foreign}]
  /\ spec \in [Databases -> Specs \cup {NoObject}]
  /\ \A d \in Databases : spec[d] = NoObject <=> life[d] = "absent"

\* CREATE DATABASE for a stored specification is one that the server accepts,
\* whatever the status said when it was admitted or edited (the combination is
\* judged against a status that was read in several queries, some time ago).
AdmittedIsSupported ==
  \A d \in Databases :
    life[d] # "absent" /\ spec[d].admin # NoObject =>
      \E p \in Supported :
        spec[d].charset \in {Unset, p[1]} /\ spec[d].collation \in {Unset, p[2]}

\* Users leave the AdminConnections alone, and the process is not ended by the
\* finalizer of a Database without one.
Calm ==
  <>[][/\ ~\E o \in Objects : UserReconfigure(o)
       /\ ~\E d \in Databases : Panic(d)]_vars

Stable(o, p) == api[o].phase = "live" /\ online /\ defaults = p

\* However the queries of one reconcile straddled a change of the defaults or
\* an outage, the stored status ends up right: the controller, which writes its
\* own object and is started by that, loses no event doing so.
StatusTracksServer ==
  \A o \in Objects, p \in Supported :
    <>[]Stable(o, p) /\ Calm =>
      <>[](api[o].status = [charset |-> p[1], collation |-> p[2],
                            available |-> Supported, pinged |-> TRUE])

\* A specification that leaves both to the server, or nothing.
Whole(s) == s.charset = Unset <=> s.collation = Unset

\* A stale or incomplete status delays the removal of a finalizer, which the
\* webhook judges as well, but does not block it for ever.
NotBlocked ==
  \A d \in Databases, s \in Specs, p \in Supported :
    s.admin # NoObject /\ Whole(s) /\ Calm =>
      ~<>[](life[d] = "deleting" /\ spec[d] = s /\ Stable(s.admin, p))
=============================================================================
