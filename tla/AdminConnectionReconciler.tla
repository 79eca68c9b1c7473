--------------------- MODULE AdminConnectionReconciler ---------------------
(***************************************************************************)
(* The AdminConnection controller                                          *)
(* (controllers/adminconnection_controller.go): it reads the default       *)
(* character set and collation of a MySQL server, and all combinations the *)
(* server supports, into the status of the object, with one query each.    *)
(*                                                                         *)
(* GetDatabaseConnection is one step here, which succeeds while the server *)
(* is there; ConnectionCache models what it does.  The status keeps of its *)
(* message whether it reports a success.                                   *)
(***************************************************************************)
EXTENDS ApiServer, Naturals

CONSTANTS
  Supported,   \* the pairs of a character set and a collation of the server
  Unset,       \* an empty string
  MaxChanges   \* bound: how often the server goes, comes or is set otherwise

ASSUME AdminAssumption ==
  /\ MaxChanges \in Nat
  /\ Supported # {}
  /\ \A p \in Supported : p = <<p[1], p[2]>> /\ Unset \notin {p[1], p[2]}

VARIABLES
  pc,          \* the call the worker makes next
  online,      \* does the server answer?
  defaults,    \* its default character set and collation
  changes      \* how often either has changed

mysql     == <<online, defaults, changes>>
adminVars == <<k8s, pc, mysql>>

Charsets   == {p[1] : p \in Supported}
Collations == {p[2] : p \in Supported}

Status ==
  [charset : Charsets \cup {Unset}, collation : Collations \cup {Unset},
   available : {{}, Supported}, pinged : BOOLEAN]
AdminConnection == [phase : {"absent", "live", "gone"}, status : Status]

NewConnection ==
  [phase |-> "live", status |-> [charset |-> Unset, collation |-> Unset,
                                 available |-> {}, pinged |-> FALSE]]
NeverConnected == [NewConnection EXCEPT !.phase = "absent"]
Removed        == [NewConnection EXCEPT !.phase = "gone"]

-----------------------------------------------------------------------------
(* Reconcile.                                                              *)

Goto(step) == pc' = step

\* Variant: what has been read once is not read again.
DueVariant(connection) == connection.phase = "live" /\ ~connection.status.pinged

\* Every version of the object is: its own status updates, too.
Due(connection) == connection.phase = "live"

Skip(o) ==
  /\ pc = "idle" /\ o \in queue
  /\ ~Due(cached[o])
  /\ queue' = queue \ {o}
  /\ UNCHANGED <<store, worker, pc, mysql>>

Begin(o) ==
  /\ pc = "idle" /\ Due(cached[o])
  /\ Take(o)
  /\ Goto("connect")
  /\ UNCHANGED mysql

\* Variant: a failure leaves the message of the last success.
FailVariant(status) == status

Fail(status) == [status EXCEPT !.pinged = FALSE]

\* A step that asks the server, and what becomes of the status when it fails.
Ask(step, next, answered, unanswered) ==
  /\ pc = step
  /\ \/ online /\ inst' = [inst EXCEPT !.status = answered] /\ Goto(next)
     \/ /\ ~online
        /\ inst' = [inst EXCEPT !.status = Fail(unanswered)]
        /\ Goto("saveError")
  /\ UNCHANGED <<store, queue, obj, fresh, mysql>>

Connect == Ask("connect", "charset", inst.status, inst.status)

\* Variant: the two variables are mistaken for each other.
GetCharsetVariant ==
  Ask("charset", "collation", [inst.status EXCEPT !.charset = defaults[2]],
                              [inst.status EXCEPT !.charset = Unset])

\* getVariable returns an empty string with its error.
GetCharset ==
  Ask("charset", "collation", [inst.status EXCEPT !.charset = defaults[1]],
                              [inst.status EXCEPT !.charset = Unset])

GetCollation ==
  Ask("collation", "charsets", [inst.status EXCEPT !.collation = defaults[2]],
                               [inst.status EXCEPT !.collation = Unset])

\* getCharSets returns an empty list with its error.
GetCharSets ==
  Ask("charsets", "save",
      [inst.status EXCEPT !.available = Supported, !.pinged = TRUE],
      [inst.status EXCEPT !.available = {}])

\* The deferred update, whose error is lost.  The time stamp and the order of
\* the list make a new version of an equal status, or not.
Save ==
  /\ pc \in {"save", "saveError"}
  /\ \/ /\ fresh
        /\ \/ Write([api[obj] EXCEPT !.status = inst.status])
           \/ WriteStamped([api[obj] EXCEPT !.status = inst.status])
     \/ ~fresh /\ UNCHANGED store
  /\ Return(pc = "saveError")
  /\ Goto("idle")
  /\ UNCHANGED mysql

-----------------------------------------------------------------------------
(* Users, events, the server.                                              *)

UserConnect(o) ==
  /\ api[o].phase = "absent" /\ Submit(o, NewConnection)
  /\ UNCHANGED <<pc, mysql>>

UserDisconnect(o) ==
  /\ api[o].phase = "live" /\ Submit(o, Removed)
  /\ UNCHANGED <<pc, mysql>>

\* An edit of the specification, which makes updates based on it conflict.
UserReconfigure(o) ==
  /\ api[o].phase = "live" /\ Submit(o, api[o])
  /\ UNCHANGED <<pc, mysql>>

Watch(o) == Observe(o) /\ UNCHANGED <<pc, mysql>>
Resync   == Enqueue(Objects) /\ UNCHANGED <<pc, mysql>>

Change == changes < MaxChanges /\ changes' = changes + 1

\* The server goes away or comes back.
Outage == Change /\ online' = ~online /\ UNCHANGED <<k8s, pc, defaults>>

\* SET GLOBAL changes the pair as a whole.
SetGlobal ==
  /\ Change
  /\ defaults' \in Supported \ {defaults}
  /\ UNCHANGED <<k8s, pc, online>>

Restart == Relist /\ Goto("idle") /\ UNCHANGED mysql

-----------------------------------------------------------------------------

AdminInit ==
  /\ K8sInit([o \in Objects |-> NeverConnected])
  /\ pc = "idle"
  /\ online \in BOOLEAN
  /\ defaults \in Supported
  /\ changes = 0

Progress == Connect \/ GetCharset \/ GetCollation \/ GetCharSets \/ Save

BeginReconcile(o) == Skip(o) \/ Begin(o)

AdminEnvironment ==
  \/ Resync \/ Outage \/ SetGlobal
  \/ \E o \in Objects :
       UserConnect(o) \/ UserDisconnect(o) \/ UserReconfigure(o) \/ Watch(o)

AdminNext == Progress \/ (\E o \in Objects : BeginReconcile(o)) \/ AdminEnvironment

AdminFairness ==
  /\ WF_adminVars(Progress)
  /\ WF_adminVars(Resync)
  /\ \A o \in Objects : WF_adminVars(Watch(o)) /\ SF_adminVars(BeginReconcile(o))

-----------------------------------------------------------------------------
(* Properties.                                                             *)

Steps == {"idle", "connect", "charset", "collation", "charsets", "save",
          "saveError"}

\* Every variable has its type, and the worker holds an object exactly while
\* it is between two calls of Reconcile.
AdminTypeOK ==
  /\ api \in [Objects -> AdminConnection]
  /\ cached \in [Objects -> AdminConnection]
  /\ synced \subseteq Objects /\ queue \subseteq Objects
  /\ obj \in Objects \cup {NoObject}
  /\ inst \in AdminConnection \cup {NoObject}
  /\ fresh \in BOOLEAN
  /\ pc \in Steps
  /\ online \in BOOLEAN /\ defaults \in Supported /\ changes \in 0..MaxChanges
  /\ pc = "idle" <=> obj = NoObject
  /\ pc # "idle" => inst \in AdminConnection

\* All that the webhook needs.
Complete(status) ==
  status.pinged =>
    /\ status.available = Supported
    /\ status.charset \in Charsets /\ status.collation \in Collations

\* A stored status that reports success has all that the webhook needs, though
\* each failure on the way empties a field and keeps the others (Reconcile).
SuccessIsComplete == \A o \in Objects : Complete(api[o].status)

\* The inductive invariant behind it: the copies are as complete as the stored
\* objects, and what a reconcile has asked for so far it has.
CompleteInv ==
  /\ SuccessIsComplete
  /\ \A o \in Objects : Complete(cached[o].status)
  /\ pc # "idle" => Complete(inst.status)
  /\ pc \in {"collation", "charsets"} => inst.status.charset \in Charsets
  /\ pc = "charsets" => inst.status.collation \in Collations
=============================================================================
