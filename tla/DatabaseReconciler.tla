------------------------- MODULE DatabaseReconciler -------------------------
(***************************************************************************)
(* The Database controller (controllers/database_controller.go) with the   *)
(* ownership test it shares with the other controllers (DatabaseMine in    *)
(* api/v1alpha1/adminconnection_types.go) and the ledger table it keeps on *)
(* the MySQL server (orm/model.go, managed_databases).                     *)
(*                                                                         *)
(* Reconcile is a sequence of SQL statements and Kubernetes calls; each is *)
(* one atomic step here, and users, other clients of the MySQL server and  *)
(* the informer act between any two of them.  The Spec.Name of an object   *)
(* never changes (the webhook rejects the update), so it is a function of  *)
(* the UID, as the object's namespace and name are; Spec.AdminConnection   *)
(* may be edited, and each one is a MySQL server with databases and a      *)
(* ledger of its own.  A character set and its collation travel together   *)
(* everywhere and are one value.                                           *)
(***************************************************************************)
EXTENDS ApiServer

CONSTANTS
  Connections,     \* AdminConnections, each to a MySQL server of its own
  Places,          \* bound: Places[o]: the AdminConnections that users name for o
  Moves,           \* the edits from one to another that they make
  Schemas,         \* databases, each a name on one of the servers
  SpecName,        \* SpecName[o][k]: the database called Spec.Name on k's server
  Charsets,        \* character set / collation values
  DefaultCharset,  \* what CREATE DATABASE picks when none is given
  Unset,           \* an empty Spec.CharacterSet or Status.CharacterSet
  Wanted,          \* values users write in Spec.CharacterSet
  Qualified,       \* objects whose AdminConnection reference has a namespace
  Absent,          \* the creator of a database that does not exist
  Foreign,         \* the creator of a database not made by the operator
  Faults           \* what goes wrong, a subset of FaultKinds

FaultKinds == {
  "read",      \* a SELECT fails, which the orm reports as "no row"
  "write",     \* a CREATE, ALTER or INSERT fails, or succeeds unanswered
  "drop",      \* a DROP fails
  "forget",    \* the DELETE of a ledger row fails
  "update",    \* the API server refuses an update for another reason
  "crash",     \* the process dies
  "offline",   \* a MySQL server does not answer when a reconcile starts
  "missing",   \* an AdminConnection is not there when a reconcile starts
  "external"}  \* other clients create and drop databases while it runs

ASSUME DatabaseAssumption ==
  /\ Places \in [Objects -> SUBSET Connections]
  /\ Moves \subseteq Connections \X Connections
  /\ SpecName \in [Objects -> [Connections -> Schemas]]
  /\ \A o, p \in Objects, k, l \in Connections :
       SpecName[o][k] = SpecName[p][l] => k = l
  /\ DefaultCharset \in Charsets
  /\ Unset \notin Charsets
  /\ Wanted \subseteq Charsets \cup {Unset}
  /\ Qualified \subseteq Objects
  /\ Absent \notin Objects /\ Foreign \notin Objects /\ Absent # Foreign
  /\ Faults \subseteq FaultKinds

VARIABLES
  pc,        \* the call the worker makes next
  admin,     \* admin[k]: what a reconcile finds of AdminConnection k
  server,    \* server[s]: who created database s, or Absent
  charset,   \* charset[s]: its default character set
  ledger     \* ledger[o]: the databases of the rows whose uuid is o, on any server

mysql == <<server, charset, ledger>>
vars  == <<k8s, pc, admin, mysql>>

-----------------------------------------------------------------------------
(* Objects.                                                                *)

Phases   == {"absent", "live", "deleting", "gone"}
Messages == {"none", "unreachable", "created", "altered", "synced", "failed",
             "refused"}
Status   == [charset : Charsets \cup {Unset}, message : Messages]
Database == [phase : Phases, finalizer : BOOLEAN, connection : Connections,
             charset : Charsets \cup {Unset}, status : Status]

NoStatus == [charset |-> Unset, message |-> "none"]
NewObject(k, c) ==
  [phase |-> "live", finalizer |-> FALSE, connection |-> k, charset |-> c,
   status |-> NoStatus]
NeverCreated(k) == [NewObject(k, Unset) EXCEPT !.phase = "absent"]

schema   == SpecName[obj][inst.connection]     \* the worker's copy asks for it
Asked(o) == SpecName[o][api[o].connection]     \* the stored object does

\* What a reconcile that starts with a copy finds of its AdminConnection.
Reach(i) == admin[i.connection]

\* The worker sets fields of its own copy only.
SetCharset(c) == inst' = [inst EXCEPT !.status.charset = c]
SetMessage(m) == inst' = [inst EXCEPT !.status.message = m]

-----------------------------------------------------------------------------
(* SQL as the code sees it.                                                *)

\* What a lookup answers when the row is there iff `found`.
Answers(found) == {found} \cup (IF "read" \in Faults THEN {FALSE} ELSE {})

\* Whether a statement took effect, and whether the code is told it did.
Outcomes == {[applied |-> TRUE, ok |-> TRUE]} \cup
            (IF "write" \in Faults
             THEN {[applied |-> FALSE, ok |-> FALSE],
                   [applied |-> TRUE,  ok |-> FALSE]}
             ELSE {})

\* Variant: an empty schema row counts as a database.
ExistsVariant == TRUE

Exists == server[schema] # Absent

K8sOnly == UNCHANGED <<admin, mysql>>
SqlOnly == UNCHANGED <<store, queue, obj, fresh, admin>>

Goto(step) == pc' = step

\* Variant: the DatabaseLoopContext outlives the call of Reconcile.
DoneVariant(requeue) ==
  /\ queue' = IF requeue THEN queue \cup {obj} ELSE queue
  /\ UNCHANGED worker
  /\ Goto("idle")

\* Reconcile returns, and with it the context that holds the object ends.
Done(requeue) == Return(requeue) /\ Goto("idle")

-----------------------------------------------------------------------------
(* Reconcile, from the work queue to the first call that changes anything. *)

\* Variant: an object under deletion is taken for gone.
NothingToDoVariant(i) == i.phase # "live"

\* The object is not in the cache, or is deleted without our finalizer.
NothingToDo(i) ==
  \/ i.phase \in {"absent", "gone"}
  \/ i.phase = "deleting" /\ ~i.finalizer

Skip(o) ==
  /\ pc = "idle" /\ o \in queue
  /\ NothingToDo(cached[o])
  /\ queue' = queue \ {o}
  /\ UNCHANGED <<store, worker, pc>>
  /\ K8sOnly

Begin(o, step) ==
  /\ pc = "idle"
  /\ Take(o)
  /\ ~NothingToDo(cached[o])
  /\ Goto(step)
  /\ K8sOnly

\* Spec.Host of the nil AdminConnection is dereferenced for the log line.
FinalizeUnreachable(o) ==
  cached[o].phase = "deleting" /\ Reach(cached[o]) # "ready" /\ Begin(o, "panic")

FinalizeStart(o) ==
  cached[o].phase = "deleting" /\ Reach(cached[o]) = "ready" /\ Begin(o, "mineExists")

\* Only an AdminConnection that exists but cannot be used is an error.
Unreachable(o) ==
  /\ cached[o].phase = "live" /\ Reach(cached[o]) # "ready"
  /\ Begin(o, IF Reach(cached[o]) = "missing" THEN "report" ELSE "reportError")

\* Variant: the finalizer is left for a later reconcile.
NeedsFinalizerVariant(i) == FALSE

NeedsFinalizer(i) == ~i.finalizer

StartUnprotected(o) ==
  /\ cached[o].phase = "live" /\ Reach(cached[o]) = "ready"
  /\ NeedsFinalizer(cached[o])
  /\ Begin(o, "addFinalizer")

StartProtected(o) ==
  /\ cached[o].phase = "live" /\ Reach(cached[o]) = "ready"
  /\ ~NeedsFinalizer(cached[o])
  /\ Begin(o, "exists")

-----------------------------------------------------------------------------
(* Updates of the object.  The API server accepts one only from a worker   *)
(* that read the stored version.                                           *)

Accepted == fresh
Refusable == ~fresh \/ "update" \in Faults

AddFinalizer ==
  /\ pc = "addFinalizer"
  /\ \/ /\ Accepted /\ Write([api[obj] EXCEPT !.finalizer = TRUE])
        /\ Done(FALSE)
     \/ Refusable /\ UNCHANGED store /\ Done(TRUE)
  /\ K8sOnly

\* The last finalizer is gone: the API server removes the object.
RemoveFinalizer ==
  /\ pc = "removeFinalizer"
  /\ \/ /\ Accepted
        /\ Write([api[obj] EXCEPT !.finalizer = FALSE, !.phase = "gone"])
        /\ Done(FALSE)
     \/ Refusable /\ UNCHANGED store /\ Done(TRUE)
  /\ K8sOnly

\* The error of the status update is logged and dropped.  SyncTime is part
\* of the status, so an otherwise equal status may be a new version or not.
SaveStatus ==
  /\ pc = "status"
  /\ \/ /\ Accepted
        /\ \/ Write([api[obj] EXCEPT !.status = inst.status])
           \/ WriteStamped([api[obj] EXCEPT !.status = inst.status])
     \/ Refusable /\ UNCHANGED store
  /\ Done(FALSE)
  /\ K8sOnly

\* The branch without an AdminConnection does return errors.
SaveReport ==
  /\ pc \in {"report", "reportError"}
  /\ \/ /\ Accepted
        /\ Write([api[obj] EXCEPT !.status.message = "unreachable"])
        /\ Done(pc = "reportError")
     \/ Refusable /\ UNCHANGED store /\ Done(TRUE)
  /\ K8sOnly

-----------------------------------------------------------------------------
(* databaseExists and DatabaseMine.                                        *)

CheckExists ==
  /\ pc = "exists"
  /\ \E found \in Answers(Exists) :
       IF found THEN SetCharset(charset[schema]) /\ Goto("mineExists")
                ELSE inst' = inst /\ Goto("create")
  /\ SqlOnly /\ UNCHANGED mysql

\* Variant: the finalizer, not the deletion time stamp, decides.
PermittedVariant ==
  inst' = inst /\ Goto(IF inst.finalizer THEN "drop" ELSE "alter")

Permitted ==
  inst' = inst /\ Goto(IF inst.phase = "deleting" THEN "drop" ELSE "alter")

\* Variant: whether the database is ours matters only for live objects.
DropsAnywayVariant ==
  \/ inst.phase = "deleting" /\ inst' = inst /\ Goto("drop")
  \/ inst.phase = "live" /\ SetMessage("refused") /\ Goto("status")

\* Variant: the refusal is not reported.
DeniedVariant ==
  inst' = inst /\
  Goto(IF inst.phase = "deleting" THEN "removeFinalizer" ELSE "status")

Denied ==
  \/ inst.phase = "deleting" /\ inst' = inst /\ Goto("removeFinalizer")
  \/ inst.phase = "live" /\ SetMessage("refused") /\ Goto("status")

\* "If it doesn't exist, go ahead and take it!"
MineExists ==
  /\ pc = "mineExists"
  /\ \E found \in Answers(Exists) :
       IF found THEN inst' = inst /\ Goto("mineRecord") ELSE Permitted
  /\ SqlOnly /\ UNCHANGED mysql

\* Variant: the row is looked up by the name of the database.
RecordMatchesVariant == \E o \in Objects : schema \in ledger[o]

\* The row of this UID names this database, this object and its namespace.
RecordMatches == schema \in ledger[obj]

MineRecord ==
  /\ pc = "mineRecord"
  /\ \E mine \in Answers(RecordMatches) : IF mine THEN Permitted ELSE Denied
  /\ SqlOnly /\ UNCHANGED mysql

-----------------------------------------------------------------------------
(* databaseCreate.                                                         *)

CreatedWith(c) == IF c = Unset THEN DefaultCharset ELSE c
Presumed(i)    == IF i.charset = Unset THEN i.status.charset ELSE i.charset

\* Variant: a failed CREATE DATABASE does not return.
AfterCreateVariant(ok) == "record"

AfterCreate(ok) == IF ok THEN "record" ELSE "status"

\* The status takes the wanted character set before the statement runs.
CreateDatabase ==
  /\ pc = "create"
  /\ SetCharset(Presumed(inst))
  /\ \E r \in Outcomes :
       IF r.applied /\ ~Exists
       THEN /\ server' = [server EXCEPT ![schema] = obj]
            /\ charset' = [charset EXCEPT ![schema] = CreatedWith(inst.charset)]
            /\ Goto(AfterCreate(r.ok))
       ELSE UNCHANGED <<server, charset>> /\ Goto(AfterCreate(FALSE))
  /\ UNCHANGED ledger
  /\ SqlOnly

\* Its error, a row that is already there or a failure, is only logged.
InsertRecord ==
  /\ pc = "record"
  /\ \E r \in Outcomes :
       ledger' = IF r.applied THEN [ledger EXCEPT ![obj] = @ \cup {schema}]
                 ELSE ledger
  /\ Goto("confirm")
  /\ UNCHANGED <<inst, server, charset>>
  /\ SqlOnly

ConfirmCreate ==
  /\ pc = "confirm"
  /\ \E found \in Answers(Exists) :
       IF found THEN inst' = [inst EXCEPT !.status = [charset |-> charset[schema],
                                                      message |-> "created"]]
                ELSE inst' = inst
  /\ Goto("status")
  /\ SqlOnly /\ UNCHANGED mysql

-----------------------------------------------------------------------------
(* databaseUpdate.                                                         *)

\* Variant: only a database of unknown default is altered.
NeedsAlterVariant(i) == i.charset # Unset /\ i.status.charset = Unset

NeedsAlter(i) == i.charset # Unset /\ i.charset # i.status.charset

InSync ==
  /\ pc = "alter" /\ ~NeedsAlter(inst)
  /\ SetMessage("synced")
  /\ Goto("reread")
  /\ SqlOnly /\ UNCHANGED mysql

AlterMessage(ok) == IF ok THEN "altered" ELSE "failed"

\* The status takes the wanted character set before the statement runs.
AlterDatabase ==
  /\ pc = "alter" /\ NeedsAlter(inst)
  /\ \E r \in Outcomes :
       /\ charset' = IF r.applied /\ Exists
                     THEN [charset EXCEPT ![schema] = inst.charset]
                     ELSE charset
       /\ LET ok == r.ok /\ Exists
          IN  /\ inst' = [inst EXCEPT !.status =
                           [charset |-> inst.charset,
                            message |-> AlterMessage(ok)]]
              /\ Goto(IF ok THEN "reread" ELSE "status")
  /\ UNCHANGED <<server, ledger>>
  /\ SqlOnly

Reread ==
  /\ pc = "reread"
  /\ \E found \in Answers(Exists) :
       IF found THEN SetCharset(charset[schema]) ELSE inst' = inst
  /\ Goto("status")
  /\ SqlOnly /\ UNCHANGED mysql

-----------------------------------------------------------------------------
(* finalizeDatabase: neither error stops it.                               *)

\* Variant: the ledger row stays.
AfterDropVariant == "removeFinalizer"

AfterDrop == "forget"

DropDatabase ==
  /\ pc = "drop"
  /\ \/ /\ server' = [server EXCEPT ![schema] = Absent]
        /\ charset' = [charset EXCEPT ![schema] = DefaultCharset]
     \/ "drop" \in Faults /\ UNCHANGED <<server, charset>>
  /\ Goto(AfterDrop)
  /\ UNCHANGED <<inst, ledger>>
  /\ SqlOnly

ForgetRecord ==
  /\ pc = "forget"
  /\ \/ ledger' = [ledger EXCEPT ![obj] = @ \ {schema}]
     \/ "forget" \in Faults /\ UNCHANGED ledger
  /\ Goto("removeFinalizer")
  /\ UNCHANGED <<inst, server, charset>>
  /\ SqlOnly

-----------------------------------------------------------------------------
(* The process: without a recover, a panic in Reconcile ends it, and a new *)
(* one starts from a fresh list of all objects.                            *)

Restart == Relist /\ Goto("idle") /\ K8sOnly

Crash   == "crash" \in Faults /\ Restart
Respawn == pc = "panic" /\ Restart

-----------------------------------------------------------------------------
(* Users of the custom resources.                                          *)

UserCreate(o) ==
  /\ api[o].phase = "absent"
  /\ \E k \in Places[o], c \in Wanted : Submit(o, NewObject(k, c))
  /\ UNCHANGED pc /\ K8sOnly

\* The webhook refuses an edit of Spec.Name, and nothing else that matters here.
UserEdit(o) ==
  /\ api[o].phase \in {"live", "deleting"}
  /\ \/ \E c \in Wanted \ {api[o].charset} :
          Submit(o, [api[o] EXCEPT !.charset = c])
     \/ \E k \in Places[o] :
          /\ <<api[o].connection, k>> \in Moves
          /\ Submit(o, [api[o] EXCEPT !.connection = k])
  /\ UNCHANGED pc /\ K8sOnly

UserDelete(o) ==
  /\ api[o].phase = "live"
  /\ Submit(o, [api[o] EXCEPT
       !.phase = IF api[o].finalizer THEN "deleting" ELSE "gone"])
  /\ UNCHANGED pc /\ K8sOnly

-----------------------------------------------------------------------------
(* Events and the rest of the world.                                       *)

Watch(o) == Observe(o) /\ UNCHANGED pc /\ K8sOnly

\* Every object of an informer is queued again once per sync period.
Resync == Enqueue(Objects) /\ UNCHANGED pc /\ K8sOnly

\* Only a reference that spells the namespace of the AdminConnection matches.
Mapped(k) == {o \in Qualified : cached[o].connection = k}

\* An AdminConnection comes or goes; both are watched.
AdminChange(k) ==
  /\ "missing" \in Faults
  /\ admin' = [admin EXCEPT ![k] = IF @ = "missing" THEN "ready" ELSE "missing"]
  /\ Enqueue(Mapped(k))
  /\ UNCHANGED <<pc, mysql>>

\* A MySQL server stops answering or answers again; nobody is told.
ServerChange(k) ==
  /\ "offline" \in Faults /\ admin[k] # "missing"
  /\ admin' = [admin EXCEPT ![k] = IF @ = "offline" THEN "ready" ELSE "offline"]
  /\ UNCHANGED <<k8s, pc, mysql>>

ExternalCreate(s) ==
  /\ "external" \in Faults /\ server[s] = Absent
  /\ server' = [server EXCEPT ![s] = Foreign]
  /\ \E c \in Charsets : charset' = [charset EXCEPT ![s] = c]
  /\ UNCHANGED <<k8s, pc, admin, ledger>>

ExternalDrop(s) ==
  /\ "external" \in Faults /\ server[s] # Absent
  /\ server' = [server EXCEPT ![s] = Absent]
  /\ charset' = [charset EXCEPT ![s] = DefaultCharset]
  /\ UNCHANGED <<k8s, pc, admin, ledger>>

-----------------------------------------------------------------------------
(* Specification.                                                          *)

Init ==
  /\ \E k \in Connections : K8sInit([o \in Objects |-> NeverCreated(k)])
  /\ pc = "idle"
  /\ admin \in [Connections ->
                {"ready"} \cup (IF "missing" \in Faults THEN {"missing"} ELSE {})]
  /\ server \in [Schemas -> {Absent, Foreign}]
  /\ charset = [s \in Schemas |-> DefaultCharset]
  /\ ledger = [o \in Objects |-> {}]

BeginReconcile(o) ==
  \/ Skip(o)
  \/ FinalizeUnreachable(o) \/ FinalizeStart(o) \/ Unreachable(o)
  \/ StartUnprotected(o) \/ StartProtected(o)

\* The statements of a reconcile that is under way.
Progress ==
  \/ AddFinalizer \/ RemoveFinalizer \/ SaveStatus \/ SaveReport
  \/ CheckExists \/ MineExists \/ MineRecord
  \/ CreateDatabase \/ InsertRecord \/ ConfirmCreate
  \/ InSync \/ AlterDatabase \/ Reread
  \/ DropDatabase \/ ForgetRecord

Operator == Progress \/ \E o \in Objects : BeginReconcile(o)

Environment ==
  \/ Crash \/ Respawn \/ Resync
  \/ \E k \in Connections : AdminChange(k) \/ ServerChange(k)
  \/ \E o \in Objects : UserCreate(o) \/ UserEdit(o) \/ UserDelete(o) \/ Watch(o)
  \/ \E s \in Schemas : ExternalCreate(s) \/ ExternalDrop(s)

Next == Operator \/ Environment

Spec == Init /\ [][Next]_vars

\* The worker runs, watches deliver, the sync period passes, and the queue,
\* first in first out, hands out every key that keeps coming back.
Fairness ==
  /\ WF_vars(Progress)
  /\ WF_vars(Resync)
  /\ \A o \in Objects : WF_vars(Watch(o)) /\ SF_vars(BeginReconcile(o))

FairSpec == Spec /\ Fairness

-----------------------------------------------------------------------------
(* Types.                                                                  *)

Steps == {"idle", "panic", "report", "reportError", "addFinalizer",
          "removeFinalizer", "exists", "mineExists", "mineRecord", "create",
          "record", "confirm", "alter", "reread", "drop", "forget", "status"}

\* Every variable has its type, and the worker holds an object exactly while
\* it is between two calls of Reconcile.
TypeOK ==
  /\ api \in [Objects -> Database]
  /\ cached \in [Objects -> Database]
  /\ synced \subseteq Objects
  /\ queue \subseteq Objects
  /\ obj \in Objects \cup {NoObject}
  /\ inst \in Database \cup {NoObject}
  /\ fresh \in BOOLEAN
  /\ pc \in Steps
  /\ admin \in [Connections -> {"ready", "offline", "missing"}]
  /\ server \in [Schemas -> Objects \cup {Absent, Foreign}]
  /\ charset \in [Schemas -> Charsets]
  /\ ledger \in [Objects -> SUBSET Schemas]
  /\ pc = "idle" <=> obj = NoObject
  /\ pc # "idle" => inst \in Database

-----------------------------------------------------------------------------
(* Ownership.                                                              *)

Present(s)  == server[s] # Absent
Owner(o, s) == s \in ledger[o] /\ Present(s)

\* A database that disappears was dropped by a finalizer, and by the one of
\* the object it was created for: a name that two objects share, or that was
\* in use before, never costs anybody else's data (finalizeDatabase).
OnlyOwnerDrops ==
  [][\A s \in Schemas :
       Present(s) /\ server'[s] # server[s] => obj \in Objects /\ server[s] = obj]_vars

\* DatabaseMine never recognises two objects that still exist as the owner of
\* one existing database, whatever names they share and however they come and
\* go: the check-then-create of databaseExists and databaseCreate is enough.
ExclusiveOwner ==
  \A o, p \in Objects, s \in Schemas :
    /\ Owner(o, s) /\ Owner(p, s)
    /\ api[o].phase # "gone" /\ api[p].phase # "gone"
    => o = p

\* A database that was there before the operator is neither dropped nor
\* altered, whichever calls fail and wherever the process dies.
ForeignUntouched ==
  [][\A s \in Schemas :
       server[s] = Foreign => server'[s] = Foreign /\ charset'[s] = charset[s]]_vars

\* CREATE DATABASE runs only while the stored object, not just the cached
\* copy the worker looks at, carries the finalizer that will drop it again.
CreatedUnderFinalizer ==
  [][\A s \in Schemas, o \in Objects :
       server[s] # o /\ server'[s] = o =>
         api[o].finalizer /\ api[o].phase \in {"live", "deleting"}]_vars

\* DROP DATABASE runs only for an object that its user has deleted, whatever
\* the cache and failed lookups made the worker believe.
DropOnlyDeleted ==
  [][\A s \in Schemas :
       pc = "drop" /\ Present(s) /\ server'[s] = Absent /\ obj' = obj
       => obj \in Objects /\ api[obj].phase \in {"deleting", "gone"}]_vars

\* A stored status that reports success is true when it is stored: on the
\* server that the object then names the database is there, it is this
\* object's, and it has the reported default.
HonestStatus ==
  [][\A o \in Objects :
       /\ api'[o].status # api[o].status
       /\ api'[o].status.message \in {"created", "altered", "synced"}
       => /\ server[Asked(o)] = o
          /\ charset[Asked(o)] = api'[o].status.charset]_vars

\* Once nothing is queued, cached late or under way, no object has been left
\* behind by an event nobody sent: a live one is protected and either has its
\* database, in the wanted character set, or says that it may not; one that
\* is being deleted has been finalized.
Quiet == pc = "idle" /\ queue = {} /\ synced = Objects

Settled ==
  Quiet /\ (\A k \in Connections : admin[k] = "ready") => \A o \in Objects :
    /\ api[o].phase # "deleting"
    /\ api[o].phase = "live" =>
         /\ api[o].finalizer
         /\ \/ /\ server[Asked(o)] = o
               /\ api[o].charset \in {Unset, charset[Asked(o)]}
            \/ api[o].status.message = "refused"

\* A deleted object leaves neither its database nor its ledger row behind on
\* the server that it named last, however late the copies were that a reconcile
\* created, moved and dropped it with.
NoOrphan ==
  \A o \in Objects : api[o].phase = "gone" =>
    server[Asked(o)] # o /\ Asked(o) \notin ledger[o]

\* The nil AdminConnection of the finalizer branch is never dereferenced.
NoPanic == pc # "panic"

-----------------------------------------------------------------------------
(* Progress.                                                               *)

Rivals(o) == {p \in Objects \ {o} : Asked(p) = Asked(o)}

\* A live object that users leave alone.
Rests(o, k, c) ==
  api[o].phase = "live" /\ api[o].connection = k /\ api[o].charset = c

\* A live object that users leave alone gets its database on the server it names
\* once the name is free for good: the sync period brings back one that was
\* refused while another object had the name there, or had left it there.
Provisioned ==
  \A o \in Objects : \A k \in Places[o], c \in Wanted :
    <>[](/\ Rests(o, k, c)
         /\ server[SpecName[o][k]] \in {Absent, o}
         /\ \A p \in Rivals(o) : api[p].phase \in {"absent", "gone"})
    => <>[](server[SpecName[o][k]] = o)

\* No object that is left alone is deleted forever: every conflict on the way
\* is retried until the finalizer is off.
Finalized ==
  \A o \in Objects : \A k \in Places[o], c \in Wanted :
    ~<>[](/\ api[o].phase = "deleting"
          /\ api[o].connection = k /\ api[o].charset = c)

\* A wanted character set that stays is applied to the object's database, and
\* the stored status comes to say so.
CharsetApplied ==
  \A o \in Objects : \A k \in Places[o], c \in Wanted \ {Unset} :
    <>[](Rests(o, k, c) /\ server[SpecName[o][k]] = o)
    => <>[](charset[SpecName[o][k]] = c /\ api[o].status.charset = c)

-----------------------------------------------------------------------------
(* Inductive invariants, checked with the properties they imply.           *)

\* No lookup error, lost DELETE, crash or other client: what the ledger says
\* of an object is then true of the server between any two statements.
Benign == Faults \cap {"read", "forget", "crash", "external"} = {}

Dropping(o, s) == pc = "forget" /\ obj = o /\ schema = s /\ ~Present(s)

RowIsTrue ==
  \A o \in Objects : \A s \in ledger[o] : server[s] = o \/ Dropping(o, s)

\* The verdict of DatabaseMine and databaseCreate outlives the step.
VerdictHolds ==
  /\ pc = "drop" => server[schema] \in {Absent, obj}
  /\ pc \in {"record", "confirm"} => server[schema] = obj

LedgerInv == RowIsTrue /\ VerdictHolds

\* Databases of others are safe as long as lookups work and nobody else
\* creates any while the operator runs.
Isolated == Faults \cap {"read", "external"} = {}

RowNotForeign ==
  \A o \in Objects : \A s \in ledger[o] : server[s] # Foreign

StepNotForeign ==
  pc \in {"drop", "alter", "record"} => server[schema] # Foreign

ForeignInv == RowNotForeign /\ StepNotForeign

\* Which branch of Reconcile a statement belongs to.
BranchInv ==
  /\ pc \in {"addFinalizer", "report", "reportError"} => inst.phase = "live"
  /\ pc \in {"exists", "create", "record", "confirm", "alter", "reread"}
       => Protected(inst)
  /\ pc \in {"mineExists", "mineRecord"}
       => inst.phase = "deleting" \/ Protected(inst)
  /\ pc \in {"drop", "forget", "removeFinalizer"} => inst.phase = "deleting"

FinalizerInv == CacheInv /\ WorkerInv /\ BranchInv
=============================================================================
