----------------------- MODULE DatabaseUserReconciler -----------------------
(***************************************************************************)
(* The DatabaseUser controller (controllers/databaseuser_controller.go),   *)
(* with UserMine (api/v1alpha1/adminconnection_types.go) and the ledger    *)
(* table managed_users (orm/model.go).                                     *)
(*                                                                         *)
(* As in DatabaseReconciler, each statement and each Kubernetes call is an *)
(* atomic step.  Two groups of reads are taken together: the SELECTs of    *)
(* one UserMine, or DatabaseMine, and the second read of the secret with   *)
(* the CREATE or ALTER USER that uses what it read.                        *)
(*                                                                         *)
(* No webhook guards a DatabaseUser: its user name may be edited, and so   *)
(* may its AdminConnection.  A name is an account name on the server of    *)
(* one AdminConnection, so that Spec.Username stands for both fields; of   *)
(* Status.Username, which is on whatever server the spec names, UserMove   *)
(* makes the account of the same name there.  An authentication string is  *)
(* the number of times its secret was written, so it also stands for the   *)
(* secret's resource version: the only other update of a secret is the one *)
(* that makes the operator its owner, and nothing records a version before *)
(* that.  Plugins are left out: AuthPlugin is "".                          *)
(***************************************************************************)
EXTENDS ApiServer, Integers, FiniteSets

CONSTANTS
  Connections, \* AdminConnections, each to a MySQL server of its own
  Names,       \* account names, each on one of the servers
  Host,        \* Host[n]: the AdminConnection on whose server n is
  Namesake,    \* Namesake[k][n]: the account called as n on k's server
  Databases,   \* Database objects of the namespace
  Specs,       \* the specs users choose from
  MaxContent,  \* bound: how often a secret is written
  Edited,      \* bound: the objects whose spec users change
  Moves,       \* bound: from which AdminConnection to which they move them
  Unset,       \* an empty Status.Username
  Absent,      \* an account that does not exist
  Foreign,     \* the creator of an account not made by the operator
  Faults       \* what goes wrong, a subset of FaultKinds

FaultKinds == {
  "read",      \* a SELECT fails, which the orm reports as "no row"
  "write",     \* a CREATE, ALTER, RENAME, GRANT, REVOKE or row write fails
  "drop",      \* a DROP fails
  "forget",    \* the DELETE of a ledger row fails
  "update",    \* the API server refuses an update for another reason
  "crash",     \* the process dies
  "offline",   \* an AdminConnection or its server is not there
  "external"}  \* other clients create and drop accounts

\* ident: no Identification, one without AuthString, or one with a secret
UserSpec == [username : Names, ident : {"none", "plugin", "secret"},
             tls : BOOLEAN, databases : SUBSET Databases]

Contents == 0 .. MaxContent      \* 0: no secret, no authentication string
Account  == [creator : Objects \cup {Foreign}, password : Contents,
             tls : BOOLEAN, grants : SUBSET Databases]

ASSUME UserAssumption ==
  /\ Host \in [Names -> Connections]
  /\ Namesake \in [Connections -> [Names -> Names]]
  /\ \A k \in Connections, n \in Names :
       Host[Namesake[k][n]] = k /\ (Host[n] = k => Namesake[k][n] = n)
  /\ Specs \subseteq UserSpec
  /\ MaxContent \in Nat
  /\ \A s \in Specs : s.ident = "secret" => MaxContent > 0
  /\ Edited \subseteq Objects
  /\ Moves \subseteq Connections \X Connections
  /\ Unset \notin Names
  /\ Foreign \notin Objects
  /\ Absent \notin Account \cup Objects \cup {Foreign}
  /\ Faults \subseteq FaultKinds

VARIABLES
  pc,         \* the call the worker makes next
  frame,      \* the worker's other local variables
  admin,      \* admin[k]: is AdminConnection k usable?
  database,   \* database[d]: "missing", or there, with a Status.Name ("ready") or without
  secret,     \* secret[o]: the secret the spec of o names
  accounts,   \* accounts[n]: the account n on the server, or Absent
  ledger      \* ledger[o]: the usernames of the rows whose uuid is o, one a server

mysql == <<accounts, ledger>>
world == <<admin, database, secret>>
vars  == <<k8s, pc, frame, world, mysql>>

-----------------------------------------------------------------------------
(* Objects, secrets and accounts.                                          *)

Phases   == {"absent", "live", "deleting", "gone"}
Messages == {"none", "unreachable", "created", "renamed", "altered",
             "refused", "invalid"}
Line     == Names \X Databases     \* GRANT ALL ON database TO name
Status   == [username : Names \cup {Unset}, version : Contents, tls : BOOLEAN,
             databases : SUBSET Databases, grants : SUBSET Line,
             message : Messages]
User     == [phase : Phases, finalizer : BOOLEAN, spec : Specs, status : Status]
Frame    == [secret : Contents, todo : SUBSET Databases,
             granting : SUBSET Databases, creating : BOOLEAN,
             failed : BOOLEAN, changed : BOOLEAN]

NoStatus     == [username |-> Unset, version |-> 0, tls |-> FALSE,
                 databases |-> {}, grants |-> {}, message |-> "none"]
NewObject(s) == [phase |-> "live", finalizer |-> FALSE, spec |-> s,
                 status |-> NoStatus]
NeverCreated(s) == [NewObject(s) EXCEPT !.phase = "absent"]
NewFrame     == [secret |-> 0, todo |-> {}, granting |-> {},
                 creating |-> FALSE, failed |-> FALSE, changed |-> FALSE]
ForeignAccount == [creator |-> Foreign, password |-> 0, tls |-> FALSE, grants |-> {}]

Exists(n) == accounts[n] # Absent
name      == inst.status.username    \* the name every statement but RENAME uses

\* The AdminConnection that a copy names, and whether a reconcile can use it.
Server(i) == Host[i.spec.username]
Reach(i)  == admin[Server(i)]

Goto(step)    == pc' = step
SetMessage(m) == inst' = [inst EXCEPT !.status.message = m]
SetAccount(n, a) == accounts' = [accounts EXCEPT ![n] = a]

Succeeds == {TRUE} \cup (IF "write" \in Faults THEN {FALSE} ELSE {})

\* Variant: the UserLoopContext is kept for the next reconcile.
DoneVariant(requeue) == Return(requeue) /\ Goto("idle") /\ UNCHANGED frame

\* Reconcile returns; `frame` is a local variable of it.
Done(requeue) == Return(requeue) /\ Goto("idle") /\ frame' = NewFrame

K8sOnly == UNCHANGED <<world, mysql>>
SqlOnly == UNCHANGED <<store, queue, obj, fresh, world>>

\* An error inside the last branch is logged, and lost with the shadowed err.
GiveUp == Done(FALSE) /\ UNCHANGED store

-----------------------------------------------------------------------------
(* Reconcile, up to the secret.                                            *)

\* Variant: an object under deletion is taken for gone.
NothingToDoVariant(i) == i.phase # "live"

NothingToDo(i) ==
  \/ i.phase \in {"absent", "gone"}
  \/ i.phase = "deleting" /\ ~i.finalizer

Skip(o) ==
  /\ pc = "idle" /\ o \in queue
  /\ NothingToDo(cached[o])
  /\ queue' = queue \ {o}
  /\ UNCHANGED <<store, worker, pc, frame>>
  /\ K8sOnly

Begin(o, step) ==
  /\ pc = "idle"
  /\ Take(o)
  /\ ~NothingToDo(cached[o])
  /\ Goto(step)
  /\ UNCHANGED frame /\ K8sOnly

\* Spec.Host of the nil AdminConnection is dereferenced for the log line.
FinalizeUnreachable(o) ==
  cached[o].phase = "deleting" /\ ~Reach(cached[o]) /\ Begin(o, "panic")

FinalizeStart(o) ==
  cached[o].phase = "deleting" /\ Reach(cached[o]) /\ Begin(o, "finalize")

Unreachable(o) == cached[o].phase = "live" /\ ~Reach(cached[o]) /\ Begin(o, "report")

Start(o) == cached[o].phase = "live" /\ Reach(cached[o]) /\ Begin(o, "secret")

\* GetSecret, and createSecret when there is none.
ReadSecret ==
  /\ pc = "secret"
  /\ inst.spec.ident # "secret" \/ secret[obj].content > 0
  /\ frame' = [frame EXCEPT !.secret =
                 IF inst.spec.ident = "secret" THEN secret[obj].content ELSE 0]
  /\ Goto("claim")
  /\ UNCHANGED inst /\ SqlOnly /\ UNCHANGED mysql

CreateSecret ==
  /\ pc = "secret" /\ inst.spec.ident = "secret" /\ secret[obj].content = 0
  /\ \/ /\ secret' = [secret EXCEPT ![obj].content = 1]
        /\ frame' = [frame EXCEPT !.secret = 1]
        /\ Goto("claim")
        /\ UNCHANGED <<k8s, admin, database, mysql>>
     \/ /\ "update" \in Faults
        /\ Done(TRUE) /\ UNCHANGED store /\ K8sOnly

-----------------------------------------------------------------------------
(* Ownership.                                                              *)

\* The names UserMine looks at: the wanted one and the one in use.
NamesOf(i) == {i.spec.username} \cup ({i.status.username} \ {Unset})

\* Variant: only the wanted name is looked up.
UserMineVariant(i) == Exists(i.spec.username) => i.spec.username \in ledger[obj]

\* "If it doesn't exist, go ahead and take it!"  Otherwise the row of this
\* UID must name the account.
UserMine(i) == \A n \in NamesOf(i) : Exists(n) => n \in ledger[obj]

\* A failed lookup of an account answers that it is free, one of the row
\* that it is somebody else's.
MineAnswers(i) ==
  {UserMine(i)} \cup
  (IF "read" \in Faults
   THEN {TRUE} \cup {~Exists(n) : n \in NamesOf(i)}
   ELSE {})

ExistsAnswers(n) == {Exists(n)} \cup (IF "read" \in Faults THEN {FALSE} ELSE {})

-----------------------------------------------------------------------------
(* Updates of the object; these errors are returned.                       *)

Accepted  == fresh
Refusable == ~fresh \/ "update" \in Faults

Update(new) ==
  /\ \/ Accepted /\ Write(new) /\ Done(FALSE)
     \/ Refusable /\ UNCHANGED store /\ Done(TRUE)
  /\ K8sOnly

\* "Ensuring old/new username is always set."
ClaimName ==
  /\ pc = "claim" /\ inst.status.username = Unset
  /\ TRUE \in MineAnswers(inst)
  /\ Update([api[obj] EXCEPT !.status.username = inst.spec.username])

Named == \/ inst.status.username # Unset
         \/ FALSE \in MineAnswers(inst)

\* Variant: the secret is used without an owner reference.
SecretOwnedVariant == TRUE

SecretOwned == frame.secret = 0 \/ secret[obj].owned

\* SetControllerReference, then an update of the secret that was read.  The
\* secret is watched: an update of an owned one queues its owner.
OwnSecret ==
  /\ pc = "claim" /\ Named /\ ~SecretOwned
  /\ \/ /\ secret[obj].content = frame.secret
        /\ secret' = [secret EXCEPT ![obj].owned = TRUE]
        /\ Done(TRUE)
     \/ /\ secret[obj].content # frame.secret \/ "update" \in Faults
        /\ UNCHANGED secret
        /\ Done(TRUE)
  /\ UNCHANGED <<store, admin, database, mysql>>

\* Variant: the finalizer is left for a later reconcile.
NeedsFinalizerVariant(i) == FALSE

NeedsFinalizer(i) == ~i.finalizer

AddFinalizer ==
  /\ pc = "claim" /\ Named /\ SecretOwned /\ NeedsFinalizer(inst)
  /\ Update([api[obj] EXCEPT !.finalizer = TRUE])

Settle ==
  /\ pc = "claim" /\ Named /\ SecretOwned /\ ~NeedsFinalizer(inst)
  /\ inst.status.username # Unset
  /\ Goto("exists")
  /\ UNCHANGED <<inst, frame>> /\ SqlOnly /\ UNCHANGED mysql

InvalidName ==
  /\ pc = "claim" /\ Named /\ SecretOwned /\ ~NeedsFinalizer(inst)
  /\ inst.status.username = Unset
  /\ Update([api[obj] EXCEPT !.status.message = "invalid"])

\* The error is nil when the AdminConnection does not exist.
SaveReport ==
  /\ pc = "report"
  /\ \/ /\ Accepted
        /\ Write([api[obj] EXCEPT !.status.message = "unreachable"])
        /\ \E unusable \in BOOLEAN : Done(unusable)
     \/ Refusable /\ UNCHANGED store /\ Done(TRUE)
  /\ K8sOnly

\* The last branch: the error of the status update is lost as well.  Only a
\* reconcile that changed something sets a time stamp.
SaveStatus ==
  /\ pc = "status"
  /\ \/ /\ Accepted
        /\ \/ Write([api[obj] EXCEPT !.status = inst.status])
           \/ /\ frame.changed
              /\ WriteStamped([api[obj] EXCEPT !.status = inst.status])
     \/ Refusable /\ UNCHANGED store
  /\ Done(FALSE)
  /\ K8sOnly

-----------------------------------------------------------------------------
(* userDetailString and userCreate.                                        *)

\* Variant: CREATE USER, too, has a password for a new version only.
PasswordVariant ==
  IF inst.spec.ident = "secret" /\ inst.status.version # frame.secret
  THEN secret[obj].content ELSE 0

\* The secret is read a second time; its version is the one read first.
Password == IF inst.spec.ident = "secret" THEN secret[obj].content ELSE 0

\* Only a spec with Identification applies TlsOptions, and only a difference
\* to the status does.
TlsClause(i) == i.spec.ident = "secret" /\ i.spec.tls # i.status.tls
Identified(i) ==
  IF i.spec.ident = "secret"
  THEN [i.status EXCEPT !.version = frame.secret, !.tls = i.spec.tls]
  ELSE i.status

\* Without AuthString there is no secret whose ResourceVersion could be taken.
NilSecret ==
  /\ pc \in {"create", "details"} /\ inst.spec.ident = "plugin"
  /\ Goto("panic")
  /\ UNCHANGED <<inst, frame>> /\ SqlOnly /\ UNCHANGED mysql

CheckExists ==
  /\ pc = "exists"
  /\ \E found \in ExistsAnswers(name) : Goto(IF found THEN "mine" ELSE "create")
  /\ UNCHANGED <<inst, frame>> /\ SqlOnly /\ UNCHANGED mysql

\* CREATE USER makes the account in use, Status.Username.
CreateUser ==
  /\ pc = "create" /\ inst.spec.ident # "plugin"
  /\ \/ /\ ~Exists(name)
        /\ SetAccount(name, [creator |-> obj, password |-> Password,
                             tls |-> TlsClause(inst) /\ inst.spec.tls,
                             grants |-> {}])
        /\ inst' = [inst EXCEPT !.status = [Identified(inst) EXCEPT
                      !.grants = {}, !.message = "created"]]
        /\ frame' = [frame EXCEPT !.todo = inst.spec.databases,
                                  !.creating = TRUE, !.changed = TRUE]
        /\ Goto("grant")
        /\ SqlOnly
     \/ /\ Exists(name) \/ FALSE \in Succeeds
        /\ GiveUp /\ UNCHANGED <<world, accounts>>
  /\ UNCHANGED ledger

\* The object's rows on other servers than the one that is in use.
Elsewhere == {n \in ledger[obj] : Host[n] # Server(inst)}

\* The row gets Spec.Username; a failure is only logged.
RecordedName(i) == i.spec.username

SaveRecord ==
  /\ pc = "record"
  /\ \E ok \in Succeeds :
       ledger' = IF ok THEN [ledger EXCEPT ![obj] = Elsewhere \cup {RecordedName(inst)}]
                 ELSE ledger
  /\ \/ frame.failed /\ GiveUp /\ UNCHANGED world
     \/ ~frame.failed /\ Goto("status") /\ UNCHANGED <<inst, frame>> /\ SqlOnly
  /\ UNCHANGED accounts

-----------------------------------------------------------------------------
(* userUpdate: rename, else identification, else permissions.              *)

CheckMine ==
  /\ pc = "mine"
  /\ \E mine \in MineAnswers(inst) :
       \/ mine /\ inst' = inst
          /\ Goto(IF inst.spec.username # name THEN "rename" ELSE "details")
       \/ ~mine /\ SetMessage("refused") /\ Goto("status")
  /\ UNCHANGED frame /\ SqlOnly /\ UNCHANGED mysql

Renamable == Exists(name) /\ ~Exists(inst.spec.username)

RenameUser ==
  /\ pc = "rename"
  /\ \/ /\ Renamable
        /\ accounts' = [accounts EXCEPT ![inst.spec.username] = accounts[name],
                                        ![name] = Absent]
        /\ inst' = [inst EXCEPT !.status.username = inst.spec.username,
                                !.status.message = "renamed"]
        /\ frame' = [frame EXCEPT !.changed = TRUE]
        /\ Goto("record")
        /\ SqlOnly
     \/ /\ ~Renamable \/ FALSE \in Succeeds
        /\ GiveUp /\ UNCHANGED <<world, accounts>>
  /\ UNCHANGED ledger

\* Variant: a password is applied only when none was before.
PasswordChangedVariant(i) == i.spec.ident = "secret" /\ i.status.version = 0

PasswordChanged(i) == i.spec.ident = "secret" /\ i.status.version # frame.secret

\* Variant: ALTER USER is for TLS only.
DetailsDifferVariant(i) == TlsClause(i)

DetailsDiffer(i) == PasswordChanged(i) \/ TlsClause(i)

AlterUser ==
  /\ pc = "details" /\ inst.spec.ident # "plugin" /\ DetailsDiffer(inst)
  /\ \/ /\ Exists(name)
        /\ SetAccount(name, [accounts[name] EXCEPT
             !.password = IF PasswordChanged(inst) THEN Password ELSE @,
             !.tls = IF TlsClause(inst) THEN inst.spec.tls ELSE @])
        /\ inst' = [inst EXCEPT !.status =
                      [Identified(inst) EXCEPT !.message = "altered"]]
        /\ frame' = [frame EXCEPT !.changed = TRUE]
        /\ Goto("status")
        /\ SqlOnly
     \/ /\ ~Exists(name) \/ FALSE \in Succeeds
        /\ GiveUp /\ UNCHANGED <<world, accounts>>
  /\ UNCHANGED ledger

KeepUser ==
  /\ pc = "details" /\ inst.spec.ident # "plugin" /\ ~DetailsDiffer(inst)
  /\ Goto("permissions")
  /\ UNCHANGED <<inst, frame>> /\ SqlOnly /\ UNCHANGED mysql

\* grantStatusUpdate adds the lines of SHOW GRANTS to the status, and keeps
\* the old ones, those of an earlier name too.
Shown == inst.status.grants \cup ({name} \X accounts[name].grants)

PermissionListEqual(i) ==
  /\ Cardinality(i.status.grants) = Cardinality(i.spec.databases)
  /\ i.status.databases = i.spec.databases

\* Variant: the stored list of Databases says whether something was granted.
RevokesVariant(i) == i.status.databases # {}

Revokes(i) == i.status.grants # {}

CompareGrants ==
  /\ pc = "permissions"
  /\ \/ /\ Exists(name)
        /\ LET shown == [inst EXCEPT !.status.grants = Shown]
               differ == \/ shown.status.grants # inst.status.grants
                         \/ ~PermissionListEqual(shown)
           IN  /\ inst' = shown
               /\ frame' = [frame EXCEPT !.changed = differ,
                              !.todo = IF differ THEN inst.spec.databases ELSE {}]
               /\ Goto(IF ~differ THEN "status"
                       ELSE IF Revokes(shown) THEN "revoke"
                       ELSE "grant")
        /\ SqlOnly
     \/ /\ ~Exists(name) \/ "read" \in Faults
        /\ GiveUp /\ UNCHANGED world
  /\ UNCHANGED mysql

\* REVOKE ALL PRIVILEGES; the status is emptied with it.
RevokeAll ==
  /\ pc = "revoke"
  /\ \/ /\ Exists(name)
        /\ SetAccount(name, [accounts[name] EXCEPT !.grants = {}])
        /\ \/ /\ inst' = [inst EXCEPT !.status.databases = {}, !.status.grants = {}]
              /\ Goto("grant")
              /\ UNCHANGED frame /\ SqlOnly
           \/ "read" \in Faults /\ GiveUp /\ UNCHANGED world
     \/ /\ ~Exists(name) \/ FALSE \in Succeeds
        /\ GiveUp /\ UNCHANGED <<world, accounts>>
  /\ UNCHANGED ledger

-----------------------------------------------------------------------------
(* grant.                                                                  *)

Leave == IF frame.creating THEN "record" ELSE "status"

\* Client.Get.  Without a Status.Name nothing is granted, whatever DatabaseMine
\* then answers.
LookUp(d) ==
  /\ pc = "grant" /\ d \in frame.todo /\ database[d] # "missing"
  /\ frame' = [frame EXCEPT !.todo = @ \ {d},
                            !.granting = IF database[d] = "ready" THEN {d} ELSE {}]
  /\ Goto(IF database[d] = "ready" THEN "grantMine" ELSE "grant")
  /\ UNCHANGED <<inst, mysql>> /\ SqlOnly

\* DatabaseMine, which asks for the schema and its row on the user's server:
\* those are DatabaseReconciler's, and here it may answer either.
CheckGrant ==
  /\ pc = "grantMine"
  /\ \/ Goto("grantOne") /\ UNCHANGED frame
     \/ Goto("grant") /\ frame' = [frame EXCEPT !.granting = {}]
  /\ UNCHANGED <<inst, mysql>> /\ SqlOnly

\* Whatever the Database has come to since; a failed GRANT is only logged.
GrantOne ==
  /\ pc = "grantOne"
  /\ \E ok \in Succeeds :
       IF ok /\ Exists(name)
       THEN SetAccount(name, [accounts[name] EXCEPT !.grants = @ \cup frame.granting])
       ELSE UNCHANGED accounts
  /\ frame' = [frame EXCEPT !.granting = {}]
  /\ Goto("grant")
  /\ UNCHANGED <<inst, ledger>> /\ SqlOnly

\* A Database that is not there is an error: the rest of the list is skipped.
GrantMissing(d) ==
  /\ pc = "grant" /\ d \in frame.todo /\ database[d] = "missing"
  /\ \/ /\ frame.creating
        /\ frame' = [frame EXCEPT !.todo = {}, !.failed = TRUE]
        /\ Goto("record")
        /\ UNCHANGED inst /\ SqlOnly
     \/ ~frame.creating /\ GiveUp /\ UNCHANGED world
  /\ UNCHANGED mysql

ShowGrants ==
  /\ pc = "grant" /\ frame.todo = {}
  /\ \/ /\ Exists(name)
        /\ inst' = [inst EXCEPT !.status.databases = inst.spec.databases,
                                !.status.grants = Shown]
        /\ Goto(Leave)
        /\ UNCHANGED frame /\ SqlOnly
     \/ /\ ~Exists(name) \/ "read" \in Faults
        /\ \/ /\ frame.creating
              /\ frame' = [frame EXCEPT !.failed = TRUE]
              /\ Goto("record")
              /\ UNCHANGED inst /\ SqlOnly
           \/ ~frame.creating /\ GiveUp /\ UNCHANGED world
  /\ UNCHANGED mysql

-----------------------------------------------------------------------------
(* finalizeUser: neither error stops it.                                   *)

CheckFinalize ==
  /\ pc = "finalize"
  /\ \E mine \in MineAnswers(inst) : Goto(IF mine THEN "drop" ELSE "removeFinalizer")
  /\ UNCHANGED <<inst, frame>> /\ SqlOnly /\ UNCHANGED mysql

\* DROP USER IF EXISTS the account in use, whichever name is wanted.  With an
\* empty Status.Username that is the anonymous account, which is none of Names.
DropUser ==
  /\ pc = "drop"
  /\ \/ accounts' = [n \in Names |-> IF n = name THEN Absent ELSE accounts[n]]
     \/ "drop" \in Faults /\ UNCHANGED accounts
  /\ Goto("forget")
  /\ UNCHANGED <<inst, frame, ledger>> /\ SqlOnly

ForgetRecord ==
  /\ pc = "forget"
  /\ \/ ledger' = [ledger EXCEPT ![obj] = Elsewhere]
     \/ "forget" \in Faults /\ UNCHANGED ledger
  /\ Goto("removeFinalizer")
  /\ UNCHANGED <<inst, frame, accounts>> /\ SqlOnly

\* The last finalizer is gone: the API server removes the object.
RemoveFinalizer ==
  /\ pc = "removeFinalizer"
  /\ Update([api[obj] EXCEPT !.finalizer = FALSE, !.phase = "gone"])

-----------------------------------------------------------------------------
(* The process, the users of the custom resources, events, other clients.  *)

Still == UNCHANGED <<pc, frame>>

Restart == Relist /\ Goto("idle") /\ frame' = NewFrame /\ K8sOnly
Crash   == "crash" \in Faults /\ Restart
Respawn == pc = "panic" /\ Restart

UserCreate(o) ==
  /\ api[o].phase = "absent"
  /\ \E s \in Specs : Submit(o, NewObject(s))
  /\ Still /\ K8sOnly

UserEdit(o) ==
  /\ o \in Edited /\ api[o].phase \in {"live", "deleting"}
  /\ \E s \in Specs \ {api[o].spec} :
       Host[s.username] = Server(api[o]) /\ Submit(o, [api[o] EXCEPT !.spec = s])
  /\ Still /\ K8sOnly

\* An edit that names another AdminConnection changes nothing of the status,
\* which is then read as one of the account of that name on the other server.
Moved(status, k) ==
  [status EXCEPT !.username = IF @ = Unset THEN Unset ELSE Namesake[k][@],
                 !.grants = {<<Namesake[k][l[1]], l[2]>> : l \in @}]

UserMove(o) ==
  /\ o \in Edited /\ api[o].phase \in {"live", "deleting"}
  /\ \E s \in Specs : LET k == Host[s.username] IN
       /\ k # Server(api[o]) /\ <<Server(api[o]), k>> \in Moves
       /\ Submit(o, [api[o] EXCEPT !.spec = s, !.status = Moved(@, k)])
  /\ Still /\ K8sOnly

UserDelete(o) ==
  /\ api[o].phase = "live"
  /\ Submit(o, [api[o] EXCEPT
       !.phase = IF api[o].finalizer THEN "deleting" ELSE "gone"])
  /\ Still /\ K8sOnly

Watch(o) == Observe(o) /\ Still /\ K8sOnly

Resync == Enqueue(Objects) /\ Still /\ K8sOnly

\* A user writes the secret; Owns(Secret) queues the object that owns it.
SecretWrite(o) ==
  /\ secret[o].content < MaxContent
  /\ secret' = [secret EXCEPT ![o].content = @ + 1]
  /\ Enqueue({p \in {o} : secret[p].owned})
  /\ Still /\ UNCHANGED <<admin, database, mysql>>

\* findObjectsForDatabase: the objects whose spec lists the Database.
DatabaseChange(d) ==
  /\ \E s \in {"missing", "pending", "ready"} \ {database[d]} :
       database' = [database EXCEPT ![d] = s]
  /\ Enqueue({o \in Objects : d \in cached[o].spec.databases})
  /\ Still /\ UNCHANGED <<admin, secret, mysql>>

\* findObjectsForAdminConnection: the objects whose spec names it.
Mapped(k) == {o \in Objects : Server(cached[o]) = k}

\* An AdminConnection, which is watched, or its server, which is not.  No call
\* of a reconcile that is under way looks at it again.
AdminChange(k) ==
  /\ "offline" \in Faults /\ pc = "idle"
  /\ admin' = [admin EXCEPT ![k] = ~@]
  /\ \E keys \in {{}, Mapped(k)} : Enqueue(keys)
  /\ Still /\ UNCHANGED <<database, secret, mysql>>

ExternalCreate(n) ==
  /\ "external" \in Faults /\ ~Exists(n)
  /\ SetAccount(n, ForeignAccount)
  /\ Still /\ UNCHANGED <<k8s, world, ledger>>

ExternalDrop(n) ==
  /\ "external" \in Faults /\ Exists(n)
  /\ SetAccount(n, Absent)
  /\ Still /\ UNCHANGED <<k8s, world, ledger>>

-----------------------------------------------------------------------------
(* Specification.                                                          *)

Init ==
  /\ \E s \in Specs : K8sInit([o \in Objects |-> NeverCreated(s)])
  /\ pc = "idle" /\ frame = NewFrame
  /\ admin = [k \in Connections |-> TRUE]
  /\ database = [d \in Databases |-> "missing"]
  /\ secret = [o \in Objects |-> [content |-> 0, owned |-> FALSE]]
  /\ accounts \in [Names -> {Absent, ForeignAccount}]
  /\ ledger = [o \in Objects |-> {}]

BeginReconcile(o) ==
  \/ Skip(o)
  \/ FinalizeUnreachable(o) \/ FinalizeStart(o) \/ Unreachable(o) \/ Start(o)

\* The calls of a reconcile that is under way.
Progress ==
  \/ ReadSecret \/ CreateSecret \/ ClaimName \/ OwnSecret \/ AddFinalizer
  \/ Settle \/ InvalidName \/ SaveReport \/ SaveStatus
  \/ NilSecret \/ CheckExists \/ CreateUser \/ SaveRecord
  \/ CheckMine \/ RenameUser \/ AlterUser \/ KeepUser
  \/ CompareGrants \/ RevokeAll \/ CheckGrant \/ GrantOne \/ ShowGrants
  \/ \E d \in Databases : LookUp(d) \/ GrantMissing(d)
  \/ CheckFinalize \/ DropUser \/ ForgetRecord \/ RemoveFinalizer

Operator == Progress \/ \E o \in Objects : BeginReconcile(o)

Environment ==
  \/ Crash \/ Respawn \/ Resync
  \/ \E k \in Connections : AdminChange(k)
  \/ \E o \in Objects :
       \/ UserCreate(o) \/ UserEdit(o) \/ UserMove(o) \/ UserDelete(o)
       \/ Watch(o) \/ SecretWrite(o)
  \/ \E d \in Databases : DatabaseChange(d)
  \/ \E n \in Names : ExternalCreate(n) \/ ExternalDrop(n)

Next == Operator \/ Environment

Spec == Init /\ [][Next]_vars

\* As in DatabaseReconciler.
Fairness ==
  /\ WF_vars(Progress)
  /\ WF_vars(Resync)
  /\ \A o \in Objects : WF_vars(Watch(o)) /\ SF_vars(BeginReconcile(o))

FairSpec == Spec /\ Fairness

-----------------------------------------------------------------------------
(* Types.                                                                  *)

Steps == {"idle", "panic", "report", "secret", "claim", "exists", "mine",
          "create", "grant", "grantMine", "grantOne", "record", "rename",
          "details", "permissions", "revoke", "status", "finalize", "drop",
          "forget", "removeFinalizer"}

\* Every variable has its type, the worker holds an object exactly while it is
\* between two calls of Reconcile, and no local variable outlives one.
TypeOK ==
  /\ api \in [Objects -> User] /\ cached \in [Objects -> User]
  /\ synced \subseteq Objects /\ queue \subseteq Objects
  /\ obj \in Objects \cup {NoObject}
  /\ inst \in User \cup {NoObject}
  /\ fresh \in BOOLEAN
  /\ pc \in Steps /\ frame \in Frame
  /\ admin \in [Connections -> BOOLEAN]
  /\ database \in [Databases -> {"missing", "pending", "ready"}]
  /\ secret \in [Objects -> [content : Contents, owned : BOOLEAN]]
  /\ accounts \in [Names -> Account \cup {Absent}]
  /\ ledger \in [Objects -> SUBSET Names]
  /\ pc = "idle" <=> obj = NoObject
  /\ pc = "idle" => frame = NewFrame
  /\ pc # "idle" => inst \in User

-----------------------------------------------------------------------------
(* Ownership of accounts.                                                  *)

OwnedBy(n, o) == Exists(n) /\ accounts[n].creator = o

\* An account that is there is altered, renamed, granted to, revoked from and
\* dropped only by the reconcile of the object it was created for, whatever
\* names are claimed, edited and swapped meanwhile (UserMine).
OnlyCreatorActs ==
  [][\A n \in Names :
       Exists(n) /\ accounts'[n] # accounts[n] =>
         obj \in Objects /\ OwnedBy(n, obj)]_vars

\* CREATE USER runs only while the stored object carries the finalizer that
\* will drop the account again.
CreatedUnderFinalizer ==
  [][\A n \in Names, o \in Objects :
       (~Exists(n) /\ OwnedBy(n, o)') /\ pc = "create" => Guarded(api[o])]_vars

-----------------------------------------------------------------------------
(* Credentials and privileges.                                             *)

\* A stored status never claims a version of the secret that its account has
\* not seen, so that a rotation during a reconcile is never taken for applied.
VersionApplied ==
  \A o \in Objects : \A n \in Names :
    api[o].status.username = n /\ OwnedBy(n, o)
    => api[o].status.version <= accounts[n].password

Taken(o) ==
  /\ Exists(api[o].spec.username) /\ ~OwnedBy(api[o].spec.username, o)
  /\ api[o].status.message \in {"invalid", "refused"}

Quiet == pc = "idle" /\ queue = {} /\ synced = Objects

Current(o) ==
  LET n == api[o].spec.username IN
  /\ OwnedBy(n, o)
  /\ api[o].spec.ident = "secret" =>
       /\ secret[o].owned
       /\ accounts[n].password = secret[o].content

\* Once nothing is queued, cached late or under way, no event that mattered was
\* missed: the account of a live object has the password of its secret, on the
\* server that it names, unless its name is taken there and its status says so,
\* and no deletion is left over.
Settled ==
  Quiet => \A o \in Objects : Reach(api[o]) =>
    /\ api[o].phase # "deleting"
    /\ api[o].phase = "live" => Current(o) \/ Taken(o)

\* Then no account on the server that its object names has a privilege that the
\* spec does not list, whatever was granted by reconciles of older specs whose
\* status was lost, or to a Database that has changed meanwhile.
NoExcess ==
  Quiet => \A o \in Objects, n \in Names :
    Reach(api[o]) /\ api[o].phase = "live" /\ OwnedBy(n, o) /\ Host[n] = Server(api[o])
    => accounts[n].grants \subseteq api[o].spec.databases

\* The password that stays in the secret, which is written MaxContent times at
\* most, reaches the account of a live object that users leave alone, on the
\* server that it names, unless somebody else has the name there.
PasswordApplied ==
  \A o \in Objects, s \in Specs :
    <>[](/\ api[o].phase = "live" /\ api[o].spec = s
         /\ s.ident = "secret" /\ secret[o].content > 0
         /\ ~(Exists(s.username) /\ accounts[s.username].creator # o))
    => <>[](Exists(s.username) /\ accounts[s.username].password = secret[o].content)

\* No object is deleted forever.
Finalized ==
  \A o \in Objects, s \in Specs :
    ~<>[](api[o].phase = "deleting" /\ api[o].spec = s)

-----------------------------------------------------------------------------
(* What comments promise and the code does not keep.                       *)

\* "Tolerate a user rename" (userUpdate): a name that an edit of the spec gives
\* up is given up on the server as well.
RenameTolerated ==
  Quiet => \A o \in Objects, n \in Names :
    Reach(api[o]) /\ api[o].phase = "live" /\ OwnedBy(n, o) /\ Host[n] = Server(api[o])
    => n = api[o].spec.username

\* Status.Grants "identifies the current permissions of the user as indicated
\* by SHOW GRANTS" (databaseuser_types.go).
GrantsShown ==
  Quiet => \A o \in Objects : LET n == api[o].status.username IN
    Reach(api[o]) /\ api[o].phase = "live" /\ n # Unset /\ Exists(n)
    => {l \in api[o].status.grants : l[1] = n} = {n} \X accounts[n].grants

=============================================================================
