# A TLA+ model of mysql-dba-operator

The operator reconciles three Kubernetes custom resources, `AdminConnection`,
`Database` and `DatabaseUser`, with MySQL servers: it creates, alters and drops
databases and accounts, and keeps a ledger of what it made in a control
database (`zz_dba_operator`) on each server. The modules here model its three
controllers call by call, the connection cache they share, the admission
webhook, and what all of them rely on of Kubernetes and of MySQL. TLC checks
them on small instances; TLAPS proves the safety properties that matter most for
all instances; and the Database and the DatabaseUser controller are shown, by
TLC and by TLAPS, to implement one abstract specification of what they promise.

All paths below are relative to the repository's root; line numbers are those
of the modelled commit.

## Inventory

| Part | State it keeps | Operations | What is hard |
|---|---|---|---|
| Database controller (`controllers/database_controller.go`) | none between reconciles; in one: its copy of the object, its position | create, alter, drop a schema; add and remove the finalizer; write the status | a dozen statements and updates, each of which can fail or be overtaken by a user, the cache, a crash or another client |
| DatabaseUser controller (`controllers/databaseuser_controller.go`) | same, and the secret it read, the list of privileges still to grant | claim a name, own or create a secret, create, rename, alter, grant, revoke, drop an account | the name and the AdminConnection can be edited; a secret is read twice; a Database is checked and granted on in three calls; privileges are compared through the stored status; most errors are lost in a shadowed `err` (line 189) |
| Ownership (`DatabaseMine`, `UserMine` in `api/v1alpha1/adminconnection_types.go`, `orm/model.go`) | tables `managed_databases`, `managed_users`, keyed by UID | look up the account or schema, then the row | "does not exist" and "lookup failed" are one answer, and it means "take it" |
| Connection cache (`GetDatabaseConnection`, `orm/cache.go`) | one map, shared by three controllers | ping, replace, close pools | no lock; a pool may be closed in use; entries are never evicted |
| AdminConnection controller (`controllers/adminconnection_controller.go`) | none | read the server's character sets into the status, query by query | each run changes the status, which triggers the next, and all objects that refer to it |
| Admission webhook (`api/v1alpha1/database_webhook.go`) | none | forbids a change of `Spec.Name`, and of nothing else; validates the character set against the stored AdminConnection status | the status may be stale, and the check also applies to the removal of the finalizer |
| Kubernetes (external) | stored objects, informer cache, work queue | get, update, watch, requeue | optimistic concurrency, late caches, deduplicated keys, relist after a restart |
| MySQL (external) | schemas, accounts, privileges | statements | no transactions around DDL; other clients |
| Helpers (`api/v1alpha1/common.go`), `main.go` | none | `Escape`, `GeneratePassword`, secrets, start | |

How they interact: the three controllers run in one process, each with one
worker and its own queue. A reconcile reads its object from the informer cache,
fetches the AdminConnection, takes a pool from the shared cache, and then
alternates SQL statements with updates of the object. The DatabaseUser
controller also reads Database objects before it grants, and is queued when one
changes; both are queued when an AdminConnection changes. The webhook reads the
status that the AdminConnection controller stored, and judges every update of a
Database object by it, those of the Database controller included. Nothing else
orders the controllers.

What makes each part correct:

* Database: only the object a schema was created for drops it; a schema that
  was there before is left alone; nothing is created without a finalizer and
  nothing dropped without a deletion; a status that reports success is true;
  an object that is left alone gets its schema in the wanted character set, and
  deletions end and leave nothing behind on the server the object named last.
* DatabaseUser: the same for accounts; an account has the password of its
  secret and no privilege its spec does not list; a rename gives up the old name.
* Connection cache: a closed pool is not handed out; a pool in use is closed for
  a rotation only; a rotation leaks nothing; after one, everybody ends up with
  the new configuration.
* AdminConnection, webhook: a status that reports success is complete and comes
  to be right; what is admitted the server accepts; validation delays a
  finalizer but does not hold it for ever.

`PROJECT.json` lists, line by line, what is hard to test in this code
("hazards"), with the properties that would notice it going wrong.

## Modules

* `ApiServer`: the Kubernetes side of one controller, external to the
  repository. `api` holds the stored objects, `cached` the informer's copies,
  `queue` the keys, `obj`/`inst` the object in the worker's hands. A resource
  version is only ever compared for equality, so it is represented by the two
  comparisons: `synced` (is the cached copy the stored version) and `fresh`
  (is the worker's copy). `Take`, `Return`, `Write`, `Submit`, `Observe`,
  `Enqueue` and `Relist` are the steps the controllers are built from. It also
  states what a late copy still says of the stored object (`CacheInv`,
  `WorkerInv`).
* `DatabaseReconciler` (on `ApiServer`): the Database controller. `pc` names the
  next call of `Reconcile`; `server[s]` is the object that created database `s` (a
  history of who made it that the code itself does not have, and that the
  properties are about), `charset[s]` its default, `ledger[o]` the databases that
  rows of `o` name. A schema is a name on one server: `SpecName[o][k]` is the
  database called `Spec.Name` on the server of AdminConnection `k`, so that what a
  reconcile works on (`schema`) depends on the copy in its hands.
  Every `Exec`, `Find`, `First` and `Update` is one action, in the order of the
  source. `UserEdit` changes the character set, or the AdminConnection, of an
  object at any moment. The actions named `User...`, `External...`, `AdminChange`,
  `ServerChange`, `Watch`, `Resync` and `Crash` act between any two of them.
* `Ownership`: the abstract specification of both controllers, with no cache,
  queue, ledger or worker: each object is absent, live, protected, being deleted
  or gone, and each name (of a schema, or of an account) is free, somebody
  else's, or held by one object. `MayRename` lets users ask for another name;
  `MayLeave` lets an object vanish and leave the name that it asks for behind. A
  name that it asked for earlier may stay behind in any case.
* `DatabaseOwnership`: the refinement. The stage of an object is read off its
  stored version (`Stage`: a live object with the finalizer is protected), the
  holder of a name is `server`. To name another AdminConnection is to ask for
  another name, that of the database on the other server (`MayRename` is whether
  there are `Moves`). `MayLeave` is the one promise that depends on the faults: with
  failing statements an object may vanish and leave its database behind (see
  below).
* `DatabaseUserReconciler` (on `ApiServer`): the DatabaseUser controller in the
  same way. `frame` holds the local variables that outlive a call (the version of
  the secret that was read, the Databases still to be granted on and the one that
  is being checked, whether this is a creation, whether it failed, whether a time stamp was set). `accounts[n]`
  records creator, password version, TLS requirement and privileges. A name `n`
  is an account name on the server of AdminConnection `Host[n]`, and
  `Namesake[k][n]` is the account called the same on the server of `k`; so
  `spec.username` stands for `Spec.Username` and `Spec.AdminConnection`, `UserEdit`
  changes the specification on one server and `UserMove` also the server. A grant
  is three steps: Client.Get (`LookUp`), the SELECTs of `DatabaseMine`
  (`CheckGrant`), GRANT (`GrantOne`); the Database may change between any two.
* `DatabaseUserOwnership`: its refinement. The holder of a name is the object
  whose CREATE USER made the account (`Creator`; RENAME USER takes it along), the
  name an object asks for is that of its stored specification. `MayRename` is
  whether two specifications differ in the name or the server and some object is
  edited (`Asking`); `MayLeave` is whether two differ in the name on one server
  (`Renaming`), or a failing DROP.
* `ConnectionCache`: `GetDatabaseConnection`, `getDbConfig` and
  `createFreshConnection` as the goroutines of the controllers run them: reading
  user and password, lookup, ping, close, delete, connect, migrate, store, use
  are separate steps on one shared entry.
* `AdminConnectionReconciler` (on `ApiServer`): the AdminConnection controller,
  one action per query, and its deferred status update.
* `DatabaseWebhook`: `ValidateCharsetCollationCombo` as a predicate on a
  specification and the informer's copies of the AdminConnections.
* `Admission`: the composition of `AdminConnectionReconciler`, `DatabaseWebhook`
  and `Ownership` (in the place of the Database controller, which implements it):
  creation, edits and both updates of the finalizer pass the webhook, and a
  finalizer without a connection ends the process, AdminConnection controller
  included.
* `MC...`: instances for TLC. `...Proofs`: the proofs.

Definitions whose name ends in `Variant`, each placed before the definition it
varies, are plausible mistakes in the code; substituting one makes the property
it is meant for fail, which shows that the property depends on that code.

### Abstractions

* The informer may skip versions, as a relist does; it shows the latest.
* A character set and its collation travel together in the Database controller
  and are one value there; the webhook and the AdminConnection controller treat
  them separately, and so do their modules. `Spec.Name` of a Database is valid
  and a constant function of the UID, since the webhook refuses other names and
  changes.
* `Faults` selects what goes wrong in a run. A failed SELECT ("read") is what
  the orm makes of it, "no row". A failed write may have been applied before the
  answer was lost (Database); for accounts this is a crash after the statement.
* The few SELECTs of one `UserMine` are taken together, and so are those of
  `DatabaseMine` when the DatabaseUser controller calls it, where it may answer
  either way; in the Database controller they are separate steps. The second read
  of the secret is one step with the CREATE or ALTER USER that uses it.
* An AdminConnection is a server: that two of them lead to the same one, or that
  one is edited to lead to another, is not modelled. The copy of the AdminConnection
  and its connection are taken at the start of a reconcile, as in the code, so an
  edit of `Spec.AdminConnection` during it has no effect before the next one.
* An object that was refused its name gets a finalizer all the same. When the name
  has become free by the time the object is deleted, the finalizer runs
  `DROP USER IF EXISTS ''` with the empty `Status.Username`, which is the anonymous
  account and none of `Names`: the model drops nothing
  (`controllers/databaseuser_controller.go:574`).
* A password is the number of times its secret was written, which is also the
  secret's version, and the secret's cached copy is current whenever its event
  is delivered. Secrets that are deleted, or shared by two objects, are left
  out, as are authentication plugins and lists of individual privileges (a
  permission is a Database).
* A Database object, as the DatabaseUser controller sees it, is missing,
  pending, or ready (it is managed and has a name in its status).
* Namespaces matter for one thing only, the literal comparison in
  `findObjectsForAdminConnection`; `Qualified` holds the objects whose
  reference spells the namespace. An AdminConnection whose `AllowedNamespaces`
  leave an object out is, for that object, one that is not usable.
* An unrecovered panic ends the process (`pc = "panic"`), and the new process
  relists (`Respawn`). Backoff of requeued keys is not timed.
* The AdminConnection of a DatabaseUser changes between reconciles only, as no
  call of one that is under way looks at it again; statements that fail because
  it went away are covered by "write" and "read".
* `ConnectionCache` has one AdminConnection: entries of several meet only in the
  data race on the map. The race is undefined behaviour of which the model takes
  two outcomes: the accesses happen in some order, or the Go runtime notices and
  ends the process (`FatalRace`). User and password are versions, and a call may
  read one of each. A pool to which neither the map nor a call refers any more
  is forgotten, whether open or not, and its identity is used again.
* In `AdminConnectionReconciler`, `GetDatabaseConnection` is one step that
  succeeds while the server answers. The combinations that the server supports
  (`Supported`) never change, and an edit of the AdminConnection
  (`UserReconfigure`) does not lead to another server: that the webhook judges
  by the list of a server that the AdminConnection no longer names can therefore
  not happen here. Of the status, the message is reduced to whether it reports
  success, and the list of character sets to all or none. A Database reconcile
  that panics for want of a connection restarts the AdminConnection controller
  with the process (`Panic` in `Admission`).

## What is checked

| Run | Instance | Shows |
|---|---|---|
| `DatabaseOwnership` | 2 objects, 1 schema, 1 server; failing or unanswered writes, failing drops, refused updates, AdminConnection and server going away | `TypeOK`, `ExclusiveOwner`, `OnlyOwnerDrops`, `HonestStatus`, `ImplementsOwnership` |
| `DatabaseCrash` | 2 objects, 2 servers with a schema each; one object is moved from one to the other; crashes and every write failing | `ForeignUntouched`, `CreatedUnderFinalizer` |
| `DatabaseLifecycle` | the same objects, servers and move; no faults, fair | `NoOrphan`, `Settled`, `Provisioned`, `Finalized`, `ImplementsProgress` |
| `DatabaseDrift` | 1 object, 2 character sets, other clients create and drop the schema, fair | `CharsetApplied`, `DropOnlyDeleted` |
| `UserNames` | 2 objects, 2 names, each possibly taken by somebody else; one object's spec is edited | `OnlyCreatorActs`, `ImplementsOwnership` |
| `UserFaults` | 1 object, a secret written twice, TLS on or off, or an Identification without secret; all faults | `TypeOK`, `VersionApplied`, `CreatedUnderFinalizer` |
| `UserService` | 1 object, 2 servers with an account name each; the object is moved from one to the other; 1 Database that comes and goes, a secret written twice, no faults, fair | `Settled`, `NoExcess`, `VersionApplied`, `ImplementsOwnership`, `PasswordApplied`, `Finalized` |
| `ConnectionCache` | 2 workers, 3 pools, 2 versions of the administrator's credentials; secret, server and password change at any time, fair | `TypeOK`, `NeverPoisoned`, `ClosedOnlyByRotation`, `RotationCloses`, `Heals` |
| `Admission` | 1 AdminConnection, 1 Database, 2 character sets with a collation each, 5 specifications, 2 changes of the server, fair | `TypeOK`, `SuccessIsComplete`, `AdmittedIsSupported`, `StatusTracksServer`, `NotBlocked` |

Three runs expect a violation. Each shows a statement of the repository that the
code does not keep:

* `DatabasePanic` (`NoPanic`): an object is deleted while its AdminConnection is
  not usable; the log line at `controllers/database_controller.go:115`
  dereferences nil. The log text says "finalizing without dropping"; the process
  ends instead, and again after each restart, with all three controllers.
* `UserRename` (`RenameTolerated`): the spec is edited after the name was
  claimed and before CREATE USER; the row names the new name, the account has
  the old one, and `UserMine` is false from then on.
* `UserGrantsShown` (`GrantsShown`): REVOKE runs, the reconcile ends before the
  status is stored, and since `grantStatusUpdate` never takes a line off the
  status the object looks in sync: the privileges do not come back.

### Where the properties stop

The fault classes of a run are those under which its properties hold. The
others were tried as well; each of these breaks the property it is named with,
and the theorems below carry the same hypotheses. So do some edits of
`Spec.AdminConnection`.

* `NoOrphan` with "drop": DROP DATABASE fails, the row and the finalizer go all
  the same, the schema stays. The comment at
  `controllers/database_controller.go:106-108` promises a retry.
* `ForeignUntouched` with "read": a failed lookup in `DatabaseMine` permits what
  the repository's README (lines 47-48) rules out.
* A Database whose `Spec.AdminConnection` is edited (the webhook,
  `api/v1alpha1/database_webhook.go:79-83`, allows it) leaves its database and its
  row on the server that it named before: nothing in the code drops or moves them,
  then or when the object is deleted. `NoOrphan` is therefore about the server
  that the object names last, and `Ownership` lets earlier names stay behind; on the
  last server nothing stays, whichever copies the reconciles worked on. The same
  goes for the account of a DatabaseUser.
* `HonestStatus` with "write" when objects move: after a move the status still has
  the message of the success on the first server; CREATE DATABASE on the new one
  fails, or its answer is lost, and the status is stored with the character set that
  was prepared for it and the old message
  (`controllers/database_controller.go:244-251`). `StatusIsHonest` assumes
  that no CREATE, ALTER or INSERT fails where there are moves (`Steadfast`); the run
  has one server.
* A DatabaseUser that is moved takes its status along. `TlsOptions` that the status
  already has are not applied to the account on the new server. When it is moved
  back, the account of its first stay may have an older password than the version in
  the status says (`VersionApplied`); and if it had been cut off from that account as
  in `UserRename` and was renamed on the other server meanwhile, its old row on the
  first server names, and `UserMine` then accepts, an account that another object has
  made (`OnlyCreatorActs`). The run `UserService` has moves one way, and the theorems
  about accounts none (`Moves = {}` in their `Benign` and `Gentle`), except
  `TypeCorrect`, `FinalizerCorrect` and `CreatesUnderFinalizer`.
* The three calls of a grant: between Client.Get, `DatabaseMine` and GRANT
  (`controllers/databaseuser_controller.go:480`, 487, 500) the Database may be deleted
  and its schema may pass to another object; the code does not look again, so the
  privilege lands on whatever has the name. No property rules this out. `NoExcess`,
  which is checked with such changes, says that the specification lists every
  Database on which the account has privileges.
* `OnlyOwnerDrops` with "crash", or with "forget" and "update": a row that
  outlives its database makes a dying object the owner of what another object
  creates under the same name.
* `OnlyCreatorActs` with "write", "crash", "forget", "read" or "external": a row
  that was not written or not deleted, or a lookup that failed, is taken for
  "nobody's". It does hold with refused updates, failing drops and outages.
* A DatabaseUser that is deleted may leave its account once users rename: the name
  was edited before CREATE USER (as in `UserRename`), or the one it asks for now
  belongs to somebody else; either way `UserMine` is false, and the finalizer goes
  without a DROP. A status that is lost after RENAME USER makes the next reconcile
  create the old name again, so that one object holds two. `Ownership` concedes
  these only if `MayRename`; in the run `UserService`, where nobody renames and no
  DROP fails, `ImplementsOwnership` says that the account goes before the finalizer.
* `VersionApplied` when specifications with and without `Identification` follow
  each other on one object: an account that another client dropped, or one lost
  with a status after a rename, is created without a password while the status
  keeps the version of the secret, and the secret, once it is back, is not
  applied.
* `Status.TlsOptions` can differ from the account for good without any fault:
  `ALTER USER ... REQUIRE NONE` runs, the status update conflicts with an edit of
  the spec back to `required`, and since the stored status still says `required`
  nothing is altered again (`controllers/databaseuser_controller.go:436`).
* `NotBlocked` for a specification that gives only one of character set and
  collation: the webhook pairs it with the server's default of the other
  (`api/v1alpha1/database_webhook.go:113-127`), so that one that was admitted is
  refused after the default has changed, for the removal of its finalizer too.
  When the AdminConnection is gone every update of its Databases is refused.
* Connections leak when a ping fails (the entry is deleted and the pool not
  closed, `api/v1alpha1/adminconnection_types.go:221`), when the first ping of a
  new pool fails (line 248), and when two calls overlap; `RotationCloses` says
  that nothing else does.
* The AdminConnection controller never rests: each status update carries a time
  stamp and a list in random order, and its event starts the next reconcile
  (`controllers/adminconnection_controller.go:74`). `StatusTracksServer`
  says that at least the content is right in the end.

### Bounds

Two objects that ask for one schema (or two names) are enough for rivals: every
property relates at most two objects and one name on a server, and a third rival
would only repeat the part of the second. `DatabaseOwnership` and
`DatabaseDrift` have one server and no moves, because failing statements and
several character sets make them large; the properties of the former are proved
with moves as well (`HonestStatus` where none of its statements fails).
`DatabaseCrash` and `DatabaseLifecycle` have two servers (`Connections`, with
the schema of the one name on each): one object begins on either and may be
moved from the first to the second (`Places`, `Moves`), where its rival lives.
Moves in one direction end, as the premises of the liveness properties need;
`NoOrphan` and the refinement are proved for moves in any directions.
`UserService` has one move in the same way, and a name on each server; the runs
of other questions about accounts have one server. Two names are what a rename
and a swap need; only one of the two objects is edited there (`Edited`), since
the other one already holds either name. Two writes of a secret (`MaxContent`)
give the creation and a rotation at any point; one Database in three states
gives every outcome of a grant. In `ConnectionCache` two workers overlap in
every pair of steps, three pools let each hold one besides the entry, and two
versions are a rotation, which may repeat for ever. In `Admission` two changes
(`MaxChanges`) let the defaults change and change back, or the server go and
return, between any two queries; the five specifications are nothing, a valid
pair, half a pair, an invalid pair, and one without reference; the refusals of
rivals are left to the Database runs, so one Database is enough, whose name is
free (`Foreign` is `Absent`) and whose statements do not fail (`MayLeave =
FALSE`). Nothing else is bounded: objects are created once, as a UID is never
used again, and edits, retries, crashes and outages may repeat for ever.
Objects, or names, are interchangeable in the runs that declare a symmetry, and
those check no liveness.

### Fairness

`FairSpec` of the controllers assumes that a reconcile under way takes its next
step (`WF_vars(Progress)`: nothing in it waits for another object), that watch
events are delivered, that the resync period passes (controller-runtime
requeues every object each period, ten hours by default, which `main.go` does
not change), and that a key that is queued again and again is eventually
taken (`SF_vars(BeginReconcile(o))`: the queue is first in, first out, with one
worker per controller; it is strong because one key may leave and return with
another reconcile in between). No fairness is assumed of users, crashes, other
clients or outages. The liveness runs of these two controllers have no faults,
or other clients only, so they show that the event handling itself loses
nothing, not that a broken server is survived.

`ConnectionCache` assumes only that each worker's next step is taken (no call
waits for another). `Heals` has as its premise that secret and server agree from
some point on and that the runtime ends the process finitely often.

`Admission` adds, for a Database, weak fairness of `Protect` and `Release` and
strong fairness of `Vanish`: what `ImplementsProgress` shows of the controller,
and the retry with which an update that the webhook refused is repeated until it
is accepted. Its liveness properties have the premise `Calm`: from some point on users
leave the AdminConnection alone (each edit makes the controller's update
conflict, whose error is lost) and the process is not restarted.

## What is proved

Every theorem holds for any numbers of objects, names, schemas, workers, pools
and so on, under the named assumptions on the constants and the fault classes it
states. Eight modules hold the proofs.

`ApiServerProofs` has one lemma per step of `ApiServer` for the invariant on
copies; they know nothing of databases, and the Database and DatabaseUser proofs
both rest on them.

`DatabaseReconcilerProofs`:

* `TypeCorrect`: `TypeOK`, under every fault.
* `LedgerCorrect`, and from it `OwnerIsUnique` and `DropsOnlyOwn`. Neither
  property is inductive: that nobody else's database is dropped depends on what
  a ledger row means between statements. `LedgerInv` says that a database a row
  names was created by that object, or has just been dropped by it
  (`RowIsTrue`), and that the verdict a worker is acting on is still right
  (`VerdictHolds`). The hypothesis `Benign` excludes lost reads, lost DELETEs,
  crashes and other clients. Failing writes, drops, conflicts, outages and moves
  between servers are included.
* `ForeignCorrect` and `ForeignIsSafe`, under `Isolated` (no lost reads, no
  other clients) but with crashes: a row and a verdict are never about a
  database that was there before.
* `FinalizerCorrect`, and from it `CreatesUnderFinalizer` and
  `DropsOnlyDeleted`, under every fault: a copy that shows the finalizer on a live
  object implies that the stored object still has it, because it is removed
  only by the one worker, after the cache has shown the deletion; and a copy
  that shows the deletion is right, because a deletion is not taken back.
* `StatusCorrect` and `StatusIsHonest`, under `Benign` and `Steadfast`: where
  statements fail, a copy that reports success, however late, was right about
  the owner unless the object has been deleted since (`Told`; objects do not
  move then); where none fails, a success is reported of what this reconcile has
  found; what the worker has found out is still so when it acts on it, as it
  alone touches the server (`Found`); and what it is about to store is what it
  found (`Reports`).
* `NothingMissed`, when at most DROPs fail (`Faithful`), with any moves:
  `Settled`. An object is in the worker's hands, or a reconcile of it is still
  to come (`Pending`), or it has what its specification asks for (`Fine`). Each
  way out of `Reconcile` leaves an error, a new version, or nothing to do
  (`Achieved`); what the worker did not know of is told to the next one
  (`Informed`).

`DatabaseOwnershipProofs`, under `Benign`:

* `ControllerImplementsOwnership`: the refinement. Initial states map to initial
  states; updates of the object move its stage and nothing else (`Moves`),
  statements move a holder and no stage (`SameStages`), and all other steps
  stutter. What the abstract guards ask for comes from `FinalizerInv` (CREATE
  under a finalizer), `LedgerInv` (DROP by the holder), and `RowInv`: an object
  that is gone has no row on the server that it named last.
* `CopiesNameLast`, under every fault: a late copy of an object that is gone, which
  still shows its deletion, names the server that the object named last (`LastInv`),
  as its finalizer was removed by a worker that held the stored version. Together
  with `RowInv`: such a copy drops nothing, and what an object that moved has left on
  another server is out of its reach.
* `NothingLeftBehind`: `NoOrphan`, when no statement fails either, wherever objects
  were moved and however late the copies were, from `HeldInv`: an object has a row for
  its database, except between CREATE and INSERT, and the database on the server
  named last goes before the object does.

`DatabaseUserReconcilerProofs`:

* `TypeCorrect`, with `NameInv` (which calls have a name to work on).
* `FinalizerCorrect` and `CreatesUnderFinalizer`, under every fault, from the
  lemmas of `ApiServerProofs`.

`DatabaseUserOwnershipProofs`, under refused updates, failing drops and outages, when
no object is moved to another server (`Benign`). What the operator has of an object,
its copies and its row, is then on one server (`Rooted`, `RootedCorrect`), which the
invariants below rest on:

* `RowsCorrect` and `CreatorActs`: `OnlyCreatorActs`. What a row of
  `managed_users` means is the difficulty, as names change: a row names an
  account of its object, or the object is `Blocked`: CREATE USER made the account
  under `Status.Username` and recorded `Spec.Username` (the sequence of the run
  `UserRename`), and since neither name passes `UserMine` any more the object
  does nothing to either. Late copies may show the name from before a rename;
  they are harmless because what they want is then what is stored (`CopyInv`).
* `ControllerImplementsOwnership`: the refinement. Updates of an object move its
  stage and no holder (`Moves`, `MovesRefine`); statements move holders and no
  stage (`SameStages`), and are one lemma each: CREATE USER takes a free name for
  an object with a finalizer (`CreateRefines`, from `FinalizerInv`), RENAME USER
  gives up a name of the object's own for a free one (`RenameRefines`), DROP USER a
  name of its own after the deletion (`DropRefines`, both from `MineInv`). All else
  stutters. That an object vanishes with nothing left needs more, and only where
  users do not rename (`Tidy`): every copy, however late, has the one name of its
  object (`OneNameInv`), an account stands under the name its object claimed, with
  a row that says so unless its INSERT is still to come, and it is gone when the
  finalizer is about to go (`TidyInv`). `TidyInv` is not a property of a single step:
  it relates the account, the row, the stored status and the position of the worker
  over the whole deletion. With renames it is false, as described above, and
  `MayRename` is what the abstract specification then concedes.
* `VersionsReached`: `VersionApplied`, when every specification has an
  `Identification` (`Identifies`; see above for why). No copy claims a version
  that its account has not seen, nor one that has not been written (`Knows`); an
  account that is created anew gets the latest password, and rewriting only adds
  versions.

`DatabaseUserServiceProofs`, when updates are refused or DROPs fail (`Gentle`)
and users leave names and servers alone (`Undisturbed`: no edit changes a user
name, `KeepsName`, and no two objects ask for one name, `Undisputed`):

* `NothingMissed`: `Settled`. Its invariant, `ServiceInv`, is built in layers,
  each of which uses those before it. To `OneNameInv` and `TidyInv` of the
  refinement it adds that the call which follows a lookup still finds what the
  lookup found (`AccountInv`); no account has a password that its secret never
  had (`PasswordInv`); a version that some copy reports has reached the account
  (`SeenInv`); no copy reports a privilege outside the list of Databases it
  reports (`LinesInv`), and what a reconcile still has to grant, or is granting
  after a lookup, is listed by the specification in its hands (`TodoInv`). On
  top of these, `SettledInv`: an object is in the worker's hands, or a reconcile
  of it is still to come (`Pending`), or it has what it asks for (`Fine`); what
  the worker does not know of is still to come as well (`Informed`); and a
  worker that knows all has, at each of its calls, done what comes before it
  (`Achieved`). A secret can be rotated between the read that determines the
  version and the one that determines the password; `Latest` says that the event
  of the rotation then makes up for it, since the secret has an owner by that
  time.
* `NothingExtra`: `NoExcess`, when at most DROPs fail. A refused status update is
  not repeated, so that with "update" an account can keep a privilege that was
  granted just before until the next event.

  Why the hypotheses: an edit of the name can strand an account (`UserRename`), and
  an object that was refused a name is not told when its rival gives it up, so that
  it can come to rest without having it until the sync period passes. Failing
  statements, reads and crashes lose the status or the row that `Settled` depends on,
  because the last branch of `Reconcile` loses its errors (the shadowed `err`,
  line 189).

`ConnectionCacheProofs`:

* `TypeCorrect`; `PoolsCorrect`, the inductive invariant `PoolInv`: a pool that is
  being set up is open and nobody else's, a pool was opened with one
  configuration, and the reason for which a call closes or deletes is the one it
  found at its lookup. From it `NothingPoisoned`, `OnlyRotationCloses` and
  `RotationLeaksNothing`.

`AdmissionProofs`:

* `TypeCorrect`; `StatusComplete`: `SuccessIsComplete`, from `CompleteInv` (the
  copies are as complete as the stored object, and a reconcile has what it has
  asked for); `StoredIsSupported`: `AdmittedIsSupported`, since a status is
  complete or makes the webhook refuse.

Only model-checked: all liveness (`Provisioned`, `Finalized`, `CharsetApplied`,
`PasswordApplied`, `ImplementsProgress`, `Heals`, `StatusTracksServer`,
`NotBlocked`), which is out of the prover's reach; of `ImplementsProgress` the
safety part is `ImplementsOwnership`, which is proved. Every invariant and every
safety property of the passing runs has a theorem.

## Plan

Done: the core (`ApiServer`, both controllers that change the server), the
abstract specification and its refinement by both controllers, the connection cache, the
AdminConnection controller composed with the webhook, and the proofs above.

Left, in this order:

* The Database and DatabaseUser controllers in one specification: today the
  latter sees a Database that is missing, pending or ready at any time, which
  includes everything the former does with it.

## Not modelled

* `Escape` works on characters, which no module here has. `GeneratePassword` is
  random data.
* Warnings of the webhook and its regular expression for names refuse nothing
  that the modules have (names are valid).
* Entries of deleted AdminConnections in the connection cache; they are never
  looked up again.
* Flags, metrics and probes of `main.go` are I/O; deep copies and the API group
  are generated.
