---------------------- MODULE DatabaseReconcilerProofs ----------------------
(***************************************************************************)
(* Proofs about DatabaseReconciler for any number of objects and schemas,  *)
(* any assignment of names, and the fault classes each theorem states.     *)
(***************************************************************************)
EXTENDS DatabaseReconciler, ApiServerProofs

-----------------------------------------------------------------------------
(* Types.                                                                  *)

\* Every record a user can create is a Database.
LEMMA ObjectTypes ==
  \A k \in Connections :
    /\ \A c \in Charsets \cup {Unset} : NewObject(k, c) \in Database
    /\ NeverCreated(k) \in Database
<1>1. NoStatus \in Status
  BY DEF NoStatus, Status, Messages
<1>2. \A k \in Connections, c \in Charsets \cup {Unset} :
        NewObject(k, c) \in Database
  BY <1>1 DEF NewObject, Database, Phases
<1>3. ASSUME NEW k \in Connections PROVE NeverCreated(k) \in Database
  <2>1. NewObject(k, Unset) \in Database /\ "absent" \in Phases
    BY <1>2 DEF Phases
  <2> QED BY <2>1 DEF NeverCreated, Database
<1> QED BY <1>2, <1>3

\* The initial state is well typed.
LEMMA InitType == Init => TypeOK
<1> SUFFICES ASSUME Init PROVE TypeOK
  OBVIOUS
<1>1. api \in [Objects -> Database] /\ cached \in [Objects -> Database]
  BY ObjectTypes DEF Init, K8sInit
<1>2. DefaultCharset \in Charsets
  BY DatabaseAssumption
<1>3. /\ pc = "idle" /\ obj = NoObject
      /\ admin \in [Connections -> {"ready", "offline", "missing"}]
  BY DEF Init, K8sInit
<1> QED BY <1>1, <1>2, <1>3, ObjectsAssumption DEF Init, K8sInit, TypeOK, Steps

\* An accepted update ends a reconcile well typed.
LEMMA WriteType ==
  ASSUME TypeOK, obj \in Objects, NEW new \in Database, NEW r \in BOOLEAN,
         Write(new) \/ WriteStamped(new) \/ UNCHANGED store,
         Done(r), K8sOnly
  PROVE  TypeOK'
BY ObjectsAssumption
   DEF TypeOK, Write, WriteStamped, Done, Return, Goto, K8sOnly, mysql, store, Steps

\* The four updates of the worker keep the types.
LEMMA UpdateType ==
  ASSUME TypeOK, AddFinalizer \/ RemoveFinalizer \/ SaveStatus \/ SaveReport
  PROVE  TypeOK'
<1>1. obj \in Objects /\ inst \in Database /\ api[obj] \in Database
  BY DEF AddFinalizer, RemoveFinalizer, SaveStatus, SaveReport, TypeOK
<1>2. CASE AddFinalizer
  <2>1. [api[obj] EXCEPT !.finalizer = TRUE] \in Database
    BY <1>1 DEF Database
  <2> QED BY <1>1, <1>2, <2>1, WriteType DEF AddFinalizer
<1>3. CASE RemoveFinalizer
  <2>1. [api[obj] EXCEPT !.finalizer = FALSE, !.phase = "gone"] \in Database
    BY <1>1 DEF Database, Phases
  <2> QED BY <1>1, <1>3, <2>1, WriteType DEF RemoveFinalizer
<1>4. CASE SaveStatus
  <2>1. [api[obj] EXCEPT !.status = inst.status] \in Database
    BY <1>1 DEF Database
  <2> QED BY <1>1, <1>4, <2>1, WriteType DEF SaveStatus
<1>5. CASE SaveReport
  <2>1. [api[obj] EXCEPT !.status.message = "unreachable"] \in Database
    BY <1>1 DEF Database, Status, Messages
  <2>2. (pc = "reportError") \in BOOLEAN
    OBVIOUS
  <2> QED BY <1>1, <1>5, <2>1, <2>2, WriteType DEF SaveReport
<1> QED BY <1>2, <1>3, <1>4, <1>5

\* A step between two calls is well typed when what it changes is.
LEMMA StatementType ==
  ASSUME TypeOK, pc # "idle", SqlOnly,
         pc' \in Steps \ {"idle"}, inst' \in Database,
         server' \in [Schemas -> Objects \cup {Absent, Foreign}],
         charset' \in [Schemas -> Charsets],
         ledger' \in [Objects -> SUBSET Schemas]
  PROVE  TypeOK'
BY DEF TypeOK, SqlOnly, store

\* Setting the status of the worker's copy.
LEMMA CopyTypes ==
  ASSUME NEW d \in Database
  PROVE  /\ \A c \in Charsets \cup {Unset} :
              [d EXCEPT !.status.charset = c] \in Database
         /\ \A m \in Messages : [d EXCEPT !.status.message = m] \in Database
         /\ \A t \in Status : [d EXCEPT !.status = t] \in Database
         /\ d.charset \in Charsets \cup {Unset}
         /\ d.status.charset \in Charsets \cup {Unset}
<1>1. d.status \in Status
  BY DEF Database
<1>2. \A c \in Charsets \cup {Unset} :
        [d.status EXCEPT !.charset = c] \in Status
  BY <1>1 DEF Status
<1>3. \A m \in Messages : [d.status EXCEPT !.message = m] \in Status
  BY <1>1 DEF Status
<1>4. \A t \in Status : [d EXCEPT !.status = t] \in Database
  BY DEF Database
<1>5. d.charset \in Charsets \cup {Unset}
  BY DEF Database
<1>6. d.status.charset \in Charsets \cup {Unset}
  BY <1>1 DEF Status
<1> QED BY <1>2, <1>3, <1>4, <1>5, <1>6

\* The worker holds an object with a schema during every statement.
LEMMA WorkerHolds ==
  ASSUME TypeOK, pc # "idle"
  PROVE  /\ obj \in Objects /\ schema \in Schemas
         /\ inst \in Database /\ inst.connection \in Connections
<1>1. obj \in Objects /\ inst \in Database
  BY DEF TypeOK
<1>2. inst.connection \in Connections
  BY <1>1 DEF Database
<1> QED BY <1>1, <1>2, DatabaseAssumption DEF schema

\* A lookup keeps the types.
LEMMA LookupType ==
  ASSUME TypeOK,
         \/ CheckExists \/ MineExists \/ MineRecord
         \/ ConfirmCreate \/ InSync \/ Reread
  PROVE  TypeOK'
<1>1. /\ pc # "idle" /\ obj \in Objects /\ inst \in Database
      /\ schema \in Schemas /\ charset[schema] \in Charsets
  BY WorkerHolds
     DEF CheckExists, MineExists, MineRecord, ConfirmCreate, InSync, Reread,
         TypeOK
<1>2. /\ [inst EXCEPT !.status.charset = charset[schema]] \in Database
      /\ [inst EXCEPT !.status.message = "synced"] \in Database
      /\ [inst EXCEPT !.status.message = "refused"] \in Database
  BY <1>1, CopyTypes DEF Messages
<1>3. [inst EXCEPT !.status = [charset |-> charset[schema],
                               message |-> "created"]] \in Database
  <2>1. [charset |-> charset[schema], message |-> "created"] \in Status
    BY <1>1 DEF Status, Messages
  <2> QED BY <1>1, <2>1, CopyTypes
<1>4. /\ pc' \in Steps \ {"idle"} /\ inst' \in Database
      /\ SqlOnly /\ UNCHANGED mysql
  BY <1>1, <1>2, <1>3
     DEF CheckExists, MineExists, MineRecord, ConfirmCreate, InSync, Reread,
         Permitted, Denied, SetCharset, SetMessage, Goto, Steps
<1> QED BY <1>1, <1>4, StatementType DEF TypeOK, mysql

\* A statement that changes the server keeps the types.
LEMMA ChangeType ==
  ASSUME TypeOK,
         \/ CreateDatabase \/ InsertRecord \/ AlterDatabase
         \/ DropDatabase \/ ForgetRecord
  PROVE  TypeOK'
<1>1. /\ pc # "idle" /\ SqlOnly
      /\ obj \in Objects /\ inst \in Database /\ schema \in Schemas
  BY WorkerHolds
     DEF CreateDatabase, InsertRecord, AlterDatabase, DropDatabase,
         ForgetRecord
<1>2. inst.charset \in Charsets \cup {Unset} /\ DefaultCharset \in Charsets
  BY <1>1, CopyTypes, DatabaseAssumption
<1>3. pc' \in Steps \ {"idle"}
  BY DEF CreateDatabase, InsertRecord, AlterDatabase, DropDatabase,
         ForgetRecord, AfterCreate, AfterDrop, Goto, Steps
<1>4. inst' \in Database
  <2>1. CASE CreateDatabase
    <3>1. Presumed(inst) \in Charsets \cup {Unset}
      BY <1>1, CopyTypes DEF Presumed
    <3> QED BY <1>1, <2>1, <3>1, CopyTypes DEF CreateDatabase, SetCharset
  <2>2. CASE AlterDatabase
    <3>1. \A b \in BOOLEAN :
            [charset |-> inst.charset, message |-> AlterMessage(b)] \in Status
      BY <1>2 DEF Status, AlterMessage, Messages
    <3>2. \A r \in Outcomes : (r.ok /\ Exists) \in BOOLEAN
      OBVIOUS
    <3> QED BY <1>1, <2>2, <3>1, <3>2, CopyTypes DEF AlterDatabase
  <2>3. CASE inst' = inst
    BY <1>1, <2>3
  <2> QED BY <2>1, <2>2, <2>3 DEF InsertRecord, DropDatabase, ForgetRecord
<1>5. server' \in [Schemas -> Objects \cup {Absent, Foreign}]
  BY <1>1 DEF CreateDatabase, InsertRecord, AlterDatabase, DropDatabase,
              ForgetRecord, TypeOK
<1>6. charset' \in [Schemas -> Charsets]
  BY <1>1, <1>2
     DEF CreateDatabase, InsertRecord, AlterDatabase, DropDatabase,
         ForgetRecord, CreatedWith, NeedsAlter, TypeOK
<1>7. ledger' \in [Objects -> SUBSET Schemas]
  <2>1. \/ ledger' = ledger
        \/ ledger' = [ledger EXCEPT ![obj] = @ \cup {schema}]
        \/ ledger' = [ledger EXCEPT ![obj] = @ \ {schema}]
    BY DEF CreateDatabase, InsertRecord, AlterDatabase, DropDatabase, ForgetRecord
  <2> QED BY <1>1, <2>1 DEF TypeOK
<1> QED BY <1>1, <1>3, <1>4, <1>5, <1>6, <1>7, StatementType

\* Taking a key from the queue keeps the types.
LEMMA BeginType ==
  ASSUME TypeOK, NEW o \in Objects, BeginReconcile(o)
  PROVE  TypeOK'
<1> USE ObjectsAssumption
    DEF TypeOK, K8sOnly, mysql, Goto, store, worker, Take, Begin, Steps
<1>1. CASE Skip(o)
  BY <1>1 DEF Skip
<1>2. CASE FinalizeUnreachable(o)
  BY <1>2 DEF FinalizeUnreachable
<1>3. CASE FinalizeStart(o)
  BY <1>3 DEF FinalizeStart
<1>4. CASE Unreachable(o)
  BY <1>4 DEF Unreachable
<1>5. CASE StartUnprotected(o)
  BY <1>5 DEF StartUnprotected
<1>6. CASE StartProtected(o)
  BY <1>6 DEF StartProtected
<1> QED BY <1>1, <1>2, <1>3, <1>4, <1>5, <1>6 DEF BeginReconcile

\* Storing somebody else's version keeps the types.
LEMMA SubmitType ==
  ASSUME TypeOK, NEW o \in Objects, NEW new \in Database,
         Submit(o, new), UNCHANGED pc, K8sOnly
  PROVE  TypeOK'
BY DEF TypeOK, Submit, K8sOnly, mysql

\* Users keep the types.
LEMMA UserType ==
  ASSUME TypeOK, NEW o \in Objects,
         UserCreate(o) \/ UserEdit(o) \/ UserDelete(o)
  PROVE  TypeOK'
<1>1. api[o] \in Database
  BY DEF TypeOK
<1>2. CASE UserCreate(o)
  <2>1. \A k \in Places[o], c \in Wanted : NewObject(k, c) \in Database
    BY ObjectTypes, DatabaseAssumption
  <2> QED BY <1>2, <2>1, SubmitType DEF UserCreate
<1>3. CASE UserEdit(o)
  <2>1. \A c \in Wanted : [api[o] EXCEPT !.charset = c] \in Database
    BY <1>1, DatabaseAssumption DEF Database
  <2>2. \A k \in Places[o] : [api[o] EXCEPT !.connection = k] \in Database
    BY <1>1, DatabaseAssumption DEF Database
  <2> QED BY <1>3, <2>1, <2>2, SubmitType DEF UserEdit
<1>4. CASE UserDelete(o)
  <2>1. [api[o] EXCEPT
           !.phase = IF api[o].finalizer THEN "deleting" ELSE "gone"] \in Database
    BY <1>1 DEF Database, Phases
  <2> QED BY <1>4, <2>1, SubmitType DEF UserDelete
<1> QED BY <1>2, <1>3, <1>4

\* The environment keeps the types.
LEMMA EnvironmentType ==
  ASSUME TypeOK, Environment
  PROVE  TypeOK'
<1>1. CASE Crash \/ Respawn
  BY <1>1, ObjectsAssumption
     DEF Crash, Respawn, Restart, Relist, Listed, Goto, K8sOnly, mysql,
         TypeOK, Steps
<1>2. CASE Resync
  BY <1>2 DEF Resync, Enqueue, Listed, K8sOnly, mysql, store, worker, TypeOK
<1>3. ASSUME NEW k \in Connections, AdminChange(k) PROVE TypeOK'
  BY <1>3 DEF AdminChange, Enqueue, Listed, mysql, store, worker, TypeOK
<1>4. ASSUME NEW k \in Connections, ServerChange(k) PROVE TypeOK'
  BY <1>4 DEF ServerChange, mysql, k8s, TypeOK
<1>5. ASSUME NEW o \in Objects, UserCreate(o) \/ UserEdit(o) \/ UserDelete(o)
      PROVE  TypeOK'
  BY <1>5, UserType
<1>6. ASSUME NEW o \in Objects, Watch(o)
      PROVE  TypeOK'
  BY <1>6 DEF Watch, Observe, K8sOnly, mysql, TypeOK
<1>7. ASSUME NEW s \in Schemas, ExternalCreate(s) \/ ExternalDrop(s)
      PROVE  TypeOK'
  <2>1. DefaultCharset \in Charsets
    BY DatabaseAssumption
  <2> QED BY <1>7, <2>1 DEF ExternalCreate, ExternalDrop, k8s, TypeOK
<1> QED BY <1>1, <1>2, <1>3, <1>4, <1>5, <1>6, <1>7 DEF Environment

\* Every reachable state is well typed, whatever fails: in particular the
\* worker holds an object exactly while a reconcile is under way.
THEOREM TypeCorrect == Spec => []TypeOK
<1>1. TypeOK /\ [Next]_vars => TypeOK'
  <2> SUFFICES ASSUME TypeOK, [Next]_vars PROVE TypeOK'
    OBVIOUS
  <2>1. CASE Progress
    BY <2>1, UpdateType, LookupType, ChangeType DEF Progress
  <2>2. ASSUME NEW o \in Objects, BeginReconcile(o) PROVE TypeOK'
    BY <2>2, BeginType
  <2>3. CASE Environment
    BY <2>3, EnvironmentType
  <2>4. CASE UNCHANGED vars
    BY <2>4 DEF TypeOK, vars, k8s, mysql
  <2> QED BY <2>1, <2>2, <2>3, <2>4 DEF Next, Operator
<1> QED BY InitType, <1>1, PTL DEF Spec

-----------------------------------------------------------------------------
(* Ownership.                                                              *)

\* A statement sets nothing in the worker's copy but its status.
LEMMA StatementKeeps ==
  ASSUME TypeOK,
         \/ CheckExists \/ MineExists \/ MineRecord
         \/ CreateDatabase \/ InsertRecord \/ ConfirmCreate
         \/ InSync \/ AlterDatabase \/ Reread
         \/ DropDatabase \/ ForgetRecord
  PROVE  /\ SqlOnly /\ pc # "idle" /\ schema' = schema
         /\ inst'.phase = inst.phase /\ inst'.finalizer = inst.finalizer
         /\ inst'.connection = inst.connection /\ inst'.charset = inst.charset
<1>1. SqlOnly /\ pc # "idle" /\ inst \in Database
  BY DEF CheckExists, MineExists, MineRecord, CreateDatabase, InsertRecord,
         ConfirmCreate, InSync, AlterDatabase, Reread, DropDatabase,
         ForgetRecord, TypeOK
<1>2. /\ inst'.phase = inst.phase /\ inst'.finalizer = inst.finalizer
      /\ inst'.connection = inst.connection /\ inst'.charset = inst.charset
  BY <1>1
     DEF CheckExists, MineExists, MineRecord, CreateDatabase, InsertRecord,
         ConfirmCreate, InSync, AlterDatabase, Reread, DropDatabase,
         ForgetRecord, Permitted, Denied, SetCharset, SetMessage, Database
<1> QED BY <1>1, <1>2 DEF SqlOnly, schema

\* What is outside the MySQL server does not matter to the ledger invariant.
LEMMA LedgerInvFrame ==
  ASSUME LedgerInv, UNCHANGED mysql,
         pc' \in {"drop", "record", "confirm", "forget"}
           => UNCHANGED <<pc, obj, inst>>,
         pc # "forget" \/ UNCHANGED <<pc, obj, inst>>
  PROVE  LedgerInv'
BY DEF LedgerInv, RowIsTrue, VerdictHolds, Dropping, Present, mysql,
       schema

\* The initial ledger is empty.
LEMMA LedgerInvInit == Init => LedgerInv
BY DatabaseAssumption DEF Init, LedgerInv, RowIsTrue, VerdictHolds

\* DatabaseMine: a schema that is not there, or one whose row is this
\* object's, may be dropped.
LEMMA LedgerInvMine ==
  ASSUME Benign, TypeOK, LedgerInv, MineExists \/ MineRecord
  PROVE  LedgerInv'
<1>1. pc \in {"mineExists", "mineRecord"} /\ pc # "idle" /\ UNCHANGED <<mysql, obj>>
  BY DEF MineExists, MineRecord, SqlOnly
<1>2. pc' = "drop" => server[schema] \in {Absent, obj}
  <2>1. \A b \in BOOLEAN : Answers(b) = {b}
    BY DEF Answers, Benign
  <2>2. CASE MineExists
    <3>1. Answers(Exists) = {Exists}
      BY <2>1 DEF Exists
    <3>2. Exists => pc' = "mineRecord"
      BY <2>2, <3>1 DEF MineExists, Goto
    <3> QED BY <3>2 DEF Exists
  <2>3. CASE MineRecord
    <3>1. Answers(RecordMatches) = {RecordMatches}
      BY DEF Answers, Benign
    <3>2. pc' = "drop" => RecordMatches
      BY <2>3, <3>1 DEF MineRecord, Denied, Goto
    <3> QED BY <1>1, <3>2, WorkerHolds
            DEF RecordMatches, LedgerInv, RowIsTrue, Dropping
  <2> QED BY <2>2, <2>3
<1>3. pc' \notin {"record", "confirm", "forget"} /\ schema' = schema
  BY StatementKeeps DEF MineExists, MineRecord, Permitted, Denied, Goto
<1> QED BY <1>1, <1>2, <1>3
        DEF LedgerInv, RowIsTrue, VerdictHolds, Dropping, Present, mysql

\* databaseCreate: CREATE DATABASE makes the schema this object's own.
LEMMA LedgerInvCreate ==
  ASSUME TypeOK, LedgerInv, CreateDatabase
  PROVE  LedgerInv'
<1>1. pc = "create" /\ obj \in Objects /\ schema \in Schemas /\ schema' = schema
  BY WorkerHolds, StatementKeeps DEF CreateDatabase
<1>2. pc' \in {"record", "status"} /\ UNCHANGED <<ledger, obj>>
  BY DEF CreateDatabase, AfterCreate, Goto, SqlOnly
<1>3. \/ server' = server /\ pc' = "status"
      \/ server[schema] = Absent /\ server' = [server EXCEPT ![schema] = obj]
  BY DEF CreateDatabase, AfterCreate, Goto, Exists
<1>4. RowIsTrue'
  <2> SUFFICES ASSUME NEW o \in Objects, NEW s \in ledger[o]
               PROVE  server'[s] = o
    BY <1>2 DEF RowIsTrue
  <2>1. server[s] = o
    BY <1>1 DEF LedgerInv, RowIsTrue, Dropping
  <2>2. s \in Schemas
    BY DEF TypeOK
  <2> QED BY <1>3, <2>1, <2>2, DatabaseAssumption DEF TypeOK
<1>5. VerdictHolds'
  BY <1>1, <1>2, <1>3 DEF VerdictHolds, TypeOK
<1> QED BY <1>4, <1>5 DEF LedgerInv

\* databaseCreate: the row that is inserted is true.
LEMMA LedgerInvRecord ==
  ASSUME TypeOK, LedgerInv, InsertRecord
  PROVE  LedgerInv'
<1>1. /\ pc = "record" /\ pc' = "confirm" /\ UNCHANGED <<server, obj>>
      /\ obj \in Objects /\ schema' = schema /\ server[schema] = obj
  BY WorkerHolds, StatementKeeps
     DEF InsertRecord, Goto, SqlOnly, LedgerInv, VerdictHolds
<1>2. ledger' = ledger \/ ledger' = [ledger EXCEPT ![obj] = @ \cup {schema}]
  BY DEF InsertRecord
<1> QED BY <1>1, <1>2 DEF LedgerInv, RowIsTrue, VerdictHolds, Dropping, TypeOK

\* finalizeDatabase: what is dropped is the object's own, and its row follows.
LEMMA LedgerInvFinalize ==
  ASSUME Benign, TypeOK, LedgerInv, DropDatabase \/ ForgetRecord
  PROVE  LedgerInv'
<1>1. /\ pc \in {"drop", "forget"} /\ obj' = obj /\ obj \in Objects
      /\ schema \in Schemas /\ schema' = schema
  BY WorkerHolds, StatementKeeps DEF DropDatabase, ForgetRecord, SqlOnly
<1>2. CASE DropDatabase
  <2>1. /\ pc = "drop" /\ pc' = "forget" /\ ledger' = ledger
        /\ server[schema] \in {Absent, obj}
    BY <1>2 DEF DropDatabase, AfterDrop, Goto, LedgerInv, VerdictHolds
  <2>2. server' = server \/ server' = [server EXCEPT ![schema] = Absent]
    BY <1>2 DEF DropDatabase
  <2>3. RowIsTrue'
    <3> SUFFICES ASSUME NEW o \in Objects, NEW s \in ledger[o]
                 PROVE  server'[s] = o \/ Dropping(o, s)'
      BY <2>1 DEF RowIsTrue
    <3>1. server[s] = o /\ s \in Schemas
      BY <2>1 DEF LedgerInv, RowIsTrue, Dropping, TypeOK
    <3>2. CASE s = schema
      BY <1>1, <2>1, <2>2, <3>1, <3>2, DatabaseAssumption
         DEF Dropping, Present, TypeOK
    <3>3. CASE s # schema
      BY <2>2, <3>1, <3>3 DEF TypeOK
    <3> QED BY <3>2, <3>3
  <2> QED BY <2>1, <2>3 DEF LedgerInv, VerdictHolds
<1>3. CASE ForgetRecord
  <2>1. /\ pc = "forget" /\ pc' = "removeFinalizer" /\ server' = server
        /\ ledger' = [ledger EXCEPT ![obj] = @ \ {schema}]
    BY <1>3 DEF ForgetRecord, Goto, Benign
  <2> QED BY <1>1, <2>1
          DEF LedgerInv, RowIsTrue, VerdictHolds, Dropping, TypeOK
<1> QED BY <1>2, <1>3

\* The remaining statements neither touch the server nor reach a verdict.
LEMMA LedgerInvRest ==
  ASSUME TypeOK, LedgerInv,
         \/ AddFinalizer \/ RemoveFinalizer \/ SaveStatus \/ SaveReport
         \/ CheckExists \/ ConfirmCreate \/ InSync \/ AlterDatabase \/ Reread
  PROVE  LedgerInv'
<1>1. /\ UNCHANGED <<server, ledger>> /\ pc # "forget"
      /\ pc' \notin {"drop", "record", "confirm", "forget"}
  BY DEF AddFinalizer, RemoveFinalizer, SaveStatus, SaveReport, CheckExists,
         ConfirmCreate, InSync, AlterDatabase, Reread, Done, Goto, K8sOnly, mysql
<1> QED BY <1>1 DEF LedgerInv, RowIsTrue, VerdictHolds, Dropping

\* Reconciles begin without touching the server.
LEMMA LedgerInvBegin ==
  ASSUME TypeOK, LedgerInv, NEW o \in Objects, BeginReconcile(o)
  PROVE  LedgerInv'
<1>1. /\ UNCHANGED mysql /\ pc = "idle"
      /\ pc' \notin {"drop", "record", "confirm", "forget"}
  BY DEF BeginReconcile, Skip, FinalizeUnreachable, FinalizeStart, Unreachable,
         StartUnprotected, StartProtected, Begin, Goto, K8sOnly
<1> QED BY <1>1, LedgerInvFrame

\* Without crashes the environment leaves the worker at its statement.
LEMMA LedgerInvEnvironment ==
  ASSUME Benign, TypeOK, LedgerInv, Environment
  PROVE  LedgerInv'
<1>1. "crash" \notin Faults /\ "external" \notin Faults
  BY DEF Benign
<1>2. CASE Respawn
  BY <1>2, LedgerInvFrame DEF Respawn, Restart, Goto, K8sOnly
<1>3. CASE ~Respawn
  <2>1. UNCHANGED <<mysql, pc, obj, inst>>
    BY <1>1, <1>3
       DEF Environment, Crash, Resync, AdminChange, ServerChange, Enqueue,
           UserCreate, UserEdit, UserDelete, Submit, Watch, Observe,
           ExternalCreate, ExternalDrop, K8sOnly, k8s, worker
  <2> QED BY <2>1, LedgerInvFrame
<1> QED BY <1>2, <1>3

\* Between any two statements the ledger is true of the server: it names for
\* an object its own schema only, and that schema exists and was created for
\* the object, until the finalizer has dropped it.
THEOREM LedgerCorrect == Benign => (Spec => []LedgerInv)
<1> SUFFICES ASSUME Benign PROVE Spec => []LedgerInv
  OBVIOUS
<1>1. TypeOK /\ LedgerInv /\ [Next]_vars => LedgerInv'
  <2> SUFFICES ASSUME TypeOK, LedgerInv, [Next]_vars PROVE LedgerInv'
    OBVIOUS
  <2>1. CASE Progress
    BY <2>1, LedgerInvMine, LedgerInvCreate, LedgerInvRecord,
       LedgerInvFinalize, LedgerInvRest DEF Progress
  <2>2. ASSUME NEW o \in Objects, BeginReconcile(o) PROVE LedgerInv'
    BY <2>2, LedgerInvBegin
  <2>3. CASE Environment
    BY <2>3, LedgerInvEnvironment
  <2>4. CASE UNCHANGED vars
    BY <2>4, LedgerInvFrame DEF vars, k8s
  <2> QED BY <2>1, <2>2, <2>3, <2>4 DEF Next, Operator
<1> QED BY LedgerInvInit, TypeCorrect, <1>1, PTL DEF Spec

\* DatabaseMine recognises at most one object as the owner of a database.
THEOREM OwnerIsUnique == Benign => (Spec => []ExclusiveOwner)
<1> SUFFICES ASSUME Benign PROVE Spec => []ExclusiveOwner
  OBVIOUS
<1>1. LedgerInv => ExclusiveOwner
  BY DEF LedgerInv, RowIsTrue, Dropping, Owner, ExclusiveOwner
<1> QED BY <1>1, LedgerCorrect, PTL

\* Only DropDatabase and other clients make a schema disappear or change
\* hands.
LEMMA WhoReplaces ==
  ASSUME TypeOK, [Next]_vars, "external" \notin Faults,
         NEW s \in Schemas, Present(s), server'[s] # server[s]
  PROVE  DropDatabase /\ s = schema
<1>1. server' # server
  OBVIOUS
<1>2. CASE CreateDatabase
  <2>1. pc # "idle"
    BY <1>2 DEF CreateDatabase
  <2>2. ~Exists /\ server' = [server EXCEPT ![schema] = obj]
    BY <1>1, <1>2 DEF CreateDatabase
  <2> QED BY <2>1, <2>2, WorkerHolds DEF Exists, Present, TypeOK
<1>3. CASE DropDatabase
  BY <1>1, <1>3, WorkerHolds DEF DropDatabase, TypeOK
<1>4. CASE UNCHANGED server
  BY <1>4, <1>1
<1>5. CASE ~(CreateDatabase \/ DropDatabase)
  <2>1. CASE Progress
    BY <1>5, <2>1, <1>4
       DEF Progress, AddFinalizer, RemoveFinalizer, SaveStatus, SaveReport,
           CheckExists, MineExists, MineRecord, InsertRecord, ConfirmCreate,
           InSync, AlterDatabase, Reread, ForgetRecord, K8sOnly, mysql
  <2>2. ASSUME NEW o \in Objects, BeginReconcile(o)
        PROVE  UNCHANGED server
    BY <2>2 DEF BeginReconcile, Skip, FinalizeUnreachable, FinalizeStart,
                Unreachable, StartUnprotected, StartProtected, Begin, K8sOnly,
                mysql
  <2>3. CASE Environment
    BY <2>3, <1>4
       DEF Environment, Crash, Respawn, Restart, Resync, AdminChange,
           ServerChange, UserCreate, UserEdit, UserDelete, Watch,
           ExternalCreate, ExternalDrop, K8sOnly, mysql
  <2>4. CASE UNCHANGED vars
    BY <2>4, <1>4 DEF vars, mysql
  <2> QED BY <2>1, <2>2, <2>3, <2>4, <1>4 DEF Next, Operator
<1> QED BY <1>2, <1>3, <1>5

\* A finalizer drops nothing but the database created for its own object.
THEOREM DropsOnlyOwn == Benign => (Spec => OnlyOwnerDrops)
<1> SUFFICES ASSUME Benign PROVE Spec => OnlyOwnerDrops
  OBVIOUS
<1>1. TypeOK /\ LedgerInv /\ [Next]_vars =>
        [\A s \in Schemas :
           Present(s) /\ server'[s] # server[s]
           => obj \in Objects /\ server[s] = obj]_vars
  <2> SUFFICES ASSUME TypeOK, LedgerInv, [Next]_vars,
                      NEW s \in Schemas, Present(s), server'[s] # server[s]
               PROVE  obj \in Objects /\ server[s] = obj
    OBVIOUS
  <2>1. DropDatabase /\ s = schema
    BY WhoReplaces DEF Benign
  <2>2. pc = "drop" /\ obj \in Objects
    BY <2>1, WorkerHolds DEF DropDatabase
  <2> QED BY <2>1, <2>2 DEF LedgerInv, VerdictHolds, Present
<1> QED BY <1>1, TypeCorrect, LedgerCorrect, PTL DEF Spec, OnlyOwnerDrops

-----------------------------------------------------------------------------
(* Databases of others.                                                    *)

\* The initial ledger names no database.
LEMMA ForeignInvInit == Init => ForeignInv
BY DatabaseAssumption DEF Init, ForeignInv, RowNotForeign, StepNotForeign

\* Steps that leave the MySQL server alone, at most giving up a statement.
LEMMA ForeignInvFrame ==
  ASSUME ForeignInv, UNCHANGED mysql,
         pc' \in {"drop", "alter", "record"} => UNCHANGED <<pc, obj, inst>>
  PROVE  ForeignInv'
BY DEF ForeignInv, RowNotForeign, StepNotForeign, mysql, schema

\* DatabaseMine permits a schema that is absent or in the ledger: not Foreign.
LEMMA ForeignInvMine ==
  ASSUME Isolated, TypeOK, ForeignInv, MineExists \/ MineRecord
  PROVE  ForeignInv'
<1>1. pc \in {"mineExists", "mineRecord"} /\ pc # "idle" /\ UNCHANGED <<mysql, obj>>
  BY DEF MineExists, MineRecord, SqlOnly
<1>2. \A b \in BOOLEAN : Answers(b) = {b}
  BY DEF Answers, Isolated
<1>3. pc' \in {"drop", "alter"} => server[schema] # Foreign
  <2>1. CASE MineExists
    <3>1. Answers(Exists) = {Exists}
      BY <1>2 DEF Exists
    <3>2. Exists => pc' = "mineRecord"
      BY <2>1, <3>1 DEF MineExists, Goto
    <3> QED BY <3>2, DatabaseAssumption DEF Exists
  <2>2. CASE MineRecord
    <3>1. Answers(RecordMatches) = {RecordMatches}
      BY DEF Answers, Isolated
    <3>2. pc' \in {"drop", "alter"} => RecordMatches
      BY <2>2, <3>1 DEF MineRecord, Denied, Goto
    <3> QED BY <1>1, <3>2, WorkerHolds
            DEF RecordMatches, ForeignInv, RowNotForeign
  <2> QED BY <2>1, <2>2
<1>4. pc' # "record" /\ schema' = schema
  BY StatementKeeps DEF MineExists, MineRecord, Permitted, Denied, Goto
<1> QED BY <1>1, <1>3, <1>4
        DEF ForeignInv, RowNotForeign, StepNotForeign, mysql

\* A statement that changes the server creates, alters or drops no foreign
\* database and records none.
LEMMA ForeignInvChange ==
  ASSUME TypeOK, ForeignInv,
         \/ CreateDatabase \/ InsertRecord \/ AlterDatabase
         \/ DropDatabase \/ ForgetRecord
  PROVE  ForeignInv'
<1>1. /\ pc # "idle" /\ obj' = obj
      /\ obj \in Objects /\ schema \in Schemas /\ schema' = schema
  BY WorkerHolds, StatementKeeps DEF SqlOnly
<1>2. \/ server' = server
      \/ server' = [server EXCEPT ![schema] = obj]
      \/ server' = [server EXCEPT ![schema] = Absent]
  BY DEF CreateDatabase, InsertRecord, AlterDatabase, DropDatabase, ForgetRecord
<1>3. \/ ledger' = ledger
      \/ ledger' = [ledger EXCEPT ![obj] = @ \ {schema}]
      \/ ledger' = [ledger EXCEPT ![obj] = @ \cup {schema}] /\ server' = server
         /\ server[schema] # Foreign
  BY DEF CreateDatabase, InsertRecord, AlterDatabase, DropDatabase,
         ForgetRecord, ForeignInv, StepNotForeign
<1>4. \A s \in Schemas : server[s] # Foreign => server'[s] # Foreign
  BY <1>1, <1>2, DatabaseAssumption DEF TypeOK
<1>5. RowNotForeign'
  BY <1>1, <1>3, <1>4 DEF ForeignInv, RowNotForeign, TypeOK
<1>6. StepNotForeign'
  <2>1. pc' \in {"drop", "alter", "record"} =>
          CreateDatabase /\ server' = [server EXCEPT ![schema] = obj]
    BY DEF CreateDatabase, InsertRecord, AlterDatabase, DropDatabase,
           ForgetRecord, AfterCreate, AfterDrop, Goto
  <2> QED BY <1>1, <2>1, DatabaseAssumption DEF StepNotForeign, TypeOK
<1> QED BY <1>5, <1>6 DEF ForeignInv

\* Every other step of the system fits the frame.
LEMMA ForeignInvRest ==
  ASSUME Isolated, TypeOK, ForeignInv,
         \/ AddFinalizer \/ RemoveFinalizer \/ SaveStatus \/ SaveReport
         \/ CheckExists \/ ConfirmCreate \/ InSync \/ Reread
         \/ (\E o \in Objects : BeginReconcile(o))
         \/ Environment
  PROVE  ForeignInv'
<1>1. CASE \/ AddFinalizer \/ RemoveFinalizer \/ SaveStatus \/ SaveReport
           \/ CheckExists \/ ConfirmCreate \/ InSync \/ Reread
  BY <1>1, ForeignInvFrame
     DEF AddFinalizer, RemoveFinalizer, SaveStatus, SaveReport, CheckExists,
         ConfirmCreate, InSync, Reread, Done, Goto, K8sOnly
<1>2. ASSUME NEW o \in Objects, BeginReconcile(o)
      PROVE  ForeignInv'
  <2>1. UNCHANGED mysql /\ (pc' \notin {"drop", "alter", "record"})
    BY <1>2 DEF BeginReconcile, Skip, FinalizeUnreachable, FinalizeStart,
                Unreachable, StartUnprotected, StartProtected, Begin, Goto,
                K8sOnly
  <2> QED BY <2>1, ForeignInvFrame
<1>3. CASE Crash \/ Respawn
  BY <1>3, ForeignInvFrame DEF Crash, Respawn, Restart, Goto, K8sOnly
<1>4. CASE Environment /\ ~(Crash \/ Respawn)
  <2>1. UNCHANGED <<mysql, pc, obj, inst>>
    BY <1>4
       DEF Isolated, Environment, Resync, AdminChange, ServerChange, Enqueue,
           UserCreate, UserEdit, UserDelete, Submit, Watch, Observe,
           ExternalCreate, ExternalDrop, K8sOnly, k8s, worker
  <2> QED BY <2>1, ForeignInvFrame
<1> QED BY <1>1, <1>2, <1>3, <1>4

\* Neither the ledger nor a worker past DatabaseMine ever names a database
\* that somebody else created, crashes and failed statements included.
THEOREM ForeignCorrect == Isolated => (Spec => []ForeignInv)
<1> SUFFICES ASSUME Isolated PROVE Spec => []ForeignInv
  OBVIOUS
<1>1. TypeOK /\ ForeignInv /\ [Next]_vars => ForeignInv'
  <2> SUFFICES ASSUME TypeOK, ForeignInv, [Next]_vars PROVE ForeignInv'
    OBVIOUS
  <2>1. CASE UNCHANGED vars
    BY <2>1, ForeignInvFrame DEF vars, k8s
  <2> QED BY <2>1, ForeignInvMine, ForeignInvChange, ForeignInvRest
          DEF Next, Operator, Progress
<1> QED BY ForeignInvInit, TypeCorrect, <1>1, PTL DEF Spec

\* Only AlterDatabase, databaseCreate and finalizeDatabase set the character
\* set of a schema.
LEMMA WhoAlters ==
  ASSUME [Next]_vars, "external" \notin Faults, charset' # charset
  PROVE  CreateDatabase \/ AlterDatabase \/ DropDatabase
<1>1. CASE Progress
  BY <1>1
     DEF Progress, AddFinalizer, RemoveFinalizer, SaveStatus, SaveReport,
         CheckExists, MineExists, MineRecord, InsertRecord, ConfirmCreate,
         InSync, Reread, ForgetRecord, K8sOnly, mysql
<1>2. ASSUME NEW o \in Objects, BeginReconcile(o)
      PROVE  UNCHANGED charset
  BY <1>2 DEF BeginReconcile, Skip, FinalizeUnreachable, FinalizeStart,
              Unreachable, StartUnprotected, StartProtected, Begin, K8sOnly,
              mysql
<1>3. CASE Environment
  BY <1>3
     DEF Environment, Crash, Respawn, Restart, Resync, AdminChange,
         ServerChange, UserCreate, UserEdit, UserDelete, Watch,
         ExternalCreate, ExternalDrop, K8sOnly, mysql
<1>4. CASE UNCHANGED vars
  BY <1>4 DEF vars, mysql
<1> QED BY <1>1, <1>2, <1>3, <1>4 DEF Next, Operator

\* A database that was there before is neither dropped nor altered.
THEOREM ForeignIsSafe == Isolated => (Spec => ForeignUntouched)
<1> SUFFICES ASSUME Isolated PROVE Spec => ForeignUntouched
  OBVIOUS
<1>1. TypeOK /\ ForeignInv /\ [Next]_vars =>
        [\A s \in Schemas : server[s] = Foreign =>
           server'[s] = Foreign /\ charset'[s] = charset[s]]_vars
  <2> SUFFICES ASSUME TypeOK, ForeignInv, [Next]_vars,
                      NEW s \in Schemas, server[s] = Foreign
               PROVE  server'[s] = Foreign /\ charset'[s] = charset[s]
    OBVIOUS
  <2>1. Present(s) /\ "external" \notin Faults
    BY DatabaseAssumption DEF Present, Isolated
  <2>2. server'[s] = Foreign
    <3>1. SUFFICES ASSUME server'[s] # server[s] PROVE FALSE
      OBVIOUS
    <3>2. DropDatabase /\ s = schema
      BY <2>1, <3>1, WhoReplaces
    <3> QED BY <3>2 DEF DropDatabase, ForeignInv, StepNotForeign
  <2>3. charset'[s] = charset[s]
    <3>1. CASE CreateDatabase
      <4>1. pc # "idle"
        BY <3>1 DEF CreateDatabase
      <4>2. charset' = charset \/
              (~Exists /\ charset' = [charset EXCEPT ![schema] = CreatedWith(inst.charset)])
        BY <3>1 DEF CreateDatabase
      <4> QED BY <2>1, <4>1, <4>2, WorkerHolds DEF Exists, Present, TypeOK
    <3>2. CASE AlterDatabase \/ DropDatabase
      <4>1. pc \in {"alter", "drop"} /\ server[schema] # Foreign
        BY <3>2 DEF AlterDatabase, DropDatabase, ForeignInv, StepNotForeign
      <4>2. \A x \in Schemas : x # schema => charset'[x] = charset[x]
        BY <3>2 DEF AlterDatabase, DropDatabase, TypeOK
      <4> QED BY <4>1, <4>2
    <3> QED BY <2>1, <3>1, <3>2, WhoAlters
  <2> QED BY <2>2, <2>3
<1> QED BY <1>1, TypeCorrect, ForeignCorrect, PTL DEF Spec, ForeignUntouched

-----------------------------------------------------------------------------
(* Finalizers.                                                             *)

\* What the cache lemmas ask of the types.
LEMMA TypeShape ==
  ASSUME TypeOK
  PROVE  /\ Shape
         /\ \A o \in Objects : api[o] \in Database /\ cached[o] \in Database
         /\ pc # "idle" => obj # NoObject
BY DEF TypeOK, Shape

\* No object exists at first.
LEMMA FinalizerInvInit == Init => FinalizerInv
<1> SUFFICES ASSUME Init PROVE FinalizerInv
  OBVIOUS
<1>1. \A k \in Connections : ~Guarded(NeverCreated(k)) /\ ~Ended(NeverCreated(k))
  BY DEF NeverCreated, NewObject, Guarded, Ended
<1>2. CacheInv /\ WorkerInv
  BY <1>1, CacheInit DEF Init
<1> QED BY <1>2 DEF Init, BranchInv, FinalizerInv

\* Beginning a reconcile picks the branch from the cached copy.
LEMMA FinalizerInvBegin ==
  ASSUME TypeOK, FinalizerInv, NEW o \in Objects, BeginReconcile(o)
  PROVE  FinalizerInv'
<1>1. CASE Skip(o)
  BY <1>1, ObjectsAssumption
     DEF Skip, FinalizerInv, CacheInv, WorkerInv, BranchInv, store, worker
<1>2. CASE ~Skip(o)
  <2>1. Take(o) /\ ~NothingToDo(cached[o]) /\ inst' = cached[o]
    BY <1>2 DEF BeginReconcile, FinalizeUnreachable, FinalizeStart,
                Unreachable, StartUnprotected, StartProtected, Begin, Take
  <2>2. BranchInv'
    BY <1>2, <2>1
       DEF BeginReconcile, FinalizeUnreachable, FinalizeStart, Unreachable,
           StartUnprotected, StartProtected, Begin, Goto, NeedsFinalizer,
           BranchInv, Protected
  <2> QED BY <2>1, <2>2, TakeCache DEF FinalizerInv
<1> QED BY <1>1, <1>2

\* The worker's updates: only RemoveFinalizer takes the finalizer off, and the
\* cache has shown the deletion by then.
LEMMA FinalizerInvUpdate ==
  ASSUME TypeOK, FinalizerInv,
         AddFinalizer \/ RemoveFinalizer \/ SaveStatus \/ SaveReport
  PROVE  FinalizerInv'
<1>1. /\ Shape /\ obj # NoObject /\ obj \in Objects
      /\ api[obj] \in Database /\ inst \in Database
  BY TypeShape DEF AddFinalizer, RemoveFinalizer, SaveStatus, SaveReport, TypeOK
<1>2. pc' = "idle" /\ BranchInv'
  BY DEF AddFinalizer, RemoveFinalizer, SaveStatus, SaveReport, Done, Goto, BranchInv
<1>3. CASE UNCHANGED store /\ (Return(TRUE) \/ Return(FALSE))
  BY <1>2, <1>3, ReturnCache DEF FinalizerInv
<1>4. CASE RemoveFinalizer /\ ~UNCHANGED store
  <2> DEFINE new == [api[obj] EXCEPT !.finalizer = FALSE, !.phase = "gone"]
  <2>1. Ended(new) /\ ~Guarded(new)
    BY <1>1 DEF Ended, Guarded, Database
  <2>2. Ended(inst) /\ ~Protected(cached[obj])
    BY <1>1, <1>4 DEF RemoveFinalizer, FinalizerInv, BranchInv, WorkerInv,
                      Ended, Protected
  <2>3. Write(new) /\ Return(FALSE)
    BY <1>4 DEF RemoveFinalizer, Done
  <2> QED BY <1>1, <1>2, <2>1, <2>2, <2>3, RemoveCache DEF FinalizerInv
<1>5. ASSUME AddFinalizer \/ SaveStatus \/ SaveReport, ~UNCHANGED store
      PROVE  FinalizerInv'
  <2>1. CASE AddFinalizer
    <3> DEFINE new == [api[obj] EXCEPT !.finalizer = TRUE]
    <3>1. Follows(api[obj], new)
      BY <1>1 DEF Follows, Guarded, Ended, Database
    <3>2. Write(new) /\ Return(FALSE)
      BY <1>5, <2>1 DEF AddFinalizer, Done
    <3> QED BY <1>1, <1>2, <3>1, <3>2, WriteCache DEF FinalizerInv
  <2>2. CASE SaveStatus
    <3> DEFINE new == [api[obj] EXCEPT !.status = inst.status]
    <3>1. Follows(api[obj], new)
      BY <1>1 DEF Follows, Guarded, Ended, Database
    <3>2. (Write(new) \/ WriteStamped(new)) /\ Return(FALSE)
      BY <1>5, <2>2 DEF SaveStatus, Done
    <3> QED BY <1>1, <1>2, <3>1, <3>2, WriteCache DEF FinalizerInv
  <2>3. CASE SaveReport
    <3> DEFINE new == [api[obj] EXCEPT !.status.message = "unreachable"]
    <3>1. Follows(api[obj], new)
      BY <1>1 DEF Follows, Guarded, Ended, Database
    <3>2. Write(new) /\ Return(pc = "reportError")
      BY <1>5, <2>3 DEF SaveReport, Done
    <3> QED BY <1>1, <1>2, <3>1, <3>2, WriteCache DEF FinalizerInv
  <2> QED BY <1>5, <2>1, <2>2, <2>3
<1> QED BY <1>3, <1>4, <1>5
        DEF AddFinalizer, RemoveFinalizer, SaveStatus, SaveReport, Done

\* A statement changes only the status of the copy, and stays in its branch.
LEMMA FinalizerInvStatement ==
  ASSUME TypeOK, FinalizerInv,
         \/ CheckExists \/ MineExists \/ MineRecord
         \/ CreateDatabase \/ InsertRecord \/ ConfirmCreate
         \/ InSync \/ AlterDatabase \/ Reread
         \/ DropDatabase \/ ForgetRecord
  PROVE  FinalizerInv'
<1>1. UNCHANGED <<store, obj, fresh>>
  BY StatementKeeps DEF SqlOnly
<1>2. inst'.phase = inst.phase /\ inst'.finalizer = inst.finalizer
  BY StatementKeeps
<1>3. BranchInv'
  BY <1>2
     DEF CheckExists, MineExists, MineRecord, CreateDatabase, InsertRecord,
         ConfirmCreate, InSync, AlterDatabase, Reread, DropDatabase,
         ForgetRecord, Permitted, Denied, AfterCreate, AfterDrop, Goto,
         FinalizerInv, BranchInv, Protected
<1> QED BY <1>1, <1>2, <1>3, CopyCache DEF FinalizerInv

\* Users submit versions that follow the stored one; the cache only catches up.
LEMMA FinalizerInvEnvironment ==
  ASSUME TypeOK, FinalizerInv, Environment
  PROVE  FinalizerInv'
<1>1. Shape /\ \A o \in Objects : api[o] \in Database
  BY TypeShape
<1>2. CASE Crash \/ Respawn
  BY <1>2, RelistCache
     DEF Crash, Respawn, Restart, Goto, FinalizerInv, BranchInv
<1>3. CASE Resync \/ \E k \in Connections : AdminChange(k) \/ ServerChange(k)
  BY <1>3 DEF Resync, AdminChange, ServerChange, Enqueue, store, worker, k8s,
              FinalizerInv, CacheInv, WorkerInv, BranchInv
<1>4. ASSUME NEW o \in Objects, UserCreate(o) \/ UserEdit(o) \/ UserDelete(o)
      PROVE  FinalizerInv'
  <2>1. PICK new : Submit(o, new) /\ Follows(api[o], new)
    <3>1. CASE UserCreate(o)
      <4>1. \A k \in Places[o], c \in Wanted : Follows(api[o], NewObject(k, c))
        BY <3>1 DEF UserCreate, Follows, Guarded, Ended
      <4> QED BY <3>1, <4>1 DEF UserCreate
    <3>2. CASE UserEdit(o)
      <4>1. /\ \A c \in Wanted : Follows(api[o], [api[o] EXCEPT !.charset = c])
            /\ \A k \in Places[o] : Follows(api[o], [api[o] EXCEPT !.connection = k])
        BY <1>1 DEF Follows, Guarded, Ended, Database
      <4> QED BY <3>2, <4>1 DEF UserEdit
    <3>3. CASE UserDelete(o)
      <4>1. Follows(api[o], [api[o] EXCEPT
              !.phase = IF api[o].finalizer THEN "deleting" ELSE "gone"])
        BY <1>1 DEF Follows, Guarded, Ended, Database
      <4> QED BY <3>3, <4>1 DEF UserDelete
    <3> QED BY <1>4, <3>1, <3>2, <3>3
  <2>2. CacheInv' /\ WorkerInv'
    BY <1>1, <2>1, SubmitCache DEF FinalizerInv
  <2>3. UNCHANGED <<pc, inst>>
    BY <1>4, <2>1 DEF UserCreate, UserEdit, UserDelete, Submit
  <2> QED BY <2>2, <2>3 DEF FinalizerInv, BranchInv
<1>5. ASSUME NEW o \in Objects, Watch(o)
      PROVE  FinalizerInv'
  <2>1. CacheInv' /\ WorkerInv'
    BY <1>1, <1>5, ObserveCache DEF Watch, FinalizerInv
  <2>2. UNCHANGED <<pc, inst>>
    BY <1>5 DEF Watch, Observe
  <2> QED BY <2>1, <2>2 DEF FinalizerInv, BranchInv
<1>6. ASSUME NEW s \in Schemas, ExternalCreate(s) \/ ExternalDrop(s)
      PROVE  FinalizerInv'
  BY <1>6 DEF ExternalCreate, ExternalDrop, k8s, FinalizerInv, CacheInv,
              WorkerInv, BranchInv
<1> QED BY <1>2, <1>3, <1>4, <1>5, <1>6 DEF Environment

\* However late the cache is: a copy that shows the finalizer on a live object
\* belongs to an object that still has it.
THEOREM FinalizerCorrect == Spec => []FinalizerInv
<1>1. TypeOK /\ FinalizerInv /\ [Next]_vars => FinalizerInv'
  <2> SUFFICES ASSUME TypeOK, FinalizerInv, [Next]_vars PROVE FinalizerInv'
    OBVIOUS
  <2>1. CASE Progress
    BY <2>1, FinalizerInvUpdate, FinalizerInvStatement DEF Progress
  <2>2. ASSUME NEW o \in Objects, BeginReconcile(o) PROVE FinalizerInv'
    BY <2>2, FinalizerInvBegin
  <2>3. CASE Environment
    BY <2>3, FinalizerInvEnvironment
  <2>4. CASE UNCHANGED vars
    BY <2>4 DEF vars, k8s, FinalizerInv, CacheInv, WorkerInv, BranchInv
  <2> QED BY <2>1, <2>2, <2>3, <2>4 DEF Next, Operator
<1> QED BY FinalizerInvInit, TypeCorrect, <1>1, PTL DEF Spec

\* Only CreateDatabase makes a schema an object's.
LEMMA WhoCreates ==
  ASSUME TypeOK, [Next]_vars, NEW s \in Schemas, NEW o \in Objects,
         server[s] # o, server'[s] = o
  PROVE  CreateDatabase /\ obj = o /\ pc = "create"
<1>1. server' # server
  OBVIOUS
<1>2. CASE CreateDatabase
  <2>1. pc = "create" /\ pc # "idle" /\ server' = [server EXCEPT ![schema] = obj]
    BY <1>1, <1>2 DEF CreateDatabase
  <2> QED BY <1>2, <2>1, WorkerHolds DEF TypeOK
<1>3. CASE DropDatabase
  BY <1>1, <1>3, WorkerHolds, DatabaseAssumption DEF DropDatabase, TypeOK
<1>4. CASE Progress /\ ~(CreateDatabase \/ DropDatabase)
  BY <1>1, <1>4
     DEF Progress, AddFinalizer, RemoveFinalizer, SaveStatus, SaveReport,
         CheckExists, MineExists, MineRecord, InsertRecord, ConfirmCreate,
         InSync, AlterDatabase, Reread, ForgetRecord, K8sOnly, mysql
<1>5. ASSUME NEW p \in Objects, BeginReconcile(p)
      PROVE  UNCHANGED server
  BY <1>5 DEF BeginReconcile, Skip, FinalizeUnreachable, FinalizeStart,
              Unreachable, StartUnprotected, StartProtected, Begin, K8sOnly,
              mysql
<1>6. CASE Environment
  <2>1. ASSUME NEW x \in Schemas, ExternalCreate(x) \/ ExternalDrop(x)
        PROVE  FALSE
    BY <2>1, DatabaseAssumption DEF ExternalCreate, ExternalDrop, TypeOK
  <2> QED BY <1>1, <1>6, <2>1
          DEF Environment, Crash, Respawn, Restart, Resync, AdminChange,
              ServerChange, UserCreate, UserEdit, UserDelete, Watch, K8sOnly,
              mysql
<1>7. CASE UNCHANGED vars
  BY <1>1, <1>7 DEF vars, mysql
<1> QED BY <1>1, <1>2, <1>3, <1>4, <1>5, <1>6, <1>7 DEF Next, Operator

\* Whatever fails, CREATE DATABASE runs only under a stored finalizer.
THEOREM CreatesUnderFinalizer == Spec => CreatedUnderFinalizer
<1>1. TypeOK /\ FinalizerInv /\ [Next]_vars =>
        [\A s \in Schemas, o \in Objects :
           server[s] # o /\ server'[s] = o =>
             api[o].finalizer /\ api[o].phase \in {"live", "deleting"}]_vars
  <2> SUFFICES ASSUME TypeOK, FinalizerInv, [Next]_vars,
                      NEW s \in Schemas, NEW o \in Objects,
                      server[s] # o, server'[s] = o
               PROVE  api[o].finalizer /\ api[o].phase \in {"live", "deleting"}
    OBVIOUS
  <2>1. obj = o /\ pc = "create"
    BY WhoCreates
  <2>2. Guarded(api[o])
    BY <2>1, ObjectsAssumption DEF FinalizerInv, WorkerInv, BranchInv
  <2> QED BY <2>2 DEF Guarded
<1> QED BY <1>1, TypeCorrect, FinalizerCorrect, PTL
        DEF Spec, CreatedUnderFinalizer

\* Whatever fails, DROP DATABASE runs only for an object its user has deleted.
THEOREM DropsOnlyDeleted == Spec => DropOnlyDeleted
<1>1. TypeOK /\ FinalizerInv /\ [Next]_vars =>
        [\A s \in Schemas :
           pc = "drop" /\ Present(s) /\ server'[s] = Absent /\ obj' = obj
           => obj \in Objects /\ api[obj].phase \in {"deleting", "gone"}]_vars
  <2> SUFFICES ASSUME TypeOK, FinalizerInv, pc = "drop"
               PROVE  obj \in Objects /\ api[obj].phase \in {"deleting", "gone"}
    OBVIOUS
  <2>1. obj \in Objects /\ obj # NoObject
    BY WorkerHolds, ObjectsAssumption
  <2>2. Ended(inst)
    BY DEF FinalizerInv, BranchInv, Ended
  <2> QED BY <2>1, <2>2 DEF FinalizerInv, WorkerInv, CacheInv, Ended
<1> QED BY <1>1, TypeCorrect, FinalizerCorrect, PTL DEF Spec, DropOnlyDeleted

-----------------------------------------------------------------------------
(* What a stored status says.                                              *)

Success == {"created", "altered", "synced"}

\* Where a statement can fail after the status was prepared, the status of a
\* move from one server to another may be stored with the message of the first:
\* what a status says is then only true of objects that do not move.
Steadfast == "write" \in Faults => Moves = {}

\* A copy that the worker may store is the cached one and names the same server
\* as the stored object.
Current ==
  obj # NoObject /\ fresh => obj \in synced /\ inst.connection = api[obj].connection

\* Every copy that is not out of date names the server last asked for.
LEMMA CopyIsCurrent == Spec => []Current
<1>1. Init => Current
  BY DEF Init, K8sInit, Current
<1>2. TypeOK /\ FinalizerInv /\ Current /\ [Next]_vars => Current'
  <2> SUFFICES ASSUME TypeOK, FinalizerInv, Current, [Next]_vars PROVE Current'
    OBVIOUS
  <2>1. CASE \/ CheckExists \/ MineExists \/ MineRecord
             \/ CreateDatabase \/ InsertRecord \/ ConfirmCreate
             \/ InSync \/ AlterDatabase \/ Reread
             \/ DropDatabase \/ ForgetRecord
    <3>1. /\ UNCHANGED <<api, synced, obj, fresh>>
          /\ inst'.connection = inst.connection
      BY <2>1, StatementKeeps DEF SqlOnly, store
    <3> QED BY <3>1 DEF Current
  <2>2. CASE AddFinalizer \/ RemoveFinalizer \/ SaveStatus \/ SaveReport
    BY <2>2 DEF AddFinalizer, RemoveFinalizer, SaveStatus, SaveReport, Done,
                Return, Current
  <2>3. CASE \E o \in Objects : BeginReconcile(o)
    <3>1. PICK o \in Objects : BeginReconcile(o)
      BY <2>3
    <3>2. /\ UNCHANGED <<api, synced>>
          /\ \/ UNCHANGED <<obj, inst, fresh>>
             \/ obj' = o /\ inst' = cached[o] /\ fresh' = (o \in synced)
      BY <3>1 DEF BeginReconcile, Skip, FinalizeUnreachable, FinalizeStart,
                  Unreachable, StartUnprotected, StartProtected, Begin, Take,
                  store, worker
    <3> QED BY <3>1, <3>2 DEF Current, FinalizerInv, CacheInv
  <2>4. CASE \E o \in Objects : UserCreate(o) \/ UserEdit(o) \/ UserDelete(o)
    <3>1. PICK o \in Objects : \E new :
            /\ api' = [api EXCEPT ![o] = new] /\ synced' = synced \ {o}
            /\ fresh' = (fresh /\ obj # o) /\ UNCHANGED <<obj, inst>>
      BY <2>4 DEF UserCreate, UserEdit, UserDelete, Submit
    <3> QED BY <3>1 DEF Current, TypeOK
  <2>5. CASE /\ Environment
             /\ ~\E o \in Objects : UserCreate(o) \/ UserEdit(o) \/ UserDelete(o)
    <3>1. \/ UNCHANGED <<api, obj, inst, fresh>> /\ synced \subseteq synced'
          \/ obj' = NoObject
      BY <2>5 DEF Environment, Crash, Respawn, Restart, Relist, Resync,
                  AdminChange, ServerChange, Enqueue, Watch, Observe,
                  ExternalCreate, ExternalDrop, store, worker, k8s
    <3> QED BY <3>1 DEF Current
  <2>6. CASE UNCHANGED vars
    BY <2>6 DEF vars, k8s, Current
  <2> QED BY <2>1, <2>2, <2>3, <2>4, <2>5, <2>6 DEF Next, Operator, Progress
<1> QED BY <1>1, <1>2, TypeCorrect, FinalizerCorrect, PTL DEF Spec

\* A copy of o, however late, that reports success was right about the owner,
\* unless o has been deleted since.
Told(c, o) ==
  "write" \in Faults /\ c.status.message \in Success
  => server[SpecName[o][c.connection]] = o \/ Ended(api[o])

\* What the worker has found out about the database since it began.
Found ==
  /\ pc \in {"mineExists", "mineRecord"} /\ inst.phase = "live" => Exists
  /\ pc \in {"alter", "reread"} => server[schema] = obj
  /\ pc = "create" => ~Exists

Reports ==
  pc = "status" =>
    /\ inst.phase = "live"
    /\ inst.status.message \in Success =>
         \/ server[schema] = obj /\ charset[schema] = inst.status.charset
         \/ Ended(api[obj])

StatusInv ==
  /\ \A o \in Objects : Told(api[o], o) /\ Told(cached[o], o)
  /\ obj # NoObject => Told(inst, obj)
  /\ Found /\ Reports

\* A deletion is never taken back, and no step takes a database away but the
\* finalizer of its owner.
Lasting ==
  \A o \in Objects :
    /\ Ended(api[o]) => Ended(api'[o])
    /\ \A s \in Schemas : server[s] = o => server'[s] = o \/ Ended(api[o])

\* The name of an object on a server is one of its databases.
LEMMA NamesAreSchemas ==
  ASSUME NEW o \in Objects, NEW c \in Database
  PROVE  SpecName[o][c.connection] \in Schemas
<1>1. c.connection \in Connections
  BY DEF Database
<1> QED BY <1>1, DatabaseAssumption

\* Statements, with what they leave in the worker's copy.
LEMMA StatementTold ==
  ASSUME TypeOK, StatusInv, Lasting, SqlOnly, obj \in Objects, inst \in Database,
         inst'.connection = inst.connection, Found', Reports',
         \/ inst'.status.message = inst.status.message
         \/ inst'.status.message \notin Success
         \/ server'[schema] = obj
  PROVE  StatusInv'
<1>1. /\ api' = api /\ cached' = cached /\ obj' = obj
      /\ obj # NoObject
  BY ObjectsAssumption DEF SqlOnly, store
<1>2. \A o \in Objects : Told(api[o], o)' /\ Told(cached[o], o)'
  <2> SUFFICES ASSUME NEW o \in Objects PROVE Told(api[o], o)' /\ Told(cached[o], o)'
    OBVIOUS
  <2>1. Told(api[o], o) /\ Told(cached[o], o)
    BY DEF StatusInv
  <2>2. /\ SpecName[o][api[o].connection] \in Schemas
        /\ SpecName[o][cached[o].connection] \in Schemas
    BY NamesAreSchemas DEF TypeOK
  <2> QED BY <1>1, <2>1, <2>2 DEF Lasting, Told
<1>3. Told(inst, obj)'
  <2>1. Told(inst, obj)
    BY <1>1 DEF StatusInv
  <2>2. schema \in Schemas
    BY NamesAreSchemas DEF schema
  <2> QED BY <1>1, <2>1, <2>2 DEF Lasting, Told, schema
<1> QED BY <1>2, <1>3 DEF StatusInv

\* Lookups: what they find holds until the statement that relies on it, since
\* nobody but the one worker touches the server.
LEMMA LookupTold ==
  ASSUME Benign, TypeOK, LedgerInv, FinalizerInv, StatusInv,
         \/ CheckExists \/ MineExists \/ MineRecord
         \/ ConfirmCreate \/ InSync \/ Reread
  PROVE  StatusInv'
<1>1. /\ obj \in Objects /\ schema \in Schemas
      /\ inst \in Database /\ inst.status \in Status
  BY WorkerHolds
     DEF CheckExists, MineExists, MineRecord, ConfirmCreate, InSync, Reread,
         TypeOK, Database
<1>2. /\ SqlOnly /\ UNCHANGED mysql /\ api' = api /\ obj' = obj
      /\ schema' = schema /\ inst'.connection = inst.connection
  BY StatementKeeps
     DEF CheckExists, MineExists, MineRecord, ConfirmCreate, InSync, Reread,
         SqlOnly, store
<1>3. Lasting
  BY <1>2 DEF Lasting, mysql
<1>4. \A f : Answers(f) = {f}
  BY DEF Benign, Answers
<1>5. pc \in {"confirm", "reread"} => inst.phase = "live"
  BY DEF FinalizerInv, BranchInv, Protected
<1>6. CASE CheckExists
  <2>1. /\ pc = "exists" /\ inst.phase = "live"
        /\ inst'.status.message = inst.status.message
        /\ IF Exists THEN pc' = "mineExists" ELSE pc' = "create"
    BY <1>1, <1>4, <1>6
       DEF CheckExists, SetCharset, Goto, Database, Status, FinalizerInv,
           BranchInv, Protected
  <2> QED BY <1>1, <1>2, <1>3, <2>1, StatementTold
          DEF Found, Reports, Exists, mysql
<1>7. CASE MineExists
  <2>1. CASE Exists
    <3>1. inst' = inst /\ pc' = "mineRecord"
      BY <1>4, <1>7, <2>1 DEF MineExists, Goto
    <3> QED BY <1>1, <1>2, <1>3, <2>1, <3>1, StatementTold
            DEF Found, Reports, Exists, mysql
  <2>2. CASE ~Exists
    <3>1. inst.phase # "live" /\ inst.phase \in {"deleting", "live"}
      BY <1>7, <2>2 DEF MineExists, StatusInv, Found, FinalizerInv, BranchInv, Protected
    <3>2. inst' = inst /\ pc' = "drop"
      BY <1>4, <1>7, <2>2, <3>1 DEF MineExists, Permitted, Goto
    <3> QED BY <1>1, <1>2, <1>3, <3>2, StatementTold DEF Found, Reports
  <2> QED BY <2>1, <2>2
<1>8. CASE MineRecord
  <2>1. CASE RecordMatches
    <3>1. inst' = inst /\ pc' \in {"drop", "alter"} /\ pc = "mineRecord"
      BY <1>4, <1>8, <2>1 DEF MineRecord, Permitted, Goto
    <3>2. server[schema] = obj
      BY <1>1, <2>1, <3>1 DEF RecordMatches, LedgerInv, RowIsTrue, Dropping
    <3> QED BY <1>1, <1>2, <1>3, <3>1, <3>2, StatementTold
            DEF Found, Reports, mysql
  <2>2. CASE ~RecordMatches
    <3>1. \/ inst' = inst /\ pc' = "removeFinalizer"
          \/ /\ inst'.status.message = "refused" /\ inst'.phase = "live"
             /\ pc' = "status"
      BY <1>1, <1>4, <1>8, <2>2
         DEF MineRecord, Denied, SetMessage, Goto, Database, Status
    <3> QED BY <1>1, <1>2, <1>3, <3>1, StatementTold DEF Found, Reports, Success
  <2> QED BY <2>1, <2>2
<1>9. CASE ConfirmCreate
  <2>1. server[schema] = obj /\ Exists
    BY <1>1, <1>9, DatabaseAssumption
       DEF ConfirmCreate, LedgerInv, VerdictHolds, Exists
  <2>2. /\ inst'.status = [charset |-> charset[schema], message |-> "created"]
        /\ inst'.phase = "live" /\ pc' = "status"
    BY <1>1, <1>4, <1>5, <1>9, <2>1 DEF ConfirmCreate, Goto, Database
  <2> QED BY <1>1, <1>2, <1>3, <2>1, <2>2, StatementTold
          DEF Found, Reports, mysql
<1>10. CASE InSync \/ Reread
  <2>1. server[schema] = obj /\ Exists
    BY <1>1, <1>10, DatabaseAssumption
       DEF InSync, Reread, StatusInv, Found, Exists
  <2>2. CASE InSync
    <3>1. pc' = "reread"
      BY <2>2 DEF InSync, Goto
    <3> QED BY <1>1, <1>2, <1>3, <2>1, <3>1, StatementTold
            DEF Found, Reports, mysql
  <2>3. CASE Reread
    <3>1. /\ inst' = [inst EXCEPT !.status.charset = charset[schema]]
          /\ pc = "reread" /\ pc' = "status"
      BY <1>4, <2>1, <2>3 DEF Reread, SetCharset, Goto
    <3>2. /\ inst'.status.charset = charset[schema] /\ inst'.phase = "live"
      BY <1>1, <1>5, <3>1 DEF Database, Status
    <3> QED BY <1>1, <1>2, <1>3, <2>1, <3>1, <3>2, StatementTold
            DEF Found, Reports, mysql
  <2> QED BY <1>10, <2>2, <2>3
<1> QED BY <1>6, <1>7, <1>8, <1>9, <1>10

\* Statements that change the server.
LEMMA ChangeTold ==
  ASSUME TypeOK, LedgerInv, FinalizerInv, StatusInv,
         \/ CreateDatabase \/ InsertRecord \/ AlterDatabase
         \/ DropDatabase \/ ForgetRecord
  PROVE  StatusInv'
<1>1. /\ obj \in Objects /\ schema \in Schemas
      /\ inst \in Database /\ inst.status \in Status /\ obj # NoObject
  BY WorkerHolds, ObjectsAssumption
     DEF CreateDatabase, InsertRecord, AlterDatabase, DropDatabase,
         ForgetRecord, TypeOK, Database
<1>2. /\ SqlOnly /\ api' = api /\ obj' = obj
      /\ schema' = schema /\ inst'.connection = inst.connection
  BY StatementKeeps DEF SqlOnly, store
<1>3. CASE CreateDatabase
  <2>1. ~Exists /\ pc = "create"
    BY <1>3 DEF CreateDatabase, StatusInv, Found
  <2>2. /\ server' = server \/ server' = [server EXCEPT ![schema] = obj]
        /\ pc' \in {"record", "status"}
        /\ inst'.status.message = inst.status.message
        /\ inst'.phase = inst.phase /\ inst.phase = "live"
    BY <1>1, <1>3
       DEF CreateDatabase, SetCharset, AfterCreate, Goto, Database, Status,
           FinalizerInv, BranchInv, Protected
  <2>3. Lasting
    BY <1>1, <1>2, <2>1, <2>2, DatabaseAssumption DEF Lasting, Exists, TypeOK
  <2>4. pc' = "status" /\ inst.status.message \in Success => Ended(api[obj])
    <3>1. pc' = "status" => "write" \in Faults
      BY <1>3, <2>1 DEF CreateDatabase, AfterCreate, Goto, Outcomes
    <3> QED BY <1>1, <2>1, <3>1, DatabaseAssumption
            DEF StatusInv, Told, Exists, schema
  <2> QED BY <1>1, <1>2, <2>2, <2>3, <2>4, StatementTold DEF Found, Reports
<1>4. CASE InsertRecord
  <2>1. UNCHANGED <<inst, server>> /\ pc' = "confirm"
    BY <1>4 DEF InsertRecord, Goto
  <2>2. Lasting
    BY <1>2, <2>1 DEF Lasting
  <2> QED BY <1>1, <1>2, <2>1, <2>2, StatementTold DEF Found, Reports
<1>5. CASE AlterDatabase
  <2>1. server' = server /\ server[schema] = obj /\ Exists
    BY <1>1, <1>5, DatabaseAssumption DEF AlterDatabase, StatusInv, Found, Exists
  <2>2. Lasting
    BY <1>2, <2>1 DEF Lasting
  <2>3. \/ pc' = "reread"
        \/ /\ pc' = "status" /\ inst'.status.message = "failed"
           /\ inst'.phase = "live"
    BY <1>1, <1>5, <2>1
       DEF AlterDatabase, AlterMessage, Goto, Database, FinalizerInv,
           BranchInv, Protected
  <2> QED BY <1>1, <1>2, <2>1, <2>2, <2>3, StatementTold
          DEF Found, Reports, Success
<1>6. CASE DropDatabase \/ ForgetRecord
  <2>1. /\ inst' = inst /\ pc' \in {"forget", "removeFinalizer"}
        /\ \/ server' = server
           \/ pc = "drop" /\ server' = [server EXCEPT ![schema] = Absent]
    BY <1>6 DEF DropDatabase, ForgetRecord, AfterDrop, Goto
  <2>2. pc = "drop" => Ended(api[obj]) /\ server[schema] \in {Absent, obj}
    <3>1. pc = "drop" => Ended(inst)
      BY DEF FinalizerInv, BranchInv, Ended
    <3> QED BY <1>1, <3>1 DEF FinalizerInv, WorkerInv, CacheInv, LedgerInv, VerdictHolds
  <2>3. Lasting
    <3> SUFFICES ASSUME NEW o \in Objects, NEW s \in Schemas, server[s] = o
                 PROVE  server'[s] = o \/ Ended(api[o])
      BY <1>2 DEF Lasting
    <3>1. CASE server' = server
      BY <3>1
    <3>2. CASE pc = "drop" /\ server' = [server EXCEPT ![schema] = Absent]
      <4>1. CASE s = schema
        BY <2>2, <3>2, <4>1, DatabaseAssumption
      <4>2. CASE s # schema
        BY <3>2, <4>2 DEF TypeOK
      <4> QED BY <4>1, <4>2
    <3> QED BY <2>1, <3>1, <3>2
  <2> QED BY <1>1, <1>2, <2>1, <2>3, StatementTold DEF Found, Reports
<1> QED BY <1>3, <1>4, <1>5, <1>6

\* A reconcile ends, perhaps with an update.
LEMMA UpdateTold ==
  ASSUME TypeOK, StatusInv, Current,
         AddFinalizer \/ RemoveFinalizer \/ SaveStatus \/ SaveReport
  PROVE  StatusInv'
<1>1. /\ obj \in Objects /\ api[obj] \in Database /\ inst \in Database
      /\ obj # NoObject /\ api[obj].status \in Status
  BY WorkerHolds, ObjectsAssumption
     DEF AddFinalizer, RemoveFinalizer, SaveStatus, SaveReport, TypeOK, Database
<1>2. UNCHANGED <<server, cached>> /\ obj' = NoObject /\ pc' = "idle"
  BY DEF AddFinalizer, RemoveFinalizer, SaveStatus, SaveReport, Done, Return,
         Goto, K8sOnly, mysql, store, Write, WriteStamped
<1>3. \/ api' = api
      \/ \E new : /\ api' = [api EXCEPT ![obj] = new]
                  /\ Ended(api[obj]) => Ended(new)
                  /\ new.connection = api[obj].connection
                  /\ \/ new.status.message = api[obj].status.message
                     \/ /\ new.status.message = inst.status.message
                        /\ inst.connection = api[obj].connection
                     \/ new.status.message \notin Success
  <2>1. CASE AddFinalizer
    <3>1. \/ api' = api
          \/ api' = [api EXCEPT ![obj] = [api[obj] EXCEPT !.finalizer = TRUE]]
      BY <2>1 DEF AddFinalizer, Write, store
    <3> QED BY <1>1, <3>1 DEF Database, Ended
  <2>2. CASE RemoveFinalizer
    <3>1. \/ api' = api
          \/ api' = [api EXCEPT ![obj] =
                       [api[obj] EXCEPT !.finalizer = FALSE, !.phase = "gone"]]
      BY <2>2 DEF RemoveFinalizer, Write, store
    <3> QED BY <1>1, <3>1 DEF Database, Ended
  <2>3. CASE SaveStatus
    <3>1. \/ api' = api
          \/ api' = [api EXCEPT ![obj] = [api[obj] EXCEPT !.status = inst.status]]
      BY <2>3 DEF SaveStatus, Write, WriteStamped, store
    <3>2. api' = api \/ inst.connection = api[obj].connection
      BY <1>1, <2>3 DEF SaveStatus, Accepted, Current, store
    <3> QED BY <1>1, <3>1, <3>2 DEF Database, Ended
  <2>4. CASE SaveReport
    <3>1. \/ api' = api
          \/ api' = [api EXCEPT ![obj] =
                       [api[obj] EXCEPT !.status.message = "unreachable"]]
      BY <2>4 DEF SaveReport, Write, store
    <3> QED BY <1>1, <3>1 DEF Database, Status, Ended, Success
  <2> QED BY <2>1, <2>2, <2>3, <2>4
<1>4. \A o \in Objects : Ended(api[o]) => Ended(api'[o])
  BY <1>1, <1>2, <1>3 DEF TypeOK
<1>5. \A o \in Objects : Told(api'[o], o) /\ Told(cached'[o], o)
  <2> SUFFICES ASSUME NEW o \in Objects PROVE Told(api'[o], o) /\ Told(cached'[o], o)
    OBVIOUS
  <2>1. /\ Told(api[o], o) /\ Told(cached[o], o) /\ Told(inst, obj)
    BY <1>1 DEF StatusInv
  <2>2. Told(api'[o], o)
    <3>1. CASE o = obj
      BY <1>1, <1>3, <2>1, <3>1 DEF Told, TypeOK
    <3>2. CASE o # obj
      BY <1>1, <1>3, <2>1, <3>2 DEF TypeOK
    <3> QED BY <3>1, <3>2
  <2> QED BY <1>2, <2>1, <2>2
<1>6. \A o \in Objects : Told(api[o], o)' /\ Told(cached[o], o)'
  BY <1>2, <1>4, <1>5 DEF Told
<1> QED BY <1>2, <1>6 DEF StatusInv, Found, Reports

LEMMA BeginTold ==
  ASSUME TypeOK, StatusInv, NEW o \in Objects, BeginReconcile(o)
  PROVE  StatusInv'
<1>1. /\ UNCHANGED <<api, cached, server, charset>> /\ pc = "idle"
      /\ \/ obj' = obj /\ obj' = NoObject
         \/ obj' = o /\ inst' = cached[o]
      /\ pc' \notin {"mineRecord", "alter", "reread", "create", "status"}
      /\ pc' = "mineExists" => inst'.phase = "deleting"
  BY DEF BeginReconcile, Skip, FinalizeUnreachable, FinalizeStart, Unreachable,
         StartUnprotected, StartProtected, Begin, Take, Goto, K8sOnly, mysql,
         store, worker, TypeOK
<1> QED BY <1>1 DEF StatusInv, Told, Found, Reports

LEMMA EnvironmentTold ==
  ASSUME Benign, Steadfast, TypeOK, StatusInv, Environment
  PROVE  StatusInv'
<1>1. "crash" \notin Faults /\ "external" \notin Faults
  BY DEF Benign
<1>2. UNCHANGED <<server, charset>>
  BY <1>1
     DEF Environment, Crash, Respawn, Restart, Resync, AdminChange,
         ServerChange, UserCreate, UserEdit, UserDelete, Watch, ExternalCreate,
         ExternalDrop, K8sOnly, mysql
<1>3. CASE Respawn
  <2>1. /\ api' = api /\ cached' = api /\ obj' = NoObject /\ pc' = "idle"
    BY <1>3 DEF Respawn, Restart, Relist, Goto
  <2> QED BY <1>2, <2>1 DEF StatusInv, Told, Found, Reports
<1>4. CASE ~Respawn
  <2>1. UNCHANGED <<pc, obj, inst>>
    BY <1>1, <1>4
       DEF Environment, Crash, Resync, AdminChange, ServerChange, Enqueue,
           UserCreate, UserEdit, UserDelete, Submit, Watch, Observe,
           ExternalCreate, ExternalDrop, K8sOnly, k8s, worker
  <2>2. /\ \A p \in Objects : Ended(api[p]) => Ended(api'[p])
        /\ \A p \in Objects : Told(api'[p], p) /\ Told(cached'[p], p)
    <3>1. CASE UNCHANGED <<api, cached>>
      BY <3>1 DEF StatusInv
    <3>2. CASE \E o \in Objects : Watch(o)
      BY <3>2 DEF Watch, Observe, StatusInv, TypeOK
    <3>3. CASE \E o \in Objects : UserCreate(o) \/ UserEdit(o) \/ UserDelete(o)
      <4>1. PICK o \in Objects : UserCreate(o) \/ UserEdit(o) \/ UserDelete(o)
        BY <3>3
      <4>2. api[o] \in Database /\ Told(api[o], o)
        BY DEF TypeOK, StatusInv
      <4>3. PICK new :
              /\ Submit(o, new) /\ (Ended(api[o]) => Ended(new))
              /\ \/ /\ new.status.message = api[o].status.message
                    /\ "write" \in Faults => new.connection = api[o].connection
                 \/ new.status.message = "none"
        <5>1. CASE UserCreate(o)
          BY <5>1 DEF UserCreate, NewObject, NoStatus, Ended
        <5>2. CASE UserEdit(o)
          <6>1. PICK new \in {[api[o] EXCEPT !.charset = c] : c \in Wanted}
                       \cup {[api[o] EXCEPT !.connection = k] : k \in Places[o]} :
                  /\ Submit(o, new)
                  /\ Moves = {} => new.connection = api[o].connection
            <7>1. CASE \E c \in Wanted : Submit(o, [api[o] EXCEPT !.charset = c])
              BY <4>2, <7>1 DEF Database
            <7>2. CASE \E k \in Places[o] :
                         /\ <<api[o].connection, k>> \in Moves
                         /\ Submit(o, [api[o] EXCEPT !.connection = k])
              BY <7>2
            <7> QED BY <5>2, <7>1, <7>2 DEF UserEdit
          <6>2. new.phase = api[o].phase /\ new.status = api[o].status
            BY <4>2, <6>1 DEF Database
          <6> QED BY <6>1, <6>2 DEF Steadfast, Ended
        <5>3. CASE UserDelete(o)
          BY <4>2, <5>3 DEF UserDelete, Database, Ended
        <5> QED BY <4>1, <5>1, <5>2, <5>3
      <4>4. Told(new, o)
        BY <4>2, <4>3 DEF Told, Success
      <4> QED BY <4>3, <4>4 DEF Submit, StatusInv, TypeOK
    <3> QED
      BY <1>1, <1>4, <3>1, <3>2, <3>3
         DEF Environment, Crash, Resync, AdminChange, ServerChange, Enqueue,
             ExternalCreate, ExternalDrop, store, k8s
  <2>4. \A o \in Objects : Told(api[o], o)' /\ Told(cached[o], o)'
    BY <1>2, <2>2 DEF Told
  <2>5. obj # NoObject => Told(inst, obj)'
    BY <1>2, <2>1, <2>2 DEF StatusInv, Told, TypeOK
  <2>6. (Found /\ Reports)'
    <3>1. pc = "status" => obj \in Objects
      BY DEF TypeOK
    <3> QED BY <1>2, <2>1, <2>2, <3>1
            DEF StatusInv, Found, Reports, Exists, schema
  <2> QED BY <2>1, <2>4, <2>5, <2>6 DEF StatusInv
<1> QED BY <1>3, <1>4

\* What the worker and the stored statuses say of a database was found out
\* about the one that is there.
THEOREM StatusCorrect == Benign /\ Steadfast => (Spec => []StatusInv)
<1> SUFFICES ASSUME Benign, Steadfast PROVE Spec => []StatusInv
  OBVIOUS
<1>1. Init => StatusInv
  BY DEF Init, K8sInit, NeverCreated, NewObject, NoStatus, StatusInv, Told,
         Found, Reports, Success
<1>2. /\ TypeOK /\ LedgerInv /\ FinalizerInv /\ Current /\ StatusInv /\ [Next]_vars
      => StatusInv'
  <2> SUFFICES ASSUME TypeOK, LedgerInv, FinalizerInv, Current, StatusInv,
                      [Next]_vars
               PROVE  StatusInv'
    OBVIOUS
  <2>1. CASE Progress
    BY <2>1, LookupTold, ChangeTold, UpdateTold DEF Progress
  <2>2. CASE \E o \in Objects : BeginReconcile(o)
    BY <2>2, BeginTold
  <2>3. CASE Environment
    BY <2>3, EnvironmentTold
  <2>4. CASE UNCHANGED vars
    BY <2>4 DEF vars, k8s, mysql, StatusInv, Told, Found, Reports, Exists, schema
  <2> QED BY <2>1, <2>2, <2>3, <2>4 DEF Next, Operator
<1> QED BY <1>1, <1>2, TypeCorrect, LedgerCorrect, FinalizerCorrect, CopyIsCurrent,
           PTL DEF Spec

\* Only the last branch of Reconcile stores a success.
LEMMA WhoReports ==
  ASSUME TypeOK, [Next]_vars, NEW o \in Objects,
         api'[o].status # api[o].status, api'[o].status.message \in Success
  PROVE  SaveStatus /\ obj = o /\ api'[o].status = inst.status
<1>1. api[o] \in Database /\ api[o].status \in Status
  BY DEF TypeOK, Database
<1>2. CASE SaveStatus
  <2>1. obj \in Objects
    BY <1>2, WorkerHolds DEF SaveStatus
  <2>2. api' = api \/ api' = [api EXCEPT ![obj] = [api[obj] EXCEPT !.status = inst.status]]
    BY <1>2 DEF SaveStatus, Write, WriteStamped, store
  <2> QED BY <1>2, <2>1, <2>2 DEF TypeOK, Database
<1>3. CASE AddFinalizer \/ RemoveFinalizer \/ SaveReport
  <2>1. obj \in Objects /\ api[obj] \in Database /\ api[obj].status \in Status
    BY <1>3, WorkerHolds DEF AddFinalizer, RemoveFinalizer, SaveReport, TypeOK, Database
  <2>2. CASE AddFinalizer
    <3>1. \/ api' = api
          \/ api' = [api EXCEPT ![obj] = [api[obj] EXCEPT !.finalizer = TRUE]]
      BY <2>2 DEF AddFinalizer, Write, store
    <3>2. [api[obj] EXCEPT !.finalizer = TRUE].status = api[obj].status
      BY <2>1 DEF Database
    <3> QED BY <2>1, <3>1, <3>2 DEF TypeOK
  <2>3. CASE RemoveFinalizer
    <3>1. \/ api' = api
          \/ api' = [api EXCEPT ![obj] =
                       [api[obj] EXCEPT !.finalizer = FALSE, !.phase = "gone"]]
      BY <2>3 DEF RemoveFinalizer, Write, store
    <3>2. [api[obj] EXCEPT !.finalizer = FALSE, !.phase = "gone"].status
            = api[obj].status
      BY <2>1 DEF Database
    <3> QED BY <2>1, <3>1, <3>2 DEF TypeOK
  <2>4. CASE SaveReport
    <3>1. \/ api' = api
          \/ api' = [api EXCEPT ![obj] =
                       [api[obj] EXCEPT !.status.message = "unreachable"]]
      BY <2>4 DEF SaveReport, Write, store
    <3>2. [api[obj] EXCEPT !.status.message = "unreachable"].status.message
            = "unreachable"
      BY <2>1 DEF Database, Status
    <3> QED BY <2>1, <3>1, <3>2 DEF TypeOK, Success
  <2> QED BY <1>3, <2>2, <2>3, <2>4
<1>4. CASE \E p \in Objects : UserCreate(p) \/ UserEdit(p) \/ UserDelete(p)
  <2>1. PICK p \in Objects : UserCreate(p) \/ UserEdit(p) \/ UserDelete(p)
    BY <1>4
  <2>2. api[p] \in Database
    BY DEF TypeOK
  <2>3. PICK new : /\ api' = [api EXCEPT ![p] = new]
                   /\ new.status = api[p].status \/ new.status = NoStatus
    BY <2>1, <2>2
       DEF UserCreate, UserEdit, UserDelete, Submit, NewObject, Database
  <2> QED BY <2>3 DEF TypeOK, NoStatus, Success
<1>5. CASE UNCHANGED api
  BY <1>5
<1> QED
  BY <1>2, <1>3, <1>4, <1>5
     DEF Next, Operator, Progress, Environment, BeginReconcile, Skip,
         FinalizeUnreachable, FinalizeStart, Unreachable, StartUnprotected,
         StartProtected, Begin, Take, CheckExists, MineExists, MineRecord,
         CreateDatabase, InsertRecord, ConfirmCreate, InSync, AlterDatabase,
         Reread, DropDatabase, ForgetRecord, Crash, Respawn, Restart, Relist,
         Resync, AdminChange, ServerChange, Watch, Observe, Enqueue,
         ExternalCreate, ExternalDrop, SqlOnly, store, vars, k8s

\* A status that reports success is true when it is stored: whatever failed on
\* the way, and however late the copy that the reconcile began with.  Objects
\* may move between servers as long as no CREATE or ALTER fails.
THEOREM StatusIsHonest == Benign /\ Steadfast => (Spec => HonestStatus)
<1> SUFFICES ASSUME Benign, Steadfast PROVE Spec => HonestStatus
  OBVIOUS
<1> DEFINE A == \A o \in Objects :
             /\ api'[o].status # api[o].status
             /\ api'[o].status.message \in {"created", "altered", "synced"}
             => /\ server[Asked(o)] = o
                /\ charset[Asked(o)] = api'[o].status.charset
<1>1. TypeOK /\ FinalizerInv /\ Current /\ StatusInv /\ [Next]_vars => [A]_vars
  <2> SUFFICES ASSUME TypeOK, FinalizerInv, Current, StatusInv, [Next]_vars,
                      NEW o \in Objects, api'[o].status # api[o].status,
                      api'[o].status.message \in Success
               PROVE  /\ server[Asked(o)] = o
                      /\ charset[Asked(o)] = api'[o].status.charset
    BY DEF Success
  <2>1. SaveStatus /\ obj = o /\ api'[o].status = inst.status /\ obj # NoObject
    BY WhoReports, ObjectsAssumption
  <2>2. fresh /\ pc = "status"
    BY <2>1 DEF SaveStatus, Accepted, store
  <2>3. ~Ended(api[obj])
    BY <2>1, <2>2 DEF FinalizerInv, WorkerInv, StatusInv, Reports, Ended
  <2>4. schema = Asked(o)
    BY <2>1, <2>2 DEF Current, schema, Asked
  <2> QED BY <2>1, <2>2, <2>3, <2>4 DEF StatusInv, Reports
<1> QED BY <1>1, TypeCorrect, FinalizerCorrect, CopyIsCurrent, StatusCorrect, PTL
        DEF Spec, HonestStatus

-----------------------------------------------------------------------------
(* Nothing is missed.                                                      *)

\* A DROP may fail, but every other statement and update does what it says.
Faithful == Faults \subseteq {"drop"}

\* A reconcile of o is still to come.
Pending(o) == o \in queue \/ o \notin synced

\* What Settled asks of o.
Fine(o) ==
  /\ api[o].phase # "deleting"
  /\ api[o].phase = "live" =>
       /\ api[o].finalizer
       /\ \/ /\ server[Asked(o)] = o
             /\ api[o].charset \in {Unset, charset[Asked(o)]}
          \/ api[o].status.message = "refused"

Awaited ==
  \A o \in Objects :
    /\ obj = o \/ Pending(o) \/ Fine(o)
    /\ api[o].phase = "deleting" => api[o].finalizer

\* What the worker does not know of will be told to the next reconcile.
Informed ==
  obj # NoObject => IF fresh THEN inst.charset = api[obj].charset ELSE Pending(obj)

Wants(c) == inst.charset \in {Unset, c}

\* How far a reconcile has come.
Achieved ==
  /\ pc \notin {"panic", "report", "reportError"}
  /\ pc = "addFinalizer" => ~inst.finalizer
  /\ pc \in {"mineExists", "mineRecord", "alter"} /\ inst.phase = "live"
       => inst.status.charset = charset[schema]
  /\ pc \in {"record", "confirm", "reread"} => Wants(charset[schema])
  /\ pc = "status" =>
       /\ Protected(inst)
       /\ \/ inst.status.message = "refused"
          \/ server[schema] = obj /\ Wants(charset[schema])

Reachable == \A k \in Connections : admin[k] = "ready"

SettledInv == Reachable /\ Awaited /\ Informed /\ Achieved

\* A statement that leaves the databases of others alone.
LEMMA StatementSettled ==
  ASSUME TypeOK, SettledInv, SqlOnly, obj # NoObject, Achieved',
         inst'.charset = inst.charset,
         \A o \in Objects, s \in Schemas :
           o # obj /\ server[s] = o => server'[s] = o /\ charset'[s] = charset[s]
  PROVE  SettledInv'
<1>1. UNCHANGED <<api, cached, synced, queue, obj, fresh, admin>>
  BY DEF SqlOnly, store
<1>2. Awaited'
  <2> SUFFICES ASSUME NEW o \in Objects, o # obj, Fine(o) PROVE Fine(o)'
    BY <1>1 DEF SettledInv, Awaited, Pending
  <2>1. Asked(o) \in Schemas
    BY NamesAreSchemas DEF Asked, TypeOK
  <2> QED BY <1>1, <2>1 DEF Fine, Asked
<1>3. Informed'
  BY <1>1 DEF SettledInv, Informed, Pending
<1> QED BY <1>1, <1>2, <1>3 DEF SettledInv, Reachable

\* Lookups.
LEMMA LookupSettled ==
  ASSUME Faithful, TypeOK, LedgerInv, FinalizerInv, StatusInv, SettledInv,
         \/ CheckExists \/ MineExists \/ MineRecord
         \/ ConfirmCreate \/ InSync \/ Reread
  PROVE  SettledInv'
<1>1. /\ obj \in Objects /\ obj # NoObject
      /\ inst \in Database /\ inst.status \in Status
  BY WorkerHolds, ObjectsAssumption
     DEF CheckExists, MineExists, MineRecord, ConfirmCreate, InSync, Reread,
         TypeOK, Database
<1>2. SqlOnly /\ UNCHANGED mysql /\ obj' = obj /\ schema' = schema
  BY StatementKeeps
     DEF CheckExists, MineExists, MineRecord, ConfirmCreate, InSync, Reread,
         SqlOnly
<1>3. UNCHANGED <<server, charset>>
  BY <1>2 DEF mysql
<1>4. \A f : Answers(f) = {f}
  BY DEF Faithful, Answers
<1>5. Achieved' /\ inst'.charset = inst.charset
  <2>1. CASE CheckExists
    <3>1. \/ pc' = "create" /\ inst' = inst
          \/ pc' = "mineExists" /\ inst' = [inst EXCEPT !.status.charset = charset[schema]]
      BY <1>4, <2>1 DEF CheckExists, SetCharset, Goto
    <3> QED BY <1>1, <1>2, <1>3, <3>1 DEF Achieved, Database, Status
  <2>2. CASE MineExists
    <3>1. CASE Exists
      <4>1. pc = "mineExists" /\ pc' = "mineRecord" /\ inst' = inst
        BY <1>4, <2>2, <3>1 DEF MineExists, Goto
      <4> QED BY <1>2, <1>3, <4>1 DEF SettledInv, Achieved
    <3>2. CASE ~Exists
      <4>1. inst.phase = "deleting"
        BY <2>2, <3>2
           DEF MineExists, StatusInv, Found, FinalizerInv, BranchInv, Protected
      <4>2. pc' = "drop" /\ inst' = inst
        BY <1>4, <2>2, <3>2, <4>1 DEF MineExists, Permitted, Goto
      <4> QED BY <4>2 DEF Achieved
    <3> QED BY <3>1, <3>2
  <2>3. CASE MineRecord
    <3>1. pc = "mineRecord" /\ (inst.phase = "deleting" \/ Protected(inst))
      BY <2>3 DEF MineRecord, FinalizerInv, BranchInv
    <3>2. CASE RecordMatches
      <4>1. /\ inst' = inst
            /\ pc' = "drop" \/ (pc' = "alter" /\ inst.phase # "deleting")
        BY <1>4, <2>3, <3>2 DEF MineRecord, Permitted, Goto
      <4> QED BY <1>2, <1>3, <3>1, <4>1 DEF SettledInv, Achieved
    <3>3. CASE ~RecordMatches
      <4>1. \/ pc' = "removeFinalizer" /\ inst' = inst
            \/ /\ inst.phase = "live" /\ pc' = "status"
               /\ inst' = [inst EXCEPT !.status.message = "refused"]
        BY <1>4, <2>3, <3>3 DEF MineRecord, Denied, SetMessage, Goto
      <4> QED BY <1>1, <3>1, <4>1 DEF Achieved, Protected, Database, Status
    <3> QED BY <3>2, <3>3
  <2>4. CASE ConfirmCreate
    <3>1. /\ server[schema] = obj /\ Protected(inst) /\ Wants(charset[schema])
          /\ Exists
      BY <1>1, <2>4, DatabaseAssumption
         DEF ConfirmCreate, LedgerInv, VerdictHolds, FinalizerInv, BranchInv,
             SettledInv, Achieved, Exists
    <3>2. /\ pc' = "status"
          /\ inst' = [inst EXCEPT !.status = [charset |-> charset[schema],
                                              message |-> "created"]]
      BY <1>4, <2>4, <3>1 DEF ConfirmCreate, Goto
    <3> QED BY <1>1, <1>2, <1>3, <3>1, <3>2 DEF Achieved, Protected, Wants, Database
  <2>5. CASE InSync
    <3>1. Protected(inst) /\ inst.status.charset = charset[schema]
      BY <2>5 DEF InSync, FinalizerInv, BranchInv, SettledInv, Achieved, Protected
    <3>2. Wants(charset[schema])
      BY <2>5, <3>1 DEF InSync, NeedsAlter, Wants
    <3>3. pc' = "reread" /\ inst' = [inst EXCEPT !.status.message = "synced"]
      BY <2>5 DEF InSync, SetMessage, Goto
    <3> QED BY <1>1, <1>2, <1>3, <3>2, <3>3 DEF Achieved, Wants, Database
  <2>6. CASE Reread
    <3>1. /\ server[schema] = obj /\ Protected(inst) /\ Wants(charset[schema])
      BY <2>6
         DEF Reread, StatusInv, Found, FinalizerInv, BranchInv, SettledInv, Achieved
    <3>2. /\ pc' = "status"
          /\ \/ inst' = inst
             \/ inst' = [inst EXCEPT !.status.charset = charset[schema]]
      BY <2>6 DEF Reread, SetCharset, Goto
    <3> QED BY <1>1, <1>2, <1>3, <3>1, <3>2 DEF Achieved, Protected, Wants, Database
  <2> QED BY <2>1, <2>2, <2>3, <2>4, <2>5, <2>6
<1> QED BY <1>1, <1>2, <1>3, <1>5, StatementSettled

\* Statements that change the server.
LEMMA ChangeSettled ==
  ASSUME Faithful, TypeOK, LedgerInv, FinalizerInv, StatusInv, SettledInv,
         \/ CreateDatabase \/ InsertRecord \/ AlterDatabase
         \/ DropDatabase \/ ForgetRecord
  PROVE  SettledInv'
<1>1. /\ obj \in Objects /\ obj # NoObject
      /\ schema \in Schemas /\ inst \in Database /\ inst.status \in Status
      /\ server \in [Schemas -> Objects \cup {Absent, Foreign}]
      /\ charset \in [Schemas -> Charsets]
  BY WorkerHolds, ObjectsAssumption
     DEF CreateDatabase, InsertRecord, AlterDatabase, DropDatabase,
         ForgetRecord, TypeOK, Database
<1>2. SqlOnly /\ obj' = obj /\ schema' = schema
  BY StatementKeeps DEF SqlOnly
<1>3. Outcomes = {[applied |-> TRUE, ok |-> TRUE]}
  BY DEF Faithful, Outcomes
<1>4. CASE CreateDatabase
  <2>1. ~Exists
    BY <1>4 DEF CreateDatabase, StatusInv, Found
  <2>2. /\ pc' = "record"
        /\ server' = [server EXCEPT ![schema] = obj]
        /\ charset' = [charset EXCEPT ![schema] = CreatedWith(inst.charset)]
        /\ inst' = [inst EXCEPT !.status.charset = Presumed(inst)]
    BY <1>3, <1>4, <2>1 DEF CreateDatabase, SetCharset, AfterCreate, Goto
  <2>3. inst'.charset = inst.charset
    BY <1>1, <2>2 DEF Database
  <2>4. Achieved'
    BY <1>1, <1>2, <2>2, <2>3 DEF Achieved, Wants, CreatedWith
  <2>5. \A o \in Objects, s \in Schemas :
          o # obj /\ server[s] = o => server'[s] = o /\ charset'[s] = charset[s]
    BY <1>1, <2>1, <2>2, DatabaseAssumption DEF Exists
  <2> QED BY <1>1, <1>2, <2>3, <2>4, <2>5, StatementSettled
<1>5. CASE InsertRecord
  <2>1. UNCHANGED <<inst, server, charset>> /\ pc = "record" /\ pc' = "confirm"
    BY <1>5 DEF InsertRecord, Goto
  <2>2. Achieved'
    BY <1>2, <2>1 DEF SettledInv, Achieved, Wants
  <2> QED BY <1>1, <1>2, <2>1, <2>2, StatementSettled
<1>6. CASE AlterDatabase
  <2>1. server[schema] = obj /\ Exists
    BY <1>1, <1>6, DatabaseAssumption DEF AlterDatabase, StatusInv, Found, Exists
  <2>2. /\ pc' = "reread" /\ server' = server
        /\ charset' = [charset EXCEPT ![schema] = inst.charset]
        /\ inst' = [inst EXCEPT !.status = [charset |-> inst.charset,
                                            message |-> "altered"]]
    BY <1>3, <1>6, <2>1 DEF AlterDatabase, AlterMessage, Goto
  <2>3. inst'.charset = inst.charset
    BY <1>1, <2>2 DEF Database
  <2>4. Achieved'
    BY <1>1, <1>2, <2>2, <2>3 DEF Achieved, Wants
  <2>5. \A o \in Objects, s \in Schemas :
          o # obj /\ server[s] = o => charset'[s] = charset[s]
    BY <1>1, <2>1, <2>2, DatabaseAssumption
  <2> QED BY <1>1, <1>2, <2>2, <2>3, <2>4, <2>5, StatementSettled
<1>7. CASE DropDatabase \/ ForgetRecord
  <2>1. /\ inst' = inst /\ pc' \in {"forget", "removeFinalizer"}
        /\ \/ UNCHANGED <<server, charset>>
           \/ /\ pc = "drop"
              /\ server' = [server EXCEPT ![schema] = Absent]
              /\ charset' = [charset EXCEPT ![schema] = DefaultCharset]
    BY <1>7 DEF DropDatabase, ForgetRecord, AfterDrop, Goto
  <2>2. Achieved'
    BY <2>1 DEF Achieved
  <2>3. pc = "drop" => server[schema] \in {Absent, obj}
    BY DEF LedgerInv, VerdictHolds
  <2>4. \A o \in Objects, s \in Schemas :
          o # obj /\ server[s] = o => server'[s] = o /\ charset'[s] = charset[s]
    BY <1>1, <2>1, <2>3, DatabaseAssumption
  <2> QED BY <1>1, <1>2, <2>1, <2>2, <2>4, StatementSettled
<1> QED BY <1>4, <1>5, <1>6, <1>7

\* A reconcile that ends has left a version or an error behind, or nothing to do.
LEMMA UpdateSettled ==
  ASSUME Faithful, TypeOK, FinalizerInv, Current, SettledInv,
         AddFinalizer \/ RemoveFinalizer \/ SaveStatus \/ SaveReport
  PROVE  SettledInv'
<1>1. /\ obj \in Objects /\ obj # NoObject /\ inst \in Database
      /\ api[obj] \in Database /\ DOMAIN api = Objects
      /\ pc \in {"addFinalizer", "removeFinalizer", "status"}
  BY WorkerHolds, ObjectsAssumption
     DEF AddFinalizer, RemoveFinalizer, SaveStatus, SaveReport, TypeOK,
         SettledInv, Achieved
<1>2. /\ UNCHANGED <<server, charset, admin>> /\ obj' = NoObject /\ pc' = "idle"
      /\ \A o \in Objects : o # obj => api'[o] = api[o] /\ (Pending(o) => Pending(o)')
  BY <1>1
     DEF AddFinalizer, RemoveFinalizer, SaveStatus, SaveReport, Done, Return,
         Goto, K8sOnly, mysql, store, Write, WriteStamped, Pending
<1>3. "update" \notin Faults
  BY DEF Faithful
<1>4. ASSUME NEW o \in Objects, o = obj
      PROVE  /\ Pending(o)' \/ Fine(o)'
             /\ api'[o].phase = "deleting" => api'[o].finalizer
  <2>1. CASE ~fresh
    <3>1. Pending(o) /\ (api[o].phase = "deleting" => api[o].finalizer)
      BY <1>1, <1>4, <2>1 DEF SettledInv, Informed, Awaited
    <3>2. UNCHANGED store /\ queue \subseteq queue'
      BY <1>1, <2>1
         DEF AddFinalizer, RemoveFinalizer, SaveStatus, SaveReport, Done, Return,
             Accepted
    <3> QED BY <3>1, <3>2 DEF Pending, store
  <2>2. CASE fresh
    <3>1. /\ inst.phase = api[o].phase /\ inst.finalizer = api[o].finalizer
          /\ inst.charset = api[o].charset /\ schema = Asked(o)
      BY <1>1, <1>4, <2>2
         DEF FinalizerInv, WorkerInv, SettledInv, Informed, Current, schema, Asked
    <3>2. CASE AddFinalizer
      <4>1. Write([api[o] EXCEPT !.finalizer = TRUE]) /\ ~inst.finalizer
        BY <1>3, <1>4, <2>2, <3>2 DEF AddFinalizer, Refusable, SettledInv, Achieved
      <4>2. api[o] # [api[o] EXCEPT !.finalizer = TRUE]
        BY <1>1, <1>4, <3>1, <4>1 DEF Database
      <4>3. o \notin synced' /\ api'[o].finalizer
        BY <1>1, <1>4, <4>1, <4>2 DEF Write, Database
      <4> QED BY <4>3 DEF Pending
    <3>3. CASE RemoveFinalizer
      <4>1. api'[o].phase = "gone"
        BY <1>1, <1>3, <1>4, <2>2, <3>3 DEF RemoveFinalizer, Refusable, Write, Database
      <4> QED BY <4>1 DEF Fine
    <3>4. CASE SaveStatus
      <4>1. /\ Protected(inst)
            /\ \/ inst.status.message = "refused"
               \/ server[Asked(o)] = o /\ Wants(charset[Asked(o)])
        BY <1>4, <3>1, <3>4 DEF SaveStatus, SettledInv, Achieved
      <4>2. api' = [api EXCEPT ![o] = [api[o] EXCEPT !.status = inst.status]]
        BY <1>3, <1>4, <2>2, <3>4 DEF SaveStatus, Refusable, Write, WriteStamped
      <4>3. /\ api'[o].phase = "live" /\ api'[o].finalizer
            /\ api'[o].charset = inst.charset /\ api'[o].status = inst.status
            /\ api'[o].connection = api[o].connection
        BY <1>1, <1>4, <3>1, <4>1, <4>2 DEF Database, Protected
      <4> QED BY <1>2, <4>1, <4>3 DEF Fine, Wants, Asked
    <3>5. CASE SaveReport
      BY <1>1, <3>5 DEF SaveReport
    <3> QED BY <3>2, <3>3, <3>4, <3>5
  <2> QED BY <2>1, <2>2
<1>5. Awaited'
  <2> SUFFICES ASSUME NEW o \in Objects
               PROVE  /\ obj' = o \/ Pending(o)' \/ Fine(o)'
                      /\ api'[o].phase = "deleting" => api'[o].finalizer
    BY DEF Awaited
  <2>1. CASE o = obj
    BY <1>4, <2>1
  <2>2. CASE o # obj
    BY <1>2, <2>2 DEF SettledInv, Awaited, Fine, Asked
  <2> QED BY <2>1, <2>2
<1> QED BY <1>2, <1>5 DEF SettledInv, Reachable, Informed, Achieved

\* What is skipped has nothing to be done, or a watch event to come.
LEMMA BeginSettled ==
  ASSUME TypeOK, FinalizerInv, SettledInv, NEW o \in Objects, BeginReconcile(o)
  PROVE  SettledInv'
<1>1. o \in synced => cached[o] = api[o]
  BY DEF FinalizerInv, CacheInv
<1>2. UNCHANGED <<api, cached, synced, server, charset, admin>> /\ queue' = queue \ {o}
      /\ obj = NoObject
  BY DEF BeginReconcile, Skip, FinalizeUnreachable, FinalizeStart, Unreachable,
         StartUnprotected, StartProtected, Begin, Take, K8sOnly, mysql, store,
         TypeOK
<1>3. CASE Skip(o)
  <2>1. /\ NothingToDo(cached[o]) /\ UNCHANGED <<pc, obj, inst, fresh>>
    BY <1>3 DEF Skip, worker
  <2>2. Pending(o)' \/ Fine(o)
    <3>1. CASE o \in synced
      BY <1>1, <2>1, <3>1 DEF SettledInv, Awaited, NothingToDo, Fine
    <3>2. CASE o \notin synced
      BY <1>2, <3>2 DEF Pending
    <3> QED BY <3>1, <3>2
  <2>3. \A p \in Objects : p # o /\ Pending(p) => Pending(p)'
    BY <1>2 DEF Pending
  <2>4. Awaited'
    BY <1>2, <2>1, <2>2, <2>3, ObjectsAssumption DEF SettledInv, Awaited, Fine, Asked
  <2> QED BY <1>2, <2>1, <2>4
          DEF SettledInv, Reachable, Informed, Achieved, Wants, schema
<1>4. CASE ~Skip(o)
  <2>0. Reach(cached[o]) = "ready"
    <3>1. cached[o].connection \in Connections
      BY DEF TypeOK, Database
    <3> QED BY <3>1 DEF Reach, SettledInv, Reachable
  <2>1. /\ obj' = o /\ inst' = cached[o] /\ fresh' = (o \in synced)
        /\ pc' \notin {"panic", "report", "reportError", "mineRecord", "alter",
                       "record", "confirm", "reread", "status"}
        /\ pc' = "addFinalizer" => ~inst'.finalizer
        /\ pc' = "mineExists" => inst'.phase = "deleting"
    BY <1>4, <2>0
       DEF BeginReconcile, FinalizeUnreachable, FinalizeStart, Unreachable,
           StartUnprotected, StartProtected, Begin, Take, Goto, NeedsFinalizer
  <2>2. Achieved'
    BY <2>1 DEF Achieved
  <2>3. Awaited' /\ Informed'
    BY <1>1, <1>2, <2>1, ObjectsAssumption
       DEF SettledInv, Awaited, Informed, Fine, Pending, Asked
  <2> QED BY <1>2, <2>2, <2>3 DEF SettledInv, Reachable
<1> QED BY <1>3, <1>4

\* Whatever users store is a version that the cache has yet to see.
LEMMA EnvironmentSettled ==
  ASSUME Faithful, TypeOK, SettledInv, Environment
  PROVE  SettledInv'
<1>1. UNCHANGED <<admin, server, charset, pc, obj, inst>> /\ queue \subseteq queue'
  BY DEF Environment, Faithful, SettledInv, Achieved, Crash, Respawn, Resync,
         AdminChange, ServerChange, Enqueue, UserCreate, UserEdit, UserDelete,
         Submit, Watch, Observe, ExternalCreate, ExternalDrop, K8sOnly, k8s,
         mysql, worker
<1>2. Achieved'
  BY <1>1 DEF SettledInv, Achieved, Wants, schema
<1>3. CASE \/ UNCHANGED <<api, synced, fresh>>
           \/ \E o \in Objects : Watch(o)
  <2>1. /\ UNCHANGED <<api, fresh>>
        /\ \A p \in Objects : Pending(p) => Pending(p)'
    BY <1>1, <1>3 DEF Pending, Watch, Observe
  <2>2. Awaited'
    BY <1>1, <2>1 DEF SettledInv, Awaited, Fine, Asked
  <2>3. Informed'
    <3>1. obj # NoObject => obj \in Objects
      BY DEF TypeOK
    <3> QED BY <1>1, <2>1, <3>1 DEF SettledInv, Informed
  <2> QED BY <1>1, <1>2, <2>2, <2>3 DEF SettledInv, Reachable
<1>4. CASE \E o \in Objects : UserCreate(o) \/ UserEdit(o) \/ UserDelete(o)
  <2>1. PICK o \in Objects : UserCreate(o) \/ UserEdit(o) \/ UserDelete(o)
    BY <1>4
  <2>2. api[o] \in Database /\ (api[o].phase = "deleting" => api[o].finalizer)
    BY DEF TypeOK, SettledInv, Awaited
  <2>3. PICK new : Submit(o, new) /\ (new.phase = "deleting" => new.finalizer)
    <3>1. CASE UserCreate(o)
      BY <3>1 DEF UserCreate, NewObject
    <3>2. CASE UserEdit(o)
      <4>1. /\ \A c \in Wanted :
                 /\ [api[o] EXCEPT !.charset = c].phase = api[o].phase
                 /\ [api[o] EXCEPT !.charset = c].finalizer = api[o].finalizer
            /\ \A k \in Places[o] :
                 /\ [api[o] EXCEPT !.connection = k].phase = api[o].phase
                 /\ [api[o] EXCEPT !.connection = k].finalizer = api[o].finalizer
        BY <2>2 DEF Database
      <4> QED BY <2>2, <3>2, <4>1 DEF UserEdit
    <3>3. CASE UserDelete(o)
      BY <2>2, <3>3 DEF UserDelete, Database
    <3> QED BY <2>1, <3>1, <3>2, <3>3
  <2>4. /\ api'[o] = new /\ Pending(o)'
        /\ \A p \in Objects : p # o => api'[p] = api[p] /\ (Pending(p) => Pending(p)')
        /\ fresh' = (fresh /\ obj # o)
    BY <2>3 DEF Submit, TypeOK, Pending
  <2>5. Awaited'
    BY <1>1, <2>3, <2>4 DEF SettledInv, Awaited, Fine, Asked
  <2>6. Informed'
    <3>1. obj # NoObject => obj \in Objects
      BY DEF TypeOK
    <3> QED BY <1>1, <2>4, <3>1 DEF SettledInv, Informed
  <2> QED BY <1>1, <1>2, <2>5, <2>6 DEF SettledInv, Reachable
<1> QED
  BY <1>3, <1>4
     DEF Environment, Faithful, SettledInv, Achieved, Crash, Respawn, Resync,
         AdminChange, ServerChange, Enqueue, Watch, Observe, ExternalCreate,
         ExternalDrop, store, worker, k8s

LEMMA FaithfulIsBenign == Faithful => Benign /\ Steadfast
BY DEF Faithful, Benign, Steadfast

\* When nothing is queued, cached late or under way, and only DROPs can fail,
\* no object is left without what its specification asks for.
THEOREM NothingMissed == Faithful => (Spec => []Settled)
<1> SUFFICES ASSUME Faithful PROVE Spec => []Settled
  OBVIOUS
<1>1. Benign /\ Steadfast
  BY FaithfulIsBenign
<1>2. Init => SettledInv
  BY DEF Init, Faithful, K8sInit, NeverCreated, NewObject, SettledInv, Reachable,
         Awaited, Informed, Achieved, Fine
<1>3. /\ TypeOK /\ LedgerInv /\ FinalizerInv /\ Current /\ StatusInv /\ SettledInv
      /\ [Next]_vars
      => SettledInv'
  <2> SUFFICES ASSUME TypeOK, LedgerInv, FinalizerInv, Current, StatusInv, SettledInv,
                      [Next]_vars
               PROVE  SettledInv'
    OBVIOUS
  <2>1. CASE Progress
    BY <2>1, LookupSettled, ChangeSettled, UpdateSettled DEF Progress
  <2>2. CASE \E o \in Objects : BeginReconcile(o)
    BY <2>2, BeginSettled
  <2>3. CASE Environment
    BY <2>3, EnvironmentSettled
  <2>4. CASE UNCHANGED vars
    BY <2>4
       DEF vars, k8s, mysql, SettledInv, Reachable, Awaited, Pending, Fine, Asked,
           Informed, Achieved, Wants, schema
  <2> QED BY <2>1, <2>2, <2>3, <2>4 DEF Next, Operator
<1>4. TypeOK /\ SettledInv => Settled
  BY ObjectsAssumption
     DEF TypeOK, SettledInv, Awaited, Pending, Fine, Settled, Quiet
<1> QED
  BY <1>1, <1>2, <1>3, <1>4, TypeCorrect, LedgerCorrect, FinalizerCorrect,
     CopyIsCurrent, StatusCorrect, PTL DEF Spec
=============================================================================
