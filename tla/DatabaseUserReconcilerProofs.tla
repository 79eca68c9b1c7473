-------------------- MODULE DatabaseUserReconcilerProofs --------------------
(***************************************************************************)
(* Proofs about DatabaseUserReconciler for any number of objects, names,   *)
(* Databases and specifications; unless a theorem says so, every fault.    *)
(***************************************************************************)
EXTENDS DatabaseUserReconciler, ApiServerProofs

-----------------------------------------------------------------------------
(* Types.                                                                  *)

\* The statements run under a name that has been claimed.
NameInv ==
  pc \in {"exists", "mine", "create", "grant", "grantMine", "grantOne",
          "record", "rename", "details", "permissions", "revoke"} => name \in Names

\* Every record that a user can create is a User.
LEMMA ObjectTypes ==
  \A s \in Specs : NewObject(s) \in User /\ NeverCreated(s) \in User
<1>1. NoStatus \in Status
  BY UserAssumption DEF NoStatus, Status, Messages, Contents
<1>2. \A s \in Specs : NewObject(s) \in User
  BY <1>1 DEF NewObject, User, Phases
<1>3. \A s \in Specs : NeverCreated(s) \in User
  BY <1>2 DEF NeverCreated, User, Phases
<1> QED BY <1>2, <1>3

\* The parts of a User.
LEMMA UserParts ==
  ASSUME NEW i \in User
  PROVE  /\ i.status \in Status /\ i.spec \in Specs /\ i.spec \in UserSpec
         /\ i.phase \in Phases /\ i.finalizer \in BOOLEAN
         /\ \A s \in Status : [i EXCEPT !.status = s] \in User
         /\ \A b \in BOOLEAN : [i EXCEPT !.finalizer = b] \in User
         /\ \A s \in Specs : [i EXCEPT !.spec = s] \in User
         /\ \A p \in Phases : [i EXCEPT !.phase = p] \in User
         /\ \A m \in Messages : [i EXCEPT !.status.message = m] \in User
         /\ \A n \in Names : [i EXCEPT !.status.username = n] \in User
BY UserAssumption DEF User, Status

\* A status that has moved to another server is still one.
LEMMA MovedType ==
  ASSUME NEW t \in Status, NEW k \in Connections
  PROVE  Moved(t, k) \in Status
<1>1. t.username \in Names \cup {Unset} /\ t.grants \in SUBSET Line
  BY DEF Status
<1>2. \A n \in Names : Namesake[k][n] \in Names
  BY UserAssumption
<1> DEFINE u == IF t.username = Unset THEN Unset ELSE Namesake[k][t.username]
           g == {<<Namesake[k][l[1]], l[2]>> : l \in t.grants}
<1>3. u \in Names \cup {Unset}
  BY <1>1, <1>2
<1>4. g \in SUBSET Line
  BY <1>1, <1>2 DEF Line
<1>5. Moved(t, k) = [t EXCEPT !.username = u, !.grants = g]
  BY <1>1 DEF Moved, Status
<1> HIDE DEF u, g
<1> QED BY <1>3, <1>4, <1>5 DEF Status

\* The initial state is well typed.
LEMMA InitType == Init => TypeOK
<1> SUFFICES ASSUME Init PROVE TypeOK
  OBVIOUS
<1>1. NewFrame \in Frame
  BY UserAssumption DEF NewFrame, Frame, Contents
<1>2. ForeignAccount \in Account
  BY UserAssumption DEF ForeignAccount, Account, Contents
<1>3. 0 \in Contents
  BY UserAssumption DEF Contents
<1> QED BY <1>1, <1>2, <1>3, ObjectTypes DEF Init, K8sInit, TypeOK, Steps

\* A reconcile ends well typed.
LEMMA DoneType ==
  ASSUME TypeOK, obj \in Objects, NEW r \in BOOLEAN, Done(r),
         \/ UNCHANGED store
         \/ \E new \in User : Write(new) \/ WriteStamped(new),
         UNCHANGED <<admin, database>>,
         secret' \in [Objects -> [content : Contents, owned : BOOLEAN]],
         accounts' \in [Names -> Account \cup {Absent}],
         ledger' \in [Objects -> SUBSET Names]
  PROVE  TypeOK'
<1>1. NewFrame \in Frame
  BY UserAssumption DEF NewFrame, Frame, Contents
<1>2. /\ api' \in [Objects -> User] /\ synced' \subseteq Objects
      /\ cached' = cached
  BY DEF store, Write, WriteStamped, TypeOK
<1>3. /\ queue' \subseteq Objects /\ obj' = NoObject /\ inst' = NoObject
      /\ fresh' = FALSE /\ pc' = "idle" /\ frame' = NewFrame
  BY DEF Done, Return, Goto, TypeOK
<1> QED BY <1>1, <1>2, <1>3 DEF TypeOK, Steps

\* A statement goes on well typed.
LEMMA StatementType ==
  ASSUME TypeOK, obj \in Objects, SqlOnly,
         pc' \in Steps \ {"idle"}, inst' \in User, frame' \in Frame,
         accounts' \in [Names -> Account \cup {Absent}],
         ledger' \in [Objects -> SUBSET Names]
  PROVE  TypeOK'
BY ObjectsAssumption DEF SqlOnly, store, world, TypeOK

\* Updates of the object keep the types.
LEMMA UpdateType ==
  ASSUME TypeOK,
         \/ ClaimName \/ AddFinalizer \/ InvalidName \/ RemoveFinalizer
         \/ SaveReport \/ SaveStatus
  PROVE  TypeOK'
<1>1. obj \in Objects /\ inst \in User /\ api[obj] \in User
  BY ObjectsAssumption
     DEF ClaimName, AddFinalizer, InvalidName, RemoveFinalizer, SaveReport,
         SaveStatus, TypeOK
<1>2. ASSUME NEW new \in User, Update(new)
      PROVE  TypeOK'
  BY <1>1, <1>2, DoneType DEF Update, K8sOnly, mysql, world, TypeOK
<1>3. CASE ClaimName
  BY <1>1, <1>2, <1>3, UserParts DEF ClaimName, UserSpec
<1>4. CASE AddFinalizer
  BY <1>1, <1>2, <1>4, UserParts DEF AddFinalizer
<1>5. CASE InvalidName
  BY <1>1, <1>2, <1>5, UserParts DEF InvalidName, Messages
<1>6. CASE RemoveFinalizer
  <2>1. [api[obj] EXCEPT !.finalizer = FALSE, !.phase = "gone"] \in User
    BY <1>1 DEF User, Phases
  <2> QED BY <1>2, <1>6, <2>1 DEF RemoveFinalizer
<1>7. CASE SaveReport
  <2>1. [api[obj] EXCEPT !.status.message = "unreachable"] \in User
    BY <1>1, UserParts DEF Messages
  <2> QED BY <1>1, <1>7, <2>1, DoneType DEF SaveReport, K8sOnly, mysql, world,
                                            TypeOK
<1>8. CASE SaveStatus
  <2>1. [api[obj] EXCEPT !.status = inst.status] \in User
    BY <1>1, UserParts
  <2> QED BY <1>1, <1>8, <2>1, DoneType DEF SaveStatus, K8sOnly, mysql, world,
                                            TypeOK
<1> QED BY <1>3, <1>4, <1>5, <1>6, <1>7, <1>8

\* The worker holds an object during every call.
LEMMA WorkerHolds ==
  ASSUME TypeOK, pc # "idle"
  PROVE  obj \in Objects /\ inst \in User /\ api[obj] \in User
BY DEF TypeOK

\* An error ends the reconcile well typed, and so does a change of a secret.
LEMMA GiveUpType ==
  ASSUME TypeOK, obj \in Objects, GiveUp, UNCHANGED world,
         accounts' \in [Names -> Account \cup {Absent}],
         ledger' \in [Objects -> SUBSET Names]
  PROVE  TypeOK'
BY DoneType DEF GiveUp, world, TypeOK

\* Values of the worker's local variables.
LEMMA FrameTypes ==
  ASSUME NEW f \in Frame
  PROVE  /\ \A c \in Contents : [f EXCEPT !.secret = c] \in Frame
         /\ \A t \in SUBSET Databases : [f EXCEPT !.todo = t] \in Frame
         /\ [f EXCEPT !.changed = TRUE] \in Frame
         /\ [f EXCEPT !.failed = TRUE] \in Frame
         /\ [f EXCEPT !.todo = {}, !.failed = TRUE] \in Frame
         /\ \A t \in SUBSET Databases :
              [f EXCEPT !.todo = t, !.creating = TRUE, !.changed = TRUE] \in Frame
         /\ \A t \in SUBSET Databases, b \in BOOLEAN :
              [f EXCEPT !.changed = b, !.todo = t] \in Frame
         /\ \A t, g \in SUBSET Databases :
              /\ [f EXCEPT !.granting = g] \in Frame
              /\ [f EXCEPT !.todo = t, !.granting = g] \in Frame
         /\ f.secret \in Contents /\ f.todo \in SUBSET Databases
         /\ f.granting \in SUBSET Databases
BY DEF Frame

\* The steps around the secret keep the types.
LEMMA SecretType ==
  ASSUME TypeOK, ReadSecret \/ CreateSecret \/ OwnSecret
  PROVE  TypeOK'
<1>1. obj \in Objects /\ inst \in User /\ frame \in Frame /\ pc # "idle"
  BY WorkerHolds DEF ReadSecret, CreateSecret, OwnSecret, TypeOK
<1>2. secret[obj] \in [content : Contents, owned : BOOLEAN] /\ 0 \in Contents
  BY <1>1, UserAssumption DEF TypeOK, Contents
<1>3. CASE ReadSecret
  <2>1. frame' \in Frame
    BY <1>1, <1>2, <1>3, FrameTypes DEF ReadSecret
  <2> QED BY <1>1, <1>3, <2>1, StatementType DEF ReadSecret, Goto, mysql,
                                                 TypeOK, Steps
<1>4. CASE CreateSecret
  <2>1. 1 \in Contents
    <3>1. MaxContent \in Nat /\ MaxContent > 0
      BY <1>1, <1>4, UserParts, UserAssumption DEF CreateSecret
    <3> QED BY <3>1 DEF Contents
  <2>2. ASSUME secret' = [secret EXCEPT ![obj].content = 1],
               frame' = [frame EXCEPT !.secret = 1], Goto("claim"),
               UNCHANGED <<k8s, admin, database, mysql>>
        PROVE  TypeOK'
    <3>1. secret' \in [Objects -> [content : Contents, owned : BOOLEAN]]
      BY <1>2, <2>1, <2>2 DEF TypeOK
    <3>2. frame' \in Frame
      BY <1>1, <2>1, <2>2, FrameTypes
    <3>3. pc' \in Steps /\ pc' # "idle"
      BY <2>2 DEF Goto, Steps
    <3> QED BY <1>1, <2>2, <3>1, <3>2, <3>3, ObjectsAssumption DEF k8s, mysql,
                                                                   TypeOK
  <2>3. ASSUME Done(TRUE), UNCHANGED store, K8sOnly
        PROVE  TypeOK'
    BY <1>1, <2>3, DoneType DEF K8sOnly, world, mysql, TypeOK
  <2> QED BY <1>4, <2>2, <2>3 DEF CreateSecret
<1>5. CASE OwnSecret
  <2>1. secret' \in [Objects -> [content : Contents, owned : BOOLEAN]]
    <3>1. [secret[obj] EXCEPT !.owned = TRUE] \in [content : Contents, owned : BOOLEAN]
      BY <1>2
    <3>2. secret' = secret \/ secret' = [secret EXCEPT ![obj] = [secret[obj] EXCEPT !.owned = TRUE]]
      BY <1>5 DEF OwnSecret
    <3> QED BY <1>1, <3>1, <3>2 DEF TypeOK
  <2> QED BY <1>1, <1>5, <2>1, DoneType DEF OwnSecret, mysql, TypeOK
<1> QED BY <1>3, <1>4, <1>5

\* The values that a status goes through.
LEMMA StatusTypes ==
  ASSUME TypeOK, obj \in Objects, inst \in User
  PROVE  /\ Identified(inst) \in Status
         /\ Password \in Contents
         /\ TlsClause(inst) \in BOOLEAN /\ inst.spec.tls \in BOOLEAN
         /\ inst.spec.databases \in SUBSET Databases
         /\ inst.spec.username \in Names
<1>1. inst.status \in Status /\ inst.spec \in UserSpec
  BY UserParts
<1>2. frame.secret \in Contents /\ secret[obj].content \in Contents
  BY FrameTypes DEF TypeOK
<1>3. 0 \in Contents
  BY UserAssumption DEF Contents
<1>4. inst.spec.tls \in BOOLEAN
  BY <1>1 DEF UserSpec
<1>5. Identified(inst) \in Status
  BY <1>1, <1>2, <1>4 DEF Identified, Status
<1> QED BY <1>1, <1>2, <1>3, <1>4, <1>5 DEF Password, TlsClause, UserSpec

\* What SHOW GRANTS adds is a set of lines.
LEMMA ShownType ==
  ASSUME TypeOK, inst \in User, name \in Names, Exists(name)
  PROVE  Shown \in SUBSET Line
<1>1. inst.status.grants \in SUBSET Line
  BY UserParts DEF Status
<1>2. accounts[name].grants \in SUBSET Databases
  BY DEF TypeOK, Exists, Account
<1> QED BY <1>1, <1>2 DEF Shown, Line

\* Steps that only choose the next one.
LEMMA ChoiceType ==
  ASSUME TypeOK,
         \/ Settle \/ NilSecret \/ CheckExists \/ KeepUser \/ CheckFinalize
  PROVE  TypeOK'
<1>1. obj \in Objects /\ inst \in User /\ frame \in Frame
  BY WorkerHolds
     DEF Settle, NilSecret, CheckExists, KeepUser, CheckFinalize, TypeOK
<1>2. /\ SqlOnly /\ UNCHANGED mysql /\ inst' = inst /\ frame' = frame
      /\ pc' \in Steps \ {"idle"}
  BY DEF Settle, NilSecret, CheckExists, KeepUser, CheckFinalize, Goto, Steps
<1> QED BY <1>1, <1>2, StatementType DEF mysql, TypeOK

\* Dropping the account and its row keeps the types.
LEMMA DropType ==
  ASSUME TypeOK, DropUser \/ ForgetRecord
  PROVE  TypeOK'
<1>1. obj \in Objects /\ inst \in User /\ frame \in Frame
  BY WorkerHolds DEF DropUser, ForgetRecord, TypeOK
<1>2. accounts' \in [Names -> Account \cup {Absent}]
  BY DEF DropUser, ForgetRecord, TypeOK
<1>3. ledger' \in [Objects -> SUBSET Names]
  BY <1>1 DEF DropUser, ForgetRecord, Elsewhere, TypeOK
<1>4. /\ SqlOnly /\ inst' = inst /\ frame' = frame /\ pc' \in Steps \ {"idle"}
  BY DEF DropUser, ForgetRecord, Goto, Steps
<1> QED BY <1>1, <1>2, <1>3, <1>4, StatementType

\* userCreate keeps the types.
LEMMA CreateType ==
  ASSUME TypeOK, NameInv, CreateUser
  PROVE  TypeOK'
<1>1. obj \in Objects /\ inst \in User /\ frame \in Frame /\ name \in Names
  BY WorkerHolds DEF CreateUser, NameInv, TypeOK
<1>2. ledger' \in [Objects -> SUBSET Names]
  BY DEF CreateUser, TypeOK
<1>3. ASSUME NEW a \in Account, SetAccount(name, a),
             inst' = [inst EXCEPT !.status = [Identified(inst) EXCEPT
                        !.grants = {}, !.message = "created"]],
             frame' = [frame EXCEPT !.todo = inst.spec.databases,
                                    !.creating = TRUE, !.changed = TRUE],
             Goto("grant"), SqlOnly
      PROVE  TypeOK'
  <2>1. accounts' \in [Names -> Account \cup {Absent}]
    BY <1>1, <1>3 DEF SetAccount, TypeOK
  <2>2. [Identified(inst) EXCEPT !.grants = {}, !.message = "created"] \in Status
    BY <1>1, StatusTypes DEF Status, Messages
  <2>3. inst' \in User
    BY <1>1, <1>3, <2>2, UserParts
  <2>4. frame' \in Frame
    BY <1>1, <1>3, StatusTypes, FrameTypes
  <2> QED BY <1>1, <1>2, <1>3, <2>1, <2>3, <2>4, StatementType DEF Goto, Steps
<1>4. [creator |-> obj, password |-> Password,
       tls |-> TlsClause(inst) /\ inst.spec.tls, grants |-> {}] \in Account
  BY <1>1, StatusTypes DEF Account
<1>5. ASSUME GiveUp, UNCHANGED <<world, accounts>>
      PROVE  TypeOK'
  BY <1>1, <1>2, <1>5, GiveUpType DEF TypeOK
<1> QED BY <1>3, <1>4, <1>5 DEF CreateUser

\* The row that userCreate and a rename write keeps the types.
LEMMA RecordType ==
  ASSUME TypeOK, SaveRecord
  PROVE  TypeOK'
<1>1. obj \in Objects /\ inst \in User /\ frame \in Frame
  BY WorkerHolds DEF SaveRecord, TypeOK
<1>2. inst.spec.username \in Names
  BY <1>1, StatusTypes
<1>3. ledger' \in [Objects -> SUBSET Names]
  BY <1>1, <1>2 DEF SaveRecord, RecordedName, Elsewhere, TypeOK
<1>4. accounts' \in [Names -> Account \cup {Absent}]
  BY DEF SaveRecord, TypeOK
<1>5. ASSUME GiveUp, UNCHANGED world
      PROVE  TypeOK'
  BY <1>1, <1>3, <1>4, <1>5, GiveUpType
<1>6. ASSUME Goto("status"), UNCHANGED <<inst, frame>>, SqlOnly
      PROVE  TypeOK'
  BY <1>1, <1>3, <1>4, <1>6, StatementType DEF Goto, Steps
<1> QED BY <1>5, <1>6 DEF SaveRecord

\* The answer of UserMine keeps the types.
LEMMA MineType ==
  ASSUME TypeOK, CheckMine
  PROVE  TypeOK'
<1>1. obj \in Objects /\ inst \in User /\ frame \in Frame
  BY WorkerHolds DEF CheckMine, TypeOK
<1>2. inst' \in User
  BY <1>1, UserParts DEF CheckMine, SetMessage, Messages
<1>3. /\ pc' \in Steps \ {"idle"} /\ frame' = frame
      /\ SqlOnly /\ UNCHANGED mysql
  BY DEF CheckMine, Goto, Steps
<1> QED BY <1>1, <1>2, <1>3, StatementType DEF mysql, TypeOK

\* RENAME USER keeps the types.
LEMMA RenameType ==
  ASSUME TypeOK, NameInv, RenameUser
  PROVE  TypeOK'
<1>1. obj \in Objects /\ inst \in User /\ frame \in Frame /\ name \in Names
  BY WorkerHolds DEF RenameUser, NameInv, TypeOK
<1>2. inst.spec.username \in Names
  BY <1>1, StatusTypes
<1>3. ledger' \in [Objects -> SUBSET Names]
  BY DEF RenameUser, TypeOK
<1>4. ASSUME accounts' = [accounts EXCEPT ![inst.spec.username] = accounts[name],
                                          ![name] = Absent],
             inst' = [inst EXCEPT !.status.username = inst.spec.username,
                                  !.status.message = "renamed"],
             frame' = [frame EXCEPT !.changed = TRUE],
             Goto("record"), SqlOnly
      PROVE  TypeOK'
  <2>1. accounts' \in [Names -> Account \cup {Absent}]
    BY <1>1, <1>2, <1>4 DEF TypeOK
  <2>2. inst' \in User
    <3> DEFINE n == inst.spec.username
               i == [inst EXCEPT !.status.username = n]
    <3>1. i \in User
      BY <1>1, <1>2, UserParts
    <3>2. [i EXCEPT !.status.message = "renamed"] \in User
      BY <3>1, UserParts DEF Messages
    <3>3. inst' = [i EXCEPT !.status.message = "renamed"]
      BY <1>4
    <3> QED BY <3>2, <3>3
  <2>3. frame' \in Frame
    BY <1>1, <1>4, FrameTypes
  <2> QED BY <1>1, <1>3, <1>4, <2>1, <2>2, <2>3, StatementType DEF Goto, Steps
<1>5. ASSUME GiveUp, UNCHANGED <<world, accounts>>
      PROVE  TypeOK'
  BY <1>1, <1>3, <1>5, GiveUpType DEF TypeOK
<1> QED BY <1>4, <1>5 DEF RenameUser

\* ALTER USER keeps the types.
LEMMA AlterType ==
  ASSUME TypeOK, NameInv, AlterUser
  PROVE  TypeOK'
<1>1. obj \in Objects /\ inst \in User /\ frame \in Frame /\ name \in Names
  BY WorkerHolds DEF AlterUser, NameInv, TypeOK
<1>2. ledger' \in [Objects -> SUBSET Names]
  BY DEF AlterUser, TypeOK
<1>3. ASSUME Exists(name),
             SetAccount(name, [accounts[name] EXCEPT
               !.password = IF PasswordChanged(inst) THEN Password ELSE @,
               !.tls = IF TlsClause(inst) THEN inst.spec.tls ELSE @]),
             inst' = [inst EXCEPT !.status =
                        [Identified(inst) EXCEPT !.message = "altered"]],
             frame' = [frame EXCEPT !.changed = TRUE],
             Goto("status"), SqlOnly
      PROVE  TypeOK'
  <2>1. accounts[name] \in Account
    BY <1>1, <1>3 DEF Exists, TypeOK
  <2>2. [accounts[name] EXCEPT
           !.password = IF PasswordChanged(inst) THEN Password ELSE @,
           !.tls = IF TlsClause(inst) THEN inst.spec.tls ELSE @] \in Account
    BY <1>1, <2>1, StatusTypes DEF Account
  <2>3. accounts' \in [Names -> Account \cup {Absent}]
    BY <1>1, <1>3, <2>2 DEF SetAccount, TypeOK
  <2>4. [Identified(inst) EXCEPT !.message = "altered"] \in Status
    BY <1>1, StatusTypes DEF Status, Messages
  <2>5. inst' \in User
    BY <1>1, <1>3, <2>4, UserParts
  <2>6. frame' \in Frame
    BY <1>1, <1>3, FrameTypes
  <2> QED BY <1>1, <1>2, <1>3, <2>3, <2>5, <2>6, StatementType DEF Goto, Steps
<1>4. ASSUME GiveUp, UNCHANGED <<world, accounts>>
      PROVE  TypeOK'
  BY <1>1, <1>2, <1>4, GiveUpType DEF TypeOK
<1> QED BY <1>3, <1>4 DEF AlterUser

\* Comparing, revoking and granting privileges keeps the types.
LEMMA CompareType ==
  ASSUME TypeOK, NameInv, CompareGrants
  PROVE  TypeOK'
<1>1. obj \in Objects /\ inst \in User /\ frame \in Frame /\ name \in Names
  BY WorkerHolds DEF CompareGrants, NameInv, TypeOK
<1>2. /\ ledger' \in [Objects -> SUBSET Names]
      /\ accounts' \in [Names -> Account \cup {Absent}]
  BY DEF CompareGrants, mysql, TypeOK
<1>3. ASSUME NEW differ \in BOOLEAN, Exists(name),
             inst' = [inst EXCEPT !.status.grants = Shown],
             frame' = [frame EXCEPT !.changed = differ,
                         !.todo = IF differ THEN inst.spec.databases ELSE {}],
             pc' \in {"status", "revoke", "grant"}, SqlOnly
      PROVE  TypeOK'
  <2>1. [inst.status EXCEPT !.grants = Shown] \in Status
    BY <1>1, <1>3, UserParts, ShownType DEF Status
  <2>2. inst' = [inst EXCEPT !.status = [inst.status EXCEPT !.grants = Shown]]
    BY <1>1, <1>3 DEF User, Status
  <2>3. inst' \in User
    BY <1>1, <2>1, <2>2, UserParts
  <2>4. frame' \in Frame
    BY <1>1, <1>3, StatusTypes, FrameTypes
  <2> QED BY <1>1, <1>2, <1>3, <2>3, <2>4, StatementType DEF Steps
<1>4. ASSUME GiveUp, UNCHANGED world
      PROVE  TypeOK'
  BY <1>1, <1>2, <1>4, GiveUpType
<1>5. \A i : PermissionListEqual(i) \in BOOLEAN
  BY DEF PermissionListEqual
<1> QED BY <1>3, <1>4, <1>5 DEF CompareGrants, Goto

LEMMA RevokeType ==
  ASSUME TypeOK, NameInv, RevokeAll
  PROVE  TypeOK'
<1>1. obj \in Objects /\ inst \in User /\ frame \in Frame /\ name \in Names
  BY WorkerHolds DEF RevokeAll, NameInv, TypeOK
<1>2. ledger' \in [Objects -> SUBSET Names]
  BY DEF RevokeAll, TypeOK
<1>3. accounts' \in [Names -> Account \cup {Absent}]
  <2>1. Exists(name) => [accounts[name] EXCEPT !.grants = {}] \in Account
    BY <1>1 DEF Exists, TypeOK, Account
  <2> QED BY <1>1, <2>1 DEF RevokeAll, SetAccount, TypeOK
<1>4. ASSUME inst' = [inst EXCEPT !.status.databases = {}, !.status.grants = {}],
             Goto("grant"), UNCHANGED frame, SqlOnly
      PROVE  TypeOK'
  <2>1. [inst.status EXCEPT !.databases = {}, !.grants = {}] \in Status
    <3>1. inst.status \in Status
      BY <1>1, UserParts
    <3> QED BY <3>1 DEF Status
  <2>2. \A t \in Status : [inst EXCEPT !.status = t] \in User
    BY <1>1, UserParts
  <2>3. inst' = [inst EXCEPT !.status =
                   [inst.status EXCEPT !.databases = {}, !.grants = {}]]
    BY <1>4
  <2>4. inst' \in User
    BY <2>1, <2>2, <2>3
  <2> QED BY <1>1, <1>2, <1>3, <1>4, <2>4, StatementType DEF Goto, Steps
<1>5. ASSUME GiveUp, UNCHANGED world
      PROVE  TypeOK'
  BY <1>1, <1>2, <1>3, <1>5, GiveUpType
<1> QED BY <1>4, <1>5 DEF RevokeAll

LEMMA GrantType ==
  ASSUME TypeOK, NameInv, GrantOne
  PROVE  TypeOK'
<1>1. obj \in Objects /\ inst \in User /\ frame \in Frame /\ name \in Names
  BY WorkerHolds DEF GrantOne, NameInv, TypeOK
<1>2. ledger' \in [Objects -> SUBSET Names]
  BY DEF GrantOne, TypeOK
<1>3. accounts' \in [Names -> Account \cup {Absent}]
  <2> DEFINE a == [accounts[name] EXCEPT
                     !.grants = accounts[name].grants \cup frame.granting]
  <2>1. Exists(name) => a \in Account
    BY <1>1, FrameTypes DEF Exists, TypeOK, Account
  <2>2. \/ accounts' = accounts
        \/ Exists(name) /\ accounts' = [accounts EXCEPT ![name] = a]
    BY <1>1 DEF GrantOne, SetAccount, TypeOK
  <2>3. accounts \in [Names -> Account \cup {Absent}]
    BY DEF TypeOK
  <2> HIDE DEF a
  <2> QED BY <1>1, <2>1, <2>2, <2>3
<1>4. frame' \in Frame
  BY <1>1, FrameTypes DEF GrantOne
<1>5. inst' = inst /\ pc' = "grant" /\ SqlOnly
  BY DEF GrantOne, Goto
<1> QED BY <1>1, <1>2, <1>3, <1>4, <1>5, StatementType DEF Steps

LEMMA LookUpType ==
  ASSUME TypeOK, NEW d \in Databases, LookUp(d) \/ GrantMissing(d)
  PROVE  TypeOK'
<1>1. obj \in Objects /\ inst \in User /\ frame \in Frame
  BY WorkerHolds DEF LookUp, GrantMissing, TypeOK
<1>2. /\ ledger' \in [Objects -> SUBSET Names]
      /\ accounts' \in [Names -> Account \cup {Absent}]
  BY DEF LookUp, GrantMissing, mysql, TypeOK
<1>3. ASSUME frame' \in Frame, pc' \in {"grant", "grantMine", "record"},
             inst' = inst, SqlOnly
      PROVE  TypeOK'
  BY <1>1, <1>2, <1>3, StatementType DEF Steps
<1>4. CASE LookUp(d)
  <2>1. frame.todo \ {d} \in SUBSET Databases
    BY <1>1, FrameTypes
  <2>2. frame' \in Frame
    BY <1>1, <1>4, <2>1, FrameTypes DEF LookUp
  <2> QED BY <1>3, <1>4, <2>2 DEF LookUp, Goto
<1>5. CASE GrantMissing(d)
  <2>1. ASSUME frame' = [frame EXCEPT !.todo = {}, !.failed = TRUE],
               Goto("record"), UNCHANGED inst, SqlOnly
        PROVE  TypeOK'
    BY <1>1, <1>3, <2>1, FrameTypes DEF Goto
  <2>2. ASSUME GiveUp, UNCHANGED world
        PROVE  TypeOK'
    BY <1>1, <1>2, <2>2, GiveUpType
  <2> QED BY <1>5, <2>1, <2>2 DEF GrantMissing
<1> QED BY <1>4, <1>5

LEMMA CheckGrantType ==
  ASSUME TypeOK, CheckGrant
  PROVE  TypeOK'
<1>1. obj \in Objects /\ inst \in User /\ frame \in Frame
  BY WorkerHolds DEF CheckGrant, TypeOK
<1>2. frame' \in Frame
  BY <1>1, FrameTypes DEF CheckGrant
<1>3. pc' \in {"grant", "grantOne"} /\ inst' = inst /\ SqlOnly /\ UNCHANGED mysql
  BY DEF CheckGrant, Goto
<1> QED BY <1>1, <1>2, <1>3, StatementType DEF mysql, TypeOK, Steps

LEMMA ShowType ==
  ASSUME TypeOK, NameInv, ShowGrants
  PROVE  TypeOK'
<1>1. obj \in Objects /\ inst \in User /\ frame \in Frame /\ name \in Names
  BY WorkerHolds DEF ShowGrants, NameInv, TypeOK
<1>2. /\ ledger' \in [Objects -> SUBSET Names]
      /\ accounts' \in [Names -> Account \cup {Absent}]
  BY DEF ShowGrants, mysql, TypeOK
<1>3. ASSUME Exists(name),
             inst' = [inst EXCEPT !.status.databases = inst.spec.databases,
                                  !.status.grants = Shown],
             Goto(Leave), UNCHANGED frame, SqlOnly
      PROVE  TypeOK'
  <2>1. [inst.status EXCEPT !.databases = inst.spec.databases,
                            !.grants = Shown] \in Status
    BY <1>1, <1>3, StatusTypes, UserParts, ShownType DEF Status
  <2>2. inst' = [inst EXCEPT !.status = [inst.status EXCEPT
                   !.databases = inst.spec.databases, !.grants = Shown]]
    BY <1>1, <1>3 DEF User, Status
  <2>3. inst' \in User
    BY <1>1, <2>1, <2>2, UserParts
  <2> QED BY <1>1, <1>2, <1>3, <2>3, StatementType DEF Goto, Leave, Steps
<1>4. ASSUME frame' = [frame EXCEPT !.failed = TRUE], Goto("record"),
             UNCHANGED inst, SqlOnly
      PROVE  TypeOK'
  BY <1>1, <1>2, <1>4, FrameTypes, StatementType DEF Goto, Steps
<1>5. ASSUME GiveUp, UNCHANGED world
      PROVE  TypeOK'
  BY <1>1, <1>2, <1>5, GiveUpType
<1> QED BY <1>3, <1>4, <1>5 DEF ShowGrants

\* Taking a key keeps the types.
LEMMA BeginType ==
  ASSUME TypeOK, NEW o \in Objects, BeginReconcile(o)
  PROVE  TypeOK'
<1>1. CASE Skip(o)
  BY <1>1 DEF Skip, K8sOnly, world, mysql, store, worker, TypeOK
<1>2. ASSUME NEW step \in Steps \ {"idle"}, Begin(o, step)
      PROVE  TypeOK'
  BY <1>2, ObjectsAssumption
     DEF Begin, Take, Goto, K8sOnly, world, mysql, store, TypeOK
<1> QED BY <1>1, <1>2
        DEF BeginReconcile, FinalizeUnreachable, FinalizeStart, Unreachable,
            Start, Steps

\* So does what happens around the worker.
LEMMA EnvironmentType ==
  ASSUME TypeOK, Environment
  PROVE  TypeOK'
<1> USE ObjectsAssumption
<1>1. ASSUME Restart
      PROVE  TypeOK'
  <2>1. NewFrame \in Frame
    BY UserAssumption DEF NewFrame, Frame, Contents
  <2> QED BY <1>1, <2>1
          DEF Restart, Relist, Goto, K8sOnly, world, mysql, Listed, TypeOK,
              Steps
<1>2. CASE Resync
  BY <1>2 DEF Resync, Enqueue, Still, K8sOnly, world, mysql, store, worker,
              TypeOK
<1>3. CASE \E k \in Connections : AdminChange(k)
  BY <1>3 DEF AdminChange, Mapped, Enqueue, Still, mysql, store, worker, TypeOK
<1>4. ASSUME NEW o \in Objects, NEW new \in User, Submit(o, new), Still, K8sOnly
      PROVE  TypeOK'
  <2>1. api' \in [Objects -> User]
    BY <1>4 DEF Submit, TypeOK
  <2> QED BY <1>4, <2>1 DEF Submit, Still, K8sOnly, world, mysql, TypeOK
<1>5. ASSUME NEW o \in Objects, UserCreate(o) \/ UserEdit(o) \/ UserMove(o) \/ UserDelete(o)
      PROVE  TypeOK'
  <2>1. api[o] \in User
    BY DEF TypeOK
  <2>2. [api[o] EXCEPT !.phase = IF api[o].finalizer THEN "deleting" ELSE "gone"]
          \in User
    BY <2>1, UserParts DEF Phases
  <2>3. \A s \in Specs : NewObject(s) \in User /\ [api[o] EXCEPT !.spec = s] \in User
    BY <2>1, ObjectTypes, UserParts
  <2>4. \A s \in Specs :
          [api[o] EXCEPT !.spec = s, !.status = Moved(api[o].status, Host[s.username])]
            \in User
    <3> SUFFICES ASSUME NEW s \in Specs
                 PROVE  [api[o] EXCEPT !.spec = s,
                           !.status = Moved(api[o].status, Host[s.username])] \in User
      OBVIOUS
    <3>1. Moved(api[o].status, Host[s.username]) \in Status
      BY <2>1, UserParts, MovedType, UserAssumption DEF UserSpec
    <3> QED BY <2>1, <3>1 DEF User
  <2>5. CASE UserMove(o)
    BY <1>4, <2>4, <2>5 DEF UserMove
  <2> QED BY <1>4, <1>5, <2>2, <2>3, <2>5 DEF UserCreate, UserEdit, UserDelete
<1>6. ASSUME NEW o \in Objects, Watch(o)
      PROVE  TypeOK'
  BY <1>6 DEF Watch, Observe, Still, K8sOnly, world, mysql, TypeOK
<1>7. ASSUME NEW o \in Objects, SecretWrite(o)
      PROVE  TypeOK'
  <2>1. secret' \in [Objects -> [content : Contents, owned : BOOLEAN]]
    <3>1. /\ secret[o] \in [content : Contents, owned : BOOLEAN]
          /\ secret[o].content < MaxContent
          /\ secret' = [secret EXCEPT ![o] =
                          [secret[o] EXCEPT !.content = secret[o].content + 1]]
      BY <1>7 DEF SecretWrite, TypeOK
    <3>2. secret[o].content + 1 \in Contents
      BY <3>1, UserAssumption DEF Contents
    <3> QED BY <3>1, <3>2 DEF TypeOK
  <2> QED BY <1>7, <2>1 DEF SecretWrite, Enqueue, Still, mysql, store, worker,
                            TypeOK
<1>8. ASSUME NEW d \in Databases, DatabaseChange(d)
      PROVE  TypeOK'
  BY <1>8 DEF DatabaseChange, Enqueue, Still, mysql, store, worker, TypeOK
<1>9. ASSUME NEW n \in Names, ExternalCreate(n) \/ ExternalDrop(n)
      PROVE  TypeOK'
  <2>1. ForeignAccount \in Account
    BY UserAssumption DEF ForeignAccount, Account, Contents
  <2>2. accounts' \in [Names -> Account \cup {Absent}]
    BY <1>9, <2>1 DEF ExternalCreate, ExternalDrop, SetAccount, TypeOK
  <2> QED BY <1>9, <2>2
          DEF ExternalCreate, ExternalDrop, Still, k8s, world, TypeOK
<1> QED BY <1>1, <1>2, <1>3, <1>5, <1>6, <1>7, <1>8, <1>9
        DEF Environment, Crash, Respawn

-----------------------------------------------------------------------------
(* The name in use.                                                        *)

\* A step of the worker that keeps its copy keeps the name; Settle has looked
\* at it, the others come from steps that ran under it.
LEMMA NameStep ==
  ASSUME TypeOK, TypeOK', NameInv, [Next]_vars
  PROVE  NameInv'
<1>1. CASE Settle
  BY <1>1, WorkerHolds, UserParts DEF Settle, name, NameInv, Status
<1>2. CASE CreateUser
  <2>1. CASE GiveUp
    BY <2>1 DEF GiveUp, Done, Goto, NameInv
  <2>2. ASSUME inst' = [inst EXCEPT !.status = [Identified(inst) EXCEPT
                          !.grants = {}, !.message = "created"]]
        PROVE  name' = name
    <3>1. inst \in User /\ inst.status \in Status /\ name \in Names
      BY <1>2, WorkerHolds, UserParts DEF CreateUser, NameInv
    <3>2. Identified(inst).username = inst.status.username
      BY <3>1 DEF Identified, Status
    <3>3. Identified(inst) \in Status
      BY <1>2, WorkerHolds, StatusTypes DEF CreateUser
    <3> QED BY <2>2, <3>1, <3>2, <3>3 DEF name, User, Status
  <2> QED BY <1>2, <2>1, <2>2 DEF CreateUser, NameInv
<1>3. CASE CheckMine
  BY <1>3, WorkerHolds, UserParts DEF CheckMine, SetMessage, Goto, name,
                                      NameInv, User, Status
<1>4. CASE RenameUser
  <2>1. inst \in User /\ inst.status \in Status /\ inst.spec.username \in Names
    BY <1>4, WorkerHolds, UserParts, StatusTypes DEF RenameUser
  <2>2. CASE GiveUp
    BY <2>2 DEF GiveUp, Done, Goto, NameInv
  <2>3. ASSUME inst' = [inst EXCEPT !.status.username = inst.spec.username,
                                    !.status.message = "renamed"]
        PROVE  name' = inst.spec.username
    BY <2>1, <2>3 DEF name, User, Status
  <2> QED BY <1>4, <2>1, <2>2, <2>3 DEF RenameUser, NameInv
<1>5. CASE AlterUser
  BY <1>5 DEF AlterUser, GiveUp, Done, Goto, NameInv
<1>6. CASE CompareGrants
  <2>1. inst \in User /\ inst.status \in Status /\ name \in Names
    BY <1>6, WorkerHolds, UserParts DEF CompareGrants, NameInv
  <2>2. CASE GiveUp
    BY <2>2 DEF GiveUp, Done, Goto, NameInv
  <2>3. ASSUME inst' = [inst EXCEPT !.status.grants = Shown]
        PROVE  name' = name
    BY <2>1, <2>3 DEF name, User, Status
  <2> QED BY <1>6, <2>1, <2>2, <2>3 DEF CompareGrants, NameInv
<1>7. CASE RevokeAll
  <2>1. inst \in User /\ inst.status \in Status /\ name \in Names
    BY <1>7, WorkerHolds, UserParts DEF RevokeAll, NameInv
  <2>2. CASE GiveUp
    BY <2>2 DEF GiveUp, Done, Goto, NameInv
  <2>3. ASSUME inst' = [inst EXCEPT !.status.databases = {}, !.status.grants = {}]
        PROVE  name' = name
    BY <2>1, <2>3 DEF name, User, Status
  <2> QED BY <1>7, <2>1, <2>2, <2>3 DEF RevokeAll, NameInv
<1>8. CASE ShowGrants
  <2>1. inst \in User /\ inst.status \in Status /\ name \in Names
    BY <1>8, WorkerHolds, UserParts DEF ShowGrants, NameInv
  <2>2. CASE GiveUp
    BY <2>2 DEF GiveUp, Done, Goto, NameInv
  <2>3. ASSUME inst' = [inst EXCEPT !.status.databases = inst.spec.databases,
                                    !.status.grants = Shown]
        PROVE  name' = name
    BY <2>1, <2>3 DEF name, User, Status
  <2>4. CASE UNCHANGED inst
    BY <2>1, <2>4 DEF name, NameInv
  <2> QED BY <1>8, <2>1, <2>2, <2>3, <2>4 DEF ShowGrants, NameInv
<1>9. CASE SaveRecord
  BY <1>9 DEF SaveRecord, GiveUp, Done, Goto, name, NameInv
<1>10. CASE CheckGrant \/ GrantOne \/ \E d \in Databases : LookUp(d) \/ GrantMissing(d)
  BY <1>10 DEF LookUp, CheckGrant, GrantOne, GrantMissing, GiveUp, Done, Goto,
               name, NameInv
<1>11. CASE CheckExists \/ KeepUser
  BY <1>11 DEF CheckExists, KeepUser, name, NameInv
<1>12. CASE \/ ReadSecret \/ CreateSecret \/ NilSecret
            \/ CheckFinalize \/ DropUser \/ ForgetRecord
  BY <1>12 DEF ReadSecret, CreateSecret, NilSecret, CheckFinalize, DropUser,
               ForgetRecord, Done, Goto, NameInv
<1>13. CASE \/ ClaimName \/ OwnSecret \/ AddFinalizer \/ InvalidName
            \/ SaveReport \/ SaveStatus \/ RemoveFinalizer
  BY <1>13 DEF ClaimName, OwnSecret, AddFinalizer, InvalidName, SaveReport,
               SaveStatus, RemoveFinalizer, Update, Done, Goto, NameInv
<1>14. ASSUME NEW o \in Objects, BeginReconcile(o)
       PROVE  NameInv'
  BY <1>14 DEF BeginReconcile, Skip, FinalizeUnreachable, FinalizeStart,
               Unreachable, Start, Begin, Goto, NameInv
<1>15. CASE Environment
  <2>1. CASE Restart
    BY <2>1 DEF Restart, Goto, NameInv
  <2>2. CASE pc' = pc /\ inst' = inst
    BY <2>2 DEF NameInv, name
  <2>3. Restart \/ (pc' = pc /\ inst' = inst)
    BY <1>15
       DEF Environment, Crash, Respawn, Resync, AdminChange, UserCreate,
           UserEdit, UserMove, UserDelete, Watch, SecretWrite, DatabaseChange,
           ExternalCreate, ExternalDrop, Still, Submit, Observe, Enqueue,
           worker, k8s
  <2> QED BY <2>1, <2>2, <2>3
<1>16. CASE UNCHANGED vars
  BY <1>16 DEF vars, k8s, NameInv, name
<1> QED BY <1>1, <1>2, <1>3, <1>4, <1>5, <1>6, <1>7, <1>8, <1>9, <1>10, <1>11,
           <1>12, <1>13, <1>14, <1>15, <1>16
        DEF Next, Operator, Progress

\* Every step keeps the types.
LEMMA StepType ==
  ASSUME TypeOK, NameInv, [Next]_vars
  PROVE  TypeOK'
<1>1. CASE Progress
  BY <1>1, UpdateType, SecretType, ChoiceType, CreateType, RecordType, MineType,
     RenameType, AlterType, CompareType, RevokeType, LookUpType, CheckGrantType,
     GrantType, ShowType, DropType
     DEF Progress
<1>2. CASE UNCHANGED vars
  BY <1>2 DEF vars, k8s, world, mysql, TypeOK
<1> QED BY <1>1, <1>2, BeginType, EnvironmentType DEF Next, Operator

\* In every reachable state every variable has its type, whatever fails, and
\* no local variable of a reconcile outlives it.
THEOREM TypeCorrect == Spec => []TypeOK
<1>1. Init => TypeOK /\ NameInv
  BY InitType DEF Init, NameInv
<1>2. TypeOK /\ NameInv /\ [Next]_vars => (TypeOK /\ NameInv)'
  BY StepType, NameStep
<1> QED BY <1>1, <1>2, PTL DEF Spec

-----------------------------------------------------------------------------
(* Finalizers, as in DatabaseReconcilerProofs.                             *)

\* Which branch of Reconcile a call belongs to.
BranchInv ==
  /\ pc \in {"report", "secret", "claim"} => inst.phase = "live"
  /\ pc \in {"exists", "mine", "create", "grant", "grantMine", "grantOne",
              "record", "rename", "details", "permissions", "revoke", "status"}
       => Protected(inst)
  /\ pc \in {"finalize", "drop", "forget", "removeFinalizer"}
       => inst.phase = "deleting"

FinalizerInv == CacheInv /\ WorkerInv /\ BranchInv

\* What the cache lemmas ask of the types.
LEMMA TypeShape ==
  ASSUME TypeOK
  PROVE  /\ Shape
         /\ \A o \in Objects : api[o] \in User /\ cached[o] \in User
         /\ pc # "idle" => obj # NoObject
BY DEF TypeOK, Shape

\* Beginning a reconcile picks the branch from the cached copy.
LEMMA FinalizerInvBegin ==
  ASSUME TypeOK, FinalizerInv, NEW o \in Objects, BeginReconcile(o)
  PROVE  FinalizerInv'
<1>1. CASE Skip(o)
  BY <1>1, ObjectsAssumption
     DEF Skip, FinalizerInv, CacheInv, WorkerInv, BranchInv, store, worker
<1>2. CASE ~Skip(o)
  <2>1. Take(o) /\ inst' = cached[o]
    BY <1>2 DEF BeginReconcile, FinalizeUnreachable, FinalizeStart,
                Unreachable, Start, Begin, Take
  <2>2. BranchInv'
    BY <1>2, <2>1
       DEF BeginReconcile, FinalizeUnreachable, FinalizeStart, Unreachable,
           Start, Begin, Goto, BranchInv
  <2> QED BY <2>1, <2>2, TakeCache DEF FinalizerInv
<1> QED BY <1>1, <1>2

\* A reconcile that ends has updated nothing, or stored a version that follows.
LEMMA FinalizerInvDone ==
  ASSUME TypeOK, FinalizerInv, obj \in Objects, NEW r, Done(r),
         \/ UNCHANGED store
         \/ \E new : Follows(api[obj], new) /\ (Write(new) \/ WriteStamped(new))
  PROVE  FinalizerInv'
<1>1. Return(r) /\ BranchInv'
  BY DEF Done, Goto, BranchInv
<1>2. CASE UNCHANGED store
  BY <1>1, <1>2, ReturnCache DEF FinalizerInv
<1>3. ASSUME NEW new, Follows(api[obj], new), Write(new) \/ WriteStamped(new)
      PROVE  FinalizerInv'
  BY <1>1, <1>3, TypeShape, WriteCache DEF FinalizerInv
<1> QED BY <1>2, <1>3

\* The worker's updates: only RemoveFinalizer takes the finalizer off, and the
\* cache has shown the deletion by then.
LEMMA FinalizerInvUpdate ==
  ASSUME TypeOK, FinalizerInv,
         \/ ClaimName \/ AddFinalizer \/ InvalidName \/ RemoveFinalizer
         \/ SaveReport \/ SaveStatus \/ OwnSecret
  PROVE  FinalizerInv'
<1>1. obj \in Objects /\ inst \in User /\ api[obj] \in User
  BY WorkerHolds
     DEF ClaimName, AddFinalizer, InvalidName, RemoveFinalizer, SaveReport,
         SaveStatus, OwnSecret
<1>2. ASSUME NEW new, Update(new), Follows(api[obj], new)
      PROVE  FinalizerInv'
  BY <1>1, <1>2, FinalizerInvDone DEF Update
<1>3. CASE ClaimName
  <2>1. Follows(api[obj], [api[obj] EXCEPT !.status.username = inst.spec.username])
    BY <1>1 DEF Follows, Guarded, Ended, User
  <2> QED BY <1>2, <1>3, <2>1 DEF ClaimName
<1>4. CASE AddFinalizer
  <2>1. Follows(api[obj], [api[obj] EXCEPT !.finalizer = TRUE])
    BY <1>1 DEF Follows, Guarded, Ended, User
  <2> QED BY <1>2, <1>4, <2>1 DEF AddFinalizer
<1>5. CASE InvalidName
  <2>1. Follows(api[obj], [api[obj] EXCEPT !.status.message = "invalid"])
    BY <1>1 DEF Follows, Guarded, Ended, User
  <2> QED BY <1>2, <1>5, <2>1 DEF InvalidName
<1>6. CASE SaveReport
  <2>1. Follows(api[obj], [api[obj] EXCEPT !.status.message = "unreachable"])
    BY <1>1 DEF Follows, Guarded, Ended, User
  <2> QED BY <1>1, <1>6, <2>1, FinalizerInvDone DEF SaveReport
<1>7. CASE SaveStatus
  <2>1. Follows(api[obj], [api[obj] EXCEPT !.status = inst.status])
    BY <1>1 DEF Follows, Guarded, Ended, User
  <2> QED BY <1>1, <1>7, <2>1, FinalizerInvDone DEF SaveStatus
<1>8. CASE OwnSecret
  BY <1>1, <1>8, FinalizerInvDone DEF OwnSecret, store
<1>9. CASE RemoveFinalizer
  <2> DEFINE new == [api[obj] EXCEPT !.finalizer = FALSE, !.phase = "gone"]
  <2>1. CASE UNCHANGED store /\ Done(TRUE)
    BY <1>1, <2>1, FinalizerInvDone
  <2>2. CASE Write(new) /\ Done(FALSE)
    <3>1. Ended(new) /\ ~Guarded(new)
      BY <1>1 DEF Ended, Guarded, User
    <3>2. Ended(inst) /\ ~Protected(cached[obj])
      BY <1>1, <1>9, ObjectsAssumption
         DEF RemoveFinalizer, FinalizerInv, BranchInv, WorkerInv, Ended,
             Protected
    <3>3. Return(FALSE) /\ BranchInv'
      BY <2>2 DEF Done, Goto, BranchInv
    <3> QED BY <1>1, <2>2, <3>1, <3>2, <3>3, TypeShape, RemoveCache DEF FinalizerInv
  <2> QED BY <1>9, <2>1, <2>2 DEF RemoveFinalizer, Update
<1> QED BY <1>3, <1>4, <1>5, <1>6, <1>7, <1>8, <1>9

\* A step that keeps the store, the worker's object, and the phase and the
\* finalizer of its copy.
LEMMA FinalizerInvCopy ==
  ASSUME FinalizerInv, UNCHANGED <<store, obj, fresh>>,
         inst'.phase = inst.phase, inst'.finalizer = inst.finalizer, BranchInv'
  PROVE  FinalizerInv'
BY CopyCache DEF FinalizerInv

\* A statement changes only the status of the copy, and stays in its branch.
LEMMA FinalizerInvStatement ==
  ASSUME TypeOK, FinalizerInv,
         \/ ReadSecret \/ CreateSecret \/ Settle
         \/ NilSecret \/ CheckExists \/ CreateUser \/ SaveRecord
         \/ CheckMine \/ RenameUser \/ AlterUser \/ KeepUser
         \/ CompareGrants \/ RevokeAll \/ ShowGrants
         \/ CheckGrant \/ GrantOne
         \/ \E d \in Databases : LookUp(d) \/ GrantMissing(d)
         \/ CheckFinalize \/ DropUser \/ ForgetRecord
  PROVE  FinalizerInv'
<1> DEFINE Stays == /\ UNCHANGED <<store, obj, fresh>>
                    /\ inst'.phase = inst.phase
                    /\ inst'.finalizer = inst.finalizer
<1>1. pc # "idle" /\ obj \in Objects /\ inst \in User
  BY WorkerHolds
     DEF ReadSecret, CreateSecret, Settle, NilSecret, CheckExists, CreateUser,
         SaveRecord, CheckMine, RenameUser, AlterUser, KeepUser, CompareGrants,
         RevokeAll, ShowGrants, LookUp, CheckGrant, GrantOne, GrantMissing,
         CheckFinalize, DropUser, ForgetRecord
<1>2. CASE GiveUp
  BY <1>1, <1>2, FinalizerInvDone DEF GiveUp
<1>3. CASE ReadSecret \/ CreateSecret
  <2>1. CASE Stays /\ pc = "secret" /\ pc' = "claim"
    BY <2>1, FinalizerInvCopy DEF FinalizerInv, BranchInv
  <2>2. CASE Done(TRUE) /\ UNCHANGED store
    BY <1>1, <2>2, FinalizerInvDone
  <2> QED BY <1>3, <2>1, <2>2 DEF ReadSecret, CreateSecret, SqlOnly, Goto, k8s,
                                  store
<1>4. CASE Settle
  <2>1. Stays /\ Protected(inst) /\ pc' = "exists" /\ inst' = inst
    BY <1>4 DEF Settle, SqlOnly, Goto, NeedsFinalizer, FinalizerInv, BranchInv,
                Protected
  <2> QED BY <2>1, FinalizerInvCopy DEF BranchInv
<1>5. ASSUME Stays, Protected(inst),
             pc' \in {"exists", "mine", "create", "grant", "grantMine", "grantOne",
                      "record", "rename", "details", "permissions", "revoke",
                      "status", "panic"}
      PROVE  FinalizerInv'
  <2>1. BranchInv'
    BY <1>5 DEF BranchInv, Protected
  <2> QED BY <1>5, <2>1, FinalizerInvCopy
<1>6. CASE NilSecret \/ CheckExists \/ KeepUser
  <2>1. Stays /\ Protected(inst) /\ pc' \in {"panic", "mine", "create", "permissions"}
    BY <1>6 DEF NilSecret, CheckExists, KeepUser, SqlOnly, Goto, FinalizerInv,
                BranchInv
  <2> QED BY <1>5, <2>1
<1>7. CASE CreateUser /\ ~GiveUp
  <2>1. Stays /\ Protected(inst) /\ pc' = "grant"
    BY <1>1, <1>7 DEF CreateUser, SqlOnly, Goto, FinalizerInv, BranchInv, User
  <2> QED BY <1>5, <2>1
<1>8. CASE SaveRecord /\ ~GiveUp
  <2>1. Stays /\ Protected(inst) /\ pc' = "status"
    BY <1>8 DEF SaveRecord, SqlOnly, Goto, FinalizerInv, BranchInv
  <2> QED BY <1>5, <2>1
<1>9. CASE CheckMine
  <2>1. Stays /\ Protected(inst) /\ pc' \in {"rename", "details", "status"}
    BY <1>1, <1>9 DEF CheckMine, SetMessage, SqlOnly, Goto, FinalizerInv,
                      BranchInv, User
  <2> QED BY <1>5, <2>1
<1>10. CASE RenameUser /\ ~GiveUp
  <2>1. Stays /\ Protected(inst) /\ pc' = "record"
    BY <1>1, <1>10 DEF RenameUser, SqlOnly, Goto, FinalizerInv, BranchInv, User
  <2> QED BY <1>5, <2>1
<1>11. CASE AlterUser /\ ~GiveUp
  <2>1. Stays /\ Protected(inst) /\ pc' = "status"
    BY <1>1, <1>11 DEF AlterUser, SqlOnly, Goto, FinalizerInv, BranchInv, User
  <2> QED BY <1>5, <2>1
<1>12. CASE CompareGrants /\ ~GiveUp
  <2>1. Stays /\ Protected(inst) /\ pc' \in {"status", "revoke", "grant"}
    BY <1>1, <1>12 DEF CompareGrants, SqlOnly, Goto, FinalizerInv, BranchInv,
                       User
  <2> QED BY <1>5, <2>1
<1>13. CASE RevokeAll /\ ~GiveUp
  <2>1. Stays /\ Protected(inst) /\ pc' = "grant"
    BY <1>1, <1>13 DEF RevokeAll, SqlOnly, Goto, FinalizerInv, BranchInv, User
  <2> QED BY <1>5, <2>1
<1>14. CASE ShowGrants /\ ~GiveUp
  <2>1. Stays /\ Protected(inst) /\ pc' \in {"record", "status"}
    BY <1>1, <1>14 DEF ShowGrants, Leave, SqlOnly, Goto, FinalizerInv,
                       BranchInv, User
  <2> QED BY <1>5, <2>1
<1>15. CASE /\ ~GiveUp
            /\ CheckGrant \/ GrantOne \/ \E d \in Databases : LookUp(d) \/ GrantMissing(d)
  <2>1. Stays /\ Protected(inst) /\ pc' \in {"grant", "grantMine", "grantOne", "record"}
    BY <1>15 DEF LookUp, CheckGrant, GrantOne, GrantMissing, SqlOnly, Goto,
                 FinalizerInv, BranchInv
  <2> QED BY <1>5, <2>1
<1>16. CASE CheckFinalize \/ DropUser \/ ForgetRecord
  <2>1. /\ Stays /\ inst.phase = "deleting"
        /\ pc' \in {"drop", "forget", "removeFinalizer"}
    BY <1>16 DEF CheckFinalize, DropUser, ForgetRecord, SqlOnly, Goto,
                 FinalizerInv, BranchInv
  <2>2. BranchInv'
    BY <2>1 DEF BranchInv
  <2> QED BY <2>1, <2>2, FinalizerInvCopy
<1> QED BY <1>2, <1>3, <1>4, <1>6, <1>7, <1>8, <1>9, <1>10, <1>11, <1>12, <1>13,
           <1>14, <1>15, <1>16

\* Users submit versions that follow the stored one; the cache only catches up.
LEMMA FinalizerInvEnvironment ==
  ASSUME TypeOK, FinalizerInv, Environment
  PROVE  FinalizerInv'
<1>1. Shape /\ \A o \in Objects : api[o] \in User
  BY TypeShape
<1>2. CASE Crash \/ Respawn
  BY <1>2, RelistCache
     DEF Crash, Respawn, Restart, Goto, FinalizerInv, BranchInv
<1>3. CASE UNCHANGED <<store, worker, pc>>
  BY <1>3 DEF store, worker, FinalizerInv, CacheInv, WorkerInv, BranchInv
<1>4. ASSUME NEW o \in Objects, UserCreate(o) \/ UserEdit(o) \/ UserMove(o) \/ UserDelete(o)
      PROVE  FinalizerInv'
  <2>1. PICK new : Submit(o, new) /\ Follows(api[o], new)
    <3>1. CASE UserCreate(o)
      <4>1. \A s \in Specs : Follows(api[o], NewObject(s))
        BY <3>1 DEF UserCreate, Follows, Guarded, Ended
      <4> QED BY <3>1, <4>1 DEF UserCreate
    <3>2. CASE UserEdit(o)
      <4>1. \A s \in Specs : Follows(api[o], [api[o] EXCEPT !.spec = s])
        BY <1>1 DEF Follows, Guarded, Ended, User
      <4> QED BY <3>2, <4>1 DEF UserEdit
    <3>4. CASE UserMove(o)
      <4>1. \A s \in Specs : \A t :
              Follows(api[o], [api[o] EXCEPT !.spec = s, !.status = t])
        BY <1>1 DEF Follows, Guarded, Ended, User
      <4> QED BY <3>4, <4>1 DEF UserMove
    <3>3. CASE UserDelete(o)
      <4>1. Follows(api[o], [api[o] EXCEPT
              !.phase = IF api[o].finalizer THEN "deleting" ELSE "gone"])
        BY <1>1 DEF Follows, Guarded, Ended, User
      <4> QED BY <3>3, <4>1 DEF UserDelete
    <3> QED BY <1>4, <3>1, <3>2, <3>3, <3>4
  <2>2. CacheInv' /\ WorkerInv'
    BY <1>1, <2>1, SubmitCache DEF FinalizerInv
  <2>3. UNCHANGED <<pc, inst>>
    BY <1>4, <2>1 DEF UserCreate, UserEdit, UserMove, UserDelete, Still, Submit
  <2> QED BY <2>2, <2>3 DEF FinalizerInv, BranchInv
<1>5. ASSUME NEW o \in Objects, Watch(o)
      PROVE  FinalizerInv'
  <2>1. CacheInv' /\ WorkerInv'
    BY <1>1, <1>5, ObserveCache DEF Watch, FinalizerInv
  <2>2. UNCHANGED <<pc, inst>>
    BY <1>5 DEF Watch, Still, Observe
  <2> QED BY <2>1, <2>2 DEF FinalizerInv, BranchInv
<1>6. CASE \/ Resync \/ \E k \in Connections : AdminChange(k)
           \/ \E o \in Objects : SecretWrite(o)
           \/ \E d \in Databases : DatabaseChange(d)
           \/ \E n \in Names : ExternalCreate(n) \/ ExternalDrop(n)
  BY <1>3, <1>6
     DEF Resync, AdminChange, SecretWrite, DatabaseChange, ExternalCreate,
         ExternalDrop, Enqueue, Still, k8s, store, worker
<1> QED BY <1>2, <1>4, <1>5, <1>6 DEF Environment

\* However late the cache is: an object whose account is being worked on still
\* has its finalizer, and one whose account is dropped is being deleted.
THEOREM FinalizerCorrect == Spec => []FinalizerInv
<1>1. Init => FinalizerInv
  <2> SUFFICES ASSUME Init PROVE FinalizerInv
    OBVIOUS
  <2>1. PICK s \in Specs : K8sInit([o \in Objects |-> NeverCreated(s)])
    BY DEF Init
  <2>2. ~Guarded(NeverCreated(s)) /\ ~Ended(NeverCreated(s))
    BY DEF NeverCreated, NewObject, Guarded, Ended
  <2>3. CacheInv /\ WorkerInv
    BY <2>1, <2>2, CacheInit
  <2> QED BY <2>3 DEF Init, BranchInv, FinalizerInv
<1>2. TypeOK /\ FinalizerInv /\ [Next]_vars => FinalizerInv'
  <2> SUFFICES ASSUME TypeOK, FinalizerInv, [Next]_vars PROVE FinalizerInv'
    OBVIOUS
  <2>1. CASE Progress
    BY <2>1, FinalizerInvUpdate, FinalizerInvStatement DEF Progress
  <2>2. ASSUME NEW o \in Objects, BeginReconcile(o) PROVE FinalizerInv'
    BY <2>2, FinalizerInvBegin
  <2>3. CASE Environment
    BY <2>3, FinalizerInvEnvironment
  <2>4. CASE UNCHANGED vars
    BY <2>4 DEF vars, k8s, FinalizerInv, CacheInv, WorkerInv, BranchInv
  <2> QED BY <2>1, <2>2, <2>3, <2>4 DEF Next, Operator
<1> QED BY <1>1, <1>2, TypeCorrect, PTL DEF Spec

\* CREATE USER runs only for an object whose stored version has the finalizer
\* that will drop the account.
THEOREM CreatesUnderFinalizer == Spec => CreatedUnderFinalizer
<1> DEFINE A == \A n \in Names, o \in Objects :
                  (~Exists(n) /\ OwnedBy(n, o)') /\ pc = "create" => Guarded(api[o])
<1>1. TypeOK /\ FinalizerInv /\ [Next]_vars => [A]_vars
  <2> SUFFICES ASSUME TypeOK, FinalizerInv, [Next]_vars,
                      NEW n \in Names, NEW o \in Objects,
                      ~Exists(n), OwnedBy(n, o)', pc = "create"
               PROVE  Guarded(api[o])
    OBVIOUS
  <2>1. accounts[n] = Absent /\ accounts'[n] # Absent /\ accounts'[n].creator = o
    BY DEF Exists, OwnedBy
  <2>2. obj \in Objects /\ Guarded(api[obj])
    BY WorkerHolds, ObjectsAssumption
       DEF FinalizerInv, WorkerInv, BranchInv
  <2>3. CASE CreateUser
    <3> DEFINE a == [creator |-> obj, password |-> Password,
                     tls |-> TlsClause(inst) /\ inst.spec.tls, grants |-> {}]
    <3>1. accounts' # accounts
      BY <2>1
    <3>2. SetAccount(name, a)
      BY <2>3, <3>1 DEF CreateUser
    <3>3. accounts'[n] = IF n = name THEN a ELSE accounts[n]
      BY <3>2 DEF SetAccount, TypeOK
    <3>4. a.creator = obj
      OBVIOUS
    <3> HIDE DEF a
    <3> QED BY <2>1, <2>2, <3>3, <3>4
  <2>4. ASSUME NEW m \in Names, ExternalCreate(m)
        PROVE  FALSE
    BY <2>1, <2>4, UserAssumption DEF ExternalCreate, SetAccount,
                                      ForeignAccount, TypeOK
  <2>5. ASSUME NEW m \in Names, ExternalDrop(m)
        PROVE  FALSE
    BY <2>1, <2>5 DEF ExternalDrop, SetAccount, TypeOK
  <2>6. CASE accounts' = accounts
    BY <2>1, <2>6
  <2>7. CASE Progress /\ ~CreateUser
    BY <2>6, <2>7
       DEF Progress, ReadSecret, CreateSecret, ClaimName, OwnSecret,
           AddFinalizer, Settle, InvalidName, SaveReport, SaveStatus, NilSecret,
           CheckExists, SaveRecord, CheckMine, RenameUser, AlterUser, KeepUser,
           CompareGrants, RevokeAll, ShowGrants, LookUp, CheckGrant, GrantOne,
           GrantMissing, CheckFinalize, DropUser, ForgetRecord, RemoveFinalizer,
           mysql
  <2>8. CASE \E p \in Objects : BeginReconcile(p)
    BY <2>8 DEF BeginReconcile, Skip, FinalizeUnreachable, FinalizeStart,
                Unreachable, Start, Begin
  <2>9. CASE Environment
    BY <2>4, <2>5, <2>6, <2>9
       DEF Environment, Crash, Respawn, Restart, Resync, AdminChange,
           UserCreate, UserEdit, UserMove, UserDelete, Watch, SecretWrite,
           DatabaseChange, K8sOnly, mysql
  <2>10. CASE UNCHANGED vars
    BY <2>6, <2>10 DEF vars, mysql
  <2> QED BY <2>3, <2>7, <2>8, <2>9, <2>10 DEF Next, Operator
<1> QED BY <1>1, TypeCorrect, FinalizerCorrect, PTL DEF Spec,
                                                        CreatedUnderFinalizer
=============================================================================
