-------------------- MODULE DatabaseUserOwnershipProofs --------------------
(***************************************************************************)
(* The ownership of accounts, for any number of objects, names and         *)
(* rotations, as long as the rows of managed_users are written and read    *)
(* and no object is moved to another server (Benign): only the reconcile   *)
(* of the object that an account was created for touches it, the           *)
(* DatabaseUser controller implements Ownership, and a version of the      *)
(* secret that is in a stored status has reached the account.              *)
(***************************************************************************)
EXTENDS DatabaseUserReconcilerProofs, DatabaseUserOwnership

-----------------------------------------------------------------------------
(* The inductive invariant.                                                *)

\* The faults that leave a row true of its account, and users who leave every
\* account on its server: an account that is moved away from and back to has
\* its row still, whatever became of it.
Benign == Faults \subseteq {"update", "drop", "offline"} /\ Moves = {}

\* c is a copy of o from before a rename that has been stored since.  What it
\* wants is then what was stored, and the account is still there.
Late(c, o)    == c.status.username \notin {Unset, api[o].status.username}
Renamed(c, o) == /\ c.spec.username = api[o].status.username
                 /\ OwnedBy(c.spec.username, o)

CopyInv ==
  \A o \in Objects :
    /\ api[o].phase = "absent" => api[o].status.username = Unset
    /\ Late(cached[o], o) => Renamed(cached[o], o)

\* The reconcile under way has renamed the account and not stored it yet.
JustRenamed ==
  /\ pc \in {"record", "status"}
  /\ name = inst.spec.username /\ OwnedBy(name, obj)
  /\ pc = "status" => name \in ledger[obj]

HeldInv ==
  obj # NoObject =>
    /\ Late(inst, obj) => Renamed(inst, obj) \/ JustRenamed
    /\ Late(cached[obj], obj) => name = cached[obj].status.username
    /\ fresh => /\ obj \in synced /\ inst.spec = api[obj].spec
                /\ name = api[obj].status.username \/ JustRenamed

\* The row of o names n, which is not o's: CREATE USER made Status.Username
\* and recorded Spec.Username.  That account is there, so o has lost both.
Blocked(o, n) ==
  \E m \in Names \ {n} :
    /\ OwnedBy(m, o) /\ api[o].status.username = m
    /\ cached[o].status.username \in {m, Unset}
    /\ obj = o => name \in {m, Unset}

RowInv ==
  \A o \in Objects, n \in Names :
    n \in ledger[o] => \/ OwnedBy(n, o) \/ Blocked(o, n)
                       \/ obj = o /\ pc \in {"record", "forget"}

\* What a statement relies on since it was decided.
ActInv ==
  /\ pc = "create" => ~Exists(name)
  /\ pc \in {"grant", "grantMine", "grantOne", "record"} => OwnedBy(name, obj)
  /\ pc \in {"rename", "details", "permissions", "revoke", "drop"} => UserMine(inst)

MineInv == CopyInv /\ HeldInv /\ RowInv /\ ActInv

\* What the absence of faults excludes.
LEMMA BenignAnswers ==
  ASSUME Benign
  PROVE  /\ \A i : MineAnswers(i) = {UserMine(i)}
         /\ \A n : ExistsAnswers(n) = {Exists(n)}
         /\ Succeeds = {TRUE} /\ FALSE \notin Succeeds
         /\ {"read", "write", "forget", "crash", "external"} \cap Faults = {}
         /\ \A o : ~UserMove(o)
<1>1. {"read", "write", "forget", "crash", "external"} \cap Faults = {}
  BY DEF Benign
<1>2. "read" \notin Faults /\ "write" \notin Faults
  BY <1>1
<1>3. \A o : ~UserMove(o)
  BY DEF Benign, UserMove
<1> QED BY <1>1, <1>2, <1>3 DEF MineAnswers, ExistsAnswers, Succeeds

-----------------------------------------------------------------------------
(* Who owns what.                                                          *)

\* UserMine is right: an account in use that passes is the object's.
LEMMA MineOwns ==
  ASSUME TypeOK, HeldInv, RowInv, obj \in Objects, inst \in User,
         name \in Names, Exists(name), UserMine(inst),
         pc \notin {"record", "forget"}
  PROVE  OwnedBy(name, obj) /\ name \in ledger[obj]
<1>1. name # Unset
  BY UserAssumption
<1>2. name \in ledger[obj]
  BY <1>1 DEF UserMine, NamesOf, name
<1>3. OwnedBy(name, obj) \/ Blocked(obj, name)
  BY <1>2 DEF RowInv
<1>4. ~Blocked(obj, name)
  BY <1>1 DEF Blocked
<1> QED BY <1>2, <1>3, <1>4

\* No step changes who owns an account, or whether it is there.
SameOwners ==
  \A n \in Names : /\ Exists(n)' <=> Exists(n)
                   /\ Exists(n) => accounts'[n].creator = accounts[n].creator

LEMMA OwnersStay ==
  ASSUME SameOwners
  PROVE  \A n \in Names : \A o : OwnedBy(n, o)' <=> OwnedBy(n, o)
BY DEF SameOwners, OwnedBy, Exists

\* ALTER USER, GRANT and REVOKE need a name that passed UserMine and change no
\* owner.
LEMMA AlterOwners ==
  ASSUME TypeOK, NameInv, HeldInv, RowInv, ActInv,
         AlterUser \/ RevokeAll \/ GrantOne
  PROVE  /\ SameOwners
         /\ accounts' # accounts =>
              /\ obj \in Objects /\ OwnedBy(name, obj)
              /\ \A n \in Names \ {name} : accounts'[n] = accounts[n]
<1>1. obj \in Objects /\ inst \in User /\ name \in Names
  BY WorkerHolds DEF AlterUser, RevokeAll, GrantOne, NameInv
<1>2. CASE accounts' = accounts
  BY <1>2 DEF SameOwners, Exists
<1>3. CASE accounts' # accounts
  <2>1. Exists(name) /\ OwnedBy(name, obj)
    <3>1. CASE AlterUser \/ RevokeAll
      BY <1>1, <1>3, <3>1, MineOwns DEF AlterUser, RevokeAll, ActInv
    <3>2. CASE GrantOne
      BY <3>2 DEF GrantOne, ActInv, OwnedBy
    <3> QED BY <3>1, <3>2
  <2>2. accounts[name] \in Account
    BY <1>1, <2>1 DEF Exists, TypeOK
  <2>3. PICK a : /\ SetAccount(name, a)
                 /\ a # Absent /\ a.creator = accounts[name].creator
    <3>1. \A p \in Contents, t \in BOOLEAN :
            LET a == [accounts[name] EXCEPT !.password = p, !.tls = t]
            IN  a \in Account /\ a.creator = accounts[name].creator
      BY <2>2 DEF Account
    <3>2. CASE AlterUser
      <4>1. PICK p \in Contents, t \in BOOLEAN :
              SetAccount(name, [accounts[name] EXCEPT !.password = p, !.tls = t])
        <5>1. accounts[name].password \in Contents /\ accounts[name].tls \in BOOLEAN
          BY <2>2 DEF Account
        <5>2. Password \in Contents /\ inst.spec.tls \in BOOLEAN
          BY <1>1, StatusTypes
        <5> QED BY <1>3, <3>2, <5>1, <5>2 DEF AlterUser
      <4> QED BY <3>1, <4>1, UserAssumption
    <3>3. CASE RevokeAll
      <4>1. SetAccount(name, [accounts[name] EXCEPT !.grants = {}])
        BY <1>3, <3>3 DEF RevokeAll
      <4>2. /\ [accounts[name] EXCEPT !.grants = {}] \in Account
            /\ [accounts[name] EXCEPT !.grants = {}].creator = accounts[name].creator
        BY <2>2 DEF Account
      <4> QED BY <4>1, <4>2, UserAssumption
    <3>4. ASSUME GrantOne
          PROVE  \E a : /\ SetAccount(name, a)
                        /\ a # Absent /\ a.creator = accounts[name].creator
      <4> DEFINE a == [accounts[name] EXCEPT !.grants = accounts[name].grants \cup frame.granting]
      <4>1. SetAccount(name, a)
        BY <1>3, <3>4 DEF GrantOne
      <4>2. a \in Account /\ a.creator = accounts[name].creator
        BY <2>2 DEF Account, Frame, TypeOK
      <4> QED BY <4>1, <4>2, UserAssumption
    <3> QED BY <3>2, <3>3, <3>4
  <2>4. \A n \in Names : accounts'[n] = IF n = name THEN a ELSE accounts[n]
    BY <2>3 DEF SetAccount, TypeOK
  <2> QED BY <1>1, <2>1, <2>3, <2>4 DEF SameOwners, Exists
<1> QED BY <1>2, <1>3

\* CREATE USER makes an account of the object's own.
LEMMA CreateOwners ==
  ASSUME Benign, TypeOK, NameInv, ActInv, CreateUser
  PROVE  /\ name' = name /\ inst'.spec = inst.spec /\ pc' = "grant" /\ SqlOnly
         /\ OwnedBy(name, obj)' /\ ~Exists(name)
         /\ \A n \in Names \ {name} : accounts'[n] = accounts[n]
<1>1. obj \in Objects /\ inst \in User /\ inst.status \in Status /\ name \in Names
  BY WorkerHolds, UserParts DEF CreateUser, NameInv
<1>2. ~Exists(name) /\ FALSE \notin Succeeds
  BY BenignAnswers DEF CreateUser, ActInv
<1> DEFINE a == [creator |-> obj, password |-> Password,
                 tls |-> TlsClause(inst) /\ inst.spec.tls, grants |-> {}]
<1>3. /\ SetAccount(name, a) /\ SqlOnly /\ pc' = "grant"
      /\ inst' = [inst EXCEPT !.status = [Identified(inst) EXCEPT
                    !.grants = {}, !.message = "created"]]
  BY <1>2 DEF CreateUser, Goto
<1>4. a \in Account /\ a.creator = obj
  BY <1>1, StatusTypes DEF Account
<1>5. name' = name /\ inst'.spec = inst.spec
  <2>1. Identified(inst).username = inst.status.username
    BY <1>1 DEF Identified, Status
  <2>2. Identified(inst) \in Status
    BY <1>1, StatusTypes
  <2> QED BY <1>1, <1>3, <2>1, <2>2 DEF name, User, Status
<1>6. \A n \in Names : accounts'[n] = IF n = name THEN a ELSE accounts[n]
  BY <1>3 DEF SetAccount, TypeOK
<1>7. obj' = obj
  BY <1>3 DEF SqlOnly
<1> HIDE DEF a
<1>8. OwnedBy(name, obj)'
  BY <1>1, <1>4, <1>5, <1>6, <1>7, UserAssumption DEF OwnedBy, Exists
<1> QED BY <1>2, <1>3, <1>5, <1>6, <1>8

\* RENAME USER moves an account of the object's own.
LEMMA RenameOwners ==
  ASSUME Benign, TypeOK, NameInv, HeldInv, RowInv, ActInv, RenameUser, ~GiveUp
  PROVE  /\ name' = inst.spec.username /\ inst'.spec = inst.spec
         /\ pc' = "record" /\ SqlOnly
         /\ OwnedBy(name, obj) /\ ~Exists(inst.spec.username)
         /\ OwnedBy(name, obj)'
         /\ \A n \in Names \ {name, inst.spec.username} : accounts'[n] = accounts[n]
<1>1. obj \in Objects /\ inst \in User /\ inst.status \in Status /\ name \in Names
  BY WorkerHolds, UserParts DEF RenameUser, NameInv
<1>2. inst.spec.username \in Names
  BY <1>1, StatusTypes
<1>3. /\ Exists(name) /\ ~Exists(inst.spec.username) /\ pc = "rename"
      /\ accounts' = [accounts EXCEPT ![inst.spec.username] = accounts[name],
                                      ![name] = Absent]
      /\ inst' = [inst EXCEPT !.status.username = inst.spec.username,
                              !.status.message = "renamed"]
      /\ pc' = "record" /\ SqlOnly
  BY DEF RenameUser, Renamable, Goto
<1>4. OwnedBy(name, obj)
  BY <1>1, <1>3, MineOwns DEF ActInv
<1>5. name' = inst.spec.username /\ inst'.spec = inst.spec
  BY <1>1, <1>3 DEF name, User, Status
<1>6. /\ accounts'[inst.spec.username] = accounts[name]
      /\ \A n \in Names \ {name, inst.spec.username} : accounts'[n] = accounts[n]
  BY <1>1, <1>2, <1>3 DEF TypeOK
<1>7. OwnedBy(name, obj)'
  BY <1>3, <1>4, <1>5, <1>6 DEF OwnedBy, Exists, SqlOnly
<1> QED BY <1>3, <1>4, <1>5, <1>6, <1>7

\* DROP USER drops an account of the object's own.
LEMMA DropOwners ==
  ASSUME TypeOK, HeldInv, RowInv, ActInv, DropUser
  PROVE  /\ name' = name /\ inst' = inst /\ pc' = "forget" /\ SqlOnly
         /\ ledger' = ledger
         /\ \A n \in Names \ {name} : accounts'[n] = accounts[n]
         /\ name \in Names /\ Exists(name) => OwnedBy(name, obj)
<1>1. obj \in Objects /\ inst \in User /\ pc = "drop"
  BY WorkerHolds DEF DropUser
<1> QED BY <1>1, MineOwns DEF DropUser, Goto, ActInv, name

\* The steps that touch no account.
LEMMA WhoTouches ==
  ASSUME Benign, [Next]_vars, accounts' # accounts
  PROVE  \/ CreateUser \/ (RenameUser /\ ~GiveUp) \/ DropUser
         \/ AlterUser \/ RevokeAll \/ GrantOne
<1>1. CASE RenameUser
  BY <1>1 DEF RenameUser, GiveUp, Done, Goto
<1>2. CASE Progress /\ ~(CreateUser \/ RenameUser \/ DropUser \/ AlterUser
                        \/ RevokeAll \/ GrantOne)
  BY <1>2
     DEF Progress, ReadSecret, CreateSecret, ClaimName, OwnSecret, AddFinalizer,
         Settle, InvalidName, SaveReport, SaveStatus, NilSecret, CheckExists,
         SaveRecord, CheckMine, KeepUser, CompareGrants, ShowGrants, LookUp,
         CheckGrant, GrantMissing, CheckFinalize, ForgetRecord, RemoveFinalizer,
         Update, K8sOnly, mysql
<1>3. CASE \E o \in Objects : BeginReconcile(o)
  BY <1>3
     DEF BeginReconcile, Skip, FinalizeUnreachable, FinalizeStart, Unreachable,
         Start, Begin, K8sOnly, mysql
<1>4. CASE Environment
  <2>1. "external" \notin Faults
    BY BenignAnswers
  <2> QED BY <1>4, <2>1
          DEF Environment, Crash, Respawn, Restart, Resync, AdminChange,
              UserCreate, UserEdit, UserMove, UserDelete, Watch, SecretWrite,
              DatabaseChange, ExternalCreate, ExternalDrop, K8sOnly, mysql
<1>5. CASE UNCHANGED vars
  BY <1>5 DEF vars, mysql
<1>6. Progress \/ (\E o \in Objects : BeginReconcile(o)) \/ Environment \/ UNCHANGED vars
  BY DEF Next, Operator
<1> QED BY <1>1, <1>2, <1>3, <1>4, <1>5, <1>6

\* Whoever changes an account that is there owns it.
LEMMA WhoActs ==
  ASSUME Benign, TypeOK, NameInv, HeldInv, RowInv, ActInv, [Next]_vars,
         NEW n \in Names, Exists(n), accounts'[n] # accounts[n]
  PROVE  obj \in Objects /\ OwnedBy(n, obj)
<1>1. accounts' # accounts
  OBVIOUS
<1>2. CASE CreateUser
  BY <1>2, CreateOwners
<1>3. CASE RenameUser /\ ~GiveUp
  BY <1>3, RenameOwners, WorkerHolds DEF RenameUser
<1>4. CASE DropUser
  BY <1>4, DropOwners, WorkerHolds DEF DropUser
<1>5. CASE AlterUser \/ RevokeAll \/ GrantOne
  BY <1>1, <1>5, AlterOwners
<1> QED BY <1>1, <1>2, <1>3, <1>4, <1>5, WhoTouches

-----------------------------------------------------------------------------
(* Stages.                                                                 *)

SameStages ==
  \A o \in Objects : /\ Stage(api'[o]) = Stage(api[o])
                     /\ api'[o].spec.username = api[o].spec.username

Passes(o, from, to) ==
  /\ Stage(api[o]) = from
  /\ Stage(api'[o]) = to
  /\ \A p \in Objects \ {o} : api'[p] = api[p]

\* The steps that move an object or change its name, all outside the server.
Transition ==
  /\ UNCHANGED accounts
  /\ \E o \in Objects :
       \/ Passes(o, "absent", "live")
       \/ /\ Renaming /\ Passes(o, Stage(api[o]), Stage(api[o]))
          /\ Server(api'[o]) = Server(api[o])
       \/ /\ api'[o].spec.username = api[o].spec.username
          /\ \/ Passes(o, "live", "gone") \/ Passes(o, "protected", "deleting")
             \/ Passes(o, "live", "protected")
             \/ pc = "removeFinalizer" /\ o = obj /\ Passes(o, "deleting", "gone")

\* What a stage is made of.
LEMMA StageOf ==
  ASSUME NEW r \in User
  PROVE  /\ Stage([r EXCEPT !.finalizer = FALSE, !.phase = "gone"]) = "gone"
         /\ r.phase = "live" => Stage([r EXCEPT !.finalizer = TRUE]) = "protected"
         /\ r.phase = "live" => Stage(r) = IF r.finalizer THEN "protected" ELSE "live"
         /\ r.phase # "live" => Stage(r) = r.phase
         /\ Guarded(r) => Stage(r) \in {"protected", "deleting"}
BY DEF Stage, User, Guarded

\* The worker's updates move its own object only, and the two that do are
\* based on the stored version.
LEMMA UpdateMoves ==
  ASSUME TypeOK, FinalizerInv,
         \/ ClaimName \/ AddFinalizer \/ InvalidName \/ RemoveFinalizer
         \/ SaveReport \/ SaveStatus
  PROVE  SameStages \/ Transition
<1>1. /\ obj \in Objects /\ obj # NoObject /\ api[obj] \in User /\ UNCHANGED accounts
  BY WorkerHolds, ObjectsAssumption
     DEF ClaimName, AddFinalizer, InvalidName, RemoveFinalizer, SaveReport,
         SaveStatus, Update, K8sOnly, mysql
<1>2. CASE UNCHANGED api
  BY <1>2 DEF SameStages
<1>3. ASSUME NEW new, Write(new) \/ WriteStamped(new)
      PROVE  api'[obj] = new /\ \A p \in Objects \ {obj} : api'[p] = api[p]
  BY <1>1, <1>3 DEF Write, WriteStamped, TypeOK
<1>4. CASE AddFinalizer /\ api' # api
  <2> DEFINE new == [api[obj] EXCEPT !.finalizer = TRUE]
  <2>1. fresh /\ Write(new) /\ pc = "claim"
    BY <1>4 DEF AddFinalizer, Update, Accepted, store
  <2>2. api[obj].phase = "live"
    BY <1>1, <2>1 DEF FinalizerInv, WorkerInv, BranchInv
  <2>3. /\ Stage(new) = "protected" /\ Stage(api[obj]) \in {"live", "protected"}
        /\ new.spec = api[obj].spec
    BY <1>1, <2>2, StageOf DEF User
  <2>4. api'[obj] = new /\ \A p \in Objects \ {obj} : api'[p] = api[p]
    BY <1>3, <2>1
  <2> HIDE DEF new
  <2> QED BY <1>1, <2>1, <2>3, <2>4 DEF SameStages, Transition, Passes
<1>5. CASE RemoveFinalizer /\ api' # api
  <2> DEFINE new == [api[obj] EXCEPT !.finalizer = FALSE, !.phase = "gone"]
  <2>1. fresh /\ Write(new) /\ pc = "removeFinalizer"
    BY <1>5 DEF RemoveFinalizer, Update, Accepted, store
  <2>2. api[obj].phase = "deleting"
    BY <1>1, <2>1 DEF FinalizerInv, WorkerInv, BranchInv
  <2>3. /\ Stage(new) = "gone" /\ Stage(api[obj]) = "deleting"
        /\ new.spec = api[obj].spec
    BY <1>1, <2>2, StageOf DEF User
  <2>4. api'[obj] = new /\ \A p \in Objects \ {obj} : api'[p] = api[p]
    BY <1>3, <2>1
  <2> HIDE DEF new
  <2> QED BY <1>1, <2>1, <2>3, <2>4 DEF Transition, Passes
<1>6. CASE (ClaimName \/ InvalidName \/ SaveStatus \/ SaveReport) /\ api' # api
  <2>1. PICK new, st : /\ Write(new) \/ WriteStamped(new)
                       /\ \/ new = [api[obj] EXCEPT !.status = st]
                          \/ new = [api[obj] EXCEPT !.status.username = st]
                          \/ new = [api[obj] EXCEPT !.status.message = st]
    BY <1>6 DEF ClaimName, InvalidName, SaveStatus, SaveReport, Update, store
  <2>2. Stage(new) = Stage(api[obj]) /\ new.spec = api[obj].spec
    BY <1>1, <2>1 DEF Stage, User
  <2>3. api'[obj] = new /\ \A p \in Objects \ {obj} : api'[p] = api[p]
    BY <1>3, <2>1
  <2> QED BY <2>2, <2>3 DEF SameStages
<1> QED BY <1>2, <1>4, <1>5, <1>6

\* Users create, edit and delete.
LEMMA UserMoves ==
  ASSUME TypeOK, NEW o \in Objects, UserCreate(o) \/ UserEdit(o) \/ UserDelete(o)
  PROVE  SameStages \/ Transition
<1>1. api[o] \in User /\ UNCHANGED accounts
  BY DEF UserCreate, UserEdit, UserMove, UserDelete, K8sOnly, mysql, TypeOK
<1>2. ASSUME NEW new, Submit(o, new)
      PROVE  api'[o] = new /\ \A p \in Objects \ {o} : api'[p] = api[p]
  BY <1>2 DEF Submit, TypeOK
<1>3. CASE UserCreate(o)
  <2>1. PICK s \in Specs : Submit(o, NewObject(s))
    BY <1>3 DEF UserCreate
  <2>2. Stage(api[o]) = "absent" /\ Stage(NewObject(s)) = "live"
    BY <1>3 DEF UserCreate, Stage, NewObject
  <2> QED BY <1>1, <1>2, <2>1, <2>2 DEF Transition, Passes
<1>4. CASE UserEdit(o)
  <2>1. PICK s \in Specs : /\ Host[s.username] = Server(api[o])
                           /\ Submit(o, [api[o] EXCEPT !.spec = s])
    BY <1>4 DEF UserEdit
  <2> DEFINE new == [api[o] EXCEPT !.spec = s]
  <2>2. Stage(new) = Stage(api[o]) /\ new.spec = s
    BY <1>1 DEF Stage, User
  <2>3. api'[o] = new /\ \A p \in Objects \ {o} : api'[p] = api[p]
    BY <1>2, <2>1
  <2>4. Edited # {} /\ api[o].spec \in Specs
    BY <1>1, <1>4, UserParts DEF UserEdit
  <2> HIDE DEF new
  <2>5. s.username # api[o].spec.username => Renaming
    BY <2>1, <2>4 DEF Renaming, Server
  <2> QED BY <1>1, <2>1, <2>2, <2>3, <2>5 DEF SameStages, Transition, Passes,
                                              Server
<1>5. CASE UserDelete(o)
  <2> DEFINE new == [api[o] EXCEPT
                       !.phase = IF api[o].finalizer THEN "deleting" ELSE "gone"]
  <2>1. Submit(o, new) /\ api[o].phase = "live"
    BY <1>5 DEF UserDelete
  <2>2. /\ IF api[o].finalizer
           THEN Stage(api[o]) = "protected" /\ Stage(new) = "deleting"
           ELSE Stage(api[o]) = "live" /\ Stage(new) = "gone"
        /\ new.spec = api[o].spec
    BY <1>1, <2>1 DEF Stage, User
  <2>3. api'[o] = new /\ \A p \in Objects \ {o} : api'[p] = api[p]
    BY <1>2, <2>1
  <2> HIDE DEF new
  <2> QED BY <1>1, <2>2, <2>3 DEF Transition, Passes
<1> QED BY <1>3, <1>4, <1>5

\* Nothing else moves an object.
LEMMA OthersStay ==
  ASSUME Moves = {}, [Next]_vars,
         ~(\/ ClaimName \/ AddFinalizer \/ InvalidName \/ RemoveFinalizer
           \/ SaveReport \/ SaveStatus),
         ~\E o \in Objects : UserCreate(o) \/ UserEdit(o) \/ UserDelete(o)
  PROVE  UNCHANGED api
<1>1. CASE Progress
  BY <1>1
     DEF Progress, ReadSecret, CreateSecret, OwnSecret, Settle, NilSecret,
         CheckExists, CreateUser, SaveRecord, CheckMine, RenameUser, AlterUser,
         KeepUser, CompareGrants, RevokeAll, ShowGrants, CheckGrant, GrantOne,
         LookUp, GrantMissing, CheckFinalize, DropUser, ForgetRecord, SqlOnly,
         GiveUp, store, k8s
<1>2. CASE \E o \in Objects : BeginReconcile(o)
  BY <1>2
     DEF BeginReconcile, Skip, FinalizeUnreachable, FinalizeStart, Unreachable,
         Start, Begin, Take, store
<1>3. CASE Environment
  BY <1>3
     DEF Environment, Crash, Respawn, Restart, Relist, Resync, AdminChange,
         UserMove, Watch, Observe, SecretWrite, DatabaseChange, ExternalCreate,
         ExternalDrop, Enqueue, store, k8s
<1>4. CASE UNCHANGED vars
  BY <1>4 DEF vars, k8s
<1> QED BY <1>1, <1>2, <1>3, <1>4 DEF Next, Operator

\* Every step either moves no object or is one of Transition.
LEMMA StageChanges ==
  ASSUME Moves = {}, TypeOK, FinalizerInv, [Next]_vars
  PROVE  SameStages \/ Transition
<1>1. UNCHANGED api => SameStages
  BY DEF SameStages
<1> QED BY <1>1, UpdateMoves, UserMoves, OthersStay

\* The cache changes only to what is stored (the informer's watch).
LEMMA CacheStep ==
  ASSUME TypeOK, [Next]_vars
  PROVE  \A o \in Objects : cached'[o] = cached[o] \/ cached'[o] = api'[o]
<1>1. CASE Progress
  BY <1>1
     DEF Progress, ReadSecret, CreateSecret, ClaimName, OwnSecret, AddFinalizer,
         Settle, InvalidName, SaveReport, SaveStatus, NilSecret, CheckExists,
         CreateUser, SaveRecord, CheckMine, RenameUser, AlterUser, KeepUser,
         CompareGrants, RevokeAll, ShowGrants, CheckGrant, GrantOne, LookUp,
         GrantMissing, CheckFinalize, DropUser, ForgetRecord, RemoveFinalizer,
         Update, Write, WriteStamped, SqlOnly, GiveUp, store, k8s
<1>2. CASE \E o \in Objects : BeginReconcile(o)
  BY <1>2
     DEF BeginReconcile, Skip, FinalizeUnreachable, FinalizeStart, Unreachable,
         Start, Begin, Take, store
<1>3. CASE Environment
  BY <1>3
     DEF Environment, Crash, Respawn, Restart, Relist, Resync, AdminChange,
         UserCreate, UserEdit, UserMove, UserDelete, Submit, Watch, Observe,
         SecretWrite, DatabaseChange, ExternalCreate, ExternalDrop, Enqueue,
         store, k8s, TypeOK
<1>4. CASE UNCHANGED vars
  BY <1>4 DEF vars, k8s
<1> QED BY <1>1, <1>2, <1>3, <1>4 DEF Next, Operator

-----------------------------------------------------------------------------
(* Servers that users leave alone.                                         *)

\* What the operator has of an object is on the server that it names.
Rooted ==
  /\ \A o \in Objects :
       /\ cached[o].phase # "absent" =>
            api[o].phase # "absent" /\ Server(cached[o]) = Server(api[o])
       /\ \A n \in ledger[o] : api[o].phase # "absent" /\ Host[n] = Server(api[o])
       /\ \A m, n \in ledger[o] : m = n
  /\ obj # NoObject =>
       api[obj].phase # "absent" /\ Server(inst) = Server(api[obj])

LEMMA NothingElsewhere ==
  ASSUME Rooted, obj \in Objects
  PROVE  Elsewhere = {}
BY ObjectsAssumption DEF Rooted, Elsewhere

\* An object that is there keeps its server.
LEMMA ServersStay ==
  ASSUME Moves = {}, TypeOK, FinalizerInv, [Next]_vars, NEW o \in Objects,
         api[o].phase # "absent"
  PROVE  api'[o].phase # "absent" /\ Server(api'[o]) = Server(api[o])
<1>1. CASE SameStages
  BY <1>1 DEF SameStages, Stage, Server
<1>2. CASE Transition
  BY <1>2 DEF Transition, Passes, Stage, Server
<1> QED BY <1>1, <1>2, StageChanges

\* What a step makes of the worker's copy: it is given up, goes on under its
\* spec, or is taken from the cache.
LEMMA SpecStep ==
  ASSUME TypeOK, [Next]_vars
  PROVE  \/ obj' = NoObject
         \/ obj' = obj /\ inst'.spec = inst.spec
         \/ obj' \in Objects /\ inst' = cached[obj'] /\ inst'.phase # "absent"
<1>1. CASE Progress
  <2>1. obj \in Objects /\ inst \in User
    BY <1>1, WorkerHolds
       DEF Progress, ReadSecret, CreateSecret, ClaimName, OwnSecret,
           AddFinalizer, Settle, InvalidName, SaveReport, SaveStatus, NilSecret,
           CheckExists, CreateUser, SaveRecord, CheckMine, RenameUser,
           AlterUser, KeepUser, CompareGrants, RevokeAll, CheckGrant, GrantOne,
           ShowGrants, LookUp, GrantMissing, CheckFinalize, DropUser,
           ForgetRecord, RemoveFinalizer
  <2>2. ASSUME NEW r, Done(r) PROVE obj' = NoObject
    BY <2>2 DEF Done, Return
  <2>3. CASE CreateUser /\ obj' # NoObject
    <3>1. /\ obj' = obj
          /\ inst' = [inst EXCEPT !.status = [Identified(inst) EXCEPT
                      !.grants = {}, !.message = "created"]]
      BY <2>2, <2>3 DEF CreateUser, GiveUp, SqlOnly
    <3> QED BY <2>1, <3>1 DEF User
  <2>4. CASE RenameUser /\ obj' # NoObject
    <3>1. /\ obj' = obj
          /\ inst' = [inst EXCEPT !.status.username = inst.spec.username,
                                !.status.message = "renamed"]
      BY <2>2, <2>4 DEF RenameUser, GiveUp, SqlOnly
    <3> QED BY <2>1, <3>1 DEF User
  <2>5. CASE AlterUser /\ obj' # NoObject
    <3>1. /\ obj' = obj
          /\ inst' = [inst EXCEPT !.status =
                      [Identified(inst) EXCEPT !.message = "altered"]]
      BY <2>2, <2>5 DEF AlterUser, GiveUp, SqlOnly
    <3> QED BY <2>1, <3>1 DEF User
  <2>6. CASE CompareGrants /\ obj' # NoObject
    <3>1. /\ obj' = obj
          /\ inst' = [inst EXCEPT !.status.grants = Shown]
      BY <2>2, <2>6 DEF CompareGrants, GiveUp, SqlOnly
    <3> QED BY <2>1, <3>1 DEF User
  <2>7. CASE RevokeAll /\ obj' # NoObject
    <3>1. /\ obj' = obj
          /\ inst' = [inst EXCEPT !.status.databases = {}, !.status.grants = {}]
      BY <2>2, <2>7 DEF RevokeAll, GiveUp, SqlOnly
    <3> QED BY <2>1, <3>1 DEF User
  <2>8. CASE ShowGrants /\ obj' # NoObject
    <3>1. /\ obj' = obj
          /\ \/ inst' = inst
             \/ inst' = [inst EXCEPT !.status.databases = inst.spec.databases,
                                !.status.grants = Shown]
      BY <2>2, <2>8 DEF ShowGrants, GiveUp, SqlOnly
    <3> QED BY <2>1, <3>1 DEF User
  <2>9. CASE CheckMine /\ obj' # NoObject
    <3>1. /\ obj' = obj
          /\ \/ inst' = inst
             \/ inst' = [inst EXCEPT !.status.message = "refused"]
      BY <2>2, <2>9 DEF CheckMine, SetMessage, SqlOnly
    <3> QED BY <2>1, <3>1 DEF User
  <2> QED BY <1>1, <2>2, <2>3, <2>4, <2>5, <2>6, <2>7, <2>8, <2>9
          DEF Progress, ReadSecret, CreateSecret, ClaimName, OwnSecret,
              AddFinalizer, Settle, InvalidName, SaveReport, SaveStatus,
              NilSecret, CheckExists, SaveRecord, KeepUser, CheckGrant,
              GrantOne, LookUp, GrantMissing, CheckFinalize, DropUser,
              ForgetRecord, RemoveFinalizer, Update, GiveUp, SqlOnly, K8sOnly,
              k8s
<1>2. CASE \E o \in Objects : BeginReconcile(o)
  BY <1>2
     DEF BeginReconcile, Skip, FinalizeUnreachable, FinalizeStart, Unreachable,
         Start, Begin, Take, worker, NothingToDo
<1>3. CASE Environment
  BY <1>3
     DEF Environment, Crash, Respawn, Restart, Relist, Resync, AdminChange,
         UserCreate, UserEdit, UserMove, UserDelete, Submit, Watch, Observe,
         SecretWrite, DatabaseChange, ExternalCreate, ExternalDrop, Enqueue,
         worker, k8s
<1>4. CASE UNCHANGED vars
  BY <1>4 DEF vars, k8s
<1> QED BY <1>1, <1>2, <1>3, <1>4 DEF Next, Operator

\* Rows are written for the name that the worker's copy asks for.
LEMMA RowsWritten ==
  ASSUME TypeOK, [Next]_vars, NEW o \in Objects
  PROVE  \/ ledger'[o] = ledger[o]
         \/ o = obj /\ ledger'[o] \subseteq Elsewhere \cup {inst.spec.username}
<1>1. CASE SaveRecord
  <2>1. \/ ledger' = [ledger EXCEPT ![obj] = Elsewhere \cup {inst.spec.username}]
        \/ ledger' = ledger
    BY <1>1 DEF SaveRecord, RecordedName
  <2> QED BY <2>1 DEF TypeOK
<1>2. CASE ForgetRecord
  <2>1. ledger' = [ledger EXCEPT ![obj] = Elsewhere] \/ ledger' = ledger
    BY <1>2 DEF ForgetRecord
  <2> QED BY <2>1 DEF TypeOK
<1>3. CASE Progress /\ ~SaveRecord /\ ~ForgetRecord
  BY <1>3
     DEF Progress, ReadSecret, CreateSecret, ClaimName, OwnSecret, AddFinalizer,
         Settle, InvalidName, SaveReport, SaveStatus, NilSecret, CheckExists,
         CreateUser, CheckMine, RenameUser, AlterUser, KeepUser, CompareGrants,
         RevokeAll, CheckGrant, GrantOne, ShowGrants, LookUp, GrantMissing,
         CheckFinalize, DropUser, RemoveFinalizer, Update, K8sOnly, mysql
<1>4. CASE \E p \in Objects : BeginReconcile(p)
  BY <1>4
     DEF BeginReconcile, Skip, FinalizeUnreachable, FinalizeStart, Unreachable,
         Start, Begin, K8sOnly, mysql
<1>5. CASE Environment
  BY <1>5
     DEF Environment, Crash, Respawn, Restart, Resync, AdminChange, UserCreate,
         UserEdit, UserMove, UserDelete, Watch, SecretWrite, DatabaseChange,
         ExternalCreate, ExternalDrop, K8sOnly, mysql
<1>6. CASE UNCHANGED vars
  BY <1>6 DEF vars, mysql
<1> QED BY <1>1, <1>2, <1>3, <1>4, <1>5, <1>6 DEF Next, Operator

LEMMA RootedStep ==
  ASSUME Moves = {}, TypeOK, FinalizerInv, Rooted, [Next]_vars, TypeOK'
  PROVE  Rooted'
<1>1. \A o \in Objects : api[o].phase # "absent" =>
        api'[o].phase # "absent" /\ Server(api'[o]) = Server(api[o])
  BY ServersStay
<1>2. obj # NoObject => obj \in Objects
  BY DEF TypeOK
<1>3. ASSUME NEW o \in Objects, cached'[o].phase # "absent"
      PROVE  api'[o].phase # "absent" /\ Server(cached'[o]) = Server(api'[o])
  BY <1>1, <1>3, CacheStep DEF Rooted
<1>4. ASSUME NEW o \in Objects
      PROVE  /\ \A n \in ledger'[o] : api'[o].phase # "absent" /\ Host[n] = Server(api'[o])
             /\ \A m, n \in ledger'[o] : m = n
  <2>1. CASE ledger'[o] = ledger[o]
    BY <1>1, <2>1 DEF Rooted
  <2>2. CASE o = obj /\ ledger'[o] \subseteq Elsewhere \cup {inst.spec.username}
    <3>1. ledger'[o] \subseteq {inst.spec.username} /\ obj # NoObject
      BY <2>2, NothingElsewhere, ObjectsAssumption
    <3>2. Host[inst.spec.username] = Server(api[o]) /\ api[o].phase # "absent"
      BY <2>2, <3>1 DEF Rooted, Server
    <3> QED BY <1>1, <3>1, <3>2
  <2> QED BY <2>1, <2>2, RowsWritten
<1>5. ASSUME obj' # NoObject
      PROVE  api'[obj'].phase # "absent" /\ Server(inst') = Server(api'[obj'])
  <2>1. CASE obj' = obj /\ inst'.spec = inst.spec
    <3>1. Server(inst') = Server(inst)
      BY <2>1 DEF Server
    <3> QED BY <1>1, <1>2, <1>5, <2>1, <3>1 DEF Rooted
  <2>2. CASE obj' \in Objects /\ inst' = cached[obj'] /\ inst'.phase # "absent"
    BY <1>1, <2>2 DEF Rooted
  <2> QED BY <1>5, <2>1, <2>2, SpecStep
<1> QED BY <1>3, <1>4, <1>5 DEF Rooted, Server

\* What the operator has of an object stays on the server it names, while
\* nobody moves the object.
LEMMA RootedCorrect == Moves = {} => (Spec => []Rooted)
<1> SUFFICES ASSUME Moves = {} PROVE Spec => []Rooted
  OBVIOUS
<1>1. ASSUME Init PROVE Rooted
  <2>1. PICK s \in Specs : K8sInit([o \in Objects |-> NeverCreated(s)])
    BY <1>1 DEF Init
  <2>2. NeverCreated(s).phase = "absent"
    BY DEF NeverCreated, NewObject
  <2>3. \A o \in Objects : cached[o].phase = "absent" /\ ledger[o] = {}
    BY <1>1, <2>1, <2>2 DEF Init, K8sInit
  <2> QED BY <2>1, <2>3 DEF K8sInit, Rooted
<1>2. TypeOK /\ TypeOK' /\ FinalizerInv /\ Rooted /\ [Next]_vars => Rooted'
  BY RootedStep
<1> QED BY <1>1, <1>2, TypeCorrect, FinalizerCorrect, PTL DEF Spec

-----------------------------------------------------------------------------
(* Copies, rows and decisions.                                             *)

\* A statement that neither moves an account nor writes a row.
LEMMA ContinueKeeps ==
  ASSUME CopyInv, HeldInv, RowInv, obj \in Objects,
         SameOwners, UNCHANGED <<store, obj, fresh, ledger>>,
         name' = name, inst'.spec = inst.spec,
         pc \notin {"record", "status", "forget"},
         TypeOK
  PROVE  CopyInv' /\ HeldInv' /\ RowInv'
<1>1. \A n \in Names, o \in Objects : OwnedBy(n, o)' <=> OwnedBy(n, o)
  BY OwnersStay
<1>2. \A o \in Objects : api'[o] = api[o] /\ cached'[o] = cached[o]
  BY DEF store
<1>3. inst.spec.username \in Names
  BY WorkerHolds, StatusTypes, ObjectsAssumption DEF TypeOK
<1>4. \A o \in Objects : cached[o].spec.username \in Names
  BY UserParts DEF TypeOK, UserSpec
<1>5. CopyInv'
  BY <1>1, <1>2, <1>4 DEF CopyInv, Late, Renamed
<1>6. HeldInv'
  <2>1. ~JustRenamed
    BY DEF JustRenamed
  <2>2. /\ Late(inst, obj) => Renamed(inst, obj)
        /\ Late(cached[obj], obj) => name = cached[obj].status.username
        /\ fresh => /\ obj \in synced /\ inst.spec = api[obj].spec
                    /\ name = api[obj].status.username
    BY <2>1, ObjectsAssumption DEF HeldInv
  <2>3. obj' = obj /\ synced' = synced /\ fresh' = fresh
    BY DEF store
  <2> QED BY <1>1, <1>2, <1>3, <2>2, <2>3 DEF HeldInv, Late, Renamed, name
<1>7. RowInv'
  <2>1. \A o \in Objects, n \in Names : Blocked(o, n) => Blocked(o, n)'
    BY <1>1, <1>2 DEF Blocked
  <2> QED BY <1>1, <2>1 DEF RowInv
<1> QED BY <1>5, <1>6, <1>7

\* The end of a reconcile that has stored nothing.
LEMMA EndKeeps ==
  ASSUME TypeOK, CopyInv, RowInv, obj \in Objects, NEW r, Done(r),
         UNCHANGED <<store, accounts, ledger>>, pc \notin {"record", "forget"}
  PROVE  MineInv'
<1>1. /\ obj' = NoObject /\ fresh' = FALSE /\ pc' = "idle"
      /\ api' = api /\ cached' = cached
  BY DEF Done, Return, Goto, store
<1>2. CopyInv'
  BY <1>1 DEF CopyInv, Late, Renamed, OwnedBy, Exists
<1>3. HeldInv' /\ ActInv'
  BY <1>1 DEF HeldInv, ActInv
<1>4. RowInv'
  BY <1>1, ObjectsAssumption DEF RowInv, Blocked, OwnedBy, Exists
<1> QED BY <1>2, <1>3, <1>4 DEF MineInv

\* One that stored a version with the same name.
LEMMA WriteKeeps ==
  ASSUME TypeOK, CopyInv, RowInv, obj \in Objects, NEW r, Done(r),
         NEW new, Write(new) \/ WriteStamped(new),
         new.status.username = api[obj].status.username,
         new.phase = "absent" => api[obj].phase = "absent",
         UNCHANGED <<accounts, ledger>>, pc \notin {"record", "forget"}
  PROVE  MineInv'
<1>1. /\ obj' = NoObject /\ fresh' = FALSE /\ pc' = "idle" /\ cached' = cached
      /\ \A o \in Objects : api'[o] = IF o = obj THEN new ELSE api[o]
  BY DEF Done, Return, Goto, Write, WriteStamped, TypeOK
<1>2. \A o \in Objects : api'[o].status.username = api[o].status.username
  BY <1>1
<1>3. CopyInv'
  BY <1>1, <1>2 DEF CopyInv, Late, Renamed, OwnedBy, Exists
<1>4. HeldInv' /\ ActInv'
  BY <1>1 DEF HeldInv, ActInv
<1>5. RowInv'
  BY <1>1, <1>2, ObjectsAssumption DEF RowInv, Blocked, OwnedBy, Exists
<1> QED BY <1>3, <1>4, <1>5 DEF MineInv

\* UserMine stays true while no account and no row changes.
LEMMA MineStays ==
  ASSUME TypeOK, obj \in Objects, SameOwners, UNCHANGED <<obj, ledger>>,
         name' = name, inst'.spec = inst.spec, UserMine(inst)
  PROVE  UserMine(inst)'
<1>1. inst.spec.username \in Names /\ inst.status.username \in Names \cup {Unset}
  BY WorkerHolds, StatusTypes, UserParts, ObjectsAssumption DEF TypeOK, Status
<1>2. NamesOf(inst)' = NamesOf(inst) /\ NamesOf(inst) \subseteq Names
  BY <1>1 DEF NamesOf, name
<1> QED BY <1>2 DEF UserMine, SameOwners

\* The decisions of a reconcile.
LEMMA ActStep ==
  ASSUME Benign, TypeOK, NameInv, HeldInv, RowInv, ActInv,
         \/ ReadSecret \/ Settle \/ NilSecret \/ CheckExists
         \/ CheckMine \/ KeepUser \/ CheckFinalize
         \/ AlterUser \/ CompareGrants \/ RevokeAll \/ ShowGrants
         \/ CheckGrant \/ GrantOne
         \/ \E d \in Databases : LookUp(d) \/ GrantMissing(d),
         ~GiveUp
  PROVE  /\ SameOwners /\ UNCHANGED <<store, obj, fresh, ledger>>
         /\ name' = name /\ inst'.spec = inst.spec /\ obj \in Objects
         /\ pc \notin {"record", "status", "forget"}
         /\ ActInv'
<1>1. /\ UNCHANGED <<store, obj, fresh, ledger>> /\ obj \in Objects /\ inst \in User
      /\ inst.status \in Status
      /\ pc \notin {"record", "status", "forget"}
  BY WorkerHolds, UserParts
     DEF ReadSecret, Settle, NilSecret, CheckExists, CheckMine, KeepUser,
         CheckFinalize, AlterUser, CompareGrants, RevokeAll, ShowGrants,
         CheckGrant, GrantOne, LookUp, GrantMissing, SqlOnly, mysql
<1>2. name' = name /\ inst'.spec = inst.spec
  <2>1. CASE AlterUser
    <3>1. inst' = [inst EXCEPT !.status = [Identified(inst) EXCEPT !.message = "altered"]]
      BY <2>1 DEF AlterUser
    <3>2. Identified(inst).username = inst.status.username /\ Identified(inst) \in Status
      BY <1>1, StatusTypes DEF Identified, Status
    <3> QED BY <1>1, <3>1, <3>2 DEF name, User, Status
  <2>2. CASE CheckMine
    BY <1>1, <2>2 DEF CheckMine, SetMessage, name, User, Status
  <2>3. CASE CompareGrants
    <3>1. inst' = [inst EXCEPT !.status.grants = Shown]
      BY <2>3 DEF CompareGrants
    <3> QED BY <1>1, <3>1 DEF name, User, Status
  <2>4. CASE RevokeAll
    <3>1. inst' = [inst EXCEPT !.status.databases = {}, !.status.grants = {}]
      BY <2>4 DEF RevokeAll
    <3> QED BY <1>1, <3>1 DEF name, User, Status
  <2>5. CASE ShowGrants
    <3>1. \/ inst' = inst
          \/ inst' = [inst EXCEPT !.status.databases = inst.spec.databases,
                                  !.status.grants = Shown]
      BY <2>5 DEF ShowGrants
    <3> QED BY <1>1, <3>1 DEF name, User, Status
  <2>6. CASE inst' = inst
    BY <2>6 DEF name
  <2> QED BY <2>1, <2>2, <2>3, <2>4, <2>5, <2>6
          DEF ReadSecret, Settle, NilSecret, CheckExists, KeepUser,
              CheckFinalize, CheckGrant, GrantOne, LookUp, GrantMissing
<1>3. SameOwners
  <2>1. CASE AlterUser \/ RevokeAll \/ GrantOne
    BY <2>1, AlterOwners
  <2>2. CASE accounts' = accounts
    BY <2>2 DEF SameOwners, Exists
  <2> QED BY <2>1, <2>2
          DEF ReadSecret, Settle, NilSecret, CheckExists, CheckMine, KeepUser,
              CheckFinalize, CompareGrants, ShowGrants, CheckGrant, LookUp,
              GrantMissing, mysql
<1>4. UserMine(inst) => UserMine(inst)'
  BY <1>1, <1>2, <1>3, MineStays
<1>5. name \in Names /\ OwnedBy(name, obj) => OwnedBy(name, obj)'
  BY <1>1, <1>2, <1>3, OwnersStay
<1>6. ActInv'
  <2>1. CASE pc' \notin {"create", "grant", "grantMine", "grantOne", "record",
                         "rename", "details", "permissions", "revoke", "drop"}
    BY <2>1 DEF ActInv
  <2>2. CASE CheckExists
    <3>1. pc' = "create" => ~Exists(name)
      BY <2>2, BenignAnswers DEF CheckExists, Goto
    <3>2. pc' \in {"create", "mine"} /\ name \in Names
      BY <2>2 DEF CheckExists, Goto, NameInv
    <3> QED BY <1>2, <1>3, <3>1, <3>2 DEF ActInv, SameOwners
  <2>3. CASE CheckMine \/ CheckFinalize
    <3>1. pc' \in {"rename", "details", "drop"} => UserMine(inst)
      BY <2>3, BenignAnswers DEF CheckMine, CheckFinalize, Goto
    <3>2. pc' \in {"rename", "details", "status", "drop", "removeFinalizer"}
      BY <2>3 DEF CheckMine, CheckFinalize, Goto
    <3> QED BY <1>4, <3>1, <3>2 DEF ActInv
  <2>4. CASE KeepUser
    BY <1>4, <2>4 DEF KeepUser, Goto, ActInv
  <2>5. CASE CompareGrants \/ RevokeAll
    <3>1. Exists(name) /\ UserMine(inst) /\ name \in Names
      BY <2>5, BenignAnswers DEF CompareGrants, RevokeAll, ActInv, NameInv
    <3>2. OwnedBy(name, obj)
      BY <1>1, <3>1, MineOwns
    <3>3. pc' \in {"status", "revoke", "grant"}
      BY <2>5, BenignAnswers DEF CompareGrants, RevokeAll, Goto
    <3> QED BY <1>4, <1>5, <3>1, <3>2, <3>3 DEF ActInv
  <2>6. CASE \/ ShowGrants \/ CheckGrant \/ GrantOne
             \/ \E d \in Databases : LookUp(d) \/ GrantMissing(d)
    <3>1. name \in Names /\ OwnedBy(name, obj)
      BY <2>6 DEF ShowGrants, CheckGrant, GrantOne, LookUp, GrantMissing,
                  ActInv, NameInv
    <3>2. pc' \in {"status", "record", "grant", "grantMine", "grantOne"}
      BY <2>6 DEF ShowGrants, CheckGrant, GrantOne, LookUp, GrantMissing, Goto,
                  Leave
    <3> QED BY <1>5, <3>1, <3>2 DEF ActInv
  <2> QED BY <2>1, <2>2, <2>3, <2>4, <2>5, <2>6
          DEF ReadSecret, Settle, NilSecret, AlterUser, Goto
<1> QED BY <1>1, <1>2, <1>3, <1>6

\* CREATE USER: nobody's row named the account, unless it was blocked.
LEMMA CreateKeeps ==
  ASSUME Benign, TypeOK, NameInv, MineInv, CreateUser
  PROVE  MineInv'
<1>1. /\ obj \in Objects /\ name \in Names /\ pc = "create"
      /\ ~JustRenamed /\ obj # NoObject
      /\ name' = name /\ inst'.spec = inst.spec /\ pc' = "grant"
      /\ UNCHANGED <<api, cached, synced, obj, fresh, ledger>>
      /\ OwnedBy(name, obj)' /\ ~Exists(name)
      /\ \A n \in Names \ {name} : accounts'[n] = accounts[n]
  BY CreateOwners, WorkerHolds, ObjectsAssumption
     DEF CreateUser, NameInv, JustRenamed, SqlOnly, store, MineInv
<1>2. \A n \in Names : \A o : OwnedBy(n, o) => OwnedBy(n, o)'
  BY <1>1 DEF OwnedBy, Exists
<1>3. /\ inst.spec.username \in Names
      /\ \A o \in Objects : cached[o].spec.username \in Names
  BY <1>1, WorkerHolds, StatusTypes, UserParts DEF TypeOK, UserSpec
<1>4. CopyInv'
  BY <1>1, <1>2, <1>3 DEF MineInv, CopyInv, Late, Renamed
<1>5. HeldInv'
  BY <1>1, <1>2, <1>3 DEF MineInv, HeldInv, Late, Renamed, name
<1>6. RowInv'
  <2>1. \A o \in Objects, n \in Names : Blocked(o, n) => Blocked(o, n)'
    BY <1>1, <1>2 DEF Blocked
  <2> QED BY <1>1, <1>2, <2>1 DEF MineInv, RowInv
<1>7. ActInv'
  BY <1>1 DEF ActInv
<1> QED BY <1>4, <1>5, <1>6, <1>7 DEF MineInv

\* RENAME USER: the copy was not one from before an earlier rename.
LEMMA RenameKeeps ==
  ASSUME Benign, TypeOK, NameInv, MineInv, RenameUser, ~GiveUp
  PROVE  MineInv'
<1> DEFINE x == inst.spec.username
<1>1. /\ obj \in Objects /\ name \in Names /\ pc = "rename" /\ x \in Names
      /\ ~JustRenamed /\ obj # NoObject
      /\ name' = x /\ inst'.spec = inst.spec /\ pc' = "record"
      /\ UNCHANGED <<api, cached, synced, obj, fresh, ledger>>
      /\ OwnedBy(name, obj) /\ ~Exists(x) /\ OwnedBy(name, obj)'
      /\ \A n \in Names \ {name, x} : accounts'[n] = accounts[n]
  BY RenameOwners, WorkerHolds, StatusTypes, ObjectsAssumption
     DEF RenameUser, NameInv, JustRenamed, SqlOnly, store, MineInv
<1>2. OwnedBy(x, obj)'
  BY <1>1
<1>3. name \in ledger[obj]
  BY <1>1, WorkerHolds, UserAssumption
     DEF RenameUser, MineInv, ActInv, UserMine, NamesOf, OwnedBy, name
<1>4. \A n \in Names, o \in Objects :
        OwnedBy(n, o) /\ (n = name => o # obj) => OwnedBy(n, o)'
  BY <1>1 DEF OwnedBy, Exists
<1>5. ~Renamed(inst, obj)
  BY <1>1 DEF Renamed, OwnedBy
<1>6. name = api[obj].status.username /\ ~Late(cached[obj], obj)
  BY <1>1, <1>5, UserAssumption DEF MineInv, HeldInv, Late, name
<1>7. /\ \A o \in Objects : cached[o].spec.username \in Names
      /\ \A n \in Names : \A o, p \in Objects : OwnedBy(n, o) /\ OwnedBy(n, p) => o = p
  BY UserParts DEF TypeOK, UserSpec, OwnedBy
<1>8. CopyInv'
  <2> SUFFICES ASSUME NEW o \in Objects, Late(cached[o], o)
               PROVE  Renamed(cached[o], o)'
    BY <1>1 DEF MineInv, CopyInv, Late
  <2>1. o # obj
    BY <1>6
  <2> QED BY <1>1, <1>4, <1>7, <2>1 DEF MineInv, CopyInv, Renamed
<1>9. HeldInv'
  <2>1. JustRenamed'
    BY <1>1 DEF JustRenamed, name
  <2>2. ~Late(cached[obj], obj)'
    BY <1>1, <1>6 DEF Late
  <2>3. fresh => obj \in synced /\ inst.spec = api[obj].spec
    BY <1>1 DEF MineInv, HeldInv
  <2> QED BY <1>1, <2>1, <2>2, <2>3 DEF HeldInv
<1>10. RowInv'
  <2> SUFFICES ASSUME NEW o \in Objects, NEW n \in Names, n \in ledger[o], o # obj
               PROVE  OwnedBy(n, o)' \/ Blocked(o, n)'
    BY <1>1 DEF RowInv
  <2>1. OwnedBy(n, o) \/ Blocked(o, n)
    BY DEF MineInv, RowInv
  <2> QED BY <1>1, <1>4, <2>1 DEF Blocked
<1>11. ActInv'
  BY <1>1 DEF ActInv
<1> QED BY <1>8, <1>9, <1>10, <1>11 DEF MineInv

\* The row: of the account just made or renamed, or else of a name the object
\* has lost to its own account.
LEMMA RecordKeeps ==
  ASSUME Benign, TypeOK, NameInv, Rooted, MineInv, SaveRecord
  PROVE  MineInv'
<1> DEFINE x == inst.spec.username
<1>0. /\ obj \in Objects /\ obj # NoObject /\ name \in Names /\ pc = "record"
      /\ x \in Names /\ name # Unset /\ OwnedBy(name, obj)
  BY WorkerHolds, StatusTypes, ObjectsAssumption, UserAssumption
     DEF SaveRecord, NameInv, MineInv, ActInv
<1>1. /\ accounts' = accounts /\ ledger' = [ledger EXCEPT ![obj] = {x}]
      /\ \/ GiveUp
         \/ /\ UNCHANGED <<api, cached, synced, obj, fresh, inst>>
            /\ pc' = "status"
  <2>1. Succeeds = {TRUE}
    BY BenignAnswers
  <2>2. ledger' = [ledger EXCEPT ![obj] = {x}]
    <3>1. \E ok \in Succeeds :
            ledger' = IF ok THEN [ledger EXCEPT ![obj] = Elsewhere \cup {x}]
                      ELSE ledger
      BY DEF SaveRecord, RecordedName
    <3>2. Elsewhere = {}
      BY <1>0, NothingElsewhere
    <3> QED BY <2>1, <3>1, <3>2
  <2>3. accounts' = accounts
    BY DEF SaveRecord
  <2>4. GiveUp \/ (Goto("status") /\ UNCHANGED <<inst, frame>> /\ SqlOnly)
    BY DEF SaveRecord
  <2> QED BY <2>2, <2>3, <2>4 DEF Goto, SqlOnly, store
<1>2. ledger'[obj] = {x} /\ \A o \in Objects \ {obj} : ledger'[o] = ledger[o]
  BY <1>0, <1>1 DEF TypeOK
<1>3. OwnedBy(x, obj) \/ Blocked(obj, x)
  <2>1. CASE Late(inst, obj)
    BY <1>0, <1>1, <2>1 DEF MineInv, HeldInv, Renamed, JustRenamed
  <2>2. CASE ~Late(inst, obj) /\ x # name
    <3>1. name = api[obj].status.username
      BY <1>0, <1>1, <2>2 DEF Late, name
    <3>2. cached[obj].status.username \in {name, Unset}
      BY <1>0, <1>1, <3>1 DEF MineInv, HeldInv, Late
    <3> QED BY <1>0, <1>1, <2>2, <3>1, <3>2 DEF Blocked
  <2> QED BY <1>0, <1>1, <2>1, <2>2
<1>4. \A n \in Names : \A o : OwnedBy(n, o)' <=> OwnedBy(n, o)
  BY <1>0, <1>1 DEF OwnedBy, Exists
<1>5. \A o \in Objects : \A n \in Names \cap ledger'[o] :
        OwnedBy(n, o) \/ Blocked(o, n)
  <2> SUFFICES ASSUME NEW o \in Objects, NEW n \in Names, n \in ledger'[o]
               PROVE  OwnedBy(n, o) \/ Blocked(o, n)
    OBVIOUS
  <2>1. CASE o = obj
    BY <1>2, <1>3, <2>1
  <2>2. CASE o # obj
    BY <1>2, <2>2 DEF MineInv, RowInv
  <2> QED BY <2>1, <2>2
<1>6. CASE GiveUp
  <2>1. /\ obj' = NoObject /\ fresh' = FALSE /\ pc' = "idle"
        /\ api' = api /\ cached' = cached
    BY <1>6 DEF GiveUp, Done, Return, Goto, store
  <2>2. CopyInv'
    BY <1>0, <1>1, <2>1 DEF MineInv, CopyInv, Late, Renamed, OwnedBy, Exists
  <2>3. HeldInv' /\ ActInv'
    BY <2>1 DEF HeldInv, ActInv
  <2>4. \A o \in Objects, n \in Names : Blocked(o, n) => Blocked(o, n)'
    BY <1>4, <2>1, ObjectsAssumption DEF Blocked
  <2>5. RowInv'
    BY <1>4, <1>5, <2>4 DEF RowInv
  <2> QED BY <2>2, <2>3, <2>5 DEF MineInv
<1>7. CASE ~GiveUp
  <2>1. UNCHANGED <<api, cached, synced, obj, fresh, inst>> /\ pc' = "status"
    BY <1>0, <1>1, <1>7
  <2>2. CopyInv'
    BY <1>0, <1>1, <2>1 DEF MineInv, CopyInv, Late, Renamed, OwnedBy, Exists
  <2>3. ActInv'
    BY <2>1 DEF ActInv
  <2>4. \A o \in Objects, n \in Names : Blocked(o, n) => Blocked(o, n)'
    BY <1>4, <2>1 DEF Blocked, name
  <2>5. RowInv'
    BY <1>4, <1>5, <2>4 DEF RowInv
  <2>6. JustRenamed => JustRenamed'
    BY <1>0, <1>1, <1>2, <2>1 DEF JustRenamed, name, OwnedBy, Exists
  <2>7. HeldInv'
    BY <1>0, <1>1, <2>1, <2>6 DEF MineInv, HeldInv, Late, Renamed, OwnedBy,
                                  Exists, name
  <2> QED BY <2>2, <2>3, <2>5, <2>7 DEF MineInv
<1> QED BY <1>6, <1>7

\* Dropping the account, then the row.
LEMMA DropKeeps ==
  ASSUME Benign, TypeOK, NameInv, Rooted, MineInv, DropUser \/ ForgetRecord
  PROVE  MineInv'
<1>1. /\ obj \in Objects /\ obj # NoObject /\ inst' = inst /\ name' = name
      /\ UNCHANGED <<api, cached, synced, obj, fresh>> /\ ~JustRenamed
      /\ inst \in User
  BY WorkerHolds, ObjectsAssumption
     DEF DropUser, ForgetRecord, SqlOnly, store, name, JustRenamed
<1>2. CASE DropUser
  <2>1. /\ pc = "drop" /\ pc' = "forget" /\ ledger' = ledger
        /\ \A n \in Names \ {name} : accounts'[n] = accounts[n]
        /\ name \in Names /\ Exists(name) => OwnedBy(name, obj) /\ name \in ledger[obj]
    BY <1>1, <1>2, DropOwners, MineOwns DEF DropUser, Goto, MineInv, ActInv
  <2>2. \A n \in Names, o \in Objects :
          OwnedBy(n, o) /\ (n = name => o # obj) => OwnedBy(n, o)'
    BY <2>1 DEF OwnedBy, Exists
  <2>3. \A o \in Objects : cached[o].spec.username \in Names
    BY UserParts DEF TypeOK, UserSpec
  <2>4. inst.spec.username \in Names /\ inst.status.username \in Names \cup {Unset}
    BY <1>1, UserParts, StatusTypes DEF Status
  <2>5. ASSUME name \in Names, Renamed(inst, obj), Late(inst, obj)
        PROVE  OwnedBy(inst.spec.username, obj)'
    BY <1>1, <2>2, <2>4, <2>5 DEF Renamed, Late, name
  <2>6. CopyInv'
    <3> SUFFICES ASSUME NEW o \in Objects, Late(cached[o], o)
                 PROVE  OwnedBy(cached[o].spec.username, o)'
      BY <1>1 DEF MineInv, CopyInv, Late, Renamed
    <3>1. Renamed(cached[o], o)
      BY DEF MineInv, CopyInv
    <3>2. o = obj => name = cached[obj].status.username
      BY <1>1 DEF MineInv, HeldInv
    <3>3. o = obj => cached[o].spec.username # name
      BY <3>1, <3>2 DEF Renamed, Late
    <3> QED BY <1>1, <2>2, <2>3, <3>1, <3>3 DEF Renamed
  <2>7. HeldInv'
    <3>1. Late(inst, obj) => Renamed(inst, obj) /\ name \in Names
      BY <1>1, <2>4 DEF MineInv, HeldInv, Late, name
    <3>2. (Late(inst, obj) => Renamed(inst, obj))'
      BY <1>1, <2>5, <3>1 DEF Late, Renamed
    <3> QED BY <1>1, <3>2 DEF MineInv, HeldInv, Late
  <2>8. RowInv'
    <3> SUFFICES ASSUME NEW o \in Objects, NEW n \in Names, n \in ledger[o], o # obj
                 PROVE  OwnedBy(n, o)' \/ Blocked(o, n)'
      BY <1>1, <2>1 DEF RowInv
    <3>1. OwnedBy(n, o) \/ Blocked(o, n)
      BY DEF MineInv, RowInv
    <3> QED BY <1>1, <2>2, <3>1 DEF Blocked
  <2>9. ActInv'
    BY <2>1 DEF ActInv
  <2> QED BY <2>6, <2>7, <2>8, <2>9 DEF MineInv
<1>3. CASE ForgetRecord
  <2>1. /\ pc' = "removeFinalizer" /\ accounts' = accounts
        /\ ledger'[obj] = {}
        /\ \A o \in Objects \ {obj} : ledger'[o] = ledger[o]
    BY <1>1, <1>3, BenignAnswers, NothingElsewhere DEF ForgetRecord, Goto,
                                                       TypeOK
  <2>2. CopyInv' /\ HeldInv' /\ ActInv'
    BY <1>1, <2>1
       DEF MineInv, CopyInv, HeldInv, ActInv, Late, Renamed, OwnedBy, Exists
  <2>3. RowInv'
    <3> SUFFICES ASSUME NEW o \in Objects, NEW n \in Names, n \in ledger[o], o # obj
                 PROVE  OwnedBy(n, o)' \/ Blocked(o, n)'
      BY <1>1, <2>1 DEF RowInv
    <3>1. OwnedBy(n, o) \/ Blocked(o, n)
      BY DEF MineInv, RowInv
    <3> QED BY <1>1, <2>1, <3>1 DEF Blocked, OwnedBy, Exists
  <2> QED BY <2>2, <2>3 DEF MineInv
<1> QED BY <1>2, <1>3

\* The updates of the object: one gives it a name, one stores a rename.
LEMMA UpdateKeeps ==
  ASSUME Benign, TypeOK, NameInv, FinalizerInv, Rooted, MineInv,
         \/ ClaimName \/ AddFinalizer \/ InvalidName \/ RemoveFinalizer
         \/ SaveReport \/ SaveStatus \/ OwnSecret
  PROVE  MineInv'
<1>1. /\ obj \in Objects /\ obj # NoObject /\ inst \in User /\ api[obj] \in User
      /\ pc \notin {"record", "forget"} /\ accounts' = accounts /\ ledger' = ledger
      /\ inst.spec.username \in Names
  BY WorkerHolds, ObjectsAssumption, StatusTypes
     DEF ClaimName, AddFinalizer, InvalidName, RemoveFinalizer, SaveReport,
         SaveStatus, OwnSecret, Update, K8sOnly, mysql
<1>2. ASSUME NEW r, Done(r), UNCHANGED store
      PROVE  MineInv'
  BY <1>1, <1>2, EndKeeps DEF MineInv
<1>3. ASSUME NEW r, Done(r), NEW new, Write(new) \/ WriteStamped(new),
             new.status.username = api[obj].status.username,
             new.phase = "absent" => api[obj].phase = "absent"
      PROVE  MineInv'
  BY <1>1, <1>3, WriteKeeps DEF MineInv
<1>4. ASSUME NEW new, Update(new),
             new.status.username = api[obj].status.username,
             new.phase = "absent" => api[obj].phase = "absent"
      PROVE  MineInv'
  BY <1>2, <1>3, <1>4 DEF Update
<1>5. CASE AddFinalizer
  BY <1>1, <1>4, <1>5 DEF AddFinalizer, User
<1>6. CASE InvalidName
  BY <1>1, <1>4, <1>6 DEF InvalidName, User, Status
<1>7. CASE RemoveFinalizer
  <2> DEFINE new == [api[obj] EXCEPT !.finalizer = FALSE, !.phase = "gone"]
  <2>1. new.status.username = api[obj].status.username /\ new.phase = "gone"
    BY <1>1 DEF User
  <2> QED BY <1>4, <1>7, <2>1 DEF RemoveFinalizer
<1>8. CASE SaveReport
  <2> DEFINE new == [api[obj] EXCEPT !.status.message = "unreachable"]
  <2>1. new.status.username = api[obj].status.username /\ new.phase = api[obj].phase
    BY <1>1 DEF User, Status
  <2> QED BY <1>2, <1>3, <1>8, <2>1 DEF SaveReport
<1>9. CASE OwnSecret
  BY <1>2, <1>9 DEF OwnSecret
<1>10. ASSUME NEW u, fresh, NEW r, Done(r), NEW new, Write(new) \/ WriteStamped(new),
              new.status.username = u, new.phase = api[obj].phase,
              api[obj].phase # "absent" \/ u = Unset,
              \/ api[obj].status.username = Unset
              \/ u = inst.spec.username /\ OwnedBy(u, obj) /\ u \in ledger[obj]
       PROVE  MineInv'
  <2>1. /\ obj' = NoObject /\ fresh' = FALSE /\ pc' = "idle" /\ cached' = cached
        /\ \A o \in Objects : api'[o] = IF o = obj THEN new ELSE api[o]
    BY <1>1, <1>10 DEF Done, Return, Goto, Write, WriteStamped, TypeOK
  <2>2. cached[obj] = api[obj] /\ inst.spec = api[obj].spec
    BY <1>1, <1>10 DEF FinalizerInv, CacheInv, MineInv, HeldInv
  <2>3. \A o \in Objects, n \in Names : OwnedBy(n, o)' <=> OwnedBy(n, o)
    BY <1>1 DEF OwnedBy, Exists
  <2>4. \A o \in Objects \ {obj}, n \in Names : Blocked(o, n) => Blocked(o, n)'
    BY <2>1, <2>3, ObjectsAssumption DEF Blocked
  <2>5. CopyInv'
    <3>1. ASSUME NEW o \in Objects, o # obj
          PROVE  /\ (api[o].phase = "absent" => api[o].status.username = Unset)'
                 /\ (Late(cached[o], o) => Renamed(cached[o], o))'
      BY <1>1, <2>1, <3>1 DEF MineInv, CopyInv, Late, Renamed, OwnedBy, Exists
    <3>2. cached[obj].status.username # Unset =>
            cached[obj].spec.username = u /\ OwnedBy(u, obj)
      BY <1>10, <2>2
    <3>3. ASSUME NEW o \in Objects, o = obj
          PROVE  /\ (api[o].phase = "absent" => api[o].status.username = Unset)'
                 /\ (Late(cached[o], o) => Renamed(cached[o], o))'
      BY <1>1, <1>10, <2>1, <3>2, <3>3 DEF Late, Renamed, OwnedBy, Exists
    <3> QED BY <3>1, <3>3 DEF CopyInv
  <2>6. HeldInv' /\ ActInv'
    BY <2>1 DEF HeldInv, ActInv
  <2>7. \A n \in Names : n \in ledger[obj] => OwnedBy(n, obj)
    <3>1. CASE api[obj].status.username = Unset
      BY <1>1, <3>1, UserAssumption DEF MineInv, RowInv, Blocked
    <3>2. CASE u \in ledger[obj] /\ OwnedBy(u, obj)
      BY <1>1, <3>2 DEF Rooted
    <3> QED BY <1>10, <3>1, <3>2
  <2>8. RowInv'
    <3> SUFFICES ASSUME NEW o \in Objects, NEW n \in Names, n \in ledger[o]
                 PROVE  OwnedBy(n, o)' \/ Blocked(o, n)'
      BY <1>1 DEF RowInv
    <3>1. CASE o = obj
      BY <2>3, <2>7, <3>1
    <3>2. CASE o # obj
      BY <1>1, <2>3, <2>4, <3>2 DEF MineInv, RowInv
    <3> QED BY <3>1, <3>2
  <2> QED BY <2>5, <2>6, <2>8 DEF MineInv
<1>11. CASE ClaimName
  <2> DEFINE new == [api[obj] EXCEPT !.status.username = inst.spec.username]
  <2>1. /\ new.status.username = inst.spec.username /\ new.phase = api[obj].phase
    BY <1>1 DEF User, Status
  <2>2. CASE Accepted /\ Write(new) /\ Done(FALSE)
    <3>1. fresh /\ inst.status.username = Unset /\ pc = "claim"
      BY <1>11, <2>2 DEF ClaimName, Accepted
    <3>2. api[obj].phase = "live"
      BY <1>1, <3>1 DEF FinalizerInv, WorkerInv, BranchInv
    <3>3. api[obj].status.username = Unset
      BY <1>1, <3>1 DEF MineInv, HeldInv, JustRenamed, name
    <3> QED BY <1>10, <2>1, <2>2, <3>1, <3>2, <3>3
  <2> QED BY <1>2, <1>11, <2>2 DEF ClaimName, Update
<1>12. CASE SaveStatus
  <2> DEFINE new == [api[obj] EXCEPT !.status = inst.status]
  <2>1. /\ new.status.username = name /\ new.phase = api[obj].phase
    BY <1>1 DEF User, Status, name
  <2>2. CASE Accepted /\ (Write(new) \/ WriteStamped(new)) /\ Done(FALSE)
    <3>1. fresh /\ pc = "status"
      BY <1>12, <2>2 DEF SaveStatus, Accepted
    <3>2. CASE name = api[obj].status.username
      BY <1>3, <2>1, <2>2, <3>2
    <3>3. CASE JustRenamed
      <4>1. api[obj].phase = "live"
        BY <1>1, <3>1 DEF FinalizerInv, WorkerInv, BranchInv, Protected
      <4> QED BY <1>10, <2>1, <2>2, <3>1, <3>3, <4>1 DEF JustRenamed
    <3> QED BY <1>1, <3>1, <3>2, <3>3 DEF MineInv, HeldInv
  <2> QED BY <1>2, <1>12, <2>2 DEF SaveStatus
<1> QED BY <1>5, <1>6, <1>7, <1>8, <1>9, <1>11, <1>12

\* createSecret goes on, or ends the reconcile.
LEMMA SecretKeeps ==
  ASSUME Benign, TypeOK, MineInv, CreateSecret
  PROVE  MineInv'
<1>1. obj \in Objects /\ pc = "secret"
  BY WorkerHolds DEF CreateSecret
<1>2. CASE Done(TRUE) /\ UNCHANGED store /\ K8sOnly
  BY <1>1, <1>2, EndKeeps DEF MineInv, K8sOnly, mysql
<1>3. CASE Goto("claim") /\ UNCHANGED <<k8s, mysql>>
  <2>1. SameOwners /\ UNCHANGED <<store, obj, fresh, ledger, inst>> /\ name' = name
    BY <1>3 DEF SameOwners, Exists, k8s, mysql, store, name
  <2>2. CopyInv' /\ HeldInv' /\ RowInv'
    BY <1>1, <2>1, ContinueKeeps DEF MineInv
  <2>3. ActInv'
    BY <1>3 DEF ActInv, Goto
  <2> QED BY <2>2, <2>3 DEF MineInv
<1> QED BY <1>2, <1>3 DEF CreateSecret

\* A reconcile begins with a copy of the cache.
LEMMA BeginKeeps ==
  ASSUME TypeOK, FinalizerInv, MineInv, NEW o \in Objects, BeginReconcile(o)
  PROVE  MineInv'
<1>1. accounts' = accounts /\ ledger' = ledger /\ api' = api /\ cached' = cached
      /\ synced' = synced
  BY DEF BeginReconcile, Skip, FinalizeUnreachable, FinalizeStart, Unreachable,
         Start, Begin, Take, K8sOnly, mysql, store
<1>2. CASE Skip(o)
  BY <1>1, <1>2
     DEF Skip, worker, MineInv, CopyInv, HeldInv, RowInv, ActInv, JustRenamed,
         Late, Renamed, Blocked, UserMine, NamesOf, OwnedBy, Exists, name
<1>3. CASE ~Skip(o)
  <2>1. /\ pc = "idle" /\ obj = NoObject /\ obj' = o /\ inst' = cached[o]
        /\ fresh' = (o \in synced)
        /\ pc' \in {"panic", "finalize", "report", "secret"}
    BY <1>3 DEF BeginReconcile, FinalizeUnreachable, FinalizeStart, Unreachable,
                Start, Begin, Take, Goto
  <2>2. CopyInv' /\ ActInv'
    BY <1>1, <2>1
       DEF MineInv, CopyInv, ActInv, Late, Renamed, OwnedBy, Exists
  <2>3. HeldInv'
    <3>1. o \in synced => cached[o] = api[o]
      BY DEF FinalizerInv, CacheInv
    <3>2. Late(cached[o], o) => Renamed(cached[o], o)
      BY DEF MineInv, CopyInv
    <3> QED BY <1>1, <2>1, <3>1, <3>2
            DEF HeldInv, Late, Renamed, OwnedBy, Exists, name
  <2>4. RowInv'
    <3>1. \A p \in Objects, n \in Names : Blocked(p, n) => Blocked(p, n)'
      BY <1>1, <2>1 DEF Blocked, OwnedBy, Exists, name
    <3> QED BY <1>1, <2>1, <3>1 DEF MineInv, RowInv, OwnedBy, Exists
  <2> QED BY <2>2, <2>3, <2>4 DEF MineInv
<1> QED BY <1>2, <1>3

\* Users never touch a status, and the cache only catches up with one.
LEMMA EnvironmentKeeps ==
  ASSUME Benign, TypeOK, FinalizerInv, MineInv, Environment
  PROVE  MineInv'
<1>1. "crash" \notin Faults /\ "external" \notin Faults
  BY BenignAnswers
<1>2. CASE Respawn
  <2>1. /\ pc = "panic" /\ api' = api /\ cached' = api /\ obj' = NoObject
        /\ fresh' = FALSE /\ pc' = "idle" /\ accounts' = accounts /\ ledger' = ledger
    BY <1>2 DEF Respawn, Restart, Relist, Goto, K8sOnly, mysql
  <2>2. CopyInv' /\ HeldInv' /\ ActInv'
    BY <2>1 DEF MineInv, CopyInv, HeldInv, ActInv, Late
  <2>3. \A o \in Objects, n \in Names : Blocked(o, n) => Blocked(o, n)'
    BY <2>1, ObjectsAssumption DEF Blocked, OwnedBy, Exists
  <2>4. RowInv'
    BY <2>1, <2>3 DEF MineInv, RowInv, OwnedBy, Exists
  <2> QED BY <2>2, <2>4 DEF MineInv
<1>3. CASE UNCHANGED <<store, worker, pc, mysql>>
  BY <1>3
     DEF store, worker, mysql, MineInv, CopyInv, HeldInv, RowInv, ActInv,
         JustRenamed, Late, Renamed, Blocked, UserMine, NamesOf, OwnedBy,
         Exists, name
<1>4. ASSUME NEW o \in Objects, UserCreate(o) \/ UserEdit(o) \/ UserDelete(o)
      PROVE  MineInv'
  <2>1. api[o] \in User
    BY DEF TypeOK
  <2>2. PICK new : /\ Submit(o, new) /\ new.status.username = api[o].status.username
                   /\ new.phase # "absent"
    <3>1. CASE UserCreate(o)
      <4>1. api[o].status.username = Unset
        BY <3>1 DEF UserCreate, MineInv, CopyInv
      <4> QED BY <3>1, <4>1 DEF UserCreate, NewObject, NoStatus
    <3>2. CASE UserEdit(o)
      <4>1. \A s \in Specs :
              /\ [api[o] EXCEPT !.spec = s].status = api[o].status
              /\ [api[o] EXCEPT !.spec = s].phase = api[o].phase
        BY <2>1 DEF User
      <4> QED BY <3>2, <4>1 DEF UserEdit
    <3>3. CASE UserDelete(o)
      <4> DEFINE new == [api[o] EXCEPT
                           !.phase = IF api[o].finalizer THEN "deleting" ELSE "gone"]
      <4>1. new.status = api[o].status /\ new.phase # "absent"
        BY <2>1 DEF User
      <4> QED BY <3>3, <4>1 DEF UserDelete
    <3> QED BY <1>4, <3>1, <3>2, <3>3
  <2>3. /\ cached' = cached /\ obj' = obj /\ inst' = inst /\ synced' = synced \ {o}
        /\ fresh' = (fresh /\ obj # o)
        /\ pc' = pc /\ accounts' = accounts /\ ledger' = ledger
    BY <1>4, <2>2
       DEF UserCreate, UserEdit, UserMove, UserDelete, Submit, Still, K8sOnly,
           mysql
  <2>4. /\ \A p \in Objects : api'[p].status.username = api[p].status.username
        /\ \A p \in Objects \ {o} : api'[p] = api[p]
        /\ api'[o].phase # "absent"
    BY <2>2 DEF Submit, TypeOK
  <2>5. CopyInv'
    <3> SUFFICES ASSUME NEW p \in Objects
                 PROVE  /\ (api[p].phase = "absent" => api[p].status.username = Unset)'
                        /\ (Late(cached[p], p) => Renamed(cached[p], p))'
      BY DEF CopyInv
    <3>1. Late(cached[p], p) => Renamed(cached[p], p)
      BY DEF MineInv, CopyInv
    <3>2. (Late(cached[p], p) => Renamed(cached[p], p))'
      BY <2>3, <2>4, <3>1 DEF Late, Renamed, OwnedBy, Exists
    <3>3. (api[p].phase = "absent" => api[p].status.username = Unset)'
      BY <2>4 DEF MineInv, CopyInv
    <3> QED BY <3>2, <3>3
  <2>6. HeldInv'
    <3> SUFFICES ASSUME obj # NoObject, obj \in Objects
                 PROVE  HeldInv'
      BY <2>3 DEF HeldInv, TypeOK
    <3>1. JustRenamed' <=> JustRenamed
      BY <2>3 DEF JustRenamed, OwnedBy, Exists, name
    <3>2. /\ (Late(inst, obj))' <=> Late(inst, obj)
          /\ (Renamed(inst, obj))' <=> Renamed(inst, obj)
          /\ (Late(cached[obj], obj))' <=> Late(cached[obj], obj)
      BY <2>3, <2>4 DEF Late, Renamed, OwnedBy, Exists
    <3>3. fresh' => fresh /\ obj # o /\ api'[obj] = api[obj]
                    /\ (obj \in synced => obj \in synced')
      BY <2>3, <2>4
    <3> QED BY <2>3, <2>4, <3>1, <3>2, <3>3 DEF MineInv, HeldInv, name
  <2>7. \A p \in Objects, n \in Names : Blocked(p, n) => Blocked(p, n)'
    BY <2>3, <2>4 DEF Blocked, OwnedBy, Exists, name
  <2>8. RowInv'
    BY <2>3, <2>7 DEF MineInv, RowInv, OwnedBy, Exists
  <2>9. ActInv'
    BY <2>3 DEF MineInv, ActInv, UserMine, NamesOf, OwnedBy, Exists, name
  <2> QED BY <2>5, <2>6, <2>8, <2>9 DEF MineInv
<1>5. ASSUME NEW o \in Objects, Watch(o)
      PROVE  MineInv'
  <2>1. /\ api' = api /\ obj' = obj /\ inst' = inst /\ fresh' = fresh
        /\ synced' = synced \cup {o} /\ pc' = pc /\ accounts' = accounts
        /\ ledger' = ledger
        /\ \A p \in Objects : cached'[p] = IF p = o THEN api[p] ELSE cached[p]
    BY <1>5 DEF Watch, Observe, Still, K8sOnly, mysql, TypeOK
  <2>2. CopyInv'
    BY <2>1 DEF MineInv, CopyInv, Late, Renamed, OwnedBy, Exists
  <2>3. HeldInv'
    <3> SUFFICES ASSUME obj # NoObject, obj \in Objects
                 PROVE  HeldInv'
      BY <2>1 DEF HeldInv, TypeOK
    <3>1. JustRenamed' <=> JustRenamed
      BY <2>1 DEF JustRenamed, OwnedBy, Exists, name
    <3>2. /\ (Late(inst, obj))' <=> Late(inst, obj)
          /\ (Renamed(inst, obj))' <=> Renamed(inst, obj)
          /\ (Late(cached[obj], obj))' => obj # o /\ Late(cached[obj], obj)
      BY <2>1 DEF Late, Renamed, OwnedBy, Exists
    <3> QED BY <2>1, <3>1, <3>2 DEF MineInv, HeldInv, name
  <2>4. \A p \in Objects, n \in Names : Blocked(p, n) => Blocked(p, n)'
    BY <2>1 DEF Blocked, OwnedBy, Exists, name
  <2>5. RowInv'
    BY <2>1, <2>4 DEF MineInv, RowInv, OwnedBy, Exists
  <2>6. ActInv'
    BY <2>1 DEF MineInv, ActInv, UserMine, NamesOf, OwnedBy, Exists, name
  <2> QED BY <2>2, <2>3, <2>5, <2>6 DEF MineInv
<1>6. CASE \/ Resync \/ \E k \in Connections : AdminChange(k)
           \/ \E o \in Objects : SecretWrite(o)
           \/ \E d \in Databases : DatabaseChange(d)
  BY <1>3, <1>6
     DEF Resync, AdminChange, SecretWrite, DatabaseChange, Enqueue, Still,
         K8sOnly
<1> QED BY <1>1, <1>2, <1>4, <1>5, <1>6, BenignAnswers
        DEF Environment, Crash, ExternalCreate, ExternalDrop

\* The rows of managed_users stay true of the accounts: under renames, edits,
\* swapped names, late caches and lost updates of the status.
THEOREM RowsCorrect == Benign => (Spec => []MineInv)
<1> SUFFICES ASSUME Benign PROVE Spec => []MineInv
  OBVIOUS
<1>1. Init => MineInv
  <2> SUFFICES ASSUME Init PROVE MineInv
    OBVIOUS
  <2>1. PICK s \in Specs : K8sInit([o \in Objects |-> NeverCreated(s)])
    BY DEF Init
  <2>2. \A o \in Objects : api[o].status.username = Unset /\ cached[o] = api[o]
    BY <2>1 DEF K8sInit, NeverCreated, NewObject, NoStatus
  <2>3. \A o \in Objects : ledger[o] = {}
    BY DEF Init
  <2> QED BY <2>1, <2>2, <2>3
          DEF Init, K8sInit, MineInv, CopyInv, HeldInv, RowInv, ActInv, Late
<1>2. TypeOK /\ NameInv /\ FinalizerInv /\ Rooted /\ MineInv /\ [Next]_vars => MineInv'
  <2> SUFFICES ASSUME TypeOK, NameInv, FinalizerInv, Rooted, MineInv, [Next]_vars
               PROVE  MineInv'
    OBVIOUS
  <2>1. CASE GiveUp /\ pc \notin {"idle", "record", "forget"}
             /\ UNCHANGED <<accounts, ledger>>
    BY <2>1, WorkerHolds, EndKeeps DEF GiveUp, MineInv
  <2>2. CASE \/ ReadSecret \/ Settle \/ NilSecret \/ CheckExists
             \/ CheckMine \/ KeepUser \/ CheckFinalize
             \/ AlterUser \/ CompareGrants \/ RevokeAll \/ ShowGrants
             \/ CheckGrant \/ GrantOne
             \/ \E d \in Databases : LookUp(d) \/ GrantMissing(d)
    <3>1. CASE ~GiveUp
      BY <2>2, <3>1, ActStep, ContinueKeeps DEF MineInv
    <3>2. CASE GiveUp
      <4>1. pc \notin {"idle", "record", "forget"} /\ pc' = "idle"
        BY <2>2, <3>2
           DEF ReadSecret, Settle, NilSecret, CheckExists, CheckMine, KeepUser,
               CheckFinalize, AlterUser, CompareGrants, RevokeAll, ShowGrants,
               CheckGrant, GrantOne, LookUp, GrantMissing, GiveUp, Done, Goto
      <4>2. UNCHANGED <<accounts, ledger>>
        BY <2>2, <4>1, BenignAnswers
           DEF ReadSecret, Settle, NilSecret, CheckExists, CheckMine, KeepUser,
               CheckFinalize, AlterUser, CompareGrants, RevokeAll, ShowGrants,
               CheckGrant, GrantOne, LookUp, GrantMissing, Goto, mysql
      <4> QED BY <2>1, <3>2, <4>1, <4>2
    <3> QED BY <3>1, <3>2
  <2>3. CASE RenameUser
    <3>1. CASE GiveUp
      BY <2>1, <2>3, <3>1 DEF RenameUser, GiveUp, Done, Goto
    <3> QED BY <2>3, <3>1, RenameKeeps
  <2>4. CASE CreateUser \/ SaveRecord \/ DropUser \/ ForgetRecord
    BY <2>4, CreateKeeps, RecordKeeps, DropKeeps
  <2>5. CASE CreateSecret
    BY <2>5, SecretKeeps
  <2>6. CASE \/ ClaimName \/ AddFinalizer \/ InvalidName \/ RemoveFinalizer
             \/ SaveReport \/ SaveStatus \/ OwnSecret
    BY <2>6, UpdateKeeps
  <2>7. CASE \E o \in Objects : BeginReconcile(o)
    BY <2>7, BeginKeeps
  <2>8. CASE Environment
    BY <2>8, EnvironmentKeeps
  <2>9. CASE UNCHANGED vars
    BY <2>9
       DEF vars, k8s, mysql, MineInv, CopyInv, HeldInv, RowInv, ActInv,
           JustRenamed, Late, Renamed, Blocked, UserMine, NamesOf, OwnedBy,
           Exists, name
  <2> QED BY <2>2, <2>3, <2>4, <2>5, <2>6, <2>7, <2>8, <2>9
          DEF Next, Operator, Progress
<1>3. Spec => [](TypeOK /\ NameInv)
  <2>1. Init => NameInv
    BY DEF Init, NameInv
  <2>2. TypeOK /\ TypeOK' /\ NameInv /\ [Next]_vars => NameInv'
    BY NameStep
  <2> QED BY <2>1, <2>2, TypeCorrect, PTL DEF Spec
<1>4. Spec => []Rooted
  BY RootedCorrect DEF Benign
<1> QED BY <1>1, <1>2, <1>3, <1>4, FinalizerCorrect, PTL DEF Spec

\* Whatever names are claimed, edited and swapped, and however late the cache
\* is, an account is touched only by the reconcile of the object it was
\* created for (UserMine).
THEOREM CreatorActs == Benign => (Spec => OnlyCreatorActs)
<1> SUFFICES ASSUME Benign PROVE Spec => OnlyCreatorActs
  OBVIOUS
<1> DEFINE A == \A n \in Names : Exists(n) /\ accounts'[n] # accounts[n] =>
                  obj \in Objects /\ OwnedBy(n, obj)
<1>1. TypeOK /\ NameInv /\ MineInv /\ [Next]_vars => [A]_vars
  BY WhoActs DEF MineInv
<1>2. Spec => [](TypeOK /\ NameInv)
  <2>1. Init => NameInv
    BY DEF Init, NameInv
  <2>2. TypeOK /\ TypeOK' /\ NameInv /\ [Next]_vars => NameInv'
    BY NameStep
  <2> QED BY <2>1, <2>2, TypeCorrect, PTL DEF Spec
<1> QED BY <1>1, <1>2, RowsCorrect, PTL DEF Spec, OnlyCreatorActs

-----------------------------------------------------------------------------
(* Names that users leave alone.                                           *)

\* No user renames an account.
KeepsName ==
  \A o \in Objects : api[o].phase # "absent" =>
    api'[o].spec.username = api[o].spec.username

\* Names stay as they are unless users rename accounts.
LEMMA NoRenaming ==
  ASSUME Moves = {}, ~Renaming, TypeOK, FinalizerInv, [Next]_vars
  PROVE  KeepsName
<1>1. CASE SameStages
  BY <1>1 DEF SameStages, KeepsName
<1>2. CASE Transition
  BY <1>2 DEF Transition, Passes, Stage, KeepsName
<1> QED BY <1>1, <1>2, StageChanges

Present(o) == api[o].phase \in {"live", "deleting"}

\* Then every copy, however late, has the one name of its object.
SameName(c, o) ==
  /\ c.phase # "absent" =>
       api[o].phase # "absent" /\ c.spec.username = api[o].spec.username
  /\ c.status.username \in {Unset, api[o].status.username}

OneNameInv ==
  /\ \A o \in Objects : /\ api[o].status.username \in {Unset, api[o].spec.username}
                        /\ SameName(cached[o], o)
  /\ obj # NoObject => /\ api[obj].phase # "absent"
                       /\ inst.spec.username = api[obj].spec.username
                       /\ name \in {Unset, api[obj].status.username}
  /\ pc = "status" => name # Unset
  /\ pc # "rename"

\* The calls that run after the name was claimed.
Claimed == pc \in {"exists", "mine", "create", "grant", "grantMine", "grantOne",
                   "record", "details", "permissions", "revoke", "status"}

\* A statement then runs for the name that the stored object asks for
\* (Status.Username, which Reconcile claims).
LEMMA OneName ==
  ASSUME TypeOK, NameInv, OneNameInv, Claimed
  PROVE  /\ obj \in Objects /\ obj # NoObject /\ name \in Names /\ name # Unset
         /\ name = inst.spec.username /\ name = api[obj].spec.username
         /\ name = api[obj].status.username
<1>1. obj \in Objects /\ obj # NoObject /\ inst \in User
  BY WorkerHolds, ObjectsAssumption DEF Claimed
<1>2. name \in Names \cup {Unset} /\ Unset \notin Names
  BY <1>1, UserParts, UserAssumption DEF name, Status
<1>3. name # Unset
  BY <1>2 DEF Claimed, NameInv, OneNameInv
<1> QED BY <1>1, <1>2, <1>3 DEF OneNameInv

\* What a step makes of the worker's copy: it is given up, goes on under its
\* name, or is taken from the cache.
LEMMA CopyStep ==
  ASSUME Benign, TypeOK, NameInv, MineInv, pc # "rename", [Next]_vars
  PROVE  \/ obj' = NoObject
         \/ obj' = obj /\ inst'.spec = inst.spec /\ name' = name
         \/ /\ obj' \in Objects /\ inst' = cached[obj'] /\ UNCHANGED <<api, cached>>
            /\ ~NothingToDo(inst') /\ pc' \in {"panic", "finalize", "report", "secret"}
<1>1. ASSUME NEW r, Done(r) PROVE obj' = NoObject
  BY <1>1 DEF Done, Return
<1>2. CASE \/ ReadSecret \/ Settle \/ NilSecret \/ CheckExists
           \/ CheckMine \/ KeepUser \/ CheckFinalize
           \/ AlterUser \/ CompareGrants \/ RevokeAll \/ ShowGrants
           \/ CheckGrant \/ GrantOne
           \/ \E d \in Databases : LookUp(d) \/ GrantMissing(d)
  BY <1>1, <1>2, ActStep DEF MineInv, GiveUp
<1>3. CASE CreateUser
  BY <1>3, CreateOwners DEF MineInv, SqlOnly
<1>4. CASE CreateSecret \/ SaveRecord \/ DropUser \/ ForgetRecord
  BY <1>1, <1>4
     DEF CreateSecret, SaveRecord, DropUser, ForgetRecord, SqlOnly, GiveUp, k8s,
         name
<1>5. CASE RenameUser
  BY <1>5 DEF RenameUser
<1>6. CASE \/ ClaimName \/ OwnSecret \/ AddFinalizer \/ InvalidName
           \/ SaveReport \/ SaveStatus \/ RemoveFinalizer
  BY <1>1, <1>6
     DEF ClaimName, OwnSecret, AddFinalizer, InvalidName, SaveReport,
         SaveStatus, RemoveFinalizer, Update
<1>7. CASE \E o \in Objects : BeginReconcile(o)
  BY <1>7
     DEF BeginReconcile, Skip, FinalizeUnreachable, FinalizeStart, Unreachable,
         Start, Begin, Take, Goto, worker, store, name
<1>8. CASE Environment
  BY <1>8
     DEF Environment, Crash, Respawn, Restart, Relist, Resync, AdminChange,
         UserCreate, UserEdit, UserMove, UserDelete, Watch, Observe, Submit,
         SecretWrite, DatabaseChange, ExternalCreate, ExternalDrop, Enqueue,
         worker, k8s, name
<1>9. CASE UNCHANGED vars
  BY <1>9 DEF vars, k8s, name
<1> QED BY <1>2, <1>3, <1>4, <1>5, <1>6, <1>7, <1>8, <1>9 DEF Next, Operator,
                                                              Progress

\* What a step makes of the stored versions: an object keeps its name, claims
\* no other, and one that has a finalizer ends only when the worker says so.
Evolves(o) ==
  \/ api'[o].phase = api[o].phase /\ (api[o].finalizer => api'[o].finalizer)
  \/ api[o].phase = "absent" /\ api'[o].phase = "live"
  \/ /\ api[o].phase = "live" /\ api'[o].finalizer = api[o].finalizer
     /\ api'[o].phase = IF api[o].finalizer THEN "deleting" ELSE "gone"
  \/ o = obj /\ pc = "removeFinalizer" /\ api'[o].phase = "gone"

Claims(o) ==
  /\ o = obj /\ fresh /\ pc = "claim" /\ UserMine(inst)
  /\ api[o].status.username = Unset
  /\ api'[o].status.username = api[o].spec.username

VersionsFollow ==
  \A o \in Objects :
    /\ Evolves(o)
    /\ api[o].phase # "absent" =>
         api'[o].phase # "absent" /\ api'[o].spec.username = api[o].spec.username
    /\ \/ api'[o].status.username = api[o].status.username
       \/ api[o].phase # "absent" /\ Claims(o)

\* Users leave names alone, and of the controller's updates only the claim of a
\* name (Reconcile) sets Status.Username, and sets it to what is asked for.
LEMMA StoreStep ==
  ASSUME Benign, TypeOK, NameInv, MineInv, OneNameInv, [Next]_vars, KeepsName
  PROVE  VersionsFollow
<1>1. CASE UNCHANGED api
  BY <1>1 DEF VersionsFollow, Evolves
<1>2. CASE \/ ClaimName \/ AddFinalizer \/ InvalidName \/ RemoveFinalizer
           \/ SaveReport \/ SaveStatus
  <2>1. /\ obj \in Objects /\ obj # NoObject /\ inst \in User /\ api[obj] \in User
        /\ inst.status \in Status /\ api[obj].status \in Status
    BY <1>2, WorkerHolds, UserParts, ObjectsAssumption
       DEF ClaimName, AddFinalizer, InvalidName, RemoveFinalizer, SaveReport,
           SaveStatus
  <2>2. ASSUME NEW new, Write(new) \/ WriteStamped(new),
               \/ /\ new.phase = api[obj].phase
                  /\ api[obj].finalizer => new.finalizer
               \/ pc = "removeFinalizer" /\ new.phase = "gone",
               \/ new.status.username = api[obj].status.username
               \/ /\ fresh /\ pc = "claim" /\ UserMine(inst)
                  /\ api[obj].status.username = Unset
                  /\ new.status.username = api[obj].spec.username
        PROVE  VersionsFollow
    <3>1. \A o \in Objects : api'[o] = IF o = obj THEN new ELSE api[o]
      BY <2>2 DEF Write, WriteStamped, TypeOK
    <3>2. api[obj].phase # "absent"
      BY <2>1 DEF OneNameInv
    <3> QED BY <2>2, <3>1, <3>2 DEF VersionsFollow, Evolves, Claims, KeepsName
  <2>3. CASE ClaimName
    <3> DEFINE new == [api[obj] EXCEPT !.status.username = inst.spec.username]
    <3>1. UNCHANGED store \/ (fresh /\ Write(new))
      BY <2>3 DEF ClaimName, Update, Accepted
    <3>2. /\ new.phase = api[obj].phase /\ new.finalizer = api[obj].finalizer
          /\ new.status.username = inst.spec.username
      BY <2>1 DEF User, Status
    <3>3. fresh => api[obj].status.username = Unset
      BY <2>1, <2>3 DEF ClaimName, MineInv, HeldInv, JustRenamed, name
    <3>4. inst.spec.username = api[obj].spec.username
      BY <2>1 DEF OneNameInv
    <3>5. pc = "claim" /\ UserMine(inst)
      BY <2>3, BenignAnswers DEF ClaimName
    <3> QED BY <1>1, <2>2, <3>1, <3>2, <3>3, <3>4, <3>5 DEF store
  <2>4. CASE AddFinalizer
    <3> DEFINE new == [api[obj] EXCEPT !.finalizer = TRUE]
    <3>1. UNCHANGED store \/ Write(new)
      BY <2>4 DEF AddFinalizer, Update
    <3>2. new.phase = api[obj].phase /\ new.finalizer /\ new.status = api[obj].status
      BY <2>1 DEF User
    <3> QED BY <1>1, <2>2, <3>1, <3>2 DEF store
  <2>5. CASE RemoveFinalizer
    <3> DEFINE new == [api[obj] EXCEPT !.finalizer = FALSE, !.phase = "gone"]
    <3>1. UNCHANGED store \/ Write(new)
      BY <2>5 DEF RemoveFinalizer, Update
    <3>2. new.phase = "gone" /\ new.status = api[obj].status /\ pc = "removeFinalizer"
      BY <2>1, <2>5 DEF User, RemoveFinalizer
    <3> QED BY <1>1, <2>2, <3>1, <3>2 DEF store
  <2>6. CASE InvalidName \/ SaveReport
    <3>1. \/ UNCHANGED store
          \/ \E m : Write([api[obj] EXCEPT !.status.message = m])
      BY <2>6 DEF InvalidName, SaveReport, Update
    <3>2. \A m : LET new == [api[obj] EXCEPT !.status.message = m] IN
            /\ new.phase = api[obj].phase /\ new.finalizer = api[obj].finalizer
            /\ new.status.username = api[obj].status.username
      BY <2>1 DEF User, Status
    <3> QED BY <1>1, <2>2, <3>1, <3>2 DEF store
  <2>7. CASE SaveStatus
    <3> DEFINE new == [api[obj] EXCEPT !.status = inst.status]
    <3>1. UNCHANGED store \/ Write(new) \/ WriteStamped(new)
      BY <2>7 DEF SaveStatus
    <3>2. /\ new.phase = api[obj].phase /\ new.finalizer = api[obj].finalizer
          /\ new.status.username = name
      BY <2>1 DEF User, name
    <3>3. name = api[obj].status.username
      BY <2>7, OneName DEF SaveStatus, Claimed
    <3> QED BY <1>1, <2>2, <3>1, <3>2, <3>3 DEF store
  <2> QED BY <1>2, <2>3, <2>4, <2>5, <2>6, <2>7
<1>3. CASE \E o \in Objects : UserCreate(o) \/ UserEdit(o) \/ UserDelete(o)
  <2>1. PICK o \in Objects : UserCreate(o) \/ UserEdit(o) \/ UserDelete(o)
    BY <1>3
  <2>2. api[o] \in User
    BY DEF TypeOK
  <2>3. PICK new : /\ Submit(o, new) /\ new.phase # "absent"
                   /\ new.status.username = api[o].status.username
                   /\ \/ new.phase = api[o].phase /\ new.finalizer = api[o].finalizer
                      \/ api[o].phase = "absent" /\ new.phase = "live"
                      \/ /\ api[o].phase = "live" /\ new.finalizer = api[o].finalizer
                         /\ new.phase = IF api[o].finalizer THEN "deleting" ELSE "gone"
    <3>1. CASE UserCreate(o)
      <4>1. api[o].status.username = Unset
        BY <3>1 DEF UserCreate, MineInv, CopyInv
      <4> QED BY <3>1, <4>1 DEF UserCreate, NewObject, NoStatus
    <3>2. CASE UserEdit(o)
      BY <2>2, <3>2 DEF UserEdit, User
    <3>3. CASE UserDelete(o)
      BY <2>2, <3>3 DEF UserDelete, User
    <3> QED BY <2>1, <3>1, <3>2, <3>3
  <2>4. \A p \in Objects : api'[p] = IF p = o THEN new ELSE api[p]
    BY <2>3 DEF Submit, TypeOK
  <2> QED BY <2>3, <2>4 DEF VersionsFollow, Evolves, KeepsName
<1>4. Moves = {}
  BY DEF Benign
<1> QED BY <1>1, <1>2, <1>3, <1>4, OthersStay

\* "status" is reached from calls that run under a name, "rename" only when
\* the name differs.
LEMMA StatusStep ==
  ASSUME TypeOK, [Next]_vars
  PROVE  /\ pc' = "status" => \/ pc = "status" /\ obj' = obj
                              \/ pc \in {"record", "mine", "details", "permissions", "grant"}
         /\ pc' = "rename" => \/ pc = "rename"
                              \/ pc = "mine" /\ inst.spec.username # name
<1>1. CASE Progress
  BY <1>1
     DEF Progress, ReadSecret, CreateSecret, ClaimName, OwnSecret, AddFinalizer,
         Settle, InvalidName, SaveReport, SaveStatus, NilSecret, CheckExists,
         CreateUser, SaveRecord, CheckMine, RenameUser, AlterUser, KeepUser,
         CompareGrants, RevokeAll, ShowGrants, Leave, CheckGrant, GrantOne,
         LookUp, GrantMissing, CheckFinalize, DropUser, ForgetRecord,
         RemoveFinalizer, Update, Done, GiveUp, Goto
<1>2. CASE \E o \in Objects : BeginReconcile(o)
  BY <1>2
     DEF BeginReconcile, Skip, FinalizeUnreachable, FinalizeStart, Unreachable,
         Start, Begin, Goto, worker
<1>3. CASE Environment
  BY <1>3
     DEF Environment, Crash, Respawn, Restart, Goto, Resync, AdminChange,
         UserCreate, UserEdit, UserMove, UserDelete, Submit, Watch, Observe,
         SecretWrite, DatabaseChange, ExternalCreate, ExternalDrop, Enqueue,
         Still, worker, k8s
<1>4. CASE UNCHANGED vars
  BY <1>4 DEF vars, k8s
<1> QED BY <1>1, <1>2, <1>3, <1>4 DEF Next, Operator

\* No step gives a copy another name, so RENAME USER never runs (userUpdate).
LEMMA OneNameStep ==
  ASSUME Benign, TypeOK, TypeOK', NameInv, MineInv, OneNameInv, [Next]_vars, KeepsName
  PROVE  OneNameInv'
<1>1. VersionsFollow
  BY StoreStep
<1>2. \A o \in Objects : api'[o].status.username \in {Unset, api'[o].spec.username}
  <2> SUFFICES ASSUME NEW o \in Objects
               PROVE  api'[o].status.username \in {Unset, api'[o].spec.username}
    OBVIOUS
  <2>1. CASE api[o].phase = "absent"
    BY <1>1, <2>1 DEF VersionsFollow, MineInv, CopyInv
  <2>2. CASE api[o].phase # "absent"
    BY <1>1, <2>2 DEF VersionsFollow, Claims, OneNameInv
  <2> QED BY <2>1, <2>2
<1>3. ASSUME NEW o \in Objects PROVE SameName(cached[o], o)'
  <2>1. CASE cached'[o] = cached[o]
    <3>1. SameName(cached[o], o)
      BY DEF OneNameInv
    <3> QED BY <1>1, <2>1, <3>1 DEF VersionsFollow, Claims, SameName
  <2>2. CASE cached'[o] = api'[o]
    BY <2>2 DEF SameName
  <2> QED BY <2>1, <2>2, CacheStep
<1>4. ASSUME obj' # NoObject
      PROVE  /\ api'[obj'].phase # "absent"
             /\ inst'.spec.username = api'[obj'].spec.username
             /\ name' \in {Unset, api'[obj'].status.username}
  <2>1. CASE obj' = obj /\ inst'.spec = inst.spec /\ name' = name
    <3>1. obj \in Objects
      BY <1>4, <2>1 DEF TypeOK
    <3>2. /\ api[obj].phase # "absent"
          /\ inst.spec.username = api[obj].spec.username
          /\ name \in {Unset, api[obj].status.username}
      BY <1>4, <2>1 DEF OneNameInv
    <3> QED BY <1>1, <2>1, <3>1, <3>2 DEF VersionsFollow, Claims
  <2>2. CASE /\ obj' \in Objects /\ inst' = cached[obj'] /\ UNCHANGED <<api, cached>>
             /\ ~NothingToDo(inst')
    <3>1. inst'.phase # "absent"
      BY <2>2 DEF NothingToDo
    <3>2. SameName(cached[obj'], obj')
      BY <2>2 DEF OneNameInv
    <3> QED BY <2>2, <3>1, <3>2 DEF SameName, name
  <2> QED BY <1>4, <2>1, <2>2, CopyStep DEF OneNameInv
<1>5. ASSUME pc' = "status" PROVE name' # Unset
  <2>1. name # Unset
    BY <1>5, StatusStep, UserAssumption DEF NameInv, OneNameInv
  <2>2. obj' # NoObject
    BY <1>5 DEF TypeOK
  <2> QED BY <1>5, <2>1, <2>2, CopyStep DEF OneNameInv
<1>6. pc' # "rename"
  <2>1. pc = "mine" => inst.spec.username = name
    BY OneName DEF Claimed
  <2> QED BY <2>1, StatusStep DEF OneNameInv
<1> QED BY <1>2, <1>3, <1>4, <1>5, <1>6 DEF OneNameInv

\* The reconcile under way has created the account and not recorded it yet.
Creating ==
  pc = "record" \/ (pc \in {"grant", "grantMine", "grantOne"} /\ frame.creating)

\* The branches of Reconcile, and what is stored of the object meanwhile.
LEMMA Branches ==
  ASSUME TypeOK, FinalizerInv, pc # "idle"
  PROVE  /\ Claimed => Guarded(api[obj]) /\ Present(obj)
         /\ pc \in {"finalize", "drop", "forget", "removeFinalizer"} => Ended(api[obj])
<1>1. obj \in Objects /\ obj # NoObject
  BY WorkerHolds, ObjectsAssumption
<1>2. Claimed => Protected(inst)
  BY DEF Claimed, FinalizerInv, BranchInv
<1>3. pc \in {"finalize", "drop", "forget", "removeFinalizer"} => Ended(inst)
  BY DEF FinalizerInv, BranchInv, Ended
<1> QED BY <1>1, <1>2, <1>3
        DEF FinalizerInv, WorkerInv, CacheInv, Guarded, Present

\* Who changes rows and owners.
LEMMA RowStep ==
  ASSUME Benign, TypeOK, NameInv, MineInv, pc # "rename", [Next]_vars
  PROVE  \/ CreateUser \/ DropUser \/ SaveRecord \/ ForgetRecord
         \/ SameOwners /\ UNCHANGED ledger
<1>1. CASE ledger' # ledger
  <2>1. CASE Progress
    BY <1>1, <2>1
       DEF Progress, ReadSecret, CreateSecret, ClaimName, OwnSecret,
           AddFinalizer, Settle, InvalidName, SaveReport, SaveStatus, NilSecret,
           CheckExists, CreateUser, CheckMine, RenameUser, AlterUser, KeepUser,
           CompareGrants, RevokeAll, ShowGrants, CheckGrant, GrantOne, LookUp,
           GrantMissing, CheckFinalize, DropUser, RemoveFinalizer, Update,
           K8sOnly, mysql
  <2>2. CASE \E o \in Objects : BeginReconcile(o)
    BY <1>1, <2>2
       DEF BeginReconcile, Skip, FinalizeUnreachable, FinalizeStart,
           Unreachable, Start, Begin, K8sOnly, mysql
  <2>3. CASE Environment
    BY <1>1, <2>3
       DEF Environment, Crash, Respawn, Restart, Resync, AdminChange,
           UserCreate, UserEdit, UserMove, UserDelete, Watch, SecretWrite,
           DatabaseChange, ExternalCreate, ExternalDrop, K8sOnly, mysql
  <2>4. CASE UNCHANGED vars
    BY <1>1, <2>4 DEF vars, mysql
  <2> QED BY <2>1, <2>2, <2>3, <2>4 DEF Next, Operator
<1>2. CASE ledger' = ledger /\ accounts' = accounts
  BY <1>2 DEF SameOwners, Exists
<1>3. CASE ledger' = ledger /\ accounts' # accounts
  <2>1. CASE AlterUser \/ RevokeAll \/ GrantOne
    BY <1>3, <2>1, AlterOwners DEF MineInv
  <2> QED BY <1>3, <2>1, WhoTouches DEF RenameUser
<1> QED BY <1>1, <1>2, <1>3

\* What was created is recorded before the reconcile ends.
LEMMA CreatingStep ==
  ASSUME Benign, TypeOK, MineInv, Creating, [Next]_vars
  PROVE  SaveRecord \/ (Creating' /\ obj' = obj)
<1>1. pc \in {"record", "grant", "grantMine", "grantOne"} /\ frame \in Frame
  BY DEF Creating, TypeOK
<1>2. CASE Progress
  <2>1. CASE GrantOne \/ CheckGrant \/ \E d \in Databases : LookUp(d)
    <3>1. frame'.creating = frame.creating /\ obj' = obj
      BY <1>1, <2>1 DEF GrantOne, CheckGrant, LookUp, SqlOnly, Frame
    <3>2. pc \in {"grant", "grantMine", "grantOne"} /\ pc' \in {"grant", "grantMine", "grantOne"}
      BY <2>1 DEF GrantOne, CheckGrant, LookUp, Goto
    <3> QED BY <3>1, <3>2 DEF Creating
  <2>2. CASE ShowGrants \/ \E d \in Databases : GrantMissing(d)
    BY <1>1, <2>2 DEF ShowGrants, GrantMissing, Leave, Goto, SqlOnly, Creating
  <2> QED
    BY <1>1, <1>2, <2>1, <2>2
       DEF Progress, ReadSecret, CreateSecret, ClaimName, OwnSecret,
           AddFinalizer, Settle, InvalidName, SaveReport, SaveStatus, NilSecret,
           CheckExists, CreateUser, CheckMine, RenameUser, AlterUser, KeepUser,
           CompareGrants, RevokeAll, CheckFinalize, DropUser, ForgetRecord,
           RemoveFinalizer
<1>3. CASE \E o \in Objects : BeginReconcile(o)
  BY <1>1, <1>3
     DEF BeginReconcile, Skip, FinalizeUnreachable, FinalizeStart, Unreachable,
         Start, Begin
<1>4. CASE Environment
  BY <1>1, <1>4, BenignAnswers
     DEF Environment, Crash, Respawn, Restart, Resync, AdminChange, UserCreate,
         UserEdit, UserMove, UserDelete, Submit, Watch, Observe, SecretWrite,
         DatabaseChange, ExternalCreate, ExternalDrop, Enqueue, Still, worker,
         k8s, Creating
<1>5. CASE UNCHANGED vars
  BY <1>5 DEF vars, k8s, Creating
<1> QED BY <1>2, <1>3, <1>4, <1>5 DEF Next, Operator

\* Where the calls on an account, and the end of a deletion, are come from.
LEMMA FoundStep ==
  ASSUME Benign, TypeOK, [Next]_vars
  PROVE  /\ pc' \in {"mine", "details", "permissions", "revoke"} =>
              \/ CheckExists /\ Exists(name)
              \/ pc \in {"mine", "details", "permissions", "revoke"}
         /\ pc' \in {"finalize", "drop"} => pc \in {"idle", "finalize", "drop"}
         /\ pc' = "forget" => DropUser \/ (pc = "forget" /\ obj' = obj)
         /\ pc' = "removeFinalizer" =>
              \/ CheckFinalize /\ ~UserMine(inst)
              \/ ForgetRecord /\ ledger' = [ledger EXCEPT ![obj] = Elsewhere]
              \/ pc = "removeFinalizer" /\ obj' = obj /\ ledger' = ledger
<1>1. CASE Progress
  <2>1. CASE CheckExists
    <3>1. PICK found \in {Exists(name)} : pc' = IF found THEN "mine" ELSE "create"
      BY <2>1, BenignAnswers DEF CheckExists, Goto
    <3> QED BY <2>1, <3>1
  <2>2. CASE CheckFinalize
    <3>1. PICK mine \in {UserMine(inst)} : pc' = IF mine THEN "drop" ELSE "removeFinalizer"
      BY <2>2, BenignAnswers DEF CheckFinalize, Goto
    <3>2. pc = "finalize" /\ pc' \in {"drop", "removeFinalizer"}
      BY <2>2, <3>1 DEF CheckFinalize
    <3>3. pc' = "removeFinalizer" => ~UserMine(inst)
      BY <3>1
    <3> QED BY <2>2, <3>2, <3>3
  <2>3. CASE ForgetRecord
    BY <2>3, BenignAnswers DEF ForgetRecord, Goto
  <2> QED
    BY <1>1, <2>1, <2>2, <2>3
       DEF Progress, ReadSecret, CreateSecret, ClaimName, OwnSecret,
           AddFinalizer, Settle, InvalidName, SaveReport, SaveStatus, NilSecret,
           CreateUser, SaveRecord, CheckMine, RenameUser, AlterUser, KeepUser,
           CompareGrants, RevokeAll, ShowGrants, Leave, CheckGrant, GrantOne,
           LookUp, GrantMissing, DropUser, RemoveFinalizer, Update, Done,
           GiveUp, Goto
<1>2. CASE \E o \in Objects : BeginReconcile(o)
  BY <1>2
     DEF BeginReconcile, Skip, FinalizeUnreachable, FinalizeStart, Unreachable,
         Start, Begin, Goto
<1>3. CASE Environment
  BY <1>3, BenignAnswers
     DEF Environment, Crash, Respawn, Restart, Goto, Resync, AdminChange,
         UserCreate, UserEdit, UserMove, UserDelete, Submit, Watch, Observe,
         SecretWrite, DatabaseChange, ExternalCreate, ExternalDrop, Enqueue,
         Still, K8sOnly, worker, mysql, k8s
<1>4. CASE UNCHANGED vars
  BY <1>4 DEF vars, k8s, mysql
<1> QED BY <1>1, <1>2, <1>3, <1>4 DEF Next, Operator

-----------------------------------------------------------------------------
(* Accounts of objects that keep their names.                              *)

\* No DROP USER fails.
Drops == "drop" \notin Faults

\* An account of an object's own has the name that it claimed, and a row that
\* says so; if no DROP USER fails, it goes before the finalizer does.
Kept(n, o) ==
  /\ n = api[o].spec.username /\ n = api[o].status.username
  /\ api[o].phase # "absent"
  /\ Drops => Guarded(api[o])
  /\ Drops \/ api[o].phase = "live" => n \in ledger[o] \/ (obj = o /\ Creating)

\* A row goes before the finalizer does, and whoever sees the deletion sees
\* the name to drop.
TidyInv ==
  /\ \A o \in Objects :
       /\ \A m \in ledger[o] : Guarded(api[o]) /\ m = api[o].spec.username
       /\ Ended(cached[o]) => cached[o].status.username = api[o].status.username
       /\ \A n \in Names : OwnedBy(n, o) => Kept(n, o)
  /\ pc \in {"finalize", "drop"} => name = api[obj].status.username
  /\ pc = "removeFinalizer" => ledger[obj] = {}
  /\ Drops /\ pc \in {"forget", "removeFinalizer"} => \A n \in Names : ~OwnedBy(n, obj)

\* What the stored versions, the rows and the accounts say stays true of the
\* versions that follow.
LEMMA TidyStored ==
  ASSUME Benign, TypeOK, NameInv, FinalizerInv, MineInv, OneNameInv, TidyInv,
         [Next]_vars, KeepsName
  PROVE  \A o \in Objects :
           /\ \A m \in ledger[o] : Guarded(api'[o]) /\ m = api'[o].spec.username
           /\ Ended(cached'[o]) =>
                cached'[o].status.username = api'[o].status.username
           /\ \A n \in Names : OwnedBy(n, o) =>
                /\ n = api'[o].spec.username /\ n = api'[o].status.username
                /\ api'[o].phase # "absent"
                /\ Drops => Guarded(api'[o])
                /\ Drops \/ api'[o].phase = "live" =>
                     n \in ledger[o] \/ (obj = o /\ Creating)
<1> SUFFICES ASSUME NEW o \in Objects
             PROVE  /\ \A m \in ledger[o] :
                         Guarded(api'[o]) /\ m = api'[o].spec.username
                    /\ Ended(cached'[o]) =>
                         cached'[o].status.username = api'[o].status.username
                    /\ \A n \in Names : OwnedBy(n, o) =>
                         /\ n = api'[o].spec.username
                         /\ n = api'[o].status.username
                         /\ api'[o].phase # "absent"
                         /\ Drops => Guarded(api'[o])
                         /\ Drops \/ api'[o].phase = "live" =>
                              n \in ledger[o] \/ (obj = o /\ Creating)
  OBVIOUS
<1>1. VersionsFollow /\ api[o] \in User
  BY StoreStep DEF TypeOK
<1>2. ASSUME Guarded(api[o]), ~(o = obj /\ pc = "removeFinalizer")
      PROVE  Guarded(api'[o])
  BY <1>1, <1>2 DEF VersionsFollow, Evolves, Guarded, User
<1>3. ASSUME NEW m \in ledger[o]
      PROVE  Guarded(api'[o]) /\ m = api'[o].spec.username
  <2>1. Guarded(api[o]) /\ m = api[o].spec.username
    BY <1>3 DEF TidyInv
  <2>2. ~(o = obj /\ pc = "removeFinalizer") /\ api[o].phase # "absent"
    BY <1>3, <2>1 DEF TidyInv, Guarded
  <2> QED BY <1>1, <1>2, <2>1, <2>2 DEF VersionsFollow
<1>4. ASSUME Ended(cached'[o])
      PROVE  cached'[o].status.username = api'[o].status.username
  <2>1. CASE cached'[o] = cached[o]
    <3>1. cached[o].status.username = api[o].status.username /\ Ended(api[o])
      BY <1>4, <2>1 DEF TidyInv, FinalizerInv, CacheInv
    <3>2. ~Claims(o)
      BY <3>1, ObjectsAssumption
         DEF Claims, FinalizerInv, WorkerInv, BranchInv, Ended
    <3> QED BY <1>1, <2>1, <3>1, <3>2 DEF VersionsFollow
  <2> QED BY <2>1, CacheStep
<1>5. ASSUME NEW n \in Names, OwnedBy(n, o)
      PROVE  /\ n = api'[o].spec.username /\ n = api'[o].status.username
             /\ api'[o].phase # "absent"
             /\ Drops => Guarded(api'[o])
             /\ Drops \/ api'[o].phase = "live" =>
                  n \in ledger[o] \/ (obj = o /\ Creating)
  <2>1. Kept(n, o) /\ n # Unset
    BY <1>5, UserAssumption DEF TidyInv
  <2>2. Drops => ~(o = obj /\ pc = "removeFinalizer")
    BY <1>5 DEF TidyInv
  <2>3. Drops => Guarded(api'[o])
    BY <1>2, <2>1, <2>2 DEF Kept
  <2>4. api'[o].phase = "live" => api[o].phase = "live"
    BY <1>1, <2>1 DEF VersionsFollow, Evolves, Kept
  <2> QED BY <1>1, <2>1, <2>3, <2>4 DEF VersionsFollow, Claims, Kept
<1> QED BY <1>3, <1>4, <1>5

\* What a reconcile knows on its way to the end of an object: the name that it
\* drops, and that nothing is left when the finalizer goes (finalizeUser).
LEMMA TidyEnding ==
  ASSUME Benign, TypeOK, TypeOK', NameInv, FinalizerInv, FinalizerInv', MineInv,
         OneNameInv, TidyInv, Rooted, [Next]_vars, KeepsName
  PROVE  /\ pc' \in {"finalize", "drop"} => name' = api'[obj'].status.username
         /\ pc' = "removeFinalizer" => ledger'[obj'] = {}
         /\ Drops /\ pc' \in {"forget", "removeFinalizer"} =>
              \A n \in Names : ~OwnedBy(n, obj)'
<1>1. ASSUME pc' \in {"finalize", "drop"}
      PROVE  name' = api'[obj'].status.username
  <2>1. obj' \in Objects /\ obj' # NoObject
    BY <1>1, ObjectsAssumption DEF TypeOK
  <2>2. CASE obj' = obj /\ name' = name
    <3>1. pc \in {"finalize", "drop"}
      BY <1>1, <2>1, <2>2, FoundStep DEF TypeOK
    <3>2. name = api[obj].status.username /\ ~Claims(obj)
      BY <3>1 DEF TidyInv, Claims
    <3> QED BY <2>1, <2>2, <3>2, StoreStep DEF VersionsFollow
  <2>3. CASE inst' = cached[obj'] /\ UNCHANGED <<api, cached>>
    <3>1. inst'.phase = "deleting"
      BY <1>1 DEF FinalizerInv, BranchInv
    <3>2. Ended(cached[obj'])
      BY <2>3, <3>1 DEF Ended
    <3> QED BY <2>1, <2>3, <3>2 DEF TidyInv, name
  <2> QED BY <2>1, <2>2, <2>3, CopyStep DEF OneNameInv
<1>2. ASSUME CheckFinalize, ~UserMine(inst)
      PROVE  /\ ledger[obj] = {} /\ UNCHANGED <<obj, accounts, ledger>>
             /\ Drops => \A n \in Names : ~OwnedBy(n, obj)
  <2>1. /\ pc = "finalize" /\ obj \in Objects /\ obj # NoObject /\ inst \in User
        /\ UNCHANGED <<obj, accounts, ledger>>
    BY <1>2, WorkerHolds, ObjectsAssumption DEF CheckFinalize, SqlOnly, mysql
  <2>2. /\ inst.spec.username = api[obj].spec.username
        /\ inst.status.username \in {Unset, inst.spec.username}
    BY <2>1 DEF OneNameInv, name
  <2>3. ledger[obj] = {}
    <3> SUFFICES ASSUME ledger[obj] # {} PROVE FALSE
      OBVIOUS
    <3>1. PICK m \in Names : m \in ledger[obj] /\ m = api[obj].spec.username
      BY <2>1 DEF TidyInv, TypeOK
    <3>2. NamesOf(inst) \subseteq {m}
      BY <2>2, <3>1 DEF NamesOf
    <3> QED BY <1>2, <3>1, <3>2 DEF UserMine
  <2>4. ASSUME Drops, NEW n \in Names, OwnedBy(n, obj) PROVE FALSE
    <3>1. Kept(n, obj) /\ ~Creating
      BY <2>1, <2>4 DEF TidyInv, Creating
    <3> QED BY <2>3, <2>4, <3>1, UserAssumption DEF Kept
  <2> QED BY <2>1, <2>3, <2>4
<1>3. ASSUME pc' = "removeFinalizer" PROVE ledger'[obj'] = {}
  <2>1. CASE ForgetRecord /\ ledger' = [ledger EXCEPT ![obj] = Elsewhere]
    BY <2>1, WorkerHolds, NothingElsewhere DEF ForgetRecord, SqlOnly, TypeOK
  <2>2. CASE pc = "removeFinalizer" /\ obj' = obj /\ ledger' = ledger
    BY <2>2 DEF TidyInv
  <2> QED BY <1>2, <1>3, <2>1, <2>2, FoundStep
<1>4. ASSUME Drops, pc' \in {"forget", "removeFinalizer"},
             NEW n \in Names, OwnedBy(n, obj)'
      PROVE  FALSE
  <2>1. CASE DropUser
    <3>1. /\ pc = "drop" /\ obj \in Objects /\ obj' = obj
          /\ accounts' = [m \in Names |-> IF m = name THEN Absent ELSE accounts[m]]
      BY <1>4, <2>1, WorkerHolds DEF DropUser, SqlOnly, Drops
    <3>2. n # name /\ OwnedBy(n, obj)
      BY <1>4, <3>1 DEF OwnedBy, Exists
    <3>3. Kept(n, obj) /\ name = api[obj].status.username
      BY <3>1, <3>2 DEF TidyInv
    <3> QED BY <3>2, <3>3 DEF Kept
  <2>2. CASE pc \in {"forget", "removeFinalizer"} /\ obj' = obj
    <3>1. SameOwners
      BY <2>2, RowStep
         DEF CreateUser, DropUser, SaveRecord, ForgetRecord, SameOwners, Exists
    <3>2. ~OwnedBy(n, obj)
      BY <1>4, <2>2 DEF TidyInv
    <3> QED BY <1>4, <2>2, <3>1, <3>2 DEF SameOwners, OwnedBy, Exists
  <2>3. CASE CheckFinalize /\ ~UserMine(inst)
    BY <1>2, <1>4, <2>3 DEF OwnedBy, Exists
  <2>4. ForgetRecord => pc = "forget" /\ obj' = obj
    BY DEF ForgetRecord, SqlOnly
  <2> QED BY <1>4, <2>1, <2>2, <2>3, <2>4, FoundStep
<1> QED BY <1>1, <1>3, <1>4

\* CREATE USER follows a claim and precedes the row, DROP USER and the row's
\* DELETE precede the end: no step separates an object, its account and its
\* row (userCreate, finalizeUser).
LEMMA TidyStep ==
  ASSUME Benign, TypeOK, TypeOK', NameInv, FinalizerInv, FinalizerInv', MineInv,
         OneNameInv, TidyInv, Rooted, [Next]_vars, KeepsName
  PROVE  TidyInv'
<1>1. \A o \in Objects :
        /\ \A m \in ledger[o] : Guarded(api'[o]) /\ m = api'[o].spec.username
        /\ Ended(cached'[o]) =>
             cached'[o].status.username = api'[o].status.username
        /\ \A n \in Names : OwnedBy(n, o) =>
             /\ n = api'[o].spec.username /\ n = api'[o].status.username
             /\ api'[o].phase # "absent"
             /\ Drops => Guarded(api'[o])
             /\ Drops \/ api'[o].phase = "live" =>
                  n \in ledger[o] \/ (obj = o /\ Creating)
  BY TidyStored
<1> SUFFICES ASSUME NEW o \in Objects
             PROVE  /\ \A m \in ledger'[o] :
                         Guarded(api'[o]) /\ m = api'[o].spec.username
                    /\ \A n \in Names : OwnedBy(n, o)' =>
                         /\ n = api'[o].spec.username
                         /\ n = api'[o].status.username
                         /\ api'[o].phase # "absent"
                         /\ Drops => Guarded(api'[o])
                         /\ Drops \/ api'[o].phase = "live" =>
                              n \in ledger'[o] \/ (obj' = o /\ Creating')
  BY <1>1, TidyEnding DEF TidyInv, Kept
<1>2. CASE SameOwners /\ UNCHANGED ledger /\ ~SaveRecord
  <2>1. \A n \in Names : OwnedBy(n, o)' <=> OwnedBy(n, o)
    BY <1>2, OwnersStay
  <2>2. obj = o /\ Creating => obj' = o /\ Creating'
    BY <1>2, CreatingStep
  <2> QED BY <1>1, <1>2, <2>1, <2>2
<1>3. CASE CreateUser
  <2>1. PICK m \in Names :
          /\ OwnedBy(m, obj)' /\ m = api[obj].spec.username
          /\ m = api[obj].status.username
          /\ \A n \in Names \ {m} : accounts'[n] = accounts[n]
    <3>1. /\ name \in Names /\ name = api[obj].spec.username
          /\ name = api[obj].status.username
      BY <1>3, OneName DEF CreateUser, Claimed
    <3>2. /\ OwnedBy(name, obj)' /\ name' = name
          /\ \A n \in Names \ {name} : accounts'[n] = accounts[n]
      BY <1>3, CreateOwners DEF MineInv
    <3> QED BY <3>1, <3>2
  <2>2. Guarded(api[obj]) /\ obj \in Objects
    BY <1>3, OneName, Branches DEF CreateUser, Claimed
  <2>3. UNCHANGED <<api, obj, ledger>> /\ Creating' /\ ~Creating
    <3>1. pc' = "grant" /\ SqlOnly
      BY <1>3, CreateOwners DEF MineInv
    <3>2. ~GiveUp
      BY <3>1 DEF GiveUp, Done, Goto
    <3>3. frame'.creating
      BY <1>3, <3>2 DEF CreateUser, TypeOK, Frame
    <3> QED BY <1>3, <3>1, <3>3 DEF CreateUser, Creating, SqlOnly, store
  <2>4. \A n \in Names : OwnedBy(n, o)' => OwnedBy(n, o) \/ (n = m /\ o = obj)
    BY <2>1, <2>3 DEF OwnedBy, Exists
  <2> QED BY <1>1, <2>1, <2>2, <2>3, <2>4 DEF Guarded
<1>4. CASE DropUser
  <2>1. /\ ledger' = ledger /\ pc = "drop"
        /\ \A n \in Names : accounts'[n] = accounts[n] \/ accounts'[n] = Absent
    BY <1>4 DEF DropUser, TypeOK
  <2>2. \A n \in Names : OwnedBy(n, o)' => OwnedBy(n, o)
    BY <2>1 DEF OwnedBy, Exists
  <2>3. ~Creating
    BY <2>1 DEF Creating
  <2> QED BY <1>1, <2>1, <2>2, <2>3
<1>5. CASE SaveRecord \/ ForgetRecord
  <2>1. /\ accounts' = accounts /\ obj \in Objects /\ obj # NoObject
        /\ pc \in {"record", "forget"} /\ UNCHANGED api
    BY <1>5, WorkerHolds, ObjectsAssumption
       DEF SaveRecord, ForgetRecord, GiveUp, SqlOnly, store
  <2>2. o # obj => ledger'[o] = ledger[o]
    BY <1>5, <2>1 DEF SaveRecord, ForgetRecord, TypeOK
  <2>3. \A n \in Names : OwnedBy(n, o)' <=> OwnedBy(n, o)
    BY <2>1 DEF OwnedBy, Exists
  <2>4. CASE SaveRecord
    <3>1. ledger'[obj] = {inst.spec.username}
      <4>1. \E ok \in Succeeds :
              ledger' = IF ok
                        THEN [ledger EXCEPT ![obj] = Elsewhere \cup {inst.spec.username}]
                        ELSE ledger
        BY <2>4 DEF SaveRecord, RecordedName
      <4>2. Succeeds = {TRUE}
        BY BenignAnswers
      <4>3. ledger' = [ledger EXCEPT ![obj] = {inst.spec.username}]
        BY <2>1, <4>1, <4>2, NothingElsewhere
      <4> QED BY <2>1, <4>3 DEF TypeOK
    <3>2. inst.spec.username = api[obj].spec.username /\ Guarded(api[obj])
      BY <2>4, OneName, Branches DEF SaveRecord, Claimed
    <3> QED BY <1>1, <2>1, <2>2, <2>3, <3>1, <3>2
  <2>5. CASE ForgetRecord
    <3>1. ledger'[obj] \in {ledger[obj], {}}
      BY <2>1, <2>5, NothingElsewhere DEF ForgetRecord, TypeOK
    <3>2. api[obj].phase # "live" /\ ~Creating
      BY <2>5, Branches DEF ForgetRecord, Ended, Creating
    <3>3. Drops => \A n \in Names : ~OwnedBy(n, obj)
      BY <2>5 DEF ForgetRecord, TidyInv
    <3> QED BY <1>1, <2>1, <2>2, <2>3, <3>1, <3>2, <3>3
  <2> QED BY <1>5, <2>4, <2>5
<1> QED BY <1>2, <1>3, <1>4, <1>5, RowStep DEF OneNameInv

\* The names of users who rename nothing are tidy.
Tidy == Renaming \/ (OneNameInv /\ TidyInv)

LEMMA TidyCorrect == Benign => (Spec => []Tidy)
<1> SUFFICES ASSUME Benign PROVE Spec => []Tidy
  OBVIOUS
<1>1. Init => Tidy
  <2> SUFFICES ASSUME Init PROVE OneNameInv /\ TidyInv
    BY DEF Tidy
  <2>1. PICK s \in Specs : K8sInit([o \in Objects |-> NeverCreated(s)])
    BY DEF Init
  <2>2. /\ \A o \in Objects : /\ api[o].phase = "absent" /\ api[o].status = NoStatus
                              /\ cached[o] = api[o]
        /\ pc = "idle" /\ obj = NoObject
        /\ \A o \in Objects : ledger[o] = {}
    BY <2>1 DEF Init, K8sInit, NeverCreated, NewObject
  <2>3. \A o \in Objects, n \in Names : ~OwnedBy(n, o)
    BY UserAssumption DEF Init, OwnedBy, Exists, ForeignAccount
  <2> QED BY <2>2, <2>3 DEF OneNameInv, SameName, NoStatus, TidyInv
<1>2. /\ TypeOK /\ TypeOK' /\ NameInv /\ FinalizerInv /\ FinalizerInv' /\ Rooted
      /\ MineInv /\ Tidy /\ [Next]_vars
      => Tidy'
  BY NoRenaming, OneNameStep, TidyStep DEF Tidy, Benign
<1>3. Init => NameInv
  BY DEF Init, NameInv
<1>4. TypeOK /\ TypeOK' /\ NameInv /\ [Next]_vars => NameInv'
  BY NameStep
<1>5. Spec => []Rooted
  BY RootedCorrect DEF Benign
<1> QED BY <1>1, <1>2, <1>3, <1>4, <1>5, TypeCorrect, FinalizerCorrect, RowsCorrect,
           PTL
        DEF Spec

-----------------------------------------------------------------------------
(* The refinement.                                                         *)

life   == [o \in Objects |-> Stage(api[o])]
wants  == [o \in Objects |-> api[o].spec.username]
holder == [n \in Names |-> Creator(n)]

\* To ask for another name on the same server is to ask for another one.
LEMMA RenamingAsks == Renaming => Asking
BY DEF Renaming, Asking

\* The names that an object may take are the ones a statement runs under.
LEMMA MeantNames ==
  ASSUME NEW o \in Objects, TypeOK
  PROVE  /\ Promise!Meant(o) = IF Asking THEN Names ELSE {api[o].spec.username}
         /\ \A n \in Names : /\ OwnedBy(n, o) => Creator(n) = o
                             /\ Creator(n) = o => OwnedBy(n, o)
                             /\ Creator(n) = Absent <=> ~Exists(n)
<1>1. Promise!Meant(o) = IF Asking THEN Names ELSE {api[o].spec.username}
  BY DEF Promise!Meant
<1>2. ASSUME NEW n \in Names
      PROVE  /\ OwnedBy(n, o) => Creator(n) = o
             /\ Creator(n) = o => OwnedBy(n, o)
             /\ Creator(n) = Absent <=> ~Exists(n)
  <2>1. Exists(n) => accounts[n].creator \in Objects \cup {Foreign}
    BY DEF TypeOK, Exists, Account
  <2> QED BY <2>1, UserAssumption DEF Creator, OwnedBy
<1> QED BY <1>1, <1>2

\* A step that moves an object, or changes its name, is a step of Ownership.
LEMMA MovesRefine ==
  ASSUME TypeOK, TypeOK', Tidy, Transition
  PROVE  Promise!Next
<1>1. PICK o \in Objects :
         \/ Passes(o, "absent", "live")
         \/ Asking /\ Passes(o, Stage(api[o]), Stage(api[o]))
         \/ /\ api'[o].spec.username = api[o].spec.username
            /\ \/ Passes(o, "live", "gone") \/ Passes(o, "protected", "deleting")
               \/ Passes(o, "live", "protected")
               \/ pc = "removeFinalizer" /\ o = obj /\ Passes(o, "deleting", "gone")
  BY RenamingAsks DEF Transition
<1>2. holder' = holder
  BY DEF Transition, holder, Creator, Exists
<1>3. ASSUME NEW from, NEW to, Passes(o, from, to)
      PROVE  /\ life[o] = from /\ life' = [life EXCEPT ![o] = to]
             /\ wants' = [wants EXCEPT ![o] = api'[o].spec.username]
  BY <1>3 DEF Passes, life, wants
<1>4. api'[o].spec.username \in Names
  BY UserParts DEF TypeOK, UserSpec
<1>5. ASSUME api'[o].spec.username = api[o].spec.username,
             NEW from, NEW to, Passes(o, from, to)
      PROVE  wants' = wants
  BY <1>3, <1>5 DEF wants
<1>6. CASE Passes(o, "absent", "live")
  <2>1. Promise!Create(o)
    BY <1>2, <1>3, <1>4, <1>6 DEF Promise!Create, Promise!Become, life, wants,
                                  holder
  <2> QED BY <2>1 DEF Promise!Next
<1>7. CASE Asking /\ Passes(o, Stage(api[o]), Stage(api[o]))
  <2>1. life' = life
    BY <1>3, <1>7 DEF life
  <2>2. Promise!Edit(o)
    BY <1>2, <1>3, <1>4, <1>7, <2>1 DEF Promise!Edit, life, wants, holder
  <2> QED BY <2>2 DEF Promise!Next
<1>8. CASE /\ api'[o].spec.username = api[o].spec.username
           /\ \/ Passes(o, "live", "gone") \/ Passes(o, "protected", "deleting")
              \/ Passes(o, "live", "protected")
  <2>1. Promise!Delete(o) \/ Promise!Protect(o)
    BY <1>2, <1>3, <1>5, <1>8
       DEF Promise!Delete, Promise!Protect, Promise!Become, life, wants, holder
  <2> QED BY <2>1 DEF Promise!Next
<1>9. CASE /\ api'[o].spec.username = api[o].spec.username
           /\ pc = "removeFinalizer" /\ o = obj /\ Passes(o, "deleting", "gone")
  <2>1. api[o].spec.username \in Names
    BY UserParts DEF TypeOK, UserSpec
  <2>2. ~(Renaming \/ "drop" \in Faults) => holder[wants[o]] # o
    <3>1. ~(Renaming \/ "drop" \in Faults) => ~OwnedBy(api[o].spec.username, o)
      BY <1>9, <2>1 DEF Tidy, TidyInv, Drops
    <3> QED BY <2>1, <3>1, MeantNames DEF holder, wants
  <2>3. Promise!Vanish(o)
    BY <1>2, <1>3, <1>5, <1>9, <2>2
       DEF Promise!Vanish, Promise!Become, life, wants, holder
  <2> QED BY <2>3 DEF Promise!Next
<1> QED BY <1>1, <1>6, <1>7, <1>8, <1>9

\* userCreate takes a free name for an object that is protected.
LEMMA CreateRefines ==
  ASSUME Benign, TypeOK, NameInv, FinalizerInv, MineInv, Tidy, SameStages,
         CreateUser
  PROVE  Promise!Next
<1>1. /\ obj \in Objects /\ api[obj] \in User /\ name \in Names
      /\ Stage(api[obj]) \in {"protected", "deleting"}
  <2>1. obj \in Objects /\ api[obj] \in User /\ Guarded(api[obj])
    BY WorkerHolds, Branches DEF CreateUser, Claimed
  <2> QED BY <2>1, StageOf DEF CreateUser, NameInv
<1>2. PICK n \in Names :
        /\ n = name /\ OwnedBy(n, obj)' /\ ~Exists(n) /\ obj' = obj
        /\ \A m \in Names \ {n} : accounts'[m] = accounts[m]
  <2>1. OwnedBy(name, obj)' /\ name' = name /\ SqlOnly /\ ~Exists(name)
        /\ \A m \in Names \ {name} : accounts'[m] = accounts[m]
    BY CreateOwners DEF MineInv
  <2> QED BY <1>1, <2>1 DEF SqlOnly
<1>3. holder' = [holder EXCEPT ![n] = obj] /\ holder[n] = Absent
  BY <1>2 DEF holder, Creator, OwnedBy, Exists
<1>4. n \in Promise!Meant(obj)
  <2>1. ~Renaming => n = api[obj].spec.username
    BY <1>2, OneName DEF Tidy, CreateUser, Claimed
  <2> QED BY <1>1, <2>1, MeantNames, RenamingAsks
<1>5. life[obj] \in {"protected", "deleting"} /\ life' = life /\ wants' = wants
  BY <1>1 DEF SameStages, life, wants
<1>6. Promise!Acquire(obj)
  BY <1>3, <1>4, <1>5 DEF Promise!Acquire, Promise!Free, life, wants, holder
<1> QED BY <1>1, <1>6 DEF Promise!Next

\* userUpdate gives a name of the object's own up for one that is free.
LEMMA RenameRefines ==
  ASSUME Benign, TypeOK, NameInv, FinalizerInv, MineInv, Tidy, SameStages,
         RenameUser, ~GiveUp
  PROVE  Promise!Next
<1>1. /\ obj \in Objects /\ obj # NoObject /\ inst \in User /\ api[obj] \in User
      /\ name \in Names /\ inst.spec.username \in Names /\ pc = "rename"
  BY WorkerHolds, StatusTypes, ObjectsAssumption DEF RenameUser, NameInv
<1>2. Stage(api[obj]) \in {"protected", "deleting"}
  <2>1. Guarded(api[obj])
    BY <1>1 DEF FinalizerInv, WorkerInv, BranchInv
  <2> QED BY <1>1, <2>1, StageOf
<1>3. PICK m \in Names, n \in Names :
        /\ OwnedBy(m, obj) /\ ~Exists(n) /\ m # n
        /\ accounts' = [accounts EXCEPT ![n] = accounts[m], ![m] = Absent]
  <2>1. OwnedBy(name, obj) /\ ~Exists(inst.spec.username)
    BY RenameOwners DEF MineInv
  <2>2. accounts' = [accounts EXCEPT ![inst.spec.username] = accounts[name],
                                     ![name] = Absent]
    BY DEF RenameUser
  <2> QED BY <1>1, <2>1, <2>2 DEF OwnedBy
<1>4. /\ holder' = [holder EXCEPT ![m] = Absent, ![n] = obj]
      /\ holder[n] = Absent /\ holder[m] = obj
  <2>1. /\ accounts'[m] = Absent /\ accounts'[n] = accounts[m]
        /\ \A k \in Names \ {m, n} : accounts'[k] = accounts[k]
    BY <1>3 DEF TypeOK
  <2>2. Creator(m) = obj /\ Creator(n) = Absent
    BY <1>3 DEF Creator, OwnedBy
  <2>3. \A k \in Names : Creator(k)' =
          IF k = m THEN Absent ELSE IF k = n THEN obj ELSE Creator(k)
    <3>1. Exists(m) /\ accounts[m].creator = obj /\ m # n
      BY <1>3 DEF OwnedBy
    <3> QED BY <2>1, <3>1 DEF Creator, Exists
  <2> QED BY <1>3, <2>2, <2>3 DEF holder
<1>5. Asking
  BY <1>1, RenamingAsks DEF Tidy, OneNameInv
<1>6. m \in Promise!Held(obj)
  <2>1. holder[m] = obj /\ m \in Promise!Meant(obj)
    BY <1>1, <1>4, <1>5, MeantNames
  <2> QED BY <2>1 DEF Promise!Held, holder
<1>7. life[obj] \in {"protected", "deleting"} /\ life' = life /\ wants' = wants
  BY <1>1, <1>2 DEF SameStages, life, wants
<1>8. Promise!Rename(obj)
  BY <1>4, <1>5, <1>6, <1>7
     DEF Promise!Rename, Promise!Free, life, wants, holder
<1> QED BY <1>1, <1>8 DEF Promise!Next

\* finalizeUser gives a name of the object's own back, once the object is being
\* deleted.
LEMMA DropRefines ==
  ASSUME Benign, TypeOK, NameInv, FinalizerInv, MineInv, Tidy, SameStages,
         DropUser, accounts' # accounts
  PROVE  Promise!Next
<1>1. /\ obj \in Objects /\ obj # NoObject /\ inst \in User /\ pc = "drop"
      /\ api[obj] \in User /\ Ended(api[obj])
  BY WorkerHolds, ObjectsAssumption, Branches DEF DropUser
<1>2. accounts' = [k \in Names |-> IF k = name THEN Absent ELSE accounts[k]]
  BY DEF DropUser
<1>3. name \in Names /\ Exists(name)
  BY <1>2 DEF TypeOK, Exists
<1>4. OwnedBy(name, obj) /\ name \in ledger[obj]
  BY <1>1, <1>3, MineOwns DEF MineInv, ActInv
<1>5. PICK n \in Names : /\ n = name /\ OwnedBy(n, obj)
  BY <1>3, <1>4
<1>6. holder' = [holder EXCEPT ![n] = Absent] /\ holder[n] = obj
  BY <1>2, <1>5 DEF holder, Creator, OwnedBy, Exists
<1>7. /\ ~Renaming => n = api[obj].spec.username /\ api[obj].phase = "deleting"
      /\ Renaming => Stage(api[obj]) \in {"deleting", "gone"}
  <2>1. ASSUME ~Renaming
        PROVE  n = api[obj].spec.username /\ api[obj].phase = "deleting"
    <3>1. Guarded(api[obj]) /\ name = api[obj].spec.username
      BY <1>1, <1>4, <2>1 DEF Tidy, TidyInv
    <3> QED BY <1>1, <1>4, <1>5, <3>1 DEF Guarded, Ended
  <2> QED BY <1>1, <2>1 DEF Ended, Stage
<1>8. n \in Promise!Held(obj)
  BY <1>1, <1>6, <1>7, MeantNames, RenamingAsks DEF Promise!Held, holder
<1>9. /\ life[obj] = "deleting" \/ (Asking /\ life[obj] = "gone")
      /\ life' = life /\ wants' = wants
  BY <1>1, <1>7, RenamingAsks DEF SameStages, Stage, life, wants
<1>10. Promise!Release(obj)
  BY <1>6, <1>8, <1>9 DEF Promise!Release, life, wants, holder
<1> QED BY <1>1, <1>10 DEF Promise!Next

\* Without lookup errors, failed statements, lost DELETEs, crashes and other
\* clients, whatever updates are refused, DROPs fail and servers go away, and
\* however events, users, renames and rivals interleave, the DatabaseUser
\* controller does what Ownership says (Reconcile, userUpdate, finalizeUser).
THEOREM ControllerImplementsOwnership == Benign => (Spec => ImplementsOwnership)
<1> SUFFICES ASSUME Benign PROVE Spec => ImplementsOwnership
  OBVIOUS
<1>1. Init => Promise!Init
  <2> SUFFICES ASSUME Init PROVE Promise!Init
    OBVIOUS
  <2>1. PICK s \in Specs : api = [o \in Objects |-> NeverCreated(s)]
    BY DEF Init, K8sInit
  <2>2. Stage(NeverCreated(s)) = "absent" /\ NeverCreated(s).spec = s
    BY DEF Stage, NeverCreated, NewObject
  <2>3. life = [o \in Objects |-> "absent"]
    BY <2>1, <2>2 DEF life
  <2>4. wants \in [Objects -> Names]
    BY <2>1, <2>2, UserAssumption DEF wants, UserSpec
  <2>5. holder \in [Names -> {Absent, Foreign}]
    BY DEF Init, holder, Creator, Exists, ForeignAccount
  <2> QED BY <2>3, <2>4, <2>5, Zenon DEF Promise!Init, life, wants, holder
<1>2. /\ TypeOK /\ TypeOK' /\ NameInv /\ FinalizerInv /\ MineInv /\ Tidy
      /\ [Next]_vars
      => [Promise!Next]_(Promise!vars)
  <2> SUFFICES ASSUME TypeOK, TypeOK', NameInv, FinalizerInv, MineInv, Tidy,
                      [Next]_vars
               PROVE  Promise!Next \/ UNCHANGED Promise!vars
    OBVIOUS
  <2>1. CASE Transition
    BY <2>1, MovesRefine
  <2>2. CASE SameStages
    <3>1. SameOwners => holder' = holder
      BY DEF SameOwners, holder, Creator
    <3>2. CASE holder' = holder
      BY <2>2, <3>2 DEF SameStages, Promise!vars, life, wants, holder
    <3>3. CASE accounts' = accounts
      BY <3>2, <3>3 DEF holder, Creator, Exists
    <3>4. CASE AlterUser \/ RevokeAll \/ GrantOne
      BY <3>1, <3>2, <3>4, AlterOwners DEF MineInv
    <3>5. CASE CreateUser \/ (RenameUser /\ ~GiveUp) \/ (DropUser /\ accounts' # accounts)
      BY <2>2, <3>5, CreateRefines, RenameRefines, DropRefines
    <3> QED BY <3>3, <3>4, <3>5, WhoTouches
  <2>3. Moves = {}
    BY DEF Benign
  <2> QED BY <2>1, <2>2, <2>3, StageChanges
<1>3. Init => NameInv
  BY DEF Init, NameInv
<1>4. TypeOK /\ TypeOK' /\ NameInv /\ [Next]_vars => NameInv'
  BY NameStep
<1> QED BY <1>1, <1>2, <1>3, <1>4, TypeCorrect, FinalizerCorrect, RowsCorrect,
           TidyCorrect, PTL
        DEF Spec, ImplementsOwnership, Promise!Spec

-----------------------------------------------------------------------------
(* The versions of secrets: one that is in a stored status has reached the *)
(* account, for any number of objects, names and rotations.                *)

\* What the controller needs: a specification without Identification would
\* keep the version of an account that is created anew without a password.
Identifies == \A s \in Specs : s.ident # "none"

-----------------------------------------------------------------------------
(* The inductive invariant.                                                *)

\* c, a copy of o however late, claims no version that its account has not
\* seen, nor one that was never written: an account created anew gets the
\* latest password.
Knows(c, o) ==
  /\ c.status.version <= secret[o].content
  /\ c.status.username = Unset => c.status.version = 0
  /\ \A n \in Names : c.status.username = n /\ OwnedBy(n, o) =>
       c.status.version <= accounts[n].password

VersionInv ==
  /\ \A o \in Objects : Knows(api[o], o) /\ Knows(cached[o], o)
  /\ obj # NoObject => Knows(inst, obj) /\ frame.secret <= secret[obj].content

Alike(c, d) == /\ c.status.version = d.status.version
               /\ c.status.username = d.status.username

LEMMA AlikeKnow ==
  \A c, d, o : Alike(c, d) /\ Knows(c, o) => Knows(d, o)
BY DEF Alike, Knows

\* Secrets are only ever rewritten; most steps leave passwords alone, too.
Monotone ==
  /\ \A o \in Objects : secret[o].content <= secret'[o].content
  /\ \A n \in Names, o \in Objects :
       OwnedBy(n, o)' =>
         OwnedBy(n, o) /\ accounts'[n].password = accounts[n].password

LEMMA MonotoneKeeps ==
  ASSUME TypeOK, TypeOK', Monotone, NEW o \in Objects, NEW c \in User, Knows(c, o)
  PROVE  Knows(c, o)'
<1>1. c.status.version \in Nat
  BY UserAssumption DEF User, Status, Contents
<1>2. secret[o].content \in Nat /\ secret'[o].content \in Nat
  BY UserAssumption DEF TypeOK, Contents
<1> QED BY <1>1, <1>2 DEF Knows, Monotone

LEMMA SameMonotone ==
  ASSUME TypeOK, UNCHANGED <<secret, accounts>>
  PROVE  Monotone
BY UserAssumption DEF Monotone, TypeOK, Contents, OwnedBy, Exists

-----------------------------------------------------------------------------
(* The shapes of steps.                                                    *)

\* The worker is left with a copy that says the same.
LEMMA StatementKnows ==
  ASSUME TypeOK, TypeOK', VersionInv, Monotone, UNCHANGED <<store, obj>>,
         obj \in Objects, Alike(inst, inst'), inst \in User,
         frame'.secret = frame.secret \/ frame'.secret <= secret'[obj].content
  PROVE  VersionInv'
<1>1. obj # NoObject
  BY ObjectsAssumption
<1>2. \A o \in Objects : Knows(api[o], o)' /\ Knows(cached[o], o)'
  <2>1. \A o \in Objects : Knows(api[o], o) /\ Knows(cached[o], o)
    BY DEF VersionInv
  <2>2. \A o \in Objects : api[o] \in User /\ cached[o] \in User
    BY DEF TypeOK
  <2>3. api' = api /\ cached' = cached
    BY DEF store
  <2> QED BY <2>1, <2>2, <2>3, MonotoneKeeps DEF Knows
<1>3. Knows(inst', obj)
  BY <1>1, AlikeKnow DEF VersionInv
<1>4. inst' \in User
  BY <1>1 DEF TypeOK
<1>5. Knows(inst, obj)'
  BY <1>3, <1>4, MonotoneKeeps DEF Knows
<1>6. frame'.secret <= secret'[obj].content
  <2>1. /\ frame.secret \in Nat /\ secret[obj].content \in Nat
        /\ secret'[obj].content \in Nat
    BY UserAssumption DEF TypeOK, Frame, Contents
  <2> QED BY <1>1, <2>1 DEF VersionInv, Monotone
<1> QED BY <1>2, <1>5, <1>6 DEF VersionInv

\* Reconcile returns, perhaps after an update that claims nothing new.
LEMMA DoneKnows ==
  ASSUME TypeOK, TypeOK', VersionInv, Monotone, obj \in Objects, NEW r, Done(r),
         \/ UNCHANGED store
         \/ \E new \in User : Knows(new, obj) /\ (Write(new) \/ WriteStamped(new))
  PROVE  VersionInv'
<1>1. obj' = NoObject
  BY DEF Done, Return
<1>2. \A o \in Objects : Knows(cached[o], o)'
  <2>1. \A o \in Objects : Knows(cached[o], o) /\ cached[o] \in User
    BY DEF VersionInv, TypeOK
  <2>2. cached' = cached
    BY DEF store, Write, WriteStamped
  <2> QED BY <2>1, <2>2, MonotoneKeeps DEF Knows
<1>3. \A o \in Objects : api'[o] \in User /\ Knows(api'[o], o)
  <2>1. \A o \in Objects : Knows(api[o], o) /\ api[o] \in User
    BY DEF VersionInv, TypeOK
  <2> QED BY <2>1 DEF store, Write, WriteStamped, TypeOK
<1>4. \A o \in Objects : Knows(api[o], o)'
  BY <1>3, MonotoneKeeps DEF Knows
<1> QED BY <1>1, <1>2, <1>4 DEF VersionInv

-----------------------------------------------------------------------------
(* The steps that set a version or a password.                             *)

LEMMA CreateKnows ==
  ASSUME Benign, Identifies, TypeOK, TypeOK', NameInv, MineInv, VersionInv, CreateUser
  PROVE  VersionInv'
<1>1. obj \in Objects /\ inst \in User /\ name \in Names /\ obj # NoObject
  BY WorkerHolds, ObjectsAssumption DEF CreateUser, NameInv
<1>2. inst.spec.ident = "secret"
  <2>1. inst.spec \in Specs /\ inst.spec \in UserSpec
    BY <1>1, UserParts
  <2> QED BY <2>1 DEF CreateUser, Identifies, UserSpec
<1>3. inst.status \in Status /\ name # Unset
  BY <1>1, UserAssumption, UserParts
<1>4. /\ accounts'[name].password = secret[obj].content
      /\ accounts'[name].creator = obj
      /\ secret' = secret /\ store' = store /\ obj' = obj
      /\ \A n \in Names \ {name} : accounts'[n] = accounts[n]
      /\ frame'.secret = frame.secret
      /\ inst'.status.version = frame.secret /\ inst'.status.username = name
  <2>1. ~Exists(name) /\ FALSE \notin Succeeds
    BY BenignAnswers DEF MineInv, ActInv, CreateUser
  <2>2. /\ SetAccount(name, [creator |-> obj, password |-> Password,
                             tls |-> TlsClause(inst) /\ inst.spec.tls,
                             grants |-> {}])
        /\ inst' = [inst EXCEPT !.status = [Identified(inst) EXCEPT
                      !.grants = {}, !.message = "created"]]
        /\ frame' = [frame EXCEPT !.todo = inst.spec.databases,
                                  !.creating = TRUE, !.changed = TRUE]
        /\ SqlOnly
    BY <2>1 DEF CreateUser
  <2>3. accounts \in [Names -> Account \cup {Absent}] /\ frame \in Frame
    BY DEF TypeOK
  <2>4. Password = secret[obj].content
    BY <1>2 DEF Password
  <2>5. secret' = secret /\ store' = store /\ obj' = obj
    BY <2>2 DEF SqlOnly, world
  <2>6. frame'.secret = frame.secret
    BY <2>2, <2>3 DEF Frame
  <2>7. inst'.status.version = frame.secret /\ inst'.status.username = name
    BY <1>1, <1>2, <1>3, <2>2 DEF Identified, User, Status, name
  <2> QED BY <1>1, <2>2, <2>3, <2>4, <2>5, <2>6, <2>7 DEF SetAccount
<1>5. \A c, o : o \in Objects /\ Knows(c, o) => Knows(c, o)'
  <2> SUFFICES ASSUME NEW c, NEW o \in Objects, Knows(c, o) PROVE Knows(c, o)'
    OBVIOUS
  <2>1. ASSUME NEW n \in Names, c.status.username = n, OwnedBy(n, o)'
        PROVE  c.status.version <= accounts'[n].password
    <3>1. CASE n = name
      BY <1>4, <2>1, <3>1 DEF OwnedBy, Knows
    <3>2. CASE n # name
      BY <1>4, <2>1, <3>2 DEF OwnedBy, Exists, Knows
    <3> QED BY <3>1, <3>2
  <2> QED BY <1>4, <2>1 DEF Knows
<1>6. frame.secret <= secret[obj].content
  BY <1>1 DEF VersionInv
<1>7. Knows(inst, obj)'
  BY <1>1, <1>3, <1>4, <1>6 DEF Knows, OwnedBy
<1>8. \A o \in Objects : Knows(api[o], o)' /\ Knows(cached[o], o)'
  <2>1. \A o \in Objects : Knows(api[o], o) /\ Knows(cached[o], o)
    BY DEF VersionInv
  <2>2. api' = api /\ cached' = cached
    BY <1>4 DEF store
  <2> QED BY <1>5, <2>1, <2>2 DEF Knows
<1> QED BY <1>4, <1>6, <1>7, <1>8 DEF VersionInv

LEMMA AlterKnows ==
  ASSUME Benign, Identifies, TypeOK, TypeOK', NameInv, MineInv, VersionInv,
         AlterUser, ~GiveUp
  PROVE  VersionInv'
<1>1. obj \in Objects /\ inst \in User /\ name \in Names /\ obj # NoObject
  BY WorkerHolds, ObjectsAssumption DEF AlterUser, NameInv
<1>2. inst.spec.ident = "secret"
  <2>1. inst.spec \in Specs /\ inst.spec \in UserSpec
    BY <1>1, UserParts
  <2> QED BY <2>1 DEF AlterUser, Identifies, UserSpec
<1>3. inst.status \in Status /\ name # Unset
  BY <1>1, UserAssumption, UserParts
<1>4. /\ Exists(name)
      /\ SetAccount(name, [accounts[name] EXCEPT
             !.password = IF PasswordChanged(inst) THEN Password ELSE @,
             !.tls = IF TlsClause(inst) THEN inst.spec.tls ELSE @])
      /\ inst' = [inst EXCEPT !.status =
                      [Identified(inst) EXCEPT !.message = "altered"]]
      /\ frame' = [frame EXCEPT !.changed = TRUE]
      /\ SqlOnly
  BY DEF AlterUser
<1>5. accounts[name] \in Account
  BY <1>1, <1>4 DEF TypeOK, Exists
<1>6. OwnedBy(name, obj)
  BY <1>1, <1>4, MineOwns DEF MineInv, ActInv, AlterUser
<1>7. /\ secret' = secret /\ store' = store /\ obj' = obj
      /\ frame'.secret = frame.secret
      /\ inst'.status.version = frame.secret /\ inst'.status.username = name
  <2>1. frame'.secret = frame.secret
    BY <1>4 DEF TypeOK, Frame
  <2>2. inst'.status.version = frame.secret /\ inst'.status.username = name
    BY <1>1, <1>2, <1>3, <1>4 DEF Identified, User, Status, name
  <2> QED BY <1>4, <2>1, <2>2 DEF SqlOnly, world
<1>8. /\ accounts'[name].creator = obj
      /\ \A n \in Names \ {name} : accounts'[n] = accounts[n]
      /\ \/ accounts'[name].password = secret[obj].content
         \/ /\ accounts'[name].password = accounts[name].password
            /\ inst.status.version = frame.secret
  <2>1. accounts \in [Names -> Account \cup {Absent}]
    BY DEF TypeOK
  <2>2. Password = secret[obj].content
    BY <1>2 DEF Password
  <2>3. PasswordChanged(inst) \/ inst.status.version = frame.secret
    BY <1>2 DEF PasswordChanged
  <2> QED BY <1>1, <1>4, <1>5, <1>6, <2>1, <2>2, <2>3
          DEF SetAccount, Account, OwnedBy
<1>9. \A c, o : o \in Objects /\ Knows(c, o) => Knows(c, o)'
  <2> SUFFICES ASSUME NEW c, NEW o \in Objects, Knows(c, o) PROVE Knows(c, o)'
    OBVIOUS
  <2>1. ASSUME NEW n \in Names, c.status.username = n, OwnedBy(n, o)'
        PROVE  c.status.version <= accounts'[n].password
    <3>1. CASE n = name
      BY <1>6, <1>8, <2>1, <3>1 DEF OwnedBy, Knows
    <3>2. CASE n # name
      BY <1>8, <2>1, <3>2 DEF OwnedBy, Exists, Knows
    <3> QED BY <3>1, <3>2
  <2> QED BY <1>7, <2>1 DEF Knows
<1>10. frame.secret <= secret[obj].content /\ Knows(inst, obj)
  BY <1>1 DEF VersionInv
<1>11. Knows(inst, obj)'
  <2>1. frame.secret <= accounts'[name].password
    BY <1>1, <1>6, <1>8, <1>10 DEF Knows, name
  <2> QED BY <1>3, <1>7, <1>10, <2>1 DEF Knows
<1> QED BY <1>7, <1>9, <1>10, <1>11 DEF VersionInv, store, Knows

\* RENAME USER takes the password along, and no copy has the new name yet.
LEMMA RenameKnows ==
  ASSUME Benign, TypeOK, TypeOK', NameInv, MineInv, VersionInv, RenameUser, ~GiveUp
  PROVE  VersionInv'
<1> DEFINE new == inst.spec.username
<1>1. obj \in Objects /\ inst \in User /\ name \in Names /\ obj # NoObject
      /\ new \in Names /\ new # Unset /\ name # Unset
  BY WorkerHolds, ObjectsAssumption, UserAssumption, StatusTypes
     DEF RenameUser, NameInv
<1>2. /\ OwnedBy(name, obj) /\ ~Exists(new)
      /\ \A n \in Names \ {name, new} : accounts'[n] = accounts[n]
  BY RenameOwners DEF MineInv
<1>3. /\ accounts' = [accounts EXCEPT ![new] = accounts[name], ![name] = Absent]
      /\ inst' = [inst EXCEPT !.status.username = new,
                              !.status.message = "renamed"]
      /\ frame' = [frame EXCEPT !.changed = TRUE]
      /\ SqlOnly
  BY DEF RenameUser
<1>4. name # new
  BY <1>2 DEF OwnedBy
<1>5. /\ accounts'[new] = accounts[name] /\ accounts'[name] = Absent
      /\ secret' = secret /\ store' = store /\ obj' = obj
      /\ frame'.secret = frame.secret
      /\ inst'.status.version = inst.status.version
      /\ inst'.status.username = new
  <2>1. accounts'[new] = accounts[name] /\ accounts'[name] = Absent
    BY <1>1, <1>3, <1>4 DEF TypeOK
  <2>2. frame'.secret = frame.secret
    BY <1>3 DEF TypeOK, Frame
  <2>3. inst'.status.version = inst.status.version /\ inst'.status.username = new
    BY <1>1, <1>3 DEF User, Status
  <2> QED BY <1>3, <2>1, <2>2, <2>3 DEF SqlOnly, world
<1>6. \A n \in Names, o \in Objects :
        OwnedBy(n, o)' => \/ n = new /\ o = obj
                          \/ OwnedBy(n, o) /\ accounts'[n] = accounts[n]
  BY <1>1, <1>2, <1>5 DEF OwnedBy, Exists
<1>7. api[obj].status.username # new /\ cached[obj].status.username # new
  <2>1. pc = "rename"
    BY DEF RenameUser
  <2>2. inst.status.username = name
    BY DEF name
  <2>3. api[obj].status.username # new
    BY <1>1, <1>2, <1>4, <2>1, <2>2
       DEF MineInv, HeldInv, Late, Renamed, JustRenamed, OwnedBy
  <2> QED BY <1>1, <1>4, <2>3 DEF MineInv, HeldInv, Late
<1>8. \A c, o : /\ o \in Objects /\ Knows(c, o)
                /\ o = obj => c.status.username # new
                => Knows(c, o)'
  BY <1>5, <1>6 DEF Knows
<1>9. Knows(inst, obj) /\ frame.secret <= secret[obj].content
  BY <1>1 DEF VersionInv
<1>10. Knows(inst, obj)'
  BY <1>1, <1>2, <1>5, <1>9 DEF Knows, name
<1>11. \A o \in Objects : Knows(api[o], o)' /\ Knows(cached[o], o)'
  BY <1>5, <1>7, <1>8 DEF VersionInv, store, Knows
<1> QED BY <1>5, <1>9, <1>10, <1>11 DEF VersionInv

-----------------------------------------------------------------------------
(* The other steps.                                                        *)

\* Statements that change neither a version nor a password.
LEMMA OtherStatements ==
  ASSUME TypeOK, TypeOK', VersionInv, ~GiveUp,
         \/ Settle \/ NilSecret \/ CheckExists \/ SaveRecord
         \/ CheckMine \/ KeepUser
         \/ CompareGrants \/ RevokeAll \/ ShowGrants
         \/ CheckGrant \/ GrantOne
         \/ \E d \in Databases : LookUp(d) \/ GrantMissing(d)
         \/ CheckFinalize \/ DropUser \/ ForgetRecord
  PROVE  VersionInv'
<1>1. /\ obj \in Objects /\ inst \in User /\ frame \in Frame
      /\ inst.status \in Status
      /\ accounts \in [Names -> Account \cup {Absent}]
  BY WorkerHolds, UserParts
     DEF Settle, NilSecret, CheckExists, SaveRecord, CheckMine, KeepUser,
         CompareGrants, RevokeAll, ShowGrants, CheckGrant, GrantOne, LookUp,
         GrantMissing, CheckFinalize, DropUser, ForgetRecord, TypeOK
<1>2. SqlOnly
  BY DEF Settle, NilSecret, CheckExists, SaveRecord, CheckMine, KeepUser,
         CompareGrants, RevokeAll, ShowGrants, CheckGrant, GrantOne, LookUp,
         GrantMissing, CheckFinalize, DropUser, ForgetRecord
<1>3. frame'.secret = frame.secret
  BY <1>1
     DEF Settle, NilSecret, CheckExists, SaveRecord, CheckMine, KeepUser,
         CompareGrants, RevokeAll, ShowGrants, CheckGrant, GrantOne, LookUp,
         GrantMissing, CheckFinalize, DropUser, ForgetRecord, Frame
<1>4. Alike(inst, inst')
  <2>1. CASE inst' = inst
    BY <2>1 DEF Alike
  <2>2. CASE \E m : SetMessage(m)
    BY <1>1, <2>2 DEF SetMessage, Alike, User, Status
  <2>3. CASE \E g : inst' = [inst EXCEPT !.status.grants = g]
    BY <1>1, <2>3 DEF Alike, User, Status
  <2>4. CASE \E d, g : inst' = [inst EXCEPT !.status.databases = d, !.status.grants = g]
    BY <1>1, <2>4 DEF Alike, User, Status
  <2>5. CASE CheckMine
    BY <2>1, <2>2, <2>5 DEF CheckMine
  <2>6. CASE CompareGrants
    BY <2>3, <2>6 DEF CompareGrants
  <2>7. CASE RevokeAll
    BY <2>4, <2>7 DEF RevokeAll
  <2>8. CASE ShowGrants
    BY <2>1, <2>4, <2>8 DEF ShowGrants
  <2> QED
    BY <2>1, <2>5, <2>6, <2>7, <2>8
       DEF Settle, NilSecret, CheckExists, SaveRecord, KeepUser, CheckGrant,
           GrantOne, LookUp, GrantMissing, CheckFinalize, DropUser, ForgetRecord
<1>5. \A n \in Names, o \in Objects :
        OwnedBy(n, o)' => /\ OwnedBy(n, o)
                          /\ accounts'[n].password = accounts[n].password
  <2>1. CASE UNCHANGED accounts
    BY <2>1 DEF OwnedBy, Exists
  <2>2. CASE DropUser
    BY <1>1, <2>2 DEF DropUser, OwnedBy, Exists
  <2>3. CASE /\ Exists(name)
             /\ \E g : SetAccount(name, [accounts[name] EXCEPT !.grants = g])
    <3>1. PICK g : SetAccount(name, [accounts[name] EXCEPT !.grants = g])
      BY <2>3
    <3>2. CASE name \in Names
      <4>1. accounts[name] \in Account
        BY <1>1, <2>3, <3>2 DEF Exists
      <4>2. /\ accounts'[name].creator = accounts[name].creator
            /\ accounts'[name].password = accounts[name].password
            /\ \A n \in Names \ {name} : accounts'[n] = accounts[n]
        BY <1>1, <3>1, <3>2, <4>1 DEF SetAccount, Account
      <4> QED BY <2>3, <4>2 DEF OwnedBy, Exists
    <3>3. CASE name \notin Names
      BY <1>1, <3>1, <3>3 DEF SetAccount, OwnedBy, Exists
    <3> QED BY <3>2, <3>3
  <2> QED
    <3>1. CASE RevokeAll
      BY <3>1, <2>1, <2>3 DEF RevokeAll
    <3>2. CASE GrantOne
      <4>1. \/ UNCHANGED accounts
            \/ Exists(name) /\ SetAccount(name, [accounts[name] EXCEPT
                                   !.grants = @ \cup frame.granting])
        BY <3>2 DEF GrantOne
      <4> QED BY <4>1, <2>1, <2>3
    <3> QED
      BY <3>1, <3>2, <2>1, <2>2
         DEF Settle, NilSecret, CheckExists, SaveRecord, CheckMine, KeepUser,
             CompareGrants, ShowGrants, LookUp, CheckGrant, GrantMissing,
             CheckFinalize, ForgetRecord, mysql
<1>6. Monotone /\ UNCHANGED <<store, obj>>
  BY <1>2, <1>5, UserAssumption DEF Monotone, SqlOnly, world, TypeOK, Contents
<1> QED BY <1>1, <1>3, <1>4, <1>6, StatementKnows

\* A reconcile that gives up loses what it has learned.
LEMMA GiveUpKnows ==
  ASSUME TypeOK, TypeOK', VersionInv, obj \in Objects, GiveUp,
         UNCHANGED <<secret, accounts>>
  PROVE  VersionInv'
BY DoneKnows, SameMonotone DEF GiveUp

\* The secret is read, or written for the first time.
LEMMA SecretKnows ==
  ASSUME TypeOK, TypeOK', VersionInv, ReadSecret \/ CreateSecret \/ OwnSecret
  PROVE  VersionInv'
<1>1. /\ obj \in Objects /\ inst \in User /\ frame \in Frame
      /\ secret \in [Objects -> [content : Contents, owned : BOOLEAN]]
  BY WorkerHolds DEF ReadSecret, CreateSecret, OwnSecret, TypeOK
<1>2. Alike(inst, inst)
  BY DEF Alike
<1>3. CASE ReadSecret
  <2>1. UNCHANGED <<store, obj, inst, secret, accounts>>
    BY <1>3 DEF ReadSecret, SqlOnly, world, mysql
  <2>2. frame'.secret \in {0, secret[obj].content}
    BY <1>1, <1>3 DEF ReadSecret, Frame
  <2>3. secret[obj].content \in Nat
    BY <1>1, UserAssumption DEF Contents
  <2>4. Alike(inst, inst') /\ frame'.secret <= secret'[obj].content
    BY <1>2, <2>1, <2>2, <2>3
  <2> QED BY <1>1, <2>1, <2>4, SameMonotone, StatementKnows
<1>4. CASE CreateSecret
  <2>1. \/ secret' = secret
        \/ secret' = [secret EXCEPT ![obj].content = 1] /\ secret[obj].content = 0
    BY <1>4 DEF CreateSecret, K8sOnly, world
  <2>2. Monotone
    <3>1. UNCHANGED accounts
      BY <1>4 DEF CreateSecret, K8sOnly, mysql
    <3>2. ASSUME NEW o \in Objects PROVE secret[o].content <= secret'[o].content
      <4>1. secret[o].content \in Nat
        BY <1>1, UserAssumption DEF Contents
      <4>2. CASE secret' = secret
        BY <4>1, <4>2
      <4>3. CASE secret' = [secret EXCEPT ![obj].content = 1] /\ secret[obj].content = 0
        BY <1>1, <4>1, <4>3
      <4> QED BY <2>1, <4>2, <4>3
    <3>3. \A n \in Names : accounts[n] = accounts'[n]
      BY <3>1
    <3> QED BY <3>1, <3>2, <3>3 DEF Monotone, OwnedBy, Exists
  <2>3. CASE \E r : Done(r) /\ UNCHANGED store
    BY <1>1, <2>2, <2>3, DoneKnows
  <2>4. CASE /\ secret' = [secret EXCEPT ![obj].content = 1]
             /\ frame' = [frame EXCEPT !.secret = 1]
             /\ UNCHANGED k8s
    <3>1. UNCHANGED <<store, obj, inst>>
      BY <2>4 DEF k8s, store
    <3>2. frame'.secret = 1 /\ secret'[obj].content = 1
      BY <1>1, <2>4 DEF Frame
    <3>3. Alike(inst, inst') /\ frame'.secret <= secret'[obj].content
      BY <1>2, <3>1, <3>2
    <3> QED BY <1>1, <2>2, <3>1, <3>3, StatementKnows
  <2> QED BY <1>4, <2>3, <2>4 DEF CreateSecret
<1>5. CASE OwnSecret
  <2>1. UNCHANGED <<store, accounts>> /\ Done(TRUE)
    BY <1>5 DEF OwnSecret, mysql
  <2>2. \A o \in Objects : secret'[o].content = secret[o].content
    BY <1>1, <1>5 DEF OwnSecret
  <2>3. Monotone
    BY <1>1, <2>1, <2>2, UserAssumption DEF Monotone, Contents, OwnedBy, Exists
  <2> QED BY <1>1, <2>1, <2>3, DoneKnows
<1> QED BY <1>3, <1>4, <1>5

\* An update that is based on the stored version claims what that claims, or
\* what the worker has learned.
LEMMA UpdateKnows ==
  ASSUME TypeOK, TypeOK', MineInv, VersionInv,
         \/ ClaimName \/ AddFinalizer \/ InvalidName \/ RemoveFinalizer
         \/ SaveReport \/ SaveStatus
  PROVE  VersionInv'
<1>1. /\ obj \in Objects /\ inst \in User /\ api[obj] \in User
      /\ inst.spec.username \in Names /\ inst.status \in Status
      /\ obj # NoObject
  BY WorkerHolds, StatusTypes, UserParts, ObjectsAssumption
     DEF ClaimName, AddFinalizer, InvalidName, RemoveFinalizer, SaveReport,
         SaveStatus
<1>2. Monotone
  BY SameMonotone
     DEF ClaimName, AddFinalizer, InvalidName, RemoveFinalizer, SaveReport,
         SaveStatus, Update, K8sOnly, world, mysql
<1>3. Knows(api[obj], obj) /\ Knows(inst, obj)
  BY <1>1 DEF VersionInv
<1>4. \E r : Done(r)
  BY DEF ClaimName, AddFinalizer, InvalidName, RemoveFinalizer, SaveReport,
         SaveStatus, Update
<1>5. \/ UNCHANGED store
      \/ \E new \in User : Knows(new, obj) /\ (Write(new) \/ WriteStamped(new))
  <2>1. CASE ClaimName
    <3> DEFINE new == [api[obj] EXCEPT !.status.username = inst.spec.username]
    <3>1. UNCHANGED store \/ (fresh /\ Write(new))
      BY <2>1 DEF ClaimName, Update, Accepted
    <3>2. ASSUME fresh PROVE new \in User /\ Knows(new, obj)
      <4>1. api[obj].status.username = Unset
        BY <1>1, <2>1, <3>2 DEF ClaimName, MineInv, HeldInv, JustRenamed, name
      <4>2. new \in User
        BY <1>1, UserParts
      <4>3. new.status.version = 0 /\ new.status.username = inst.spec.username
        BY <1>1, <1>3, <4>1 DEF Knows, User, Status
      <4>4. /\ secret[obj].content \in Nat
            /\ \A n \in Names : Exists(n) => accounts[n].password \in Nat
        BY <1>1, UserAssumption DEF TypeOK, Contents, Account, Exists
      <4> QED BY <4>2, <4>3, <4>4 DEF Knows, OwnedBy
    <3> QED BY <3>1, <3>2
  <2>2. CASE AddFinalizer
    <3>1. \/ UNCHANGED store
          \/ Write([api[obj] EXCEPT !.finalizer = TRUE])
      BY <2>2 DEF AddFinalizer, Update
    <3>2. Alike(api[obj], [api[obj] EXCEPT !.finalizer = TRUE])
      BY <1>1 DEF Alike, User
    <3> QED BY <1>1, <1>3, <3>1, <3>2, UserParts, AlikeKnow
  <2>3. CASE RemoveFinalizer
    <3> DEFINE new == [api[obj] EXCEPT !.finalizer = FALSE, !.phase = "gone"]
    <3>1. UNCHANGED store \/ Write(new)
      BY <2>3 DEF RemoveFinalizer, Update
    <3>2. Alike(api[obj], new) /\ new \in User
      BY <1>1 DEF Alike, User, Phases
    <3> QED BY <1>3, <3>1, <3>2, AlikeKnow
  <2>4. CASE InvalidName \/ SaveReport
    <3>1. \/ UNCHANGED store
          \/ \E m \in Messages : Write([api[obj] EXCEPT !.status.message = m])
      BY <2>4 DEF InvalidName, SaveReport, Update, Messages
    <3>2. \A m \in Messages : Alike(api[obj], [api[obj] EXCEPT !.status.message = m])
      BY <1>1 DEF Alike, User, Status
    <3> QED BY <1>1, <1>3, <3>1, <3>2, UserParts, AlikeKnow
  <2>5. CASE SaveStatus
    <3> DEFINE new == [api[obj] EXCEPT !.status = inst.status]
    <3>1. UNCHANGED store \/ Write(new) \/ WriteStamped(new)
      BY <2>5 DEF SaveStatus
    <3>2. Alike(inst, new) /\ new \in User
      BY <1>1, UserParts DEF Alike, User
    <3> QED BY <1>3, <3>1, <3>2, AlikeKnow
  <2> QED BY <2>1, <2>2, <2>3, <2>4, <2>5
<1> QED BY <1>1, <1>2, <1>4, <1>5, DoneKnows

LEMMA BeginKnows ==
  ASSUME TypeOK, TypeOK', VersionInv, NEW o \in Objects, BeginReconcile(o)
  PROVE  VersionInv'
<1>1. UNCHANGED <<store, secret, accounts, frame>>
  BY DEF BeginReconcile, Skip, FinalizeUnreachable, FinalizeStart, Unreachable,
         Start, Begin, Take, K8sOnly, world, mysql
<1>2. \/ UNCHANGED <<obj, inst>>
      \/ obj' = o /\ inst' = cached[o] /\ frame = NewFrame
  BY DEF BeginReconcile, Skip, FinalizeUnreachable, FinalizeStart, Unreachable,
         Start, Begin, Take, worker, TypeOK
<1>3. secret[o].content \in Nat
  BY UserAssumption DEF TypeOK, Contents
<1>4. \A p \in Objects : Knows(api[p], p)' /\ Knows(cached[p], p)'
  BY <1>1 DEF VersionInv, store, Knows, OwnedBy, Exists
<1>5. CASE UNCHANGED <<obj, inst>>
  BY <1>1, <1>4, <1>5 DEF VersionInv, Knows, OwnedBy, Exists
<1>6. CASE obj' = o /\ inst' = cached[o] /\ frame = NewFrame
  <2>1. Knows(inst, obj)'
    BY <1>1, <1>4, <1>6 DEF store
  <2> QED BY <1>1, <1>3, <1>4, <1>6, <2>1 DEF VersionInv, NewFrame
<1> QED BY <1>2, <1>5, <1>6

LEMMA EnvironmentKnows ==
  ASSUME Benign, TypeOK, TypeOK', VersionInv, Environment
  PROVE  VersionInv'
<1>1. Monotone
  <2>1. secret \in [Objects -> [content : Contents, owned : BOOLEAN]]
    BY DEF TypeOK
  <2>2. CASE \E o \in Objects : SecretWrite(o)
    <3>1. PICK o \in Objects : SecretWrite(o)
      BY <2>2
    <3>2. /\ UNCHANGED accounts
          /\ secret' = [secret EXCEPT ![o].content = @ + 1]
      BY <3>1 DEF SecretWrite, mysql
    <3>3. secret[o].content \in Nat
      BY <2>1, UserAssumption DEF Contents
    <3> QED BY <2>1, <3>2, <3>3, UserAssumption
            DEF Monotone, Contents, OwnedBy, Exists
  <2>3. CASE ~\E o \in Objects : SecretWrite(o)
    <3>1. UNCHANGED <<secret, accounts>>
      BY <2>3, BenignAnswers
         DEF Environment, Crash, Respawn, Restart, Resync, AdminChange,
             UserCreate, UserEdit, UserMove, UserDelete, Watch, DatabaseChange,
             ExternalCreate, ExternalDrop, Still, K8sOnly, world, mysql
    <3> QED BY <3>1, SameMonotone
  <2> QED BY <2>2, <2>3
<1>2. \A o \in Objects : Knows(api'[o], o) /\ Knows(cached'[o], o)
  <2>1. CASE UNCHANGED <<api, cached>>
    BY <2>1 DEF VersionInv
  <2>2. CASE Respawn
    BY <2>2 DEF Respawn, Restart, Relist, VersionInv
  <2>3. CASE \E o \in Objects : Watch(o)
    BY <2>3 DEF Watch, Observe, VersionInv, TypeOK
  <2>4. CASE \E o \in Objects : UserCreate(o) \/ UserEdit(o) \/ UserDelete(o)
    <3>1. PICK o \in Objects : UserCreate(o) \/ UserEdit(o) \/ UserDelete(o)
      BY <2>4
    <3>2. api[o] \in User /\ Knows(api[o], o)
      BY DEF TypeOK, VersionInv
    <3>3. PICK new : Submit(o, new) /\ (Alike(api[o], new) \/ \E s : new = NewObject(s))
      <4>1. CASE UserCreate(o)
        BY <4>1 DEF UserCreate
      <4>2. CASE UserEdit(o)
        BY <3>2, <4>2 DEF UserEdit, Alike, User
      <4>3. CASE UserDelete(o)
        BY <3>2, <4>3 DEF UserDelete, Alike, User
      <4> QED BY <3>1, <4>1, <4>2, <4>3
    <3>4. Knows(new, o)
      <4>1. ASSUME NEW s, new = NewObject(s) PROVE Knows(new, o)
        <5>1. new.status.version = 0 /\ new.status.username = Unset
          BY <4>1 DEF NewObject, NoStatus
        <5>2. secret[o].content \in Nat /\ Unset \notin Names
          BY UserAssumption DEF TypeOK, Contents
        <5> QED BY <5>1, <5>2 DEF Knows
      <4> QED BY <3>2, <3>3, <4>1, AlikeKnow
    <3>5. api' = [api EXCEPT ![o] = new] /\ cached' = cached
      BY <3>3 DEF Submit
    <3> QED BY <3>4, <3>5 DEF VersionInv, TypeOK
  <2> QED
    BY <2>1, <2>2, <2>3, <2>4, BenignAnswers
       DEF Environment, Crash, Resync, AdminChange, SecretWrite, DatabaseChange,
           ExternalCreate, ExternalDrop, Enqueue, store, k8s
<1>3. \A o \in Objects : Knows(api[o], o)' /\ Knows(cached[o], o)'
  <2>1. \A o \in Objects : api'[o] \in User /\ cached'[o] \in User
    BY DEF TypeOK
  <2> QED BY <1>1, <1>2, <2>1, MonotoneKeeps DEF Knows
<1>4. obj' = NoObject \/ UNCHANGED <<obj, inst, frame>>
  BY BenignAnswers
     DEF Environment, Crash, Respawn, Restart, Relist, Resync, AdminChange,
         UserCreate, UserEdit, UserMove, UserDelete, Watch, Observe, Submit,
         SecretWrite, DatabaseChange, ExternalCreate, ExternalDrop, Enqueue,
         Still, store, worker, k8s
<1>5. CASE obj' # NoObject
  <2>1. obj \in Objects /\ inst \in User /\ inst' = inst
        /\ obj' = obj /\ frame' = frame
    BY <1>4, <1>5 DEF TypeOK
  <2>2. Knows(inst, obj) /\ frame.secret <= secret[obj].content
    BY <1>4, <1>5 DEF VersionInv
  <2>3. Knows(inst, obj)'
    BY <1>1, <2>1, <2>2, MonotoneKeeps DEF Knows
  <2>4. /\ frame.secret \in Nat /\ secret[obj].content \in Nat
        /\ secret'[obj].content \in Nat
    BY <2>1, UserAssumption DEF TypeOK, Frame, Contents
  <2>5. (frame.secret <= secret[obj].content)'
    BY <1>1, <2>1, <2>2, <2>4 DEF Monotone
  <2> QED BY <1>3, <2>3, <2>5 DEF VersionInv
<1> QED BY <1>3, <1>5 DEF VersionInv

\* A stored status claims a version of the secret only if the account that it
\* names has got it: through rotations, renames, edits, late caches and lost
\* updates of the status (userDetailString).
THEOREM VersionsReached == Benign /\ Identifies => (Spec => []VersionApplied)
<1> SUFFICES ASSUME Benign, Identifies PROVE Spec => []VersionApplied
  OBVIOUS
<1>1. Init => VersionInv
  <2> SUFFICES ASSUME Init PROVE VersionInv
    OBVIOUS
  <2>1. PICK s \in Specs : K8sInit([o \in Objects |-> NeverCreated(s)])
    BY DEF Init
  <2>2. \A o \in Objects : /\ api[o].status = NoStatus /\ cached[o] = api[o]
                           /\ secret[o].content = 0
    BY <2>1 DEF Init, K8sInit, NeverCreated, NewObject
  <2> QED BY <2>1, <2>2, UserAssumption DEF VersionInv, Knows, NoStatus, K8sInit
<1>2. /\ TypeOK /\ TypeOK' /\ NameInv /\ MineInv /\ VersionInv /\ [Next]_vars
      => VersionInv'
  <2> SUFFICES ASSUME TypeOK, TypeOK', NameInv, MineInv, VersionInv, [Next]_vars
               PROVE  VersionInv'
    OBVIOUS
  <2>1. CASE GiveUp /\ UNCHANGED <<secret, accounts>> /\ pc # "idle"
    BY <2>1, WorkerHolds, GiveUpKnows
  <2>2. CASE \/ Settle \/ NilSecret \/ CheckExists \/ SaveRecord
             \/ CheckMine \/ KeepUser
             \/ CompareGrants \/ RevokeAll \/ ShowGrants
             \/ CheckGrant \/ GrantOne
             \/ \E d \in Databases : LookUp(d) \/ GrantMissing(d)
             \/ CheckFinalize \/ DropUser \/ ForgetRecord
    <3>1. CASE ~GiveUp
      BY <2>2, <3>1, OtherStatements
    <3>2. CASE GiveUp
      <4>1. pc' = "idle"
        BY <3>2 DEF GiveUp, Done, Goto
      <4>2. UNCHANGED <<secret, accounts>> /\ pc # "idle"
        BY <2>2, <4>1, BenignAnswers
           DEF Settle, NilSecret, CheckExists, SaveRecord, CheckMine, KeepUser,
               CompareGrants, RevokeAll, ShowGrants, CheckGrant, GrantOne,
               LookUp, GrantMissing, CheckFinalize, DropUser, ForgetRecord,
               Goto, SqlOnly, world, mysql
      <4> QED BY <2>1, <3>2, <4>2
    <3> QED BY <3>1, <3>2
  <2>3. CASE CreateUser
    BY <2>3, CreateKnows
  <2>4. CASE RenameUser \/ AlterUser
    <3>1. CASE GiveUp
      <4>1. pc' = "idle" /\ pc # "idle"
        BY <2>4, <3>1 DEF GiveUp, Done, Goto, RenameUser, AlterUser
      <4>2. UNCHANGED <<secret, accounts>>
        BY <2>4, <4>1 DEF RenameUser, AlterUser, Goto, world
      <4> QED BY <2>1, <3>1, <4>1, <4>2
    <3> QED BY <2>4, <3>1, RenameKnows, AlterKnows
  <2>5. CASE ReadSecret \/ CreateSecret \/ OwnSecret
    BY <2>5, SecretKnows
  <2>6. CASE \/ ClaimName \/ AddFinalizer \/ InvalidName \/ RemoveFinalizer
             \/ SaveReport \/ SaveStatus
    BY <2>6, UpdateKnows
  <2>7. CASE \E o \in Objects : BeginReconcile(o)
    BY <2>7, BeginKnows
  <2>8. CASE Environment
    BY <2>8, EnvironmentKnows
  <2>9. CASE UNCHANGED vars
    BY <2>9 DEF vars, k8s, world, mysql, VersionInv, Knows, OwnedBy, Exists
  <2> QED BY <2>2, <2>3, <2>4, <2>5, <2>6, <2>7, <2>8, <2>9
          DEF Next, Operator, Progress
<1>3. TypeOK /\ VersionInv => VersionApplied
  BY DEF VersionInv, VersionApplied, Knows
<1>4. Spec => [](TypeOK /\ NameInv)
  <2>1. Init => NameInv
    BY DEF Init, NameInv
  <2>2. TypeOK /\ TypeOK' /\ NameInv /\ [Next]_vars => NameInv'
    BY NameStep
  <2> QED BY <2>1, <2>2, TypeCorrect, PTL DEF Spec
<1> QED BY <1>1, <1>2, <1>3, <1>4, RowsCorrect, PTL DEF Spec
=============================================================================
