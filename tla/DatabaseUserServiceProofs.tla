--------------------- MODULE DatabaseUserServiceProofs ---------------------
(***************************************************************************)
(* Proof that the DatabaseUser controller misses no event: while users     *)
(* leave the names alone, every object whose reconciles have come to rest  *)
(* has its account with the latest password and no more privileges than it *)
(* lists, for any number of objects, names, Databases and rotations, and   *)
(* whatever updates the API server refuses and DROPs fail.  No object is   *)
(* moved to another server (Gentle).                                       *)
(***************************************************************************)
EXTENDS DatabaseUserOwnershipProofs

-----------------------------------------------------------------------------
(* Names that users leave alone.                                           *)

\* The faults after which the next event still finds everything out, and users
\* who leave every account on its server.
Gentle == Faults \subseteq {"update", "drop"} /\ Moves = {}

\* No user renames an account, nor asks for one that another object asks for.
Undisputed ==
  \A o, p \in Objects :
    o # p /\ Present(o) /\ Present(p) => api[o].spec.username # api[p].spec.username

Undisturbed == [][KeepsName]_vars /\ []Undisputed

\* These are among the faults under which the rows stay true.
LEMMA GentleIsBenign == Gentle => Benign /\ "offline" \notin Faults
BY DEF Gentle, Benign

-----------------------------------------------------------------------------
(* Accounts of objects that keep their names.                              *)

\* Nobody else has the name of an object that claimed it.
ClaimInv ==
  \A o \in Objects, n \in Names :
    Present(o) /\ api[o].status.username = n /\ Exists(n) => OwnedBy(n, o)

\* What is known of the account while statements are run for it.
FoundInv ==
  pc \in {"mine", "details", "permissions", "revoke"} => OwnedBy(name, obj)

AccountInv == TidyInv /\ ClaimInv /\ FoundInv

\* A row is true of its account.
LEMMA RowsOwn ==
  ASSUME TypeOK, RowInv, TidyInv, NEW o \in Objects, NEW n \in ledger[o],
         ~(obj = o /\ pc \in {"record", "forget"})
  PROVE  OwnedBy(n, o)
<1>1. n \in Names
  BY DEF TypeOK
<1>2. n = api[o].spec.username
  BY DEF TidyInv
<1>3. ~Blocked(o, n)
  BY <1>2 DEF Blocked, TidyInv, Kept
<1> QED BY <1>1, <1>3 DEF RowInv

\* A name is claimed when it is free or the object's, and while nobody else
\* asks for it, nobody else's CREATE USER makes it (UserMine, userCreate).
LEMMA ClaimStep ==
  ASSUME Benign, TypeOK, NameInv, FinalizerInv, MineInv, OneNameInv, AccountInv,
         [Next]_vars, KeepsName, Undisputed
  PROVE  ClaimInv'
<1>1. VersionsFollow
  BY StoreStep
<1>2. ASSUME NEW o \in Objects, Present(o)', NEW n \in Names,
             api'[o].status.username = n, Exists(n)
      PROVE  OwnedBy(n, o)
  <2>1. Present(o) /\ n # Unset
    <3>1. n # Unset
      BY UserAssumption
    <3>2. api[o].phase # "absent"
      BY <1>1, <1>2, <3>1 DEF VersionsFollow, MineInv, CopyInv
    <3>3. api[o] \in User
      BY DEF TypeOK
    <3> QED BY <1>1, <1>2, <3>1, <3>2, <3>3
            DEF VersionsFollow, Evolves, Present, User, Phases
  <2>2. CASE api'[o].status.username = api[o].status.username
    BY <1>2, <2>1, <2>2 DEF AccountInv, ClaimInv
  <2>3. CASE Claims(o)
    <3>1. /\ o = obj /\ obj # NoObject /\ pc = "claim" /\ UserMine(inst)
          /\ n = api[o].spec.username
      BY <1>2, <2>3, ObjectsAssumption DEF Claims
    <3>2. n \in NamesOf(inst)
      BY <3>1 DEF OneNameInv, NamesOf
    <3>3. n \in ledger[o]
      BY <1>2, <3>1, <3>2 DEF UserMine
    <3> QED BY <3>1, <3>3, RowsOwn, UserAssumption DEF MineInv, AccountInv
  <2> QED BY <1>1, <2>2, <2>3 DEF VersionsFollow
<1>3. CASE SameOwners
  <2>1. \A n \in Names : \A o \in Objects : OwnedBy(n, o)' <=> OwnedBy(n, o)
    BY <1>3, OwnersStay
  <2> QED BY <1>2, <1>3, <2>1 DEF ClaimInv, SameOwners
<1>4. CASE CreateUser
  <2>1. PICK m \in Names :
          /\ OwnedBy(m, obj)' /\ m = api[obj].spec.username
          /\ \A n \in Names \ {m} : accounts'[n] = accounts[n]
    <3>1. name \in Names /\ name = api[obj].spec.username
      BY <1>4, OneName DEF CreateUser, Claimed
    <3>2. /\ OwnedBy(name, obj)' /\ name' = name
          /\ \A n \in Names \ {name} : accounts'[n] = accounts[n]
      BY <1>4, CreateOwners DEF MineInv
    <3> QED BY <3>1, <3>2
  <2>2. obj \in Objects /\ Present(obj)
    BY <1>4, OneName, Branches DEF CreateUser, Claimed
  <2>3. UNCHANGED <<api, obj>>
    <3>1. SqlOnly
      BY <1>4, CreateOwners DEF MineInv
    <3> QED BY <3>1 DEF SqlOnly, store
  <2>4. \A n \in Names, o \in Objects : n # m =>
          (OwnedBy(n, o)' <=> OwnedBy(n, o)) /\ (Exists(n)' <=> Exists(n))
    BY <2>1 DEF OwnedBy, Exists
  <2>5. ASSUME NEW o \in Objects, NEW n \in Names, Present(o),
               api[o].status.username = n, Exists(n)'
        PROVE  OwnedBy(n, o)'
    <3>1. CASE n = m /\ o = obj
      BY <2>1, <2>3, <3>1
    <3>2. CASE n = m /\ o # obj
      <4>1. api[o].spec.username = m
        BY <2>5, <3>2, UserAssumption DEF OneNameInv
      <4> QED BY <2>1, <2>2, <2>5, <3>2, <4>1 DEF Undisputed
    <3>3. CASE n # m
      BY <2>4, <2>5, <3>3 DEF AccountInv, ClaimInv
    <3> QED BY <3>1, <3>2, <3>3
  <2>6. \A o \in Objects : Present(o)' <=> Present(o)
    BY <2>3 DEF Present
  <2> QED BY <2>3, <2>5, <2>6 DEF ClaimInv
<1>5. CASE DropUser
  <2>1. \A n \in Names : accounts'[n] = accounts[n] \/ accounts'[n] = Absent
    BY <1>5 DEF DropUser, TypeOK
  <2>2. \A n \in Names, o \in Objects :
          Exists(n)' => Exists(n) /\ (OwnedBy(n, o) => OwnedBy(n, o)')
    BY <2>1 DEF OwnedBy, Exists
  <2> QED BY <1>2, <2>2 DEF ClaimInv
<1>6. CASE SaveRecord \/ ForgetRecord
  BY <1>3, <1>6 DEF SaveRecord, ForgetRecord, SameOwners, Exists
<1> QED BY <1>3, <1>4, <1>5, <1>6, RowStep DEF OneNameInv

\* What UserMine found is still true when the statement runs: nobody but the
\* creator's reconcile touches the account (userUpdate).
LEMMA FoundStays ==
  ASSUME Benign, TypeOK, TypeOK', NameInv, FinalizerInv, MineInv, OneNameInv,
         AccountInv, [Next]_vars
  PROVE  FoundInv'
<1>1. ASSUME pc' \in {"mine", "details", "permissions", "revoke"}
      PROVE  OwnedBy(name, obj)'
  <2>1. /\ \/ CheckExists /\ Exists(name)
           \/ pc \in {"mine", "details", "permissions", "revoke"}
        /\ Claimed
    BY <1>1, FoundStep DEF CheckExists, Claimed
  <2>2. PICK m \in Names, o \in Objects : m = name /\ o = obj
    BY <2>1, OneName
  <2>3. OwnedBy(m, o)
    <3>1. CASE CheckExists
      <4>1. Present(o) /\ api[o].status.username = m /\ Exists(m)
        BY <2>1, <2>2, <3>1, OneName, Branches DEF CheckExists
      <4> QED BY <2>2, <4>1 DEF AccountInv, ClaimInv
    <3>2. CASE ~CheckExists
      BY <2>1, <2>2, <3>2 DEF AccountInv, FoundInv
    <3> QED BY <3>1, <3>2
  <2>4. SameOwners
    BY <2>1, RowStep DEF OneNameInv, CheckExists, CreateUser, DropUser,
                         SaveRecord, ForgetRecord
  <2>5. OwnedBy(m, o)'
    BY <2>3, <2>4, OwnersStay
  <2>6. name' = m /\ obj' = o
    BY <1>1, <2>2, CopyStep DEF OneNameInv, TypeOK
  <2> QED BY <2>5, <2>6 DEF OwnedBy, Exists
<1> QED BY <1>1 DEF FoundInv

\* Both together.
LEMMA AccountStep ==
  ASSUME Benign, TypeOK, TypeOK', NameInv, FinalizerInv, FinalizerInv', MineInv,
         OneNameInv, AccountInv, Rooted, [Next]_vars, KeepsName, Undisputed
  PROVE  AccountInv'
BY TidyStep, ClaimStep, FoundStays DEF AccountInv

-----------------------------------------------------------------------------
(* What the statements do to the account and to the worker's copy.         *)

\* CREATE USER gives the account the password that the secret has now, and the
\* copy the version that ReadSecret saw (userCreate).
LEMMA CreateEffect ==
  ASSUME Benign, TypeOK, NameInv, MineInv, CreateUser
  PROVE  /\ obj \in Objects /\ inst \in User /\ frame \in Frame /\ name \in Names
         /\ SqlOnly /\ pc' = "grant" /\ ~Exists(name)
         /\ accounts'[name].password = Password /\ accounts'[name].grants = {}
         /\ \A n \in Names \ {name} : accounts'[n] = accounts[n]
         /\ inst'.status.version =
              IF inst.spec.ident = "secret" THEN frame.secret ELSE inst.status.version
         /\ inst'.status.grants = {}
         /\ frame'.secret = frame.secret /\ frame'.todo = inst.spec.databases
<1>1. /\ obj \in Objects /\ inst \in User /\ inst.status \in Status
      /\ frame \in Frame /\ name \in Names
  BY WorkerHolds, UserParts DEF CreateUser, NameInv, TypeOK
<1>2. ~Exists(name) /\ FALSE \notin Succeeds
  BY BenignAnswers DEF CreateUser, MineInv, ActInv
<1>3. /\ SetAccount(name, [creator |-> obj, password |-> Password,
                           tls |-> TlsClause(inst) /\ inst.spec.tls, grants |-> {}])
      /\ SqlOnly /\ pc' = "grant"
      /\ inst' = [inst EXCEPT !.status = [Identified(inst) EXCEPT
                    !.grants = {}, !.message = "created"]]
      /\ frame' = [frame EXCEPT !.todo = inst.spec.databases,
                                !.creating = TRUE, !.changed = TRUE]
  BY <1>2 DEF CreateUser, Goto
<1>4. accounts \in [Names -> Account \cup {Absent}]
  BY DEF TypeOK
<1>5. /\ accounts'[name].password = Password /\ accounts'[name].grants = {}
      /\ \A n \in Names \ {name} : accounts'[n] = accounts[n]
  BY <1>1, <1>3, <1>4 DEF SetAccount
<1>6. frame'.secret = frame.secret /\ frame'.todo = inst.spec.databases
  BY <1>1, <1>3 DEF Frame
<1>7. Identified(inst) \in Status
  BY <1>1, StatusTypes
<1>8. inst'.status = [Identified(inst) EXCEPT !.grants = {}, !.message = "created"]
  BY <1>1, <1>3 DEF User
<1>9. /\ inst'.status.version = Identified(inst).version
      /\ inst'.status.grants = {}
  BY <1>7, <1>8 DEF Status
<1>10. Identified(inst).version =
         IF inst.spec.ident = "secret" THEN frame.secret ELSE inst.status.version
  BY <1>1 DEF Identified, Status
<1> QED BY <1>1, <1>2, <1>3, <1>5, <1>6, <1>9, <1>10

\* ALTER USER sets the password only when the stored version is not the one
\* that ReadSecret saw, and leaves the privileges (userUpdate).
LEMMA AlterEffect ==
  ASSUME TypeOK, NameInv, AlterUser, Exists(name), FALSE \notin Succeeds
  PROVE  /\ obj \in Objects /\ inst \in User /\ frame \in Frame /\ name \in Names
         /\ SqlOnly /\ pc = "details" /\ pc' = "status" /\ inst.spec.ident = "secret"
         /\ accounts'[name].creator = accounts[name].creator
         /\ accounts'[name].grants = accounts[name].grants
         /\ accounts'[name].password = IF inst.status.version # frame.secret
                                       THEN secret[obj].content
                                       ELSE accounts[name].password
         /\ accounts'[name] # Absent
         /\ \A n \in Names \ {name} : accounts'[n] = accounts[n]
         /\ inst'.status.version = frame.secret
         /\ inst'.status.tls = inst.spec.tls
         /\ inst'.status.grants = inst.status.grants
         /\ inst'.status.databases = inst.status.databases
         /\ inst.status.version # frame.secret \/ inst.status.tls # inst.spec.tls
         /\ frame'.secret = frame.secret
         /\ inst'.spec = inst.spec /\ name' = name
<1>1. /\ obj \in Objects /\ inst \in User /\ inst.status \in Status
      /\ frame \in Frame /\ name \in Names /\ accounts[name] \in Account
  BY WorkerHolds, UserParts DEF AlterUser, NameInv, TypeOK, Exists
<1>2. /\ inst.spec.ident = "secret" /\ pc = "details"
      /\ inst.status.version # frame.secret \/ inst.status.tls # inst.spec.tls
  BY DEF AlterUser, DetailsDiffer, PasswordChanged, TlsClause
<1>3. /\ SetAccount(name, [accounts[name] EXCEPT
             !.password = IF PasswordChanged(inst) THEN Password ELSE @,
             !.tls = IF TlsClause(inst) THEN inst.spec.tls ELSE @])
      /\ inst' = [inst EXCEPT !.status =
                      [Identified(inst) EXCEPT !.message = "altered"]]
      /\ frame' = [frame EXCEPT !.changed = TRUE]
      /\ pc' = "status" /\ SqlOnly
  BY <1>2 DEF AlterUser, Goto
<1>4. accounts \in [Names -> Account \cup {Absent}]
  BY DEF TypeOK
<1>5. Password = secret[obj].content
      /\ (PasswordChanged(inst) <=> inst.status.version # frame.secret)
  BY <1>2 DEF Password, PasswordChanged
<1> DEFINE a == [accounts[name] EXCEPT
             !.password = IF PasswordChanged(inst) THEN Password ELSE @,
             !.tls = IF TlsClause(inst) THEN inst.spec.tls ELSE @]
<1>6. \A n \in Names : accounts'[n] = IF n = name THEN a ELSE accounts[n]
  BY <1>1, <1>3, <1>4 DEF SetAccount
<1>7. /\ a.creator = accounts[name].creator /\ a.grants = accounts[name].grants
      /\ a.password = IF inst.status.version # frame.secret
                      THEN secret[obj].content ELSE accounts[name].password
  BY <1>1, <1>5 DEF Account
<1>8. a # Absent
  <2>1. Password \in Contents /\ inst.spec.tls \in BOOLEAN
    BY <1>1, StatusTypes
  <2>2. a \in Account
    BY <1>1, <2>1 DEF Account
  <2> QED BY <2>2, UserAssumption
<1> HIDE DEF a
<1>9. frame'.secret = frame.secret
  BY <1>1, <1>3 DEF Frame
<1>10. /\ inst'.status.version = frame.secret /\ inst'.status.tls = inst.spec.tls
       /\ inst'.status.grants = inst.status.grants
       /\ inst'.status.databases = inst.status.databases
       /\ inst'.spec = inst.spec /\ name' = name
  BY <1>1, <1>2, <1>3 DEF Identified, User, Status, name
<1> QED BY <1>1, <1>2, <1>3, <1>6, <1>7, <1>8, <1>9, <1>10

\* REVOKE ALL leaves the password, and the copy without lines (revoke).
LEMMA RevokeEffect ==
  ASSUME Benign, TypeOK, NameInv, RevokeAll, Exists(name)
  PROVE  /\ obj \in Objects /\ inst \in User /\ name \in Names
         /\ SqlOnly /\ pc = "revoke" /\ pc' = "grant" /\ frame' = frame
         /\ accounts'[name].creator = accounts[name].creator
         /\ accounts'[name].password = accounts[name].password
         /\ accounts'[name].grants = {} /\ accounts'[name] # Absent
         /\ \A n \in Names \ {name} : accounts'[n] = accounts[n]
         /\ inst'.status.version = inst.status.version
         /\ inst'.status.grants = {} /\ inst'.spec = inst.spec /\ name' = name
<1>1. /\ obj \in Objects /\ inst \in User /\ inst.status \in Status
      /\ name \in Names /\ accounts[name] \in Account
  BY WorkerHolds, UserParts DEF RevokeAll, NameInv, TypeOK, Exists
<1>2. FALSE \notin Succeeds /\ "read" \notin Faults
  BY BenignAnswers
<1>3. /\ SetAccount(name, [accounts[name] EXCEPT !.grants = {}])
      /\ inst' = [inst EXCEPT !.status.databases = {}, !.status.grants = {}]
      /\ pc = "revoke" /\ pc' = "grant" /\ frame' = frame /\ SqlOnly
  BY <1>2 DEF RevokeAll, Goto
<1> DEFINE a == [accounts[name] EXCEPT !.grants = {}]
<1>4. \A n \in Names : accounts'[n] = IF n = name THEN a ELSE accounts[n]
  BY <1>3 DEF SetAccount, TypeOK
<1>5. /\ a.creator = accounts[name].creator /\ a.password = accounts[name].password
      /\ a.grants = {} /\ a \in Account
  BY <1>1 DEF Account
<1>6. a # Absent
  BY <1>5, UserAssumption
<1> HIDE DEF a
<1>7. /\ inst'.status.version = inst.status.version /\ inst'.status.grants = {}
      /\ inst'.spec = inst.spec /\ name' = name
  BY <1>1, <1>3 DEF User, Status, name
<1> QED BY <1>1, <1>3, <1>4, <1>5, <1>6, <1>7

\* A GRANT adds the Database that was looked up, and no report (grant).
LEMMA GrantEffect ==
  ASSUME TypeOK, NameInv, Exists(name), GrantOne
  PROVE  /\ obj \in Objects /\ inst \in User /\ name \in Names
         /\ SqlOnly /\ pc = "grantOne" /\ pc' = "grant" /\ UNCHANGED inst
         /\ accounts'[name].creator = accounts[name].creator
         /\ accounts'[name].password = accounts[name].password
         /\ accounts'[name].grants \subseteq accounts[name].grants \cup frame.granting
         /\ accounts'[name] # Absent
         /\ \A n \in Names \ {name} : accounts'[n] = accounts[n]
         /\ frame'.secret = frame.secret /\ frame'.todo = frame.todo
<1>1. /\ obj \in Objects /\ inst \in User /\ frame \in Frame
      /\ name \in Names /\ accounts[name] \in Account
  BY WorkerHolds DEF GrantOne, NameInv, TypeOK, Exists
<1>2. SqlOnly /\ pc = "grantOne" /\ pc' = "grant" /\ UNCHANGED inst
      /\ frame' = [frame EXCEPT !.granting = {}]
  BY DEF GrantOne, Goto
<1> DEFINE a == [accounts[name] EXCEPT !.grants = accounts[name].grants \cup frame.granting]
<1>3. UNCHANGED accounts \/ SetAccount(name, a)
  BY DEF GrantOne
<1>4. \A n \in Names :
        accounts'[n] = accounts[n] \/ (n = name /\ accounts'[n] = a)
  BY <1>1, <1>3 DEF SetAccount, TypeOK
<1>5. /\ a.creator = accounts[name].creator /\ a.password = accounts[name].password
      /\ a.grants = accounts[name].grants \cup frame.granting /\ a \in Account
  BY <1>1 DEF Account, Frame
<1>6. a # Absent /\ accounts[name] # Absent
  BY <1>1, <1>5, UserAssumption
<1> HIDE DEF a
<1>7. frame'.secret = frame.secret /\ frame'.todo = frame.todo
  BY <1>1, <1>2 DEF Frame
<1> QED BY <1>1, <1>2, <1>4, <1>5, <1>6, <1>7

\* What a copy reports of the account.
SameReport(c, d) == /\ c.status.version = d.status.version
                    /\ c.status.grants = d.status.grants
                    /\ c.status.databases = d.status.databases

\* Who writes that into a stored version, and into the worker's copy.
LEMMA StoredReport ==
  ASSUME Benign, TypeOK, [Next]_vars
  PROVE  \A o \in Objects :
           \/ SameReport(api'[o], api[o])
           \/ o = obj /\ pc = "status" /\ api'[o].status = inst.status
           \/ api[o].phase = "absent" /\ api'[o].status = NoStatus
<1> DEFINE Good ==
      \A o \in Objects :
           \/ SameReport(api'[o], api[o])
           \/ o = obj /\ pc = "status" /\ api'[o].status = inst.status
           \/ api[o].phase = "absent" /\ api'[o].status = NoStatus
<1>1. CASE UNCHANGED api
  BY <1>1 DEF SameReport
<1>2. CASE \/ ClaimName \/ AddFinalizer \/ InvalidName \/ RemoveFinalizer
           \/ SaveReport \/ SaveStatus
  <2>1. obj \in Objects /\ api[obj] \in User /\ api[obj].status \in Status
    BY <1>2, WorkerHolds, UserParts
       DEF ClaimName, AddFinalizer, InvalidName, RemoveFinalizer, SaveReport,
           SaveStatus
  <2>2. ASSUME NEW new, Write(new) \/ WriteStamped(new),
               SameReport(new, api[obj]) \/ (pc = "status" /\ new.status = inst.status)
        PROVE  Good
    <3>1. \A o \in Objects : api'[o] = IF o = obj THEN new ELSE api[o]
      BY <2>2 DEF Write, WriteStamped, TypeOK
    <3> QED BY <2>2, <3>1 DEF SameReport
  <2>3. CASE ClaimName
    <3>1. UNCHANGED store
          \/ Write([api[obj] EXCEPT !.status.username = inst.spec.username])
      BY <2>3 DEF ClaimName, Update
    <3>2. SameReport([api[obj] EXCEPT !.status.username = inst.spec.username], api[obj])
      BY <2>1 DEF SameReport, User, Status
    <3> QED BY <1>1, <2>2, <3>1, <3>2 DEF store
  <2>4. CASE AddFinalizer
    <3>1. UNCHANGED store \/ Write([api[obj] EXCEPT !.finalizer = TRUE])
      BY <2>4 DEF AddFinalizer, Update
    <3>2. SameReport([api[obj] EXCEPT !.finalizer = TRUE], api[obj])
      BY <2>1 DEF SameReport, User
    <3> QED BY <1>1, <2>2, <3>1, <3>2 DEF store
  <2>5. CASE RemoveFinalizer
    <3>1. UNCHANGED store
          \/ Write([api[obj] EXCEPT !.finalizer = FALSE, !.phase = "gone"])
      BY <2>5 DEF RemoveFinalizer, Update
    <3>2. SameReport([api[obj] EXCEPT !.finalizer = FALSE, !.phase = "gone"], api[obj])
      BY <2>1 DEF SameReport, User
    <3> QED BY <1>1, <2>2, <3>1, <3>2 DEF store
  <2>6. CASE InvalidName \/ SaveReport
    <3>1. \/ UNCHANGED store
          \/ \E m : Write([api[obj] EXCEPT !.status.message = m])
      BY <2>6 DEF InvalidName, SaveReport, Update
    <3>2. \A m : SameReport([api[obj] EXCEPT !.status.message = m], api[obj])
      BY <2>1 DEF SameReport, User, Status
    <3> QED BY <1>1, <2>2, <3>1, <3>2 DEF store
  <2>7. CASE SaveStatus
    <3> DEFINE new == [api[obj] EXCEPT !.status = inst.status]
    <3>1. UNCHANGED store \/ Write(new) \/ WriteStamped(new)
      BY <2>7 DEF SaveStatus
    <3>2. pc = "status" /\ new.status = inst.status
      BY <2>1, <2>7 DEF SaveStatus, User
    <3> QED BY <1>1, <2>2, <3>1, <3>2 DEF store
  <2> QED BY <1>2, <2>3, <2>4, <2>5, <2>6, <2>7
<1>3. CASE \E o \in Objects : UserCreate(o) \/ UserEdit(o) \/ UserDelete(o)
  <2>1. PICK o \in Objects : UserCreate(o) \/ UserEdit(o) \/ UserDelete(o)
    BY <1>3
  <2>2. api[o] \in User
    BY DEF TypeOK
  <2>3. PICK new : /\ Submit(o, new)
                   /\ \/ SameReport(new, api[o])
                      \/ api[o].phase = "absent" /\ new.status = NoStatus
    <3>1. CASE UserCreate(o)
      BY <3>1 DEF UserCreate, NewObject
    <3>2. CASE UserEdit(o)
      BY <2>2, <3>2 DEF UserEdit, User, SameReport
    <3>3. CASE UserDelete(o)
      BY <2>2, <3>3 DEF UserDelete, User, SameReport
    <3> QED BY <2>1, <3>1, <3>2, <3>3
  <2>4. \A p \in Objects : api'[p] = IF p = o THEN new ELSE api[p]
    BY <2>3 DEF Submit, TypeOK
  <2> QED BY <2>3, <2>4 DEF SameReport
<1>4. CASE Progress
  BY <1>1, <1>2, <1>4
     DEF Progress, ReadSecret, CreateSecret, OwnSecret, Settle, NilSecret,
         CheckExists, CreateUser, SaveRecord, CheckMine, RenameUser, AlterUser,
         KeepUser, CompareGrants, RevokeAll, ShowGrants, LookUp, CheckGrant,
         GrantOne, GrantMissing, CheckFinalize, DropUser, ForgetRecord, SqlOnly,
         GiveUp, store, k8s
<1>5. CASE \E o \in Objects : BeginReconcile(o)
  BY <1>1, <1>5
     DEF BeginReconcile, Skip, FinalizeUnreachable, FinalizeStart, Unreachable,
         Start, Begin, Take, store
<1>6. CASE Environment
  BY <1>1, <1>3, <1>6, BenignAnswers
     DEF Environment, Crash, Respawn, Restart, Relist, Resync, AdminChange,
         Watch, Observe, SecretWrite, DatabaseChange, ExternalCreate,
         ExternalDrop, Enqueue, store, k8s
<1>7. CASE UNCHANGED vars
  BY <1>1, <1>7 DEF vars, k8s
<1> QED BY <1>4, <1>5, <1>6, <1>7 DEF Next, Operator

\* Who changes what the copy reports: the statements that make, alter, show or
\* revoke, and a reconcile that starts with the cached version.
LEMMA CopyReport ==
  ASSUME Benign, TypeOK, pc # "rename", [Next]_vars, obj' # NoObject
  PROVE  \/ obj' = obj /\ obj \in Objects /\ SameReport(inst', inst)
         \/ obj' \in Objects /\ inst' = cached[obj'] /\ pc' # "revoke" /\ pc' # "grant"
         \/ CreateUser \/ AlterUser \/ CompareGrants \/ RevokeAll \/ ShowGrants
<1>1. ASSUME NEW r, Done(r) PROVE FALSE
  BY <1>1 DEF Done, Return
<1>2. CASE obj \in Objects /\ inst' = inst /\ obj' = obj
  BY <1>2 DEF SameReport
<1>3. CASE Progress
  <2>1. pc # "idle"
    BY <1>3
       DEF Progress, ReadSecret, CreateSecret, ClaimName, OwnSecret,
           AddFinalizer, Settle, InvalidName, SaveReport, SaveStatus, NilSecret,
           CheckExists, CreateUser, SaveRecord, CheckMine, RenameUser,
           AlterUser, KeepUser, CompareGrants, RevokeAll, ShowGrants, LookUp,
           CheckGrant, GrantOne, GrantMissing, CheckFinalize, DropUser,
           ForgetRecord, RemoveFinalizer
  <2>2. obj \in Objects /\ inst \in User /\ inst.status \in Status
    BY <2>1, WorkerHolds, UserParts
  <2>3. CASE CheckMine
    <3>1. obj' = obj
      BY <2>3 DEF CheckMine, SqlOnly
    <3>2. inst' = inst \/ \E m : SetMessage(m)
      BY <2>3 DEF CheckMine
    <3>3. SameReport(inst', inst)
      BY <2>2, <3>2 DEF SetMessage, SameReport, User, Status
    <3> QED BY <2>2, <3>1, <3>3
  <2>4. CASE \/ ClaimName \/ OwnSecret \/ AddFinalizer \/ InvalidName
             \/ SaveReport \/ SaveStatus \/ RemoveFinalizer \/ RenameUser
    BY <1>1, <2>4
       DEF ClaimName, OwnSecret, AddFinalizer, InvalidName, SaveReport,
           SaveStatus, RemoveFinalizer, Update, RenameUser
  <2> QED
    BY <1>1, <1>2, <1>3, <2>2, <2>3, <2>4
       DEF Progress, ReadSecret, CreateSecret, Settle, NilSecret, CheckExists,
           SaveRecord, KeepUser, LookUp, CheckGrant, GrantOne, GrantMissing,
           CheckFinalize, DropUser, ForgetRecord, SqlOnly, GiveUp, k8s
<1>4. CASE \E o \in Objects : BeginReconcile(o)
  BY <1>2, <1>4
     DEF BeginReconcile, Skip, FinalizeUnreachable, FinalizeStart, Unreachable,
         Start, Begin, Take, Goto, worker, TypeOK
<1>5. CASE Environment
  BY <1>2, <1>5
     DEF Environment, Crash, Respawn, Restart, Relist, Resync, AdminChange,
         UserCreate, UserEdit, UserMove, UserDelete, Watch, Observe, Submit,
         SecretWrite, DatabaseChange, ExternalCreate, ExternalDrop, Enqueue,
         worker, k8s, TypeOK
<1>6. CASE UNCHANGED vars
  BY <1>2, <1>6 DEF vars, k8s, TypeOK
<1> QED BY <1>3, <1>4, <1>5, <1>6 DEF Next, Operator

-----------------------------------------------------------------------------
(* Passwords.                                                              *)

PasswordInv ==
  /\ \A o \in Objects, n \in Names :
       OwnedBy(n, o) => accounts[n].password <= secret[o].content
  /\ obj # NoObject => frame.secret <= secret[obj].content

\* A version that a copy of o reports, however late the copy, has reached the
\* account while o lives.
Seen(v, o) ==
  v > 0 =>
    /\ api[o].phase # "absent"
    /\ api[o].phase = "live" => \A n \in Names :
         n = api[o].spec.username => OwnedBy(n, o) /\ v <= accounts[n].password

SeenInv ==
  /\ \A o \in Objects : /\ Seen(api[o].status.version, o)
                        /\ Seen(cached[o].status.version, o)
  /\ obj # NoObject => Seen(inst.status.version, obj)

PasswordsFollow ==
  /\ \A o \in Objects : /\ secret[o].content \in Nat /\ secret'[o].content \in Nat
                        /\ secret[o].content <= secret'[o].content
  /\ \A n \in Names, o \in Objects :
       /\ OwnedBy(n, o)' =>
            \/ OwnedBy(n, o) /\ accounts'[n].password = accounts[n].password
            \/ accounts'[n].password <= secret[o].content
       /\ OwnedBy(n, o) /\ ~Ended(api[o]) =>
            OwnedBy(n, o)' /\ accounts[n].password <= accounts'[n].password

\* Users only ever write secrets anew.
LEMMA SecretsGrow ==
  ASSUME TypeOK, TypeOK', [Next]_vars
  PROVE  \A o \in Objects :
           /\ secret[o].content \in Nat /\ secret'[o].content \in Nat
           /\ secret[o].content <= secret'[o].content
<1>1. secret \in [Objects -> [content : Contents, owned : BOOLEAN]]
  BY DEF TypeOK
<1>2. \A o \in Objects : secret[o].content \in Nat /\ secret'[o].content \in Nat
  BY UserAssumption DEF TypeOK, Contents
<1>3. CASE UNCHANGED secret
  BY <1>2, <1>3
<1>4. CASE \E o \in Objects : SecretWrite(o)
  <2>1. PICK o \in Objects : secret' = [secret EXCEPT ![o].content = @ + 1]
    BY <1>4 DEF SecretWrite
  <2>2. /\ secret'[o].content = secret[o].content + 1
        /\ \A p \in Objects \ {o} : secret'[p] = secret[p]
    BY <1>1, <2>1
  <2> QED BY <1>2, <2>2
<1>5. CASE CreateSecret
  <2>1. \/ UNCHANGED secret
        \/ secret[obj].content = 0 /\ secret' = [secret EXCEPT ![obj].content = 1]
    BY <1>5 DEF CreateSecret, K8sOnly, world
  <2>2. CASE secret[obj].content = 0 /\ secret' = [secret EXCEPT ![obj].content = 1]
    <3>1. \A o \in Objects : secret'[o] = secret[o] \/ secret[o].content = 0
      BY <1>1, <2>2
    <3> QED BY <1>2, <3>1
  <2> QED BY <1>3, <2>1, <2>2
<1>6. CASE OwnSecret
  <2>1. UNCHANGED secret \/ secret' = [secret EXCEPT ![obj].owned = TRUE]
    BY <1>6 DEF OwnSecret
  <2>2. \A o \in Objects : secret'[o].content = secret[o].content
    BY <1>1, <2>1
  <2> QED BY <1>2, <2>2
<1>7. CASE Progress
  BY <1>3, <1>5, <1>6, <1>7
     DEF Progress, ReadSecret, ClaimName, AddFinalizer, Settle, InvalidName,
         SaveReport, SaveStatus, NilSecret, CheckExists, CreateUser, SaveRecord,
         CheckMine, RenameUser, AlterUser, KeepUser, CompareGrants, RevokeAll,
         ShowGrants, LookUp, CheckGrant, GrantOne, GrantMissing, CheckFinalize,
         DropUser, ForgetRecord, RemoveFinalizer, Update, K8sOnly, SqlOnly,
         world
<1>8. CASE \E o \in Objects : BeginReconcile(o)
  BY <1>3, <1>8
     DEF BeginReconcile, Skip, FinalizeUnreachable, FinalizeStart, Unreachable,
         Start, Begin, K8sOnly, world
<1>9. CASE Environment
  BY <1>3, <1>4, <1>9
     DEF Environment, Crash, Respawn, Restart, Resync, AdminChange, UserCreate,
         UserEdit, UserMove, UserDelete, Watch, DatabaseChange, ExternalCreate,
         ExternalDrop, K8sOnly, world
<1>10. CASE UNCHANGED vars
  BY <1>3, <1>10 DEF vars, world
<1> QED BY <1>7, <1>8, <1>9, <1>10 DEF Next, Operator

\* While statements are run for an account, it is there and the object's own.
LEMMA Served ==
  ASSUME TypeOK, NameInv, MineInv, AccountInv,
         pc \in {"mine", "details", "permissions", "revoke", "grant", "grantMine",
                "grantOne", "record"}
  PROVE  Exists(name) /\ OwnedBy(name, obj) /\ obj \in Objects /\ name \in Names
BY WorkerHolds DEF MineInv, ActInv, AccountInv, FoundInv, OwnedBy, NameInv

\* So the statements after UserMine find the account of the worker's object.
LEMMA Reached ==
  ASSUME TypeOK, NameInv, MineInv, AccountInv,
         AlterUser \/ RevokeAll \/ GrantOne
  PROVE  Exists(name) /\ OwnedBy(name, obj) /\ obj \in Objects /\ name \in Names
BY Served DEF AlterUser, RevokeAll, GrantOne

\* A password is never set back: what a statement sets is the content of the
\* secret, and a live object keeps its account (userCreate, userUpdate).
LEMMA PasswordStep ==
  ASSUME Benign, TypeOK, TypeOK', NameInv, FinalizerInv, MineInv, OneNameInv,
         AccountInv, PasswordInv, [Next]_vars
  PROVE  PasswordsFollow
<1>1. \A n \in Names : Exists(n) => accounts[n].password \in Nat
  BY UserAssumption DEF TypeOK, Account, Contents, Exists
<1>2. \A o \in Objects : secret[o].content \in Nat
  BY SecretsGrow
<1> SUFFICES ASSUME NEW n \in Names, NEW o \in Objects
             PROVE  /\ OwnedBy(n, o)' =>
                         \/ OwnedBy(n, o) /\ accounts'[n].password = accounts[n].password
                         \/ accounts'[n].password <= secret[o].content
                    /\ OwnedBy(n, o) /\ ~Ended(api[o]) =>
                         OwnedBy(n, o)' /\ accounts[n].password <= accounts'[n].password
  BY SecretsGrow DEF PasswordsFollow
<1>3. CASE accounts'[n] = accounts[n]
  BY <1>1, <1>3 DEF OwnedBy, Exists
<1>4. CASE accounts'[n] # accounts[n]
  <2>1. CASE CreateUser
    <3>1. PICK m \in Names, p \in Objects :
            /\ m = name /\ p = obj /\ ~Exists(m) /\ SqlOnly
            /\ accounts'[m].password = Password
            /\ \A k \in Names \ {m} : accounts'[k] = accounts[k]
      BY <2>1, CreateEffect
    <3>2. OwnedBy(m, p)'
      BY <2>1, <3>1, CreateOwners DEF MineInv, OwnedBy, SqlOnly, Exists
    <3>3. Password <= secret[p].content
      BY <1>2, <3>1 DEF Password
    <3> QED BY <1>4, <3>1, <3>2, <3>3 DEF OwnedBy
  <2>2. CASE DropUser
    <3>1. OwnedBy(n, obj) /\ accounts'[n] = Absent
      BY <1>4, <2>2, DropOwners DEF MineInv, DropUser, OwnedBy, Exists
    <3>2. Ended(api[obj])
      BY <2>2, Branches DEF DropUser
    <3> QED BY <3>1, <3>2 DEF OwnedBy, Exists
  <2>3. CASE AlterUser
    <3>1. Exists(name) /\ OwnedBy(name, obj) /\ FALSE \notin Succeeds
      BY <2>3, Reached, BenignAnswers
    <3>2. /\ n = name /\ obj \in Objects
          /\ accounts'[n].creator = accounts[n].creator /\ accounts'[n] # Absent
          /\ accounts'[n].password \in {secret[obj].content, accounts[n].password}
      BY <1>4, <2>3, <3>1, AlterEffect
    <3>3. accounts[n].password <= secret[obj].content
      BY <3>1, <3>2 DEF PasswordInv
    <3>4. OwnedBy(n, o) <=> o = obj
      BY <3>1, <3>2 DEF OwnedBy
    <3>5. OwnedBy(n, o)' <=> o = obj
      BY <3>1, <3>2 DEF OwnedBy, Exists
    <3> QED BY <1>1, <1>2, <3>1, <3>2, <3>3, <3>4, <3>5
  <2>4. CASE RevokeAll \/ GrantOne
    <3>1. Exists(name)
      BY <2>4, Reached
    <3>2. /\ n = name
          /\ accounts'[n].creator = accounts[n].creator /\ accounts'[n] # Absent
          /\ accounts'[n].password = accounts[n].password
      BY <1>4, <2>4, <3>1, RevokeEffect, GrantEffect
    <3> QED BY <1>1, <3>1, <3>2 DEF OwnedBy, Exists
  <2> QED BY <1>4, <2>1, <2>2, <2>3, <2>4, WhoTouches DEF OneNameInv, RenameUser
<1> QED BY <1>3, <1>4

\* The secret that a reconcile has read.
LEMMA ReadStep ==
  ASSUME Benign, TypeOK, TypeOK', NameInv, MineInv, AccountInv, OneNameInv,
         PasswordInv, [Next]_vars, obj' # NoObject
  PROVE  frame'.secret <= secret'[obj'].content
<1>1. frame \in Frame
  BY DEF TypeOK
<1>2. \A o \in Objects : /\ secret[o].content \in Nat /\ secret'[o].content \in Nat
                         /\ secret[o].content <= secret'[o].content
  BY SecretsGrow
<1>3. frame.secret \in Nat
  BY <1>1, UserAssumption DEF Frame, Contents
<1>4. obj # NoObject => frame.secret <= secret[obj].content
  BY DEF PasswordInv
<1>5. CASE obj' = obj /\ obj \in Objects /\ frame'.secret = frame.secret
  BY <1>2, <1>3, <1>4, <1>5, ObjectsAssumption
<1>6. CASE obj' \in Objects /\ frame'.secret = 0
  BY <1>2, <1>6
<1>7. ASSUME NEW r, Done(r) PROVE FALSE
  BY <1>7 DEF Done, Return
<1>8. CASE ReadSecret
  <2>1. obj' = obj /\ secret' = secret /\ obj \in Objects
    BY <1>8, WorkerHolds DEF ReadSecret, SqlOnly, world
  <2>2. frame'.secret \in {0, secret[obj].content}
    BY <1>1, <1>8 DEF ReadSecret, Frame
  <2> QED BY <1>2, <2>1, <2>2
<1>9. CASE CreateSecret
  <2>1. obj' = obj /\ secret' = [secret EXCEPT ![obj].content = 1] /\ obj \in Objects
        /\ frame' = [frame EXCEPT !.secret = 1]
    BY <1>7, <1>9, WorkerHolds DEF CreateSecret, k8s
  <2>2. frame'.secret = 1 /\ secret'[obj].content = 1
    BY <1>1, <2>1 DEF Frame, TypeOK
  <2> QED BY <2>1, <2>2
<1>10. CASE Progress
  <2>1. CASE CreateUser
    BY <1>5, <2>1, CreateEffect DEF SqlOnly
  <2>2. CASE AlterUser \/ RevokeAll \/ GrantOne
    BY <1>5, <2>2, Reached, AlterEffect, RevokeEffect, GrantEffect, BenignAnswers
       DEF SqlOnly
  <2>3. CASE RenameUser
    BY <2>3 DEF RenameUser, OneNameInv
  <2>4. CASE \/ ClaimName \/ OwnSecret \/ AddFinalizer \/ InvalidName
             \/ SaveReport \/ SaveStatus \/ RemoveFinalizer
    BY <1>7, <2>4
       DEF ClaimName, OwnSecret, AddFinalizer, InvalidName, SaveReport,
           SaveStatus, RemoveFinalizer, Update
  <2>5. CASE \/ Settle \/ NilSecret \/ CheckExists \/ SaveRecord \/ CheckMine
             \/ KeepUser \/ CompareGrants \/ ShowGrants
             \/ CheckGrant \/ \E d \in Databases : LookUp(d) \/ GrantMissing(d)
             \/ CheckFinalize \/ DropUser \/ ForgetRecord
    <3>1. obj \in Objects /\ obj' = obj
      BY <1>7, <2>5, WorkerHolds
         DEF Settle, NilSecret, CheckExists, SaveRecord, CheckMine, KeepUser,
             CompareGrants, ShowGrants, LookUp, CheckGrant, GrantMissing,
             CheckFinalize, DropUser, ForgetRecord, SqlOnly, GiveUp
    <3>2. frame'.secret = frame.secret
      BY <1>1, <1>7, <2>5
         DEF Settle, NilSecret, CheckExists, SaveRecord, CheckMine, KeepUser,
             CompareGrants, ShowGrants, LookUp, CheckGrant, GrantMissing,
             CheckFinalize, DropUser, ForgetRecord, SqlOnly, GiveUp, Frame
    <3> QED BY <1>5, <3>1, <3>2
  <2> QED BY <1>8, <1>9, <1>10, <2>1, <2>2, <2>3, <2>4, <2>5 DEF Progress
<1>11. CASE \E o \in Objects : BeginReconcile(o)
  BY <1>6, <1>11
     DEF BeginReconcile, Skip, FinalizeUnreachable, FinalizeStart, Unreachable,
         Start, Begin, Take, Goto, worker, TypeOK, NewFrame
<1>12. CASE Environment
  BY <1>5, <1>12
     DEF Environment, Crash, Respawn, Restart, Relist, Resync, AdminChange,
         UserCreate, UserEdit, UserMove, UserDelete, Watch, Observe, Submit,
         SecretWrite, DatabaseChange, ExternalCreate, ExternalDrop, Enqueue,
         Still, worker, k8s, TypeOK
<1>13. CASE UNCHANGED vars
  BY <1>5, <1>13 DEF vars, k8s, TypeOK
<1> QED BY <1>10, <1>11, <1>12, <1>13 DEF Next, Operator

\* No account has a password that its secret never had.
LEMMA PasswordKept ==
  ASSUME Benign, TypeOK, TypeOK', NameInv, FinalizerInv, MineInv, OneNameInv,
         AccountInv, PasswordInv, [Next]_vars
  PROVE  PasswordInv'
<1>1. ASSUME NEW o \in Objects, NEW n \in Names, OwnedBy(n, o)'
      PROVE  accounts'[n].password <= secret'[o].content
  <2>1. accounts'[n].password \in Nat
    BY <1>1, UserAssumption DEF TypeOK, OwnedBy, Exists, Account, Contents
  <2> QED BY <1>1, <2>1, PasswordStep DEF PasswordsFollow, PasswordInv
<1> QED BY <1>1, ReadStep DEF PasswordInv

\* A version that has reached the account stays reached.
LEMMA SeenStays ==
  ASSUME TypeOK, TypeOK', VersionsFollow, PasswordsFollow, NEW o \in Objects, NEW v \in Nat,
         Seen(v, o)
  PROVE  Seen(v, o)'
<1> SUFFICES ASSUME v > 0 PROVE Seen(v, o)'
  BY DEF Seen
<1>1. /\ api[o].phase # "absent"
      /\ api'[o].phase # "absent" /\ api'[o].spec.username = api[o].spec.username
  BY DEF Seen, VersionsFollow
<1>2. ASSUME api'[o].phase = "live", NEW n \in Names, n = api'[o].spec.username
      PROVE  OwnedBy(n, o)' /\ v <= accounts'[n].password
  <2>1. api[o].phase = "live" /\ ~Ended(api[o])
    BY <1>1, <1>2 DEF VersionsFollow, Evolves, Ended
  <2>2. OwnedBy(n, o) /\ v <= accounts[n].password
    BY <1>1, <1>2, <2>1 DEF Seen
  <2>3. OwnedBy(n, o)' /\ accounts[n].password <= accounts'[n].password
    BY <2>1, <2>2 DEF PasswordsFollow
  <2>4. accounts[n].password \in Nat /\ accounts'[n].password \in Nat
    BY <2>2, <2>3, UserAssumption DEF TypeOK, OwnedBy, Exists, Account, Contents
  <2> QED BY <2>2, <2>3, <2>4
<1> QED BY <1>1, <1>2 DEF Seen

\* No step reports a version that has not reached the account: the report
\* follows CREATE or ALTER USER, and is stored after them (Reconcile).
LEMMA SeenStep ==
  ASSUME Benign, TypeOK, TypeOK', NameInv, FinalizerInv, MineInv, OneNameInv,
         AccountInv, PasswordInv, SeenInv, [Next]_vars, KeepsName
  PROVE  SeenInv'
<1>1. VersionsFollow /\ PasswordsFollow
  BY StoreStep, PasswordStep
<1>2. \A o \in Objects, v \in Nat : Seen(v, o) => Seen(v, o)'
  BY <1>1, SeenStays
<1>3. \A o \in Objects, v \in Nat : v = api'[o].status.version => Seen(v, o)'
  <2> SUFFICES ASSUME NEW o \in Objects, NEW v \in Nat, v = api'[o].status.version
               PROVE  Seen(v, o)'
    OBVIOUS
  <2>1. CASE SameReport(api'[o], api[o])
    <3>1. Seen(v, o)
      BY <2>1 DEF SeenInv, SameReport
    <3> QED BY <1>2, <3>1
  <2>2. CASE o = obj /\ pc = "status" /\ api'[o].status = inst.status
    <3>1. Seen(v, o)
      BY <2>2, ObjectsAssumption DEF SeenInv
    <3> QED BY <1>2, <3>1
  <2>3. CASE api'[o].status = NoStatus
    BY <2>3 DEF NoStatus, Seen
  <2> QED BY <2>1, <2>2, <2>3, StoredReport
<1>4. \A o \in Objects, v \in Nat : v = cached'[o].status.version => Seen(v, o)'
  <2> SUFFICES ASSUME NEW o \in Objects, NEW v \in Nat, v = cached'[o].status.version
               PROVE  Seen(v, o)'
    OBVIOUS
  <2>1. CASE cached'[o] = cached[o]
    <3>1. Seen(v, o)
      BY <2>1 DEF SeenInv
    <3> QED BY <1>2, <3>1
  <2> QED BY <1>3, <2>1, CacheStep
<1>5. ASSUME NEW o \in Objects, NEW v \in Nat, obj' = o, v = inst'.status.version
      PROVE  Seen(v, o)'
  <2>1. obj' # NoObject
    BY <1>5, ObjectsAssumption
  <2>2. CASE obj = o /\ v = inst.status.version
    <3>1. Seen(v, o)
      BY <2>2, ObjectsAssumption DEF SeenInv
    <3> QED BY <1>2, <3>1
  <2>3. CASE inst' = cached[o]
    <3>1. Seen(v, o)
      BY <1>5, <2>3 DEF SeenInv
    <3> QED BY <1>2, <3>1
  <2>4. CASE CreateUser
    <3>1. /\ o = obj
          /\ inst.spec.ident = "secret" => v = frame.secret
          /\ inst.spec.ident # "secret" => v = inst.status.version
          /\ UNCHANGED <<api, obj, secret>>
      BY <1>5, <2>4, CreateEffect DEF SqlOnly, store, world
    <3>2. PICK m \in Names : m = name /\ m = api[o].spec.username /\ Present(o)
      BY <2>4, <3>1, OneName, Branches DEF CreateUser, Claimed
    <3>3. OwnedBy(m, o)' /\ ~Exists(m) /\ accounts'[m].password = Password
      <4>1. OwnedBy(name, obj)' /\ name' = name /\ ~Exists(name)
            /\ accounts'[name].password = Password
        BY <2>4, CreateOwners, CreateEffect DEF MineInv
      <4> QED BY <1>5, <3>2, <4>1 DEF OwnedBy, Exists
    <3>4. CASE inst.spec.ident = "secret"
      <4>1. Password = secret[o].content /\ v <= secret[o].content
        BY <2>1, <3>1, <3>4 DEF Password, PasswordInv
      <4> QED BY <3>1, <3>2, <3>3, <4>1 DEF Seen, Present
    <3>5. CASE inst.spec.ident # "secret"
      <4>1. Seen(v, o)
        BY <2>1, <3>1, <3>5 DEF SeenInv
      <4>2. v > 0 => api[o].phase # "live"
        BY <3>2, <3>3, <4>1 DEF Seen, OwnedBy
      <4> QED BY <3>1, <3>2, <4>2 DEF Seen, Present
    <3> QED BY <3>4, <3>5
  <2>5. CASE AlterUser
    <3>1. Exists(name) /\ OwnedBy(name, obj) /\ FALSE \notin Succeeds
      BY <2>5, Reached, BenignAnswers
    <3>2. /\ o = obj /\ v = frame.secret /\ UNCHANGED <<api, obj, secret>>
          /\ inst.status.version = frame.secret
             \/ accounts'[name].password = secret[o].content
      BY <1>5, <2>5, <3>1, AlterEffect DEF SqlOnly, store, world
    <3>3. CASE inst.status.version = frame.secret
      <4>1. Seen(v, o)
        BY <2>1, <3>2, <3>3 DEF SeenInv
      <4> QED BY <1>2, <4>1
    <3>4. CASE accounts'[name].password = secret[o].content
      <4>1. PICK m \in Names : m = name /\ m = api[o].spec.username /\ Present(o)
        BY <2>5, <3>2, OneName, Branches DEF AlterUser, Claimed
      <4>2. OwnedBy(m, o)'
        BY <2>5, <3>1, <3>2, <4>1, AlterEffect DEF OwnedBy, Exists
      <4>3. v <= accounts'[m].password
        BY <2>1, <3>2, <3>4, <4>1 DEF PasswordInv
      <4> QED BY <3>2, <4>1, <4>2, <4>3 DEF Seen, Present
    <3> QED BY <3>2, <3>3, <3>4
  <2>6. CASE CompareGrants \/ RevokeAll \/ ShowGrants
    <3>1. /\ obj \in Objects /\ inst \in User /\ inst.status \in Status /\ obj' = obj
      BY <2>1, <2>6, WorkerHolds, UserParts
         DEF CompareGrants, RevokeAll, ShowGrants, SqlOnly, GiveUp, Done, Return
    <3>2. \/ inst' = inst
          \/ \E g : inst' = [inst EXCEPT !.status.grants = g]
          \/ \E d, g : inst' = [inst EXCEPT !.status.databases = d, !.status.grants = g]
      BY <2>1, <2>6 DEF CompareGrants, RevokeAll, ShowGrants, GiveUp, Done,
                        Return
    <3>3. v = inst.status.version
      BY <1>5, <3>1, <3>2 DEF User, Status
    <3> QED BY <1>5, <2>2, <3>1, <3>3
  <2>7. \/ obj' = obj /\ SameReport(inst', inst)
        \/ inst' = cached[o]
        \/ CreateUser \/ AlterUser \/ CompareGrants \/ RevokeAll \/ ShowGrants
    BY <1>5, <2>1, CopyReport DEF OneNameInv
  <2> QED BY <1>5, <2>2, <2>3, <2>4, <2>5, <2>6, <2>7 DEF SameReport
<1>6. \A o \in Objects : /\ Seen(api[o].status.version, o)'
                         /\ Seen(cached[o].status.version, o)'
  <2>1. \A o \in Objects : /\ api'[o].status.version \in Nat
                           /\ cached'[o].status.version \in Nat
    BY UserAssumption DEF TypeOK, User, Status, Contents
  <2> QED BY <1>3, <1>4, <2>1 DEF Seen
<1>7. obj' # NoObject => Seen(inst.status.version, obj)'
  <2>1. obj' # NoObject => obj' \in Objects /\ inst'.status.version \in Nat
    BY UserAssumption DEF TypeOK, User, Status, Contents
  <2> QED BY <1>5, <2>1 DEF Seen
<1> QED BY <1>6, <1>7 DEF SeenInv

-----------------------------------------------------------------------------
(* Privileges.                                                             *)

\* The lines that a copy shows are of Databases that it lists, so that an
\* equal list of as many lines hides no privilege (PermissionListEqual).
LinesOf(c) == \A l \in c.status.grants : l[2] \in c.status.databases

LinesInv ==
  /\ \A o \in Objects : LinesOf(api[o]) /\ LinesOf(cached[o])
  /\ obj # NoObject /\ pc # "revoke" => LinesOf(inst)
  /\ pc \in {"grant", "grantMine", "grantOne"} => inst.status.grants = {}
  /\ pc \in {"grant", "grantMine", "grantOne", "record"} =>
       \A n \in Names : n = name => accounts[n].grants \subseteq inst.spec.databases

\* What is left to grant comes from the spec that is being reconciled.
TodoInv ==
  /\ pc \in {"revoke", "grant", "grantMine", "grantOne"} =>
       frame.todo \subseteq inst.spec.databases
  /\ pc \in {"grantMine", "grantOne"} => frame.granting \subseteq inst.spec.databases

\* The list of Databases to grant is taken from the spec, and only shrinks.
LEMMA TodoStep ==
  ASSUME TypeOK, TodoInv, [Next]_vars
  PROVE  TodoInv'
<1>1. CASE pc' \notin {"revoke", "grant", "grantMine", "grantOne"}
  BY <1>1 DEF TodoInv
<1>2. CASE UNCHANGED <<pc, inst, frame>>
  BY <1>2 DEF TodoInv
<1>3. CASE CreateUser
  <2>1. inst \in User /\ frame \in Frame /\ inst.spec.databases \in SUBSET Databases
    BY <1>3, WorkerHolds, StatusTypes DEF CreateUser, TypeOK
  <2>2. CASE GiveUp
    BY <1>1, <2>2 DEF GiveUp, Done, Goto
  <2>3. CASE ~GiveUp
    <3>1. inst'.spec = inst.spec /\ frame'.todo = inst.spec.databases /\ pc' = "grant"
      BY <1>3, <2>1, <2>3 DEF CreateUser, User, Frame, Goto
    <3> QED BY <3>1 DEF TodoInv
  <2> QED BY <2>2, <2>3
<1>4. CASE CompareGrants
  <2>1. inst \in User /\ frame \in Frame
    BY <1>4, WorkerHolds DEF CompareGrants, TypeOK
  <2>2. CASE GiveUp
    BY <1>1, <2>2 DEF GiveUp, Done, Goto
  <2>3. CASE ~GiveUp
    <3>1. /\ inst'.spec = inst.spec /\ pc' \in {"status", "revoke", "grant"}
          /\ frame'.todo = inst.spec.databases \/ frame'.todo = {}
      BY <1>4, <2>1, <2>3 DEF CompareGrants, User, Frame, Goto
    <3> QED BY <3>1 DEF TodoInv
  <2> QED BY <2>2, <2>3
<1>5. CASE RevokeAll
  <2>1. inst \in User /\ pc = "revoke"
    BY <1>5, WorkerHolds DEF RevokeAll
  <2>2. CASE GiveUp
    BY <1>1, <2>2 DEF GiveUp, Done, Goto
  <2>3. CASE ~GiveUp
    <3>1. inst'.spec = inst.spec /\ frame' = frame /\ pc' = "grant"
      BY <1>5, <2>1, <2>3 DEF RevokeAll, User, Goto
    <3> QED BY <2>1, <3>1 DEF TodoInv
  <2> QED BY <2>2, <2>3
<1>6. CASE GrantOne \/ CheckGrant \/ \E d \in Databases : LookUp(d)
  <2>1. /\ frame \in Frame /\ inst' = inst
        /\ pc \in {"grant", "grantMine", "grantOne"}
    BY <1>6 DEF GrantOne, CheckGrant, LookUp, TypeOK
  <2>2. CASE GrantOne \/ CheckGrant
    <3>1. frame'.todo = frame.todo /\ frame'.granting \in {frame.granting, {}}
      BY <2>1, <2>2 DEF GrantOne, CheckGrant, Frame
    <3>2. pc' = "grantOne" => pc = "grantMine"
      BY <2>2 DEF GrantOne, CheckGrant, Goto
    <3>3. pc' \in {"grant", "grantOne"}
      BY <2>2 DEF GrantOne, CheckGrant, Goto
    <3> QED BY <2>1, <3>1, <3>2, <3>3 DEF TodoInv
  <2>3. ASSUME NEW d \in Databases, LookUp(d) PROVE TodoInv'
    <3>1. /\ d \in frame.todo /\ frame'.todo \subseteq frame.todo
          /\ frame'.granting \subseteq {d}
      BY <2>1, <2>3 DEF LookUp, Frame
    <3> QED BY <2>1, <3>1 DEF TodoInv
  <2> QED BY <1>6, <2>2, <2>3
<1>7. CASE Progress /\ ~(\/ CreateUser \/ CompareGrants \/ RevokeAll \/ GrantOne
                        \/ CheckGrant \/ \E d \in Databases : LookUp(d))
  BY <1>1, <1>7
     DEF Progress, ReadSecret, CreateSecret, ClaimName, OwnSecret, AddFinalizer,
         Settle, InvalidName, SaveReport, SaveStatus, NilSecret, CheckExists,
         SaveRecord, CheckMine, RenameUser, AlterUser, KeepUser, ShowGrants,
         Leave, GrantMissing, CheckFinalize, DropUser, ForgetRecord,
         RemoveFinalizer, Update, Done, GiveUp, Goto
<1>8. CASE \E o \in Objects : BeginReconcile(o)
  BY <1>1, <1>2, <1>8
     DEF BeginReconcile, Skip, FinalizeUnreachable, FinalizeStart, Unreachable,
         Start, Begin, Goto, worker
<1>9. CASE Environment
  BY <1>1, <1>2, <1>9
     DEF Environment, Crash, Respawn, Restart, Goto, Resync, AdminChange,
         UserCreate, UserEdit, UserMove, UserDelete, Submit, Watch, Observe,
         SecretWrite, DatabaseChange, ExternalCreate, ExternalDrop, Enqueue,
         Still, worker, k8s
<1>10. CASE UNCHANGED vars
  BY <1>2, <1>10 DEF vars, k8s, worker
<1> QED BY <1>3, <1>4, <1>5, <1>6, <1>7, <1>8, <1>9, <1>10 DEF Next, Operator

\* The calls around GRANT and REVOKE.
LEMMA PrivilegeStep ==
  ASSUME Benign, TypeOK, pc # "rename", [Next]_vars
  PROVE  /\ pc' \in {"grant", "grantMine", "grantOne"} =>
              \/ CreateUser \/ CompareGrants \/ RevokeAll \/ GrantOne
              \/ /\ pc \in {"grant", "grantMine", "grantOne"}
                 /\ UNCHANGED <<obj, inst, accounts>>
         /\ pc' = "record" => \/ pc = "grant" /\ ShowGrants
                              \/ pc \in {"grant", "record"} /\ UNCHANGED <<obj, inst, accounts>>
         /\ pc = "revoke" => RevokeAll \/ pc' = "revoke"
<1>1. CASE Progress
  BY <1>1
     DEF Progress, ReadSecret, CreateSecret, ClaimName, OwnSecret, AddFinalizer,
         Settle, InvalidName, SaveReport, SaveStatus, NilSecret, CheckExists,
         CreateUser, SaveRecord, CheckMine, RenameUser, AlterUser, KeepUser,
         CompareGrants, RevokeAll, ShowGrants, Leave, LookUp, CheckGrant,
         GrantOne, GrantMissing, CheckFinalize, DropUser, ForgetRecord,
         RemoveFinalizer, Update, Done, GiveUp, Goto, SqlOnly, mysql
<1>2. CASE \E o \in Objects : BeginReconcile(o)
  BY <1>2
     DEF BeginReconcile, Skip, FinalizeUnreachable, FinalizeStart, Unreachable,
         Start, Begin, Goto, worker
<1>3. CASE Environment
  BY <1>3, BenignAnswers
     DEF Environment, Crash, Respawn, Restart, Goto, Resync, AdminChange,
         UserCreate, UserEdit, UserMove, UserDelete, Submit, Watch, Observe,
         SecretWrite, DatabaseChange, ExternalCreate, ExternalDrop, Enqueue,
         Still, K8sOnly, worker, mysql, k8s
<1>4. CASE UNCHANGED vars
  BY <1>4 DEF vars, k8s, mysql
<1> QED BY <1>1, <1>2, <1>3, <1>4 DEF Next, Operator

\* SHOW GRANTS, before anything is granted or revoked.
LEMMA CompareEffect ==
  ASSUME Benign, TypeOK, NameInv, CompareGrants, Exists(name)
  PROVE  /\ obj \in Objects /\ inst \in User /\ name \in Names
         /\ SqlOnly /\ UNCHANGED mysql /\ pc = "permissions"
         /\ inst'.status.grants = Shown
         /\ inst'.status.version = inst.status.version
         /\ inst'.status.databases = inst.status.databases
         /\ inst'.spec = inst.spec /\ name' = name
         /\ \/ /\ pc' = "status" /\ Shown = inst.status.grants
               /\ inst' = inst /\ inst.status.databases = inst.spec.databases
            \/ pc' = "revoke" /\ Shown # {}
            \/ pc' = "grant" /\ Shown = {}
<1>1. /\ obj \in Objects /\ inst \in User /\ inst.status \in Status /\ name \in Names
  BY WorkerHolds, UserParts DEF CompareGrants, NameInv
<1>2. "read" \notin Faults
  BY BenignAnswers
<1> DEFINE shown == [inst EXCEPT !.status.grants = Shown]
           differ == \/ shown.status.grants # inst.status.grants
                     \/ ~PermissionListEqual(shown)
<1>3. /\ inst' = shown /\ SqlOnly /\ UNCHANGED mysql /\ pc = "permissions"
      /\ pc' = IF ~differ THEN "status" ELSE IF Revokes(shown) THEN "revoke" ELSE "grant"
  BY <1>2 DEF CompareGrants, Goto
<1>4. /\ shown.status.grants = Shown
      /\ shown.status.version = inst.status.version
      /\ shown.status.databases = inst.status.databases
      /\ shown.status.username = inst.status.username
      /\ shown.spec = inst.spec
  BY <1>1 DEF User, Status
<1>5. ~differ => Shown = inst.status.grants /\ inst.status.databases = inst.spec.databases
  BY <1>4 DEF PermissionListEqual
<1>6. Shown = inst.status.grants => shown = inst
  BY <1>1 DEF User, Status
<1>7. Revokes(shown) <=> Shown # {}
  BY <1>4 DEF Revokes
<1> HIDE DEF shown, differ
<1> QED BY <1>1, <1>3, <1>4, <1>5, <1>6, <1>7 DEF name

\* SHOW GRANTS after the grants: the report names the specification's list and
\* what the server shows (grantStatusUpdate).
LEMMA ShowEffect ==
  ASSUME Benign, TypeOK, NameInv, ShowGrants, Exists(name)
  PROVE  /\ obj \in Objects /\ inst \in User /\ name \in Names
         /\ SqlOnly /\ UNCHANGED mysql /\ pc = "grant" /\ pc' = Leave
         /\ UNCHANGED frame
         /\ inst'.status.databases = inst.spec.databases
         /\ inst'.status.grants = Shown
         /\ inst'.status.version = inst.status.version
         /\ inst'.spec = inst.spec /\ name' = name
<1>1. /\ obj \in Objects /\ inst \in User /\ inst.status \in Status /\ name \in Names
  BY WorkerHolds, UserParts DEF ShowGrants, NameInv
<1>2. "read" \notin Faults
  BY BenignAnswers
<1>3. /\ inst' = [inst EXCEPT !.status.databases = inst.spec.databases,
                              !.status.grants = Shown]
      /\ SqlOnly /\ UNCHANGED mysql /\ pc = "grant" /\ pc' = Leave /\ UNCHANGED frame
  BY <1>2 DEF ShowGrants, Goto
<1> QED BY <1>1, <1>3 DEF User, Status, name

\* No step reports a line for a Database outside the reported list, as the list
\* is replaced only once the old lines are revoked (userUpdate).
LEMMA LinesStep ==
  ASSUME Benign, TypeOK, TypeOK', NameInv, FinalizerInv, MineInv, OneNameInv,
         AccountInv, TodoInv, LinesInv, [Next]_vars
  PROVE  LinesInv'
<1>1. ASSUME NEW o \in Objects PROVE LinesOf(api'[o])
  BY <1>1, StoredReport, ObjectsAssumption DEF LinesInv, LinesOf, SameReport,
                                               NoStatus
<1>2. ASSUME NEW o \in Objects PROVE LinesOf(cached'[o])
  BY <1>1, <1>2, CacheStep DEF LinesInv
<1>3. pc # "rename"
  BY DEF OneNameInv
<1>4. CompareGrants \/ RevokeAll \/ ShowGrants \/ AlterUser
      \/ GrantOne => Exists(name) /\ FALSE \notin Succeeds
  BY Served, BenignAnswers
     DEF CompareGrants, RevokeAll, ShowGrants, AlterUser, GrantOne
<1>5. ASSUME obj' # NoObject, pc' # "revoke" PROVE LinesOf(inst')
  <2>1. CASE CreateUser
    BY <2>1, CreateEffect DEF LinesOf
  <2>2. CASE RevokeAll
    BY <1>4, <2>2, RevokeEffect DEF LinesOf
  <2>3. CASE AlterUser
    <3>1. pc = "details" /\ LinesOf(inst)
      BY <2>3, WorkerHolds, ObjectsAssumption DEF AlterUser, LinesInv
    <3> QED BY <1>4, <2>3, <3>1, AlterEffect DEF LinesOf
  <2>4. CASE CompareGrants
    <3>1. pc = "permissions" /\ LinesOf(inst)
      BY <2>4, WorkerHolds, ObjectsAssumption DEF CompareGrants, LinesInv
    <3> QED BY <1>4, <1>5, <2>4, <3>1, CompareEffect DEF LinesOf
  <2>5. CASE ShowGrants
    <3>1. inst.status.grants = {} /\ accounts[name].grants \subseteq inst.spec.databases
      BY <1>4, <2>5, ShowEffect DEF LinesInv
    <3>2. Shown = {name} \X accounts[name].grants
      BY <3>1 DEF Shown
    <3> QED BY <1>4, <2>5, <3>1, <3>2, ShowEffect DEF LinesOf
  <2>6. CASE ~RevokeAll /\ obj' = obj /\ obj \in Objects /\ SameReport(inst', inst)
    <3>1. pc # "revoke" /\ LinesOf(inst)
      BY <1>3, <1>5, <2>6, PrivilegeStep, ObjectsAssumption DEF LinesInv
    <3> QED BY <2>6, <3>1 DEF LinesOf, SameReport
  <2>7. CASE obj' \in Objects /\ inst' = cached[obj']
    BY <2>7 DEF LinesInv
  <2> QED BY <1>3, <1>5, <2>1, <2>2, <2>3, <2>4, <2>5, <2>6, <2>7, CopyReport
<1>6. pc' \in {"grant", "grantMine", "grantOne"} => inst'.status.grants = {}
  BY <1>3, <1>4, PrivilegeStep, CreateEffect, CompareEffect, RevokeEffect, GrantEffect
     DEF LinesInv
<1>7. ASSUME pc' \in {"grant", "grantMine", "grantOne", "record"}
      PROVE  name' \in Names /\ accounts'[name'].grants \subseteq inst'.spec.databases
  <2>1. CASE CreateUser
    BY <2>1, CreateEffect, CreateOwners DEF MineInv
  <2>2. CASE RevokeAll
    BY <1>4, <2>2, RevokeEffect DEF name
  <2>3. CASE CompareGrants
    <3>1. Shown = {} /\ accounts' = accounts /\ name' = name /\ name \in Names
      BY <1>4, <1>7, <2>3, CompareEffect DEF mysql
    <3>2. \A d \in accounts[name].grants : <<name, d>> \in Shown
      BY DEF Shown
    <3> QED BY <3>1, <3>2
  <2>4. CASE GrantOne
    <3>1. /\ pc = "grantOne" /\ inst' = inst /\ name \in Names
          /\ accounts'[name].grants \subseteq accounts[name].grants \cup frame.granting
      BY <1>4, <2>4, GrantEffect
    <3>2. name' = name /\ frame.granting \subseteq inst.spec.databases
      BY <3>1 DEF name, TodoInv
    <3> QED BY <3>1, <3>2 DEF LinesInv
  <2>5. CASE ShowGrants
    BY <1>4, <2>5, ShowEffect DEF LinesInv, mysql
  <2>6. CASE /\ pc \in {"grant", "grantMine", "grantOne", "record"}
             /\ UNCHANGED <<obj, inst, accounts>>
    <3>1. name \in Names
      BY <2>6 DEF NameInv
    <3> QED BY <2>6, <3>1 DEF LinesInv, name
  <2> QED BY <1>3, <1>7, <2>1, <2>2, <2>3, <2>4, <2>5, <2>6, PrivilegeStep
<1> QED BY <1>1, <1>2, <1>5, <1>6, <1>7 DEF LinesInv, LinesOf

-----------------------------------------------------------------------------
(* Nothing is missed.                                                      *)

\* A reconcile of o is still to come.
Pending(o) == o \in queue \/ o \notin synced

\* No account of o has a privilege that the specification does not list.
Within(o) ==
  \A n \in Names : OwnedBy(n, o) => accounts[n].grants \subseteq api[o].spec.databases

\* What Settled and NoExcess ask of o; a status that is lost keeps the excess.
Fine(o) ==
  /\ api[o].phase # "deleting"
  /\ api[o].phase = "live" =>
       /\ Current(o) \/ Taken(o)
       /\ "update" \notin Faults => Within(o)

Awaited ==
  \A o \in Objects :
    /\ obj = o \/ Pending(o) \/ Fine(o)
    /\ api[o].phase = "deleting" => api[o].finalizer

\* What the worker does not know of will be told to the next reconcile.
Informed == obj # NoObject => fresh \/ Pending(obj)

\* A version of the secret that is the latest, or will be followed by an event.
Latest(v) == v = secret[obj].content \/ obj \in queue

WithSecret == inst.spec.ident = "secret"

\* How far a reconcile of the stored version has come.
Achieved ==
  /\ pc \in {"secret", "claim", "exists", "mine", "details"} =>
       inst.status = api[obj].status
  /\ pc \in {"claim", "exists", "create", "mine", "details"} /\ WithSecret =>
       /\ frame.secret > 0
       /\ secret[obj].owned => Latest(frame.secret)
       /\ pc # "claim" => secret[obj].owned
  /\ pc \in {"permissions", "revoke", "grant", "grantMine", "grantOne", "record",
             "status"} =>
       /\ OwnedBy(name, obj)
       /\ WithSecret => secret[obj].owned /\ Latest(accounts[name].password)
  /\ pc = "status" => \/ accounts[name].grants \subseteq inst.spec.databases
                      \/ inst.status # api[obj].status

Online == \A k \in Connections : admin[k]

SettledInv ==
  /\ Online /\ pc # "report"
  /\ Awaited /\ Informed
  /\ fresh => Achieved

\* A reconcile does nothing to an account that Settled asks of another object:
\* only DROP USER frees a name, and one that somebody else asks for it keeps.
Spares(o) ==
  \A n \in Names :
    /\ OwnedBy(n, o) => accounts'[n] = accounts[n]
    /\ OwnedBy(n, o)' => OwnedBy(n, o)
    /\ Exists(n) /\ n = api[o].spec.username /\ api[o].phase = "live" => Exists(n)'

\* That follows from UserMine, for every object but the worker's.
LEMMA SparesOthers ==
  ASSUME Benign, TypeOK, NameInv, MineInv, OneNameInv, AccountInv, Undisputed,
         [Next]_vars, NEW o \in Objects, o # obj
  PROVE  Spares(o)
<1> SUFFICES ASSUME NEW n \in Names, accounts'[n] # accounts[n]
             PROVE  /\ OwnedBy(n, o) => accounts'[n] = accounts[n]
                    /\ OwnedBy(n, o)' => OwnedBy(n, o)
                    /\ Exists(n) /\ n = api[o].spec.username /\ api[o].phase = "live"
                         => Exists(n)'
  BY DEF Spares, OwnedBy, Exists
<1>1. Exists(n) => OwnedBy(n, obj) /\ obj \in Objects
  BY WhoActs DEF MineInv
<1>2. ~OwnedBy(n, o)
  BY <1>1 DEF OwnedBy
<1>3. CASE CreateUser
  <2>1. OwnedBy(name, obj)' /\ n = name /\ name' = name /\ obj' = obj /\ ~Exists(n)
    BY <1>3, CreateOwners DEF MineInv, SqlOnly
  <2> QED BY <1>2, <2>1 DEF OwnedBy
<1>4. CASE DropUser
  <2>1. n = name /\ Exists(n) /\ accounts'[n] = Absent /\ obj \in Objects /\ inst \in User
    BY <1>4, WorkerHolds DEF DropUser, Exists
  <2>2. n \in ledger[obj]
    BY <1>4, <2>1, MineOwns DEF MineInv, ActInv, DropUser
  <2>3. Present(obj) /\ api[obj].spec.username = n
    BY <2>1, <2>2, UserAssumption DEF AccountInv, TidyInv, Guarded, Present
  <2>4. ~(api[o].spec.username = n /\ api[o].phase = "live")
    BY <2>1, <2>3 DEF Undisputed, Present
  <2> QED BY <1>2, <2>1, <2>4 DEF OwnedBy, Exists
<1>5. CASE AlterUser \/ RevokeAll \/ GrantOne
  <2>1. SameOwners
    BY <1>5, AlterOwners DEF MineInv
  <2> QED BY <1>2, <2>1, OwnersStay DEF SameOwners
<1> QED BY <1>3, <1>4, <1>5, WhoTouches DEF OneNameInv, RenameUser

\* What is settled for an object stays so while others are reconciled.
LEMMA FineStays ==
  ASSUME NEW o \in Objects, Fine(o), Spares(o), api'[o] = api[o], secret'[o] = secret[o],
         TypeOK
  PROVE  Fine(o)'
<1>1. api[o].phase = "live" => api[o].spec.username \in Names
  BY UserAssumption DEF TypeOK, User, UserSpec
<1>2. api[o].phase = "live" /\ Current(o) => Current(o)'
  BY <1>1 DEF Current, Spares, OwnedBy, Exists
<1>3. api[o].phase = "live" /\ Taken(o) => Taken(o)'
  BY <1>1 DEF Taken, Spares, OwnedBy, Exists
<1>4. Within(o) => Within(o)'
  BY DEF Within, Spares, OwnedBy, Exists
<1> QED BY <1>2, <1>3, <1>4 DEF Fine

-----------------------------------------------------------------------------
(* The shapes of steps.                                                    *)

\* A statement.
LEMMA StatementSettled ==
  ASSUME TypeOK, SettledInv, obj \in Objects, UNCHANGED <<k8s, admin>> \/ SqlOnly,
         \A o \in Objects : o # obj => Spares(o) /\ secret'[o] = secret[o],
         pc' # "report", fresh => Achieved'
  PROVE  SettledInv'
<1>1. UNCHANGED <<store, queue, obj, fresh, admin>>
  BY DEF SqlOnly, k8s, store, world
<1>2. Awaited'
  <2>1. \A o \in Objects : o # obj /\ Fine(o) => Fine(o)'
    BY <1>1, FineStays DEF store
  <2> QED BY <1>1, <2>1 DEF SettledInv, Awaited, Pending, store
<1>3. Informed'
  BY <1>1 DEF SettledInv, Informed, Pending, store
<1> QED BY <1>1, <1>2, <1>3 DEF SettledInv, Online

\* The end of a reconcile.
LEMMA EndSettled ==
  ASSUME TypeOK, SettledInv, NEW p \in Objects, p = obj, NEW r, Done(r),
         UNCHANGED <<admin, accounts>>,
         \A o \in Objects \ {p} :
           /\ api'[o] = api[o] /\ secret'[o] = secret[o]
           /\ o \notin synced => o \notin synced',
         api'[p].phase = "deleting" => api'[p].finalizer,
         Pending(p)' \/ Fine(p)'
  PROVE  SettledInv'
<1>1. obj' = NoObject /\ ~fresh' /\ pc' = "idle" /\ queue \subseteq queue'
  BY DEF Done, Return, Goto
<1>2. Awaited'
  <2> SUFFICES ASSUME NEW o \in Objects, o # p
               PROVE  /\ Pending(o)' \/ Fine(o)'
                      /\ api'[o].phase = "deleting" => api'[o].finalizer
    BY DEF Awaited
  <2>1. Pending(o) \/ Fine(o)
    BY DEF SettledInv, Awaited
  <2>2. Fine(o) => Fine(o)'
    <3>1. Spares(o)
      BY DEF Spares, OwnedBy, Exists
    <3> QED BY <3>1, FineStays
  <2> QED BY <1>1, <2>1, <2>2 DEF SettledInv, Awaited, Pending
<1> QED BY <1>1, <1>2 DEF SettledInv, Informed, Online

\* What is stored of an object whose reconcile has read the stored version.
LEMMA Stored ==
  ASSUME TypeOK, FinalizerInv, MineInv, fresh, obj \in Objects
  PROVE  /\ obj \in synced /\ cached[obj] = api[obj] /\ obj # NoObject
         /\ inst.spec = api[obj].spec
         /\ inst.phase = api[obj].phase /\ inst.finalizer = api[obj].finalizer
BY ObjectsAssumption DEF FinalizerInv, CacheInv, WorkerInv, MineInv, HeldInv

\* A reconcile of the stored version that comes to its end.
LEMMA Arrived ==
  ASSUME TypeOK, NameInv, FinalizerInv, MineInv, OneNameInv, AccountInv, SettledInv,
         fresh, pc \in {"grant", "record", "status"}
  PROVE  /\ api[obj].phase = "live"
         /\ obj \in queue \/ Current(obj)
         /\ accounts[name].grants \subseteq inst.spec.databases => Within(obj)
<1>1. /\ obj \in Objects /\ name \in Names /\ name = api[obj].spec.username
  BY OneName DEF Claimed
<1>2. inst.spec = api[obj].spec /\ inst.phase = api[obj].phase
  BY <1>1, Stored
<1>3. api[obj].phase = "live"
  BY <1>2 DEF FinalizerInv, BranchInv, Protected
<1>4. OwnedBy(name, obj) /\ (WithSecret => secret[obj].owned /\ Latest(accounts[name].password))
  BY DEF SettledInv, Achieved
<1>5. Current(obj) \/ obj \in queue
  BY <1>1, <1>2, <1>4 DEF Current, WithSecret, Latest
<1>6. \A n \in Names : OwnedBy(n, obj) => n = name
  BY <1>1 DEF AccountInv, TidyInv, Kept
<1> QED BY <1>2, <1>3, <1>5, <1>6 DEF Within

\* A Database of the list that is missing ends the reconcile, after the row of
\* a new account is written (grant, userCreate).
LEMMA GiveUpSettled ==
  ASSUME TypeOK, NameInv, FinalizerInv, MineInv, OneNameInv, AccountInv, LinesInv,
         SettledInv, GiveUp, UNCHANGED <<world, accounts>>, pc \in {"grant", "record"}
  PROVE  SettledInv'
<1>1. PICK p \in Objects : p = obj /\ p # NoObject
  BY WorkerHolds, ObjectsAssumption
<1>2. Done(FALSE) /\ UNCHANGED <<store, queue, admin, secret>>
  BY DEF GiveUp, Done, Return, world
<1>3. Pending(p) \/ Fine(p)
  <2>1. CASE ~fresh
    BY <1>1, <2>1 DEF SettledInv, Informed
  <2>2. CASE fresh
    <3>1. name \in Names
      BY DEF NameInv
    <3>2. accounts[name].grants \subseteq inst.spec.databases
      BY <3>1 DEF LinesInv
    <3> QED BY <1>1, <2>2, <3>2, Arrived DEF Fine, Pending
  <2> QED BY <2>1, <2>2
<1>4. Spares(p)
  BY DEF Spares, OwnedBy, Exists
<1>5. Pending(p)' \/ Fine(p)'
  BY <1>2, <1>3, <1>4, FineStays DEF Pending, store
<1>6. api'[p].phase = "deleting" => api'[p].finalizer
  BY <1>2 DEF SettledInv, Awaited, store
<1> QED BY <1>1, <1>2, <1>5, <1>6, EndSettled DEF store

-----------------------------------------------------------------------------
(* The calls of a reconcile.                                               *)

\* The secret is read or written.
LEMMA SecretSettled ==
  ASSUME TypeOK, FinalizerInv, MineInv, SettledInv, ReadSecret \/ CreateSecret \/ OwnSecret
  PROVE  SettledInv'
<1>1. PICK p \in Objects : p = obj /\ p # NoObject
  BY WorkerHolds, ObjectsAssumption DEF ReadSecret, CreateSecret, OwnSecret
<1>2. /\ frame \in Frame
      /\ secret \in [Objects -> [content : Contents, owned : BOOLEAN]]
  BY DEF TypeOK
<1>3. CASE \E r : Done(r) /\ UNCHANGED <<admin, accounts, store>> /\ p \in queue'
           /\ \A o \in Objects \ {p} : secret'[o] = secret[o]
  <2>1. Pending(p)' /\ (api'[p].phase = "deleting" => api'[p].finalizer)
    BY <1>1, <1>3 DEF SettledInv, Awaited, Pending, store
  <2> QED BY <1>1, <1>3, <2>1, EndSettled DEF store
<1>4. CASE /\ pc = "secret" /\ pc' = "claim" /\ UNCHANGED inst
           /\ UNCHANGED <<k8s, admin>> \/ SqlOnly
           /\ UNCHANGED accounts
           /\ WithSecret => frame'.secret > 0 /\ frame'.secret = secret'[p].content
           /\ \A o \in Objects \ {p} : secret'[o] = secret[o]
  <2>1. UNCHANGED <<api, obj, queue>>
    BY <1>4 DEF k8s, SqlOnly, store
  <2>2. fresh => Achieved'
    BY <1>1, <1>4, <2>1 DEF SettledInv, Achieved, WithSecret, Latest
  <2>3. \A o \in Objects : Spares(o)
    BY <1>4 DEF Spares, OwnedBy, Exists
  <2> QED BY <1>1, <1>4, <2>2, <2>3, StatementSettled
<1>5. CASE ReadSecret
  <2>1. /\ pc = "secret" /\ pc' = "claim" /\ UNCHANGED inst /\ SqlOnly
        /\ UNCHANGED accounts /\ secret' = secret
    BY <1>5 DEF ReadSecret, Goto, SqlOnly, world, mysql
  <2>2. WithSecret => frame'.secret = secret[p].content /\ secret[p].content > 0
    BY <1>1, <1>2, <1>5 DEF ReadSecret, WithSecret, Frame
  <2> QED BY <1>4, <2>1, <2>2
<1>6. CASE CreateSecret
  <2>1. CASE \E r : Done(r)
    <3>1. Done(TRUE) /\ UNCHANGED <<store, secret, admin, accounts>>
      BY <1>6, <2>1 DEF CreateSecret, Done, Goto, K8sOnly, world, mysql
    <3> QED BY <1>1, <1>3, <3>1 DEF Done, Return
  <2>2. CASE ~\E r : Done(r)
    <3>1. /\ secret' = [secret EXCEPT ![obj].content = 1]
          /\ frame' = [frame EXCEPT !.secret = 1]
          /\ pc = "secret" /\ pc' = "claim"
          /\ UNCHANGED <<k8s, admin, accounts>> /\ UNCHANGED inst
      BY <1>6, <2>2 DEF CreateSecret, Goto, mysql, k8s
    <3>2. frame'.secret = 1 /\ secret'[p].content = 1
      BY <1>1, <1>2, <3>1 DEF Frame
    <3>3. \A o \in Objects \ {p} : secret'[o] = secret[o]
      BY <1>1, <1>2, <3>1
    <3> QED BY <1>4, <3>1, <3>2, <3>3
  <2> QED BY <2>1, <2>2
<1>7. CASE OwnSecret
  <2>1. Done(TRUE) /\ UNCHANGED <<admin, accounts, store>>
    BY <1>7 DEF OwnSecret, mysql
  <2>2. \A o \in Objects \ {p} : secret'[o] = secret[o]
    BY <1>1, <1>2, <1>7 DEF OwnSecret
  <2> QED BY <1>1, <1>3, <2>1, <2>2 DEF Done, Return
<1> QED BY <1>5, <1>6, <1>7

\* A password that is not applied again has been applied.
LEMMA Applied ==
  ASSUME TypeOK, NameInv, FinalizerInv, MineInv, OneNameInv, AccountInv,
         PasswordInv, SeenInv, SettledInv, fresh, WithSecret, pc = "details",
         inst.status.version = frame.secret
  PROVE  secret[obj].owned /\ Latest(accounts[name].password)
<1>1. obj \in Objects /\ obj # NoObject
  BY WorkerHolds, ObjectsAssumption
<1>2. PICK m \in Names : m = name /\ m = api[obj].spec.username
  BY OneName DEF Claimed
<1>3. OwnedBy(m, obj)
  BY <1>2 DEF AccountInv, FoundInv
<1>4. frame.secret > 0 /\ secret[obj].owned /\ Latest(frame.secret)
  BY DEF SettledInv, Achieved
<1>5. api[obj].phase = "live"
  BY <1>1, Stored DEF FinalizerInv, BranchInv, Protected
<1>6. Seen(frame.secret, obj)
  BY <1>1 DEF SeenInv
<1>7. frame.secret <= accounts[m].password
  BY <1>2, <1>4, <1>5, <1>6 DEF Seen
<1>8. accounts[m].password <= secret[obj].content
  BY <1>1, <1>3 DEF PasswordInv
<1>9. accounts[m].password \in Nat /\ secret[obj].content \in Nat
  BY <1>1, <1>3, UserAssumption DEF TypeOK, OwnedBy, Exists, Account, Contents
<1> QED BY <1>2, <1>4, <1>7, <1>8, <1>9 DEF Latest

\* What the worker decides on.
LEMMA ChoiceSettled ==
  ASSUME Gentle, TypeOK, NameInv, FinalizerInv, MineInv, OneNameInv, AccountInv,
         PasswordInv, SeenInv, SettledInv,
         \/ Settle \/ NilSecret \/ CheckExists \/ CheckMine \/ KeepUser \/ CheckFinalize
  PROVE  SettledInv'
<1>1. /\ obj \in Objects /\ obj # NoObject /\ inst \in User /\ inst.status \in Status
  BY WorkerHolds, UserParts, ObjectsAssumption
     DEF Settle, NilSecret, CheckExists, CheckMine, KeepUser, CheckFinalize
<1>2. SqlOnly /\ UNCHANGED <<accounts, secret, frame, api, obj, queue>>
  BY DEF Settle, NilSecret, CheckExists, CheckMine, KeepUser, CheckFinalize,
         mysql, SqlOnly, world, store
<1>3. Benign
  BY GentleIsBenign
<1>4. pc' # "report" /\ (fresh => Achieved')
  <2>1. CASE Settle
    <3>1. pc = "claim" /\ pc' = "exists" /\ inst' = inst /\ SecretOwned
      BY <2>1 DEF Settle, Goto
    <3>2. frame.secret > 0 => secret[obj].owned
      BY <3>1 DEF SecretOwned
    <3> QED BY <1>2, <3>1, <3>2 DEF SettledInv, Achieved, WithSecret, Latest
  <2>2. CASE NilSecret
    BY <2>2 DEF NilSecret, Goto, Achieved
  <2>3. CASE CheckExists
    <3>1. pc = "exists" /\ pc' \in {"mine", "create"} /\ inst' = inst
      BY <2>3 DEF CheckExists, Goto
    <3> QED BY <1>2, <3>1 DEF SettledInv, Achieved, WithSecret, Latest
  <2>4. CASE CheckMine
    <3>1. /\ pc = "mine"
          /\ \/ UserMine(inst) /\ inst' = inst
                /\ pc' = IF inst.spec.username # name THEN "rename" ELSE "details"
             \/ ~UserMine(inst) /\ SetMessage("refused") /\ pc' = "status"
      BY <1>3, <2>4, BenignAnswers DEF CheckMine, Goto
    <3>2. PICK m \in Names : m = name /\ m = inst.spec.username
      BY <3>1, OneName DEF Claimed
    <3>3. fresh => UserMine(inst)
      <4>1. SUFFICES ASSUME fresh PROVE UserMine(inst)
        OBVIOUS
      <4>2. api[obj].phase = "live"
        BY <1>1, <3>1, <4>1, Stored DEF FinalizerInv, BranchInv, Protected
      <4>3. OwnedBy(m, obj)
        BY <3>1, <3>2 DEF AccountInv, FoundInv
      <4>4. m \in ledger[obj]
        BY <1>1, <3>1, <4>2, <4>3 DEF AccountInv, TidyInv, Kept, Creating
      <4>5. NamesOf(inst) = {m}
        BY <3>2, UserAssumption DEF NamesOf, name
      <4> QED BY <4>4, <4>5 DEF UserMine
    <3>4. fresh => inst' = inst /\ pc' = "details"
      BY <3>1, <3>2, <3>3
    <3> QED BY <1>2, <3>1, <3>4 DEF SettledInv, Achieved, WithSecret, Latest
  <2>5. CASE KeepUser
    <3>1. /\ pc = "details" /\ pc' = "permissions" /\ inst' = inst
          /\ WithSecret => inst.status.version = frame.secret
      BY <2>5 DEF KeepUser, DetailsDiffer, PasswordChanged, WithSecret, Goto
    <3>2. PICK m \in Names : m = name /\ m = api[obj].spec.username
      BY <3>1, OneName DEF Claimed
    <3>3. OwnedBy(m, obj)
      BY <3>1, <3>2 DEF AccountInv, FoundInv
    <3>4. fresh /\ WithSecret => secret[obj].owned /\ Latest(accounts[m].password)
      BY <3>1, <3>2, Applied
    <3> QED BY <1>2, <3>1, <3>2, <3>3, <3>4
            DEF Achieved, WithSecret, Latest, name, OwnedBy, Exists
  <2>6. CASE CheckFinalize
    <3>1. pc' \in {"drop", "removeFinalizer"}
      BY <2>6 DEF CheckFinalize, Goto
    <3> QED BY <3>1 DEF Achieved
  <2> QED BY <2>1, <2>2, <2>3, <2>4, <2>5, <2>6
<1>5. \A o \in Objects : Spares(o)
  BY <1>2 DEF Spares, OwnedBy, Exists
<1> QED BY <1>1, <1>2, <1>4, <1>5, StatementSettled

\* Statements that change the account.
LEMMA ChangeSettled ==
  ASSUME Gentle, TypeOK, NameInv, FinalizerInv, MineInv, OneNameInv, AccountInv,
         PasswordInv, SeenInv, SettledInv, [Next]_vars, Undisputed,
         \/ CreateUser \/ AlterUser \/ RevokeAll \/ DropUser \/ ForgetRecord
         \/ GrantOne
  PROVE  SettledInv'
<1>1. obj \in Objects /\ Benign
  BY WorkerHolds, GentleIsBenign
     DEF CreateUser, AlterUser, RevokeAll, DropUser, ForgetRecord, GrantOne
<1>2. AlterUser \/ RevokeAll \/ GrantOne
      => Exists(name) /\ OwnedBy(name, obj) /\ FALSE \notin Succeeds
  BY <1>1, Reached, BenignAnswers
<1>3. SqlOnly
  BY <1>1, <1>2, CreateEffect, AlterEffect, RevokeEffect, GrantEffect
     DEF DropUser, ForgetRecord
<1>4. UNCHANGED <<api, obj, secret, queue>>
  BY <1>3 DEF SqlOnly, store, world
<1>5. pc' # "report" /\ (fresh => Achieved')
  <2>1. CASE CreateUser
    <3>1. pc = "create" /\ pc' = "grant" /\ inst'.spec = inst.spec
          /\ OwnedBy(name, obj)' /\ name' = name /\ accounts'[name].password = Password
      BY <1>1, <2>1, CreateOwners, CreateEffect DEF MineInv, CreateUser
    <3>2. WithSecret => Password = secret[obj].content
      BY DEF WithSecret, Password
    <3> QED BY <1>4, <3>1, <3>2 DEF SettledInv, Achieved, WithSecret, Latest
  <2>2. CASE AlterUser
    <3>1. /\ pc = "details" /\ pc' = "status"
          /\ accounts'[name].creator = accounts[name].creator
          /\ accounts'[name] # Absent
          /\ accounts'[name].password = IF inst.status.version # frame.secret
                                        THEN secret[obj].content
                                        ELSE accounts[name].password
          /\ inst.status.version # frame.secret \/ inst.status.tls # inst.spec.tls
          /\ inst'.status.version = frame.secret /\ inst'.status.tls = inst.spec.tls
          /\ inst'.spec = inst.spec /\ name' = name
      BY <1>2, <2>2, AlterEffect
    <3>2. fresh => inst.status = api[obj].status
      BY <3>1 DEF SettledInv, Achieved
    <3>3. fresh /\ WithSecret =>
            /\ secret[obj].owned
            /\ accounts'[name].password = secret[obj].content
               \/ Latest(accounts'[name].password)
      <4>1. fresh /\ WithSecret => secret[obj].owned
        BY <3>1 DEF SettledInv, Achieved
      <4>2. fresh /\ WithSecret /\ inst.status.version = frame.secret =>
              Latest(accounts[name].password)
        BY <3>1, Applied
      <4> QED BY <3>1, <4>1, <4>2
    <3>4. OwnedBy(name, obj)'
      BY <1>2, <1>4, <2>2, <3>1 DEF OwnedBy, Exists
    <3>5. fresh => inst'.status # api'[obj'].status
      BY <1>4, <3>1, <3>2
    <3> QED BY <1>4, <3>1, <3>3, <3>4, <3>5 DEF Achieved, WithSecret, Latest
  <2>3. CASE RevokeAll \/ GrantOne
    <3>1. /\ pc \in {"revoke", "grantOne"} /\ pc' = "grant"
          /\ accounts'[name].creator = accounts[name].creator
          /\ accounts'[name].password = accounts[name].password
          /\ accounts'[name] # Absent
          /\ inst'.spec = inst.spec /\ name' = name
      BY <1>1, <1>2, <2>3, RevokeEffect, GrantEffect DEF name
    <3>2. OwnedBy(name, obj)'
      BY <1>2, <1>4, <2>3, <3>1 DEF OwnedBy, Exists
    <3> QED BY <1>4, <3>1, <3>2 DEF SettledInv, Achieved, WithSecret, Latest
  <2>4. CASE DropUser \/ ForgetRecord
    BY <2>4 DEF DropUser, ForgetRecord, Goto, Achieved
  <2> QED BY <2>1, <2>2, <2>3, <2>4
<1>6. \A o \in Objects : o # obj => Spares(o)
  BY <1>1, SparesOthers
<1> QED BY <1>1, <1>3, <1>4, <1>5, <1>6, StatementSettled

\* What the worker reads of the privileges, and the row it saves.
LEMMA ShownSettled ==
  ASSUME Gentle, TypeOK, NameInv, FinalizerInv, MineInv, OneNameInv, AccountInv,
         LinesInv, SettledInv,
         \/ CompareGrants \/ ShowGrants \/ SaveRecord
         \/ CheckGrant \/ \E d \in Databases : LookUp(d) \/ GrantMissing(d)
  PROVE  SettledInv'
<1>1. obj \in Objects /\ obj # NoObject /\ Benign
  BY WorkerHolds, GentleIsBenign, ObjectsAssumption
     DEF CompareGrants, ShowGrants, SaveRecord, LookUp, CheckGrant, GrantMissing
<1>2. Exists(name) /\ OwnedBy(name, obj) /\ name \in Names
  BY Served DEF CompareGrants, ShowGrants, SaveRecord, LookUp, CheckGrant,
                GrantMissing
<1>3. CASE /\ SqlOnly /\ UNCHANGED accounts /\ pc' # "report"
           /\ inst'.spec = inst.spec /\ name' = name
           /\ pc \in {"permissions", "grant", "grantMine", "record"}
           /\ pc' \in {"revoke", "grant", "grantMine", "grantOne", "record", "status"}
           /\ pc' = "status" => accounts[name].grants \subseteq inst.spec.databases
  <2>1. UNCHANGED <<api, obj, secret, queue>>
    BY <1>3 DEF SqlOnly, store, world
  <2>2. OwnedBy(name, obj)'
    BY <1>2, <1>3, <2>1 DEF OwnedBy, Exists
  <2>3. fresh => Achieved'
    BY <1>3, <2>1, <2>2 DEF SettledInv, Achieved, WithSecret, Latest
  <2>4. \A o \in Objects : Spares(o)
    BY <1>3 DEF Spares, OwnedBy, Exists
  <2> QED BY <1>1, <1>3, <2>1, <2>3, <2>4, StatementSettled
<1>4. CASE CompareGrants
  <2>1. /\ SqlOnly /\ UNCHANGED accounts /\ inst'.spec = inst.spec /\ name' = name
        /\ pc = "permissions" /\ pc' \in {"status", "revoke", "grant"}
        /\ pc' = "status" => /\ Shown = inst.status.grants
                             /\ inst.status.databases = inst.spec.databases
    BY <1>1, <1>2, <1>4, CompareEffect DEF mysql
  <2>2. \A d \in accounts[name].grants : <<name, d>> \in Shown
    BY DEF Shown
  <2>3. \A l \in inst.status.grants : l[2] \in inst.status.databases
    BY <1>1, <2>1 DEF LinesInv, LinesOf
  <2>4. pc' = "status" => accounts[name].grants \subseteq inst.spec.databases
    <3> SUFFICES ASSUME pc' = "status", NEW d \in accounts[name].grants
                 PROVE  d \in inst.spec.databases
      OBVIOUS
    <3>1. <<name, d>> \in inst.status.grants
      BY <2>1, <2>2
    <3>2. <<name, d>>[2] \in inst.status.databases
      BY <2>3, <3>1
    <3> QED BY <2>1, <3>2
  <2> QED BY <1>3, <2>1, <2>4
<1>5. CASE ShowGrants
  <2>1. accounts[name].grants \subseteq inst.spec.databases
    BY <1>2, <1>5 DEF LinesInv, ShowGrants
  <2> QED BY <1>1, <1>2, <1>3, <1>5, <2>1, ShowEffect DEF mysql, Leave
<1>6. CASE SaveRecord
  <2>1. accounts[name].grants \subseteq inst.spec.databases
    BY <1>2, <1>6 DEF LinesInv, SaveRecord
  <2>2. pc = "record" /\ UNCHANGED accounts
    BY <1>6 DEF SaveRecord
  <2>3. CASE GiveUp /\ UNCHANGED world
    BY <2>2, <2>3, GiveUpSettled
  <2>4. CASE pc' = "status" /\ UNCHANGED inst /\ SqlOnly
    BY <1>3, <2>1, <2>2, <2>4 DEF name
  <2> QED BY <1>6, <2>3, <2>4 DEF SaveRecord, Goto
<1>7. CASE \E d \in Databases : GrantMissing(d)
  <2>1. pc = "grant" /\ UNCHANGED accounts
    BY <1>7 DEF GrantMissing, mysql
  <2>2. CASE GiveUp /\ UNCHANGED world
    BY <2>1, <2>2, GiveUpSettled
  <2>3. CASE pc' = "record" /\ UNCHANGED inst /\ SqlOnly
    BY <1>3, <2>1, <2>3 DEF name
  <2> QED BY <1>7, <2>2, <2>3 DEF GrantMissing, Goto
<1>8. CASE CheckGrant \/ \E d \in Databases : LookUp(d)
  <2>1. /\ SqlOnly /\ UNCHANGED accounts /\ inst' = inst
        /\ pc \in {"grant", "grantMine"} /\ pc' \in {"grant", "grantMine", "grantOne"}
    BY <1>8 DEF CheckGrant, LookUp, Goto, mysql
  <2> QED BY <1>3, <2>1 DEF name
<1> QED BY <1>4, <1>5, <1>6, <1>7, <1>8

\* An update leaves a version or an error behind, or all that was asked for.
LEMMA UpdateSettled ==
  ASSUME Gentle, TypeOK, NameInv, FinalizerInv, MineInv, OneNameInv, AccountInv,
         SettledInv,
         \/ ClaimName \/ AddFinalizer \/ InvalidName \/ RemoveFinalizer
         \/ SaveStatus \/ SaveReport
  PROVE  SettledInv'
<1>1. PICK p \in Objects :
        /\ p = obj /\ p # NoObject /\ inst \in User /\ api[p] \in User
        /\ inst.status \in Status /\ api[p].status \in Status
  BY WorkerHolds, UserParts, ObjectsAssumption
     DEF ClaimName, AddFinalizer, InvalidName, RemoveFinalizer, SaveStatus,
         SaveReport
<1>2. Benign /\ ~SaveReport
  BY GentleIsBenign DEF SettledInv, SaveReport
<1>3. PICK r : Done(r) /\ K8sOnly
  BY <1>2
     DEF ClaimName, AddFinalizer, InvalidName, RemoveFinalizer, SaveStatus,
         Update
<1>4. /\ UNCHANGED <<admin, accounts, secret>> /\ queue \subseteq queue'
      /\ \A o \in Objects \ {p} : api'[o] = api[o] /\ (o \notin synced => o \notin synced')
  BY <1>1, <1>2, <1>3
     DEF ClaimName, AddFinalizer, InvalidName, RemoveFinalizer, SaveStatus,
         Update, K8sOnly, world, mysql, store, Write, WriteStamped, Done,
         Return, TypeOK
<1>5. Pending(p) \/ fresh
  BY <1>1 DEF SettledInv, Informed
<1>6. CASE UNCHANGED store /\ (Pending(p) \/ Done(TRUE))
  <2>1. Pending(p)'
    BY <1>1, <1>4, <1>6 DEF Pending, Done, Return, store
  <2>2. api'[p].phase = "deleting" => api'[p].finalizer
    BY <1>6 DEF SettledInv, Awaited, store
  <2> QED BY <1>1, <1>3, <1>4, <2>1, <2>2, EndSettled
<1>7. ASSUME NEW new, Write(new), new # api[p], new.phase = api[p].phase,
             api[p].finalizer => new.finalizer
      PROVE  SettledInv'
  <2>1. p \notin synced' /\ api'[p] = new
    BY <1>1, <1>7 DEF Write, TypeOK
  <2>2. api'[p].phase = "deleting" => api'[p].finalizer
    BY <1>7, <2>1 DEF SettledInv, Awaited
  <2> QED BY <1>1, <1>3, <1>4, <2>1, <2>2, EndSettled DEF Pending
<1>8. fresh => /\ inst.spec = api[p].spec /\ inst.phase = api[p].phase
               /\ inst.finalizer = api[p].finalizer
  BY <1>1, Stored
<1>9. CASE ClaimName
  <2> DEFINE new == [api[p] EXCEPT !.status.username = inst.spec.username]
  <2>1. \/ UNCHANGED store /\ Done(TRUE)
        \/ fresh /\ Write(new)
    BY <1>1, <1>9 DEF ClaimName, Update, Accepted
  <2>2. fresh => api[p].status.username = Unset
    BY <1>1, <1>9 DEF ClaimName, SettledInv, Achieved
  <2>3. /\ new.status.username = inst.spec.username /\ new.phase = api[p].phase
        /\ new.finalizer = api[p].finalizer
    BY <1>1 DEF User, Status
  <2>4. inst.spec.username # Unset
    BY <1>1, StatusTypes, UserAssumption DEF TypeOK
  <2> HIDE DEF new
  <2>5. fresh => new # api[p]
    BY <2>2, <2>3, <2>4
  <2> QED BY <1>6, <1>7, <2>1, <2>3, <2>5
<1>10. CASE AddFinalizer
  <2> DEFINE new == [api[p] EXCEPT !.finalizer = TRUE]
  <2>1. \/ UNCHANGED store /\ Done(TRUE)
        \/ fresh /\ Write(new)
    BY <1>1, <1>10 DEF AddFinalizer, Update, Accepted
  <2>2. fresh => api[p].finalizer = FALSE
    BY <1>1, <1>8, <1>10 DEF AddFinalizer, NeedsFinalizer, User
  <2>3. new.finalizer = TRUE /\ new.phase = api[p].phase
    BY <1>1 DEF User
  <2> HIDE DEF new
  <2>4. fresh => new # api[p]
    BY <2>2, <2>3
  <2> QED BY <1>6, <1>7, <2>1, <2>3, <2>4
<1>11. CASE RemoveFinalizer
  <2> DEFINE new == [api[p] EXCEPT !.finalizer = FALSE, !.phase = "gone"]
  <2>1. \/ UNCHANGED store /\ Done(TRUE)
        \/ fresh /\ Write(new)
    BY <1>1, <1>11 DEF RemoveFinalizer, Update, Accepted
  <2>2. ASSUME Write(new) PROVE api'[p].phase = "gone"
    BY <1>1, <2>2 DEF Write, TypeOK, User
  <2>3. ASSUME Write(new) PROVE SettledInv'
    <3>1. Fine(p)'
      BY <2>2, <2>3 DEF Fine
    <3> QED BY <1>1, <1>3, <1>4, <2>2, <2>3, <3>1, EndSettled
  <2> QED BY <1>6, <2>1, <2>3
<1>12. CASE InvalidName
  <2> DEFINE new == [api[p] EXCEPT !.status.message = "invalid"]
  <2>1. \/ UNCHANGED store /\ Done(TRUE)
        \/ fresh /\ Write(new)
    BY <1>1, <1>12 DEF InvalidName, Update, Accepted
  <2>2. ASSUME fresh, Write(new) PROVE SettledInv'
    <3>1. /\ api'[p].phase = api[p].phase /\ api'[p].spec = api[p].spec
          /\ api'[p].status.message = "invalid"
      BY <1>1, <2>2 DEF Write, TypeOK, User, Status
    <3>2. api[p].phase = "live" /\ inst.spec = api[p].spec
      BY <1>8, <1>12, <2>2 DEF InvalidName, FinalizerInv, BranchInv
    <3>3. PICK m \in Names : m = api[p].spec.username
      BY <1>1, UserAssumption DEF User, UserSpec
    <3>4. Exists(m) /\ m \notin ledger[p]
      <4>1. ~UserMine(inst) /\ inst.status.username = Unset
        BY <1>2, <1>12, BenignAnswers DEF InvalidName, Named
      <4> QED BY <1>1, <3>2, <3>3, <4>1 DEF UserMine, NamesOf
    <3>5. \A n \in Names : ~OwnedBy(n, p)
      BY <1>12, <3>2, <3>3, <3>4 DEF AccountInv, TidyInv, Kept, Creating,
                                     InvalidName
    <3>6. Fine(p)'
      BY <1>4, <3>1, <3>2, <3>3, <3>4, <3>5 DEF Fine, Taken, Within, OwnedBy,
                                                Exists
    <3>7. api'[p].phase # "deleting"
      BY <3>1, <3>2
    <3> QED BY <1>1, <1>3, <1>4, <3>6, <3>7, EndSettled
  <2> QED BY <1>6, <2>1, <2>2
<1>13. CASE SaveStatus
  <2> DEFINE new == [api[p] EXCEPT !.status = inst.status]
  <2>1. pc = "status" /\ (~fresh => UNCHANGED store)
    BY <1>13 DEF SaveStatus, Accepted
  <2>2. CASE ~fresh
    BY <1>5, <1>6, <2>1, <2>2
  <2>3. CASE fresh
    <3>1. /\ api[p].phase = "live"
          /\ p \in queue \/ Current(p)
          /\ accounts[name].grants \subseteq inst.spec.databases => Within(p)
      BY <1>1, <2>1, <2>3, Arrived
    <3>2. \/ UNCHANGED store /\ "update" \in Faults
          \/ Write(new) \/ WriteStamped(new)
      BY <1>1, <2>3, <1>13 DEF SaveStatus, Refusable
    <3>3. api'[p].phase = "live" /\ api'[p].spec = api[p].spec
      BY <1>1, <3>1, <3>2 DEF Write, WriteStamped, TypeOK, User, store
    <3>4. Current(p) => Current(p)'
      BY <1>4, <3>3 DEF Current, OwnedBy, Exists
    <3>5. Within(p) => Within(p)'
      BY <1>4, <3>3 DEF Within, OwnedBy, Exists
    <3>6. "update" \notin Faults => Within(p) \/ Pending(p)'
      <4>1. ASSUME Write(new) \/ WriteStamped(new), inst.status # api[p].status
            PROVE  p \notin synced'
        <5>1. new.status = inst.status
          BY <1>1 DEF User
        <5>2. new # api[p]
          BY <4>1, <5>1
        <5> QED BY <1>1, <4>1, <5>2 DEF Write, WriteStamped
      <4>2. \/ accounts[name].grants \subseteq inst.spec.databases
            \/ inst.status # api[p].status
        BY <1>1, <2>1, <2>3 DEF SettledInv, Achieved
      <4> QED BY <3>1, <3>2, <4>1, <4>2 DEF Pending
    <3>7. Pending(p)' \/ Fine(p)'
      BY <1>4, <3>1, <3>3, <3>4, <3>5, <3>6 DEF Pending, Fine
    <3> QED BY <1>1, <1>3, <1>4, <3>3, <3>7, EndSettled
  <2> QED BY <2>2, <2>3
<1> QED BY <1>2, <1>9, <1>10, <1>11, <1>12, <1>13

-----------------------------------------------------------------------------
(* What happens around a reconcile.                                        *)

\* What is skipped has nothing to be done, or a watch event to come.
LEMMA BeginSettled ==
  ASSUME TypeOK, FinalizerInv, SettledInv, NEW o \in Objects, BeginReconcile(o)
  PROVE  SettledInv'
<1>1. o \in synced => cached[o] = api[o]
  BY DEF FinalizerInv, CacheInv
<1>2. /\ UNCHANGED <<api, cached, synced, secret, accounts, admin>>
      /\ queue' = queue \ {o} /\ obj = NoObject
  BY DEF BeginReconcile, Skip, FinalizeUnreachable, FinalizeStart, Unreachable,
         Start, Begin, Take, K8sOnly, world, mysql, store, TypeOK
<1>3. ASSUME NEW p \in Objects PROVE Fine(p) => Fine(p)'
  <2>1. Spares(p)
    BY <1>2 DEF Spares, OwnedBy, Exists
  <2> QED BY <1>2, <2>1, FineStays
<1>4. CASE Skip(o)
  <2>1. /\ NothingToDo(cached[o]) /\ UNCHANGED <<pc, obj, inst, fresh>>
        /\ pc = "idle"
    BY <1>4 DEF Skip, worker
  <2>2. Pending(o)' \/ Fine(o)
    BY <1>1, <1>2, <2>1 DEF SettledInv, Awaited, NothingToDo, Fine, Pending
  <2>3. \A p \in Objects : p # o /\ Pending(p) => Pending(p)'
    BY <1>2 DEF Pending
  <2>4. Awaited'
    BY <1>2, <1>3, <2>1, <2>2, <2>3, ObjectsAssumption DEF SettledInv, Awaited
  <2> QED BY <1>2, <2>1, <2>4 DEF SettledInv, Informed, Achieved, Online
<1>5. CASE ~Skip(o)
  <2>1. Reach(cached[o])
    BY UserAssumption DEF Reach, Server, TypeOK, User, UserSpec, SettledInv,
                          Online
  <2>2. /\ obj' = o /\ inst' = cached[o] /\ fresh' = (o \in synced)
        /\ pc' \in {"finalize", "secret"}
    BY <1>5, <2>1
       DEF BeginReconcile, FinalizeUnreachable, FinalizeStart, Unreachable,
           Start, Begin, Take, Goto, SettledInv
  <2>3. fresh' => Achieved'
    BY <1>1, <1>2, <2>2 DEF Achieved
  <2>4. Awaited' /\ Informed'
    BY <1>2, <1>3, <2>2, ObjectsAssumption DEF SettledInv, Awaited, Informed,
                                               Pending
  <2> QED BY <1>2, <2>2, <2>3, <2>4 DEF SettledInv, Online
<1> QED BY <1>4, <1>5

\* A rotated secret queues its owner, if it has one; a reconcile that has read
\* the older secret and finds it without an owner fails to become that.
LEMMA RotateSettled ==
  ASSUME TypeOK, FinalizerInv, MineInv, SettledInv, NEW o \in Objects, SecretWrite(o)
  PROVE  SettledInv'
<1>1. /\ UNCHANGED <<store, worker, pc, frame, admin, accounts>>
      /\ secret' = [secret EXCEPT ![o].content = @ + 1]
      /\ queue' = queue \cup ({q \in {o} : secret[q].owned} \cap Listed(cached))
  BY DEF SecretWrite, Enqueue, Still, mysql
<1>2. /\ \A p \in Objects \ {o} : secret'[p] = secret[p]
      /\ secret'[o].owned = secret[o].owned
  BY <1>1 DEF TypeOK
<1>3. ASSUME secret[o].owned, api[o].phase = "live" PROVE Pending(o)'
  <2>1. o \in synced => o \in Listed(cached)
    BY <1>3 DEF Listed, FinalizerInv, CacheInv
  <2> QED BY <1>1, <1>3, <2>1 DEF Pending, store
<1>4. \A p \in Objects : Spares(p)
  BY <1>1 DEF Spares, OwnedBy, Exists
<1>5. Awaited'
  <2> SUFFICES ASSUME NEW p \in Objects, Fine(p), ~Pending(p)' PROVE Fine(p)'
    BY <1>1 DEF SettledInv, Awaited, Pending, store, worker
  <2>1. CASE p # o
    BY <1>1, <1>2, <1>4, <2>1, FineStays DEF store
  <2>2. CASE p = o
    <3>1. api[o].phase = "live" => ~secret[o].owned
      BY <1>3, <2>2
    <3>2. api[o].phase = "live" /\ Current(o) => Current(o)'
      BY <1>1, <3>1 DEF Current, OwnedBy, Exists, store
    <3>3. Taken(o) => Taken(o)'
      BY <1>1 DEF Taken, OwnedBy, Exists, store
    <3>4. Within(o) => Within(o)'
      BY <1>1 DEF Within, OwnedBy, Exists, store
    <3> QED BY <1>1, <2>2, <3>2, <3>3, <3>4 DEF Fine, store
  <2> QED BY <2>1, <2>2
<1>6. fresh => Achieved'
  <2> SUFFICES ASSUME fresh PROVE Achieved'
    OBVIOUS
  <2>1. Achieved
    BY DEF SettledInv
  <2>2. CASE obj # o
    <3>1. obj \in Objects => secret'[obj] = secret[obj]
      BY <1>2, <2>2
    <3>2. pc # "idle" => obj \in Objects
      BY WorkerHolds
    <3> QED BY <1>1, <2>1, <3>1, <3>2
            DEF Achieved, WithSecret, Latest, OwnedBy, Exists, name, store,
                worker
  <2>3. CASE obj = o
    <3>1. \/ pc \notin {"claim", "exists", "create", "mine", "details", "permissions",
                        "revoke", "grant", "grantMine", "grantOne", "status",
                        "record"}
          \/ api[o].phase = "live"
      BY <2>3, Stored DEF FinalizerInv, BranchInv, Protected
    <3>2. o \in synced /\ (api[o].phase = "live" /\ secret[o].owned => o \in queue')
      <4>1. o \in synced
        BY <2>3, Stored
      <4> QED BY <1>1, <1>3, <4>1 DEF Pending, store
    <3> QED BY <1>1, <1>2, <2>1, <2>3, <3>1, <3>2
            DEF Achieved, WithSecret, Latest, OwnedBy, Exists, name, store,
                worker
  <2> QED BY <2>2, <2>3
<1>7. Informed'
  BY <1>1 DEF SettledInv, Informed, Pending, store, worker
<1> QED BY <1>1, <1>5, <1>6, <1>7 DEF SettledInv, Online, worker

\* Whatever users store is a version that the cache has yet to see.
LEMMA EnvironmentSettled ==
  ASSUME Gentle, TypeOK, FinalizerInv, MineInv, SettledInv, Environment
  PROVE  SettledInv'
<1>1. CASE \E o \in Objects : SecretWrite(o)
  BY <1>1, RotateSettled
<1>2. CASE Respawn
  <2>1. /\ obj' = NoObject /\ ~fresh' /\ pc' = "idle" /\ synced' = Objects
        /\ queue' = Listed(api) /\ UNCHANGED <<api, admin>>
    BY <1>2 DEF Respawn, Restart, Relist, Goto, K8sOnly, world
  <2>2. Awaited'
    BY <2>1 DEF SettledInv, Awaited, Pending, Fine, Listed, TypeOK, User, Phases
  <2> QED BY <2>1, <2>2 DEF SettledInv, Informed, Online
<1>3. CASE ~Respawn /\ ~\E o \in Objects : SecretWrite(o)
  <2>1. /\ UNCHANGED <<admin, secret, accounts, pc, frame, obj, inst>>
        /\ queue \subseteq queue'
    BY <1>3, GentleIsBenign, BenignAnswers
       DEF Environment, Crash, Resync, AdminChange, UserCreate, UserEdit,
           UserMove, UserDelete, Submit, Watch, Observe, DatabaseChange,
           ExternalCreate, ExternalDrop, Enqueue, Still, K8sOnly, world, mysql,
           k8s, worker
  <2>2. \A o \in Objects : Spares(o)
    BY <2>1 DEF Spares, OwnedBy, Exists
  <2>3. CASE UNCHANGED <<api, fresh>> /\ (UNCHANGED synced \/ \E o \in Objects : Watch(o))
    <3>1. \A p \in Objects : Pending(p) => Pending(p)'
      BY <2>1, <2>3 DEF Pending, Watch, Observe
    <3>2. \A p \in Objects : Fine(p) => Fine(p)'
      BY <2>1, <2>2, <2>3, FineStays
    <3>3. Awaited' /\ Informed'
      BY <2>1, <2>3, <3>1, <3>2 DEF SettledInv, Awaited, Informed, TypeOK
    <3>4. fresh => Achieved'
      BY <2>1, <2>3
         DEF SettledInv, Achieved, WithSecret, Latest, OwnedBy, Exists, name
    <3> QED BY <2>1, <2>3, <3>3, <3>4 DEF SettledInv, Online
  <2>4. CASE \E o \in Objects : UserCreate(o) \/ UserEdit(o) \/ UserDelete(o)
    <3>1. PICK o \in Objects : UserCreate(o) \/ UserEdit(o) \/ UserDelete(o)
      BY <2>4
    <3>2. api[o] \in User /\ (api[o].phase = "deleting" => api[o].finalizer)
      BY DEF TypeOK, SettledInv, Awaited
    <3>3. PICK new : Submit(o, new) /\ (new.phase = "deleting" => new.finalizer)
      <4>1. CASE UserCreate(o)
        BY <4>1 DEF UserCreate, NewObject
      <4>2. CASE UserEdit(o)
        BY <3>2, <4>2 DEF UserEdit, User
      <4>3. CASE UserDelete(o)
        BY <3>2, <4>3 DEF UserDelete, User
      <4> QED BY <3>1, <4>1, <4>2, <4>3
    <3>4. /\ api'[o] = new /\ Pending(o)'
          /\ \A p \in Objects \ {o} : api'[p] = api[p] /\ (Pending(p) => Pending(p)')
          /\ fresh' = (fresh /\ obj # o)
      BY <3>3 DEF Submit, TypeOK, Pending
    <3>5. \A p \in Objects \ {o} : Fine(p) => Fine(p)'
      BY <2>1, <2>2, <3>4, FineStays
    <3>6. Awaited'
      BY <2>1, <3>3, <3>4, <3>5 DEF SettledInv, Awaited
    <3>7. Informed'
      BY <2>1, <3>4 DEF SettledInv, Informed, TypeOK
    <3>8. fresh' => Achieved'
      <4>1. pc # "idle" => obj \in Objects
        BY WorkerHolds
      <4>2. fresh' => fresh /\ (pc # "idle" => api'[obj] = api[obj])
        BY <3>4, <4>1
      <4> QED BY <2>1, <4>2
              DEF SettledInv, Achieved, WithSecret, Latest, OwnedBy, Exists,
                  name
    <3> QED BY <2>1, <3>6, <3>7, <3>8 DEF SettledInv, Online
  <2>5. /\ ~Crash /\ \A k \in Connections : ~AdminChange(k)
        /\ \A o \in Objects : ~UserMove(o)
        /\ \A n \in Names : ~ExternalCreate(n) /\ ~ExternalDrop(n)
    BY GentleIsBenign, BenignAnswers
       DEF Crash, AdminChange, ExternalCreate, ExternalDrop
  <2>6. CASE \E o \in Objects : Watch(o)
    <3>1. UNCHANGED <<api, fresh>>
      BY <2>6 DEF Watch, Observe
    <3> QED BY <2>3, <2>6, <3>1
  <2>7. CASE Resync
    <3>1. UNCHANGED <<api, fresh, synced>>
      BY <2>7 DEF Resync, Enqueue, store, worker
    <3> QED BY <2>3, <3>1
  <2>8. CASE \E d \in Databases : DatabaseChange(d)
    <3>1. UNCHANGED <<api, fresh, synced>>
      BY <2>8 DEF DatabaseChange, Enqueue, store, worker
    <3> QED BY <2>3, <3>1
  <2> QED BY <1>3, <2>4, <2>5, <2>6, <2>7, <2>8 DEF Environment
<1> QED BY <1>1, <1>2, <1>3

\* What a reconcile relies on, in one formula.
ServiceInv ==
  /\ NameInv /\ FinalizerInv /\ MineInv /\ TodoInv
  /\ OneNameInv /\ AccountInv /\ PasswordInv /\ SeenInv /\ LinesInv
  /\ SettledInv

\* Each kind of step, together: an event that is missed would break Awaited, a
\* statement that is skipped Achieved.
LEMMA StepSettled ==
  ASSUME Gentle, TypeOK, TypeOK', ServiceInv, [Next]_vars, Undisputed
  PROVE  SettledInv'
<1>1. CASE ReadSecret \/ CreateSecret \/ OwnSecret
  BY <1>1, SecretSettled DEF ServiceInv
<1>2. CASE \/ Settle \/ NilSecret \/ CheckExists \/ CheckMine \/ KeepUser
           \/ CheckFinalize
  BY <1>2, ChoiceSettled DEF ServiceInv
<1>3. CASE \/ CreateUser \/ AlterUser \/ RevokeAll \/ DropUser \/ ForgetRecord
           \/ GrantOne
  BY <1>3, ChangeSettled DEF ServiceInv
<1>4. CASE \/ CompareGrants \/ ShowGrants \/ SaveRecord \/ CheckGrant
           \/ \E d \in Databases : LookUp(d) \/ GrantMissing(d)
  BY <1>4, ShownSettled DEF ServiceInv
<1>5. CASE \/ ClaimName \/ AddFinalizer \/ InvalidName \/ RemoveFinalizer
           \/ SaveStatus \/ SaveReport
  BY <1>5, UpdateSettled DEF ServiceInv
<1>6. ~RenameUser
  BY DEF ServiceInv, OneNameInv, RenameUser
<1>7. CASE \E o \in Objects : BeginReconcile(o)
  BY <1>7, BeginSettled DEF ServiceInv
<1>8. CASE Environment
  BY <1>8, EnvironmentSettled DEF ServiceInv
<1>9. CASE UNCHANGED vars
  <2>1. UNCHANGED <<admin, pc, api, synced, queue, obj, inst, fresh, frame,
                    secret, accounts>>
    BY <1>9 DEF vars, k8s, store, worker, world, mysql
  <2>2. Awaited' = Awaited /\ Informed' = Informed /\ Achieved' = Achieved
    BY <2>1 DEF Awaited, Fine, Current, Taken, Within, Pending, Informed,
                Achieved, Latest, WithSecret, OwnedBy, Exists, name
  <2> QED BY <2>1, <2>2 DEF ServiceInv, SettledInv, Online
<1> QED BY <1>1, <1>2, <1>3, <1>4, <1>5, <1>6, <1>7, <1>8, <1>9
        DEF Next, Operator, Progress

\* Before the first reconcile no object, row or account of an object exists.
LEMMA ServiceInit == Gentle => (Init => OneNameInv /\ AccountInv /\ PasswordInv
                                        /\ SeenInv /\ LinesInv /\ SettledInv)
<1> SUFFICES ASSUME Gentle, Init
             PROVE  /\ OneNameInv /\ AccountInv /\ PasswordInv
                    /\ SeenInv /\ LinesInv /\ SettledInv
  OBVIOUS
<1>1. PICK s \in Specs : K8sInit([o \in Objects |-> NeverCreated(s)])
  BY DEF Init
<1>2. /\ \A o \in Objects : /\ api[o].phase = "absent" /\ api[o].status = NoStatus
                            /\ cached[o] = api[o]
      /\ pc = "idle" /\ obj = NoObject /\ ~fresh /\ Online
      /\ \A o \in Objects : ledger[o] = {}
  BY <1>1 DEF Init, K8sInit, NeverCreated, NewObject, Online
<1>3. \A o \in Objects, n \in Names : ~OwnedBy(n, o)
  BY UserAssumption DEF Init, OwnedBy, Exists, ForeignAccount
<1>4. OneNameInv
  BY <1>2 DEF OneNameInv, SameName, NoStatus
<1>5. AccountInv
  BY <1>2, <1>3 DEF AccountInv, TidyInv, ClaimInv, FoundInv, Present
<1>6. PasswordInv /\ SeenInv /\ LinesInv
  BY <1>2, <1>3 DEF PasswordInv, SeenInv, Seen, LinesInv, LinesOf, NoStatus
<1>7. SettledInv
  BY <1>2 DEF SettledInv, Awaited, Fine, Informed
<1> QED BY <1>4, <1>5, <1>6, <1>7

\* The invariant holds as long as users leave the names alone.
LEMMA ServiceCorrect == Gentle => (Spec /\ Undisturbed => [](TypeOK /\ ServiceInv))
<1> SUFFICES ASSUME Gentle PROVE Spec /\ Undisturbed => [](TypeOK /\ ServiceInv)
  OBVIOUS
<1> DEFINE Base == TypeOK /\ NameInv /\ FinalizerInv /\ MineInv /\ TodoInv /\ Rooted
           Own  == /\ OneNameInv /\ AccountInv /\ PasswordInv /\ SeenInv
                   /\ LinesInv /\ SettledInv
<1>1. Benign
  BY GentleIsBenign
<1>2. Spec => []Base
  <2>1. Init => NameInv /\ TodoInv
    BY DEF Init, NameInv, TodoInv
  <2>2. TypeOK /\ TypeOK' /\ NameInv /\ TodoInv /\ [Next]_vars => NameInv' /\ TodoInv'
    BY NameStep, TodoStep
  <2>3. Spec => []TypeOK /\ []FinalizerInv /\ []MineInv /\ []Rooted
    BY <1>1, TypeCorrect, FinalizerCorrect, RowsCorrect, RootedCorrect DEF Benign
  <2> QED BY <2>1, <2>2, <2>3, PTL DEF Spec
<1>3. Init => Own
  BY ServiceInit
<1>4. Base /\ Base' /\ Own /\ Undisputed /\ [Next /\ KeepsName]_vars => Own'
  <2> SUFFICES ASSUME Base, Base', Own, Undisputed, [Next /\ KeepsName]_vars
               PROVE  Own'
    OBVIOUS
  <2>1. [Next]_vars /\ KeepsName
    BY DEF KeepsName, vars, k8s, store
  <2>2. OneNameInv' /\ AccountInv' /\ PasswordInv' /\ SeenInv' /\ LinesInv'
    BY <1>1, <2>1, OneNameStep, AccountStep, PasswordKept, SeenStep, LinesStep
  <2>3. SettledInv'
    BY <2>1, StepSettled DEF ServiceInv
  <2> QED BY <2>2, <2>3
<1>5. Base /\ Own => TypeOK /\ ServiceInv
  BY DEF ServiceInv
<1>6. [Next]_vars /\ [KeepsName]_vars => [Next /\ KeepsName]_vars
  OBVIOUS
<1> QED BY <1>2, <1>3, <1>4, <1>5, <1>6, PTL DEF Spec, Undisturbed

\* When all is quiet, every live object has its account with the password of
\* its secret, or its status says that the name is taken, and no deletion is
\* left over: whatever updates the API server refused and DROPs failed, no
\* event that a reconcile depends on was missed (Reconcile, userUpdate).
THEOREM NothingMissed == Gentle => (Spec /\ Undisturbed => []Settled)
<1>1. TypeOK /\ ServiceInv => Settled
  <2> SUFFICES ASSUME TypeOK, ServiceInv, Quiet PROVE \A o \in Objects : Fine(o)
    BY Zenon DEF Settled, Fine
  <2> TAKE o \in Objects
  <2>1. obj # o /\ ~Pending(o)
    BY ObjectsAssumption DEF Quiet, Pending, TypeOK
  <2> QED BY <2>1 DEF ServiceInv, SettledInv, Awaited
<1> QED BY <1>1, ServiceCorrect, PTL

\* Nor has its account a privilege that its specification does not list, when
\* no status is lost on the way (userUpdate).
THEOREM NothingExtra ==
  Gentle /\ "update" \notin Faults => (Spec /\ Undisturbed => []NoExcess)
<1> SUFFICES ASSUME Gentle, "update" \notin Faults
             PROVE  Spec /\ Undisturbed => []NoExcess
  OBVIOUS
<1>1. TypeOK /\ ServiceInv => NoExcess
  <2> SUFFICES ASSUME TypeOK, ServiceInv, Quiet,
                      NEW o \in Objects, NEW n \in Names, api[o].phase = "live",
                      OwnedBy(n, o)
               PROVE  accounts[n].grants \subseteq api[o].spec.databases
    BY DEF NoExcess
  <2>1. obj # o /\ ~Pending(o)
    BY ObjectsAssumption DEF Quiet, Pending, TypeOK
  <2>2. Fine(o)
    BY <2>1 DEF ServiceInv, SettledInv, Awaited
  <2> QED BY <2>2 DEF Fine, Within
<1> QED BY <1>1, ServiceCorrect, PTL
=============================================================================
