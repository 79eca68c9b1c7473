---------------------- MODULE DatabaseOwnershipProofs ----------------------
(***************************************************************************)
(* The Database controller implements Ownership, for any number of objects *)
(* and schemas and any assignment of names: every step of it is one of     *)
(* Ownership or changes nothing that Ownership speaks of.                  *)
(***************************************************************************)
EXTENDS DatabaseOwnership, DatabaseReconcilerProofs

-----------------------------------------------------------------------------
(* Stages.                                                                 *)

SameStages ==
  \A o \in Objects : Stage(api'[o]) = Stage(api[o]) /\ Asked(o)' = Asked(o)

Passes(o, from, to) ==
  /\ Stage(api[o]) = from
  /\ Stage(api'[o]) = to
  /\ from = "absent" \/ Asked(o)' = Asked(o)
  /\ \A p \in Objects \ {o} : api'[p] = api[p]

\* A user names another AdminConnection for an object.
Relocates(o) ==
  /\ Moves # {}
  /\ Stage(api[o]) \in {"live", "protected", "deleting"}
  /\ Stage(api'[o]) = Stage(api[o])
  /\ \A p \in Objects \ {o} : api'[p] = api[p]

\* The steps that change an object's stage or server name, all outside the MySQL
\* servers.
Transition ==
  /\ UNCHANGED <<server, ledger>>
  /\ \E o \in Objects :
       \/ /\ UNCHANGED <<pc, obj, inst>>
          /\ \/ Passes(o, "absent", "live") \/ Passes(o, "live", "gone")
             \/ Passes(o, "protected", "deleting") \/ Relocates(o)
       \/ pc = "addFinalizer" /\ pc' = "idle" /\ Passes(o, "live", "protected")
       \/ /\ pc = "removeFinalizer" /\ pc' = "idle" /\ o = obj
          /\ schema = Asked(o) /\ Passes(o, "deleting", "gone")

\* What a stage is made of.
LEMMA StageOf ==
  ASSUME NEW r \in Database
  PROVE  /\ Stage([r EXCEPT !.finalizer = FALSE, !.phase = "gone"]) = "gone"
         /\ r.phase = "live" => Stage([r EXCEPT !.finalizer = TRUE]) = "protected"
         /\ r.phase = "live" => Stage(r) = IF r.finalizer THEN "protected" ELSE "live"
         /\ r.phase # "live" => Stage(r) = r.phase
         /\ Guarded(r) => Stage(r) \in {"protected", "deleting"}
BY DEF Stage, Database, Guarded

\* The worker's updates move its own object only, and the two that do are
\* based on the stored version.
LEMMA UpdateTransition ==
  ASSUME TypeOK, FinalizerInv, Current,
         AddFinalizer \/ RemoveFinalizer \/ SaveStatus \/ SaveReport
  PROVE  SameStages \/ Transition
<1>1. /\ obj \in Objects /\ obj # NoObject /\ api[obj] \in Database
      /\ pc' = "idle" /\ UNCHANGED <<server, ledger>>
  BY WorkerHolds, ObjectsAssumption
     DEF AddFinalizer, RemoveFinalizer, SaveStatus, SaveReport, Done, Goto,
         K8sOnly, mysql, TypeOK
<1>2. CASE UNCHANGED api
  BY <1>2 DEF SameStages, Asked
<1>3. ASSUME NEW new, Write(new) \/ WriteStamped(new)
      PROVE  api'[obj] = new /\ \A p \in Objects \ {obj} : api'[p] = api[p]
  BY <1>1, <1>3 DEF Write, WriteStamped, TypeOK
<1>4. CASE AddFinalizer /\ api' # api
  <2> DEFINE new == [api[obj] EXCEPT !.finalizer = TRUE]
  <2>1. fresh /\ Write(new) /\ pc = "addFinalizer"
    BY <1>4 DEF AddFinalizer, Accepted, store
  <2>2. api[obj].phase = "live"
    BY <1>1, <1>4, <2>1 DEF AddFinalizer, FinalizerInv, WorkerInv, BranchInv
  <2>3. Stage(new) = "protected" /\ Stage(api[obj]) \in {"live", "protected"}
    BY <1>1, <2>2, StageOf
  <2>4. api'[obj] = new /\ \A p \in Objects \ {obj} : api'[p] = api[p]
    BY <1>3, <2>1
  <2>5. new.connection = api[obj].connection
    BY <1>1 DEF Database
  <2> HIDE DEF new
  <2> QED BY <1>1, <2>1, <2>3, <2>4, <2>5 DEF SameStages, Transition, Passes, Asked
<1>5. CASE RemoveFinalizer /\ api' # api
  <2> DEFINE new == [api[obj] EXCEPT !.finalizer = FALSE, !.phase = "gone"]
  <2>1. fresh /\ Write(new) /\ pc = "removeFinalizer"
    BY <1>5 DEF RemoveFinalizer, Accepted, store
  <2>2. api[obj].phase = "deleting"
    BY <1>1, <2>1 DEF FinalizerInv, WorkerInv, BranchInv
  <2>3. Stage(new) = "gone" /\ Stage(api[obj]) = "deleting"
    BY <1>1, <2>2, StageOf
  <2>4. api'[obj] = new /\ \A p \in Objects \ {obj} : api'[p] = api[p]
    BY <1>3, <2>1
  <2>5. new.connection = api[obj].connection /\ schema = Asked(obj)
    BY <1>1, <2>1 DEF Database, Current, schema, Asked
  <2> HIDE DEF new
  <2> QED BY <1>1, <2>1, <2>3, <2>4, <2>5 DEF Transition, Passes, Asked
<1>6. CASE (SaveStatus \/ SaveReport) /\ api' # api
  <2>1. PICK new : /\ Write(new) \/ WriteStamped(new)
                   /\ \/ new = [api[obj] EXCEPT !.status = inst.status]
                      \/ new = [api[obj] EXCEPT !.status.message = "unreachable"]
    BY <1>6 DEF SaveStatus, SaveReport, store
  <2>2. Stage(new) = Stage(api[obj]) /\ new.connection = api[obj].connection
    <3>1. /\ Stage([api[obj] EXCEPT !.status = inst.status]) = Stage(api[obj])
          /\ [api[obj] EXCEPT !.status = inst.status].connection
               = api[obj].connection
          /\ Stage([api[obj] EXCEPT !.status.message = "unreachable"])
               = Stage(api[obj])
          /\ [api[obj] EXCEPT !.status.message = "unreachable"].connection
               = api[obj].connection
      BY <1>1 DEF Stage, Database
    <3> QED BY <2>1, <3>1
  <2>3. api'[obj] = new /\ \A p \in Objects \ {obj} : api'[p] = api[p]
    BY <1>3, <2>1
  <2> QED BY <2>2, <2>3 DEF SameStages, Asked
<1> QED BY <1>2, <1>4, <1>5, <1>6

\* Users create, edit and delete.
LEMMA UserTransition ==
  ASSUME TypeOK, NEW o \in Objects, UserCreate(o) \/ UserEdit(o) \/ UserDelete(o)
  PROVE  SameStages \/ Transition
<1>1. api[o] \in Database /\ UNCHANGED <<server, ledger, pc, obj, inst>>
  BY DEF UserCreate, UserEdit, UserDelete, Submit, K8sOnly, mysql, TypeOK
<1>2. ASSUME NEW new, Submit(o, new)
      PROVE  api'[o] = new /\ \A p \in Objects \ {o} : api'[p] = api[p]
  BY <1>2 DEF Submit, TypeOK
<1>3. CASE UserCreate(o)
  <2>1. PICK k \in Places[o], c \in Wanted : Submit(o, NewObject(k, c))
    BY <1>3 DEF UserCreate
  <2>2. Stage(api[o]) = "absent" /\ Stage(NewObject(k, c)) = "live"
    BY <1>3 DEF UserCreate, Stage, NewObject
  <2> QED BY <1>1, <1>2, <2>1, <2>2 DEF Transition, Passes
<1>4. CASE \E c \in Wanted : Submit(o, [api[o] EXCEPT !.charset = c])
  <2>1. PICK c \in Wanted : Submit(o, [api[o] EXCEPT !.charset = c])
    BY <1>4
  <2> DEFINE new == [api[o] EXCEPT !.charset = c]
  <2>2. Stage(new) = Stage(api[o]) /\ new.connection = api[o].connection
    BY <1>1 DEF Stage, Database
  <2>3. api'[o] = new /\ \A p \in Objects \ {o} : api'[p] = api[p]
    BY <1>2, <2>1
  <2> HIDE DEF new
  <2> QED BY <2>2, <2>3 DEF SameStages, Asked
<1>5. CASE /\ api[o].phase \in {"live", "deleting"}
           /\ \E k \in Places[o] :
                /\ <<api[o].connection, k>> \in Moves
                /\ Submit(o, [api[o] EXCEPT !.connection = k])
  <2>1. PICK k \in Places[o] : /\ <<api[o].connection, k>> \in Moves
                               /\ Submit(o, [api[o] EXCEPT !.connection = k])
    BY <1>5
  <2> DEFINE new == [api[o] EXCEPT !.connection = k]
  <2>2. /\ Stage(new) = Stage(api[o])
        /\ Stage(api[o]) \in {"live", "protected", "deleting"}
    BY <1>1, <1>5 DEF Stage, Database
  <2>3. api'[o] = new /\ \A p \in Objects \ {o} : api'[p] = api[p]
    BY <1>2, <2>1
  <2> HIDE DEF new
  <2> QED BY <1>1, <2>1, <2>2, <2>3 DEF Transition, Relocates
<1>6. CASE UserDelete(o)
  <2> DEFINE new == [api[o] EXCEPT
                       !.phase = IF api[o].finalizer THEN "deleting" ELSE "gone"]
  <2>1. Submit(o, new) /\ api[o].phase = "live"
    BY <1>6 DEF UserDelete
  <2>2. IF api[o].finalizer
        THEN Stage(api[o]) = "protected" /\ Stage(new) = "deleting"
        ELSE Stage(api[o]) = "live" /\ Stage(new) = "gone"
    BY <1>1, <2>1 DEF Stage, Database
  <2>3. api'[o] = new /\ \A p \in Objects \ {o} : api'[p] = api[p]
    BY <1>2, <2>1
  <2>4. new.connection = api[o].connection
    BY <1>1 DEF Database
  <2> HIDE DEF new
  <2> QED BY <1>1, <2>2, <2>3, <2>4 DEF Transition, Passes, Asked
<1> QED BY <1>3, <1>4, <1>5, <1>6 DEF UserEdit

\* Nothing else moves an object.
LEMMA OthersStay ==
  ASSUME [Next]_vars,
         ~(AddFinalizer \/ RemoveFinalizer \/ SaveStatus \/ SaveReport),
         ~\E o \in Objects : UserCreate(o) \/ UserEdit(o) \/ UserDelete(o)
  PROVE  UNCHANGED api
<1>1. CASE Progress
  BY <1>1 DEF Progress, CheckExists, MineExists, MineRecord, CreateDatabase,
              InsertRecord, ConfirmCreate, InSync, AlterDatabase, Reread,
              DropDatabase, ForgetRecord, SqlOnly, store
<1>2. ASSUME NEW o \in Objects, BeginReconcile(o)
      PROVE  UNCHANGED api
  BY <1>2 DEF BeginReconcile, Skip, FinalizeUnreachable, FinalizeStart,
              Unreachable, StartUnprotected, StartProtected, Begin, Take, store
<1>3. CASE Environment
  BY <1>3 DEF Environment, Crash, Respawn, Restart, Relist, Resync, AdminChange,
              ServerChange, Enqueue, Watch, Observe, ExternalCreate,
              ExternalDrop, store, k8s
<1>4. CASE UNCHANGED vars
  BY <1>4 DEF vars, k8s
<1> QED BY <1>1, <1>2, <1>3, <1>4 DEF Next, Operator

\* Every step either leaves the stages alone or is a Transition.
LEMMA StageChanges ==
  ASSUME TypeOK, FinalizerInv, Current, [Next]_vars
  PROVE  SameStages \/ Transition
<1>1. UNCHANGED api => SameStages
  BY DEF SameStages, Asked
<1> QED BY <1>1, UpdateTransition, UserTransition, OthersStay

-----------------------------------------------------------------------------
(* Copies of moved objects.                                                *)

\* Users who keep an object where it is leave every copy right about that.
Unmoved ==
  Moves = {} =>
    /\ \A o \in Objects :
         IF api[o].phase = "absent" THEN cached[o].phase = "absent"
         ELSE cached[o].phase # "absent" => cached[o].connection = api[o].connection
    /\ obj # NoObject =>
         api[obj].phase # "absent" /\ inst.connection = api[obj].connection

\* What a step outside the reconciles does to an object's copies.
Copies == LastInv /\ Unmoved

\* Statements do not touch what copies say of the server.
LEMMA StatementCopies ==
  ASSUME TypeOK, Copies,
         \/ CheckExists \/ MineExists \/ MineRecord
         \/ CreateDatabase \/ InsertRecord \/ ConfirmCreate
         \/ InSync \/ AlterDatabase \/ Reread
         \/ DropDatabase \/ ForgetRecord
  PROVE  Copies'
<1>1. /\ UNCHANGED <<api, cached, obj>>
      /\ inst'.connection = inst.connection /\ inst'.phase = inst.phase
  BY StatementKeeps DEF SqlOnly, store
<1> QED BY <1>1 DEF Copies, LastInv, Unmoved

\* A reconcile that ends leaves no copy behind but the cached one, and takes a
\* finalizer off only while that one is the stored version.
LEMMA UpdateCopies ==
  ASSUME TypeOK, FinalizerInv, Current, Copies,
         AddFinalizer \/ RemoveFinalizer \/ SaveStatus \/ SaveReport
  PROVE  Copies'
<1>1. /\ obj \in Objects /\ obj # NoObject /\ api[obj] \in Database
      /\ obj' = NoObject /\ cached' = cached /\ NoObject \notin Objects
  BY WorkerHolds, ObjectsAssumption
     DEF AddFinalizer, RemoveFinalizer, SaveStatus, SaveReport, Done, Return,
         Write, WriteStamped, store, TypeOK
<1>2. CASE api' = api
  BY <1>1, <1>2 DEF Copies, LastInv, Unmoved
<1>3. CASE api' # api
  <2>1. PICK new : /\ api' = [api EXCEPT ![obj] = new] /\ fresh
                   /\ new.connection = api[obj].connection
                   /\ new.phase = api[obj].phase \/ new.phase = "gone"
    <3>1. PICK new :
            /\ api' = [api EXCEPT ![obj] = new] /\ fresh
            /\ \/ new = [api[obj] EXCEPT !.finalizer = TRUE]
               \/ new = [api[obj] EXCEPT !.finalizer = FALSE, !.phase = "gone"]
               \/ new = [api[obj] EXCEPT !.status = inst.status]
               \/ new = [api[obj] EXCEPT !.status.message = "unreachable"]
      BY <1>3 DEF AddFinalizer, RemoveFinalizer, SaveStatus, SaveReport, Accepted,
                  Write, WriteStamped, store
    <3> QED BY <1>1, <3>1 DEF Database
  <2>2. cached[obj] = api[obj]
    BY <1>1, <2>1 DEF Current, FinalizerInv, CacheInv
  <2>3. \A o \in Objects :
          /\ api'[o].connection = api[o].connection
          /\ o # obj => api'[o] = api[o]
    BY <1>1, <2>1 DEF TypeOK
  <2>4. LastInv'
    BY <1>1, <2>2, <2>3 DEF Copies, LastInv
  <2>5. Unmoved'
    <3>1. api'[obj].phase \in {api[obj].phase, "gone"}
      BY <1>1, <2>1 DEF TypeOK
    <3> QED BY <1>1, <2>2, <2>3, <3>1 DEF Copies, Unmoved
  <2> QED BY <2>4, <2>5 DEF Copies
<1> QED BY <1>2, <1>3

\* A reconcile begins with the cached copy.
LEMMA BeginCopies ==
  ASSUME TypeOK, Copies, NEW o \in Objects, BeginReconcile(o)
  PROVE  Copies'
<1>1. /\ UNCHANGED <<api, cached>>
      /\ \/ UNCHANGED <<obj, inst>>
         \/ obj' = o /\ inst' = cached[o] /\ cached[o].phase # "absent"
  BY DEF BeginReconcile, Skip, FinalizeUnreachable, FinalizeStart, Unreachable,
         StartUnprotected, StartProtected, Begin, Take, store, worker,
         NothingToDo
<1> QED BY <1>1 DEF Copies, LastInv, Unmoved

\* Users edit no object that is gone.
LEMMA UserCopies ==
  ASSUME TypeOK, FinalizerInv, Copies, NEW o \in Objects,
         UserCreate(o) \/ UserEdit(o) \/ UserDelete(o)
  PROVE  Copies'
<1>1. api[o] \in Database
  BY DEF TypeOK
<1>2. PICK new :
        /\ Submit(o, new)
        /\ api[o].phase # "gone" /\ new.phase # "absent"
        /\ new.phase = "gone" => api[o].phase \notin {"deleting", "gone"}
        /\ Moves = {} /\ api[o].phase # "absent"
             => new.connection = api[o].connection
  <2>1. CASE UserCreate(o)
    BY <2>1 DEF UserCreate, NewObject
  <2>2. CASE UserEdit(o)
    <3>1. CASE \E c \in Wanted : Submit(o, [api[o] EXCEPT !.charset = c])
      BY <1>1, <2>2, <3>1 DEF UserEdit, Database
    <3>2. CASE \E k \in Places[o] :
                 /\ <<api[o].connection, k>> \in Moves
                 /\ Submit(o, [api[o] EXCEPT !.connection = k])
      <4>1. PICK k \in Places[o] : /\ <<api[o].connection, k>> \in Moves
                                   /\ Submit(o, [api[o] EXCEPT !.connection = k])
        BY <3>2
      <4>2. [api[o] EXCEPT !.connection = k].phase = api[o].phase /\ Moves # {}
        BY <1>1, <4>1 DEF Database
      <4> QED BY <2>2, <4>1, <4>2 DEF UserEdit
    <3> QED BY <2>2, <3>1, <3>2 DEF UserEdit
  <2>3. CASE UserDelete(o)
    BY <1>1, <2>3 DEF UserDelete, Database
  <2> QED BY <2>1, <2>2, <2>3
<1>3. /\ UNCHANGED <<cached, obj, inst>> /\ api'[o] = new
      /\ \A p \in Objects : p # o => api'[p] = api[p]
  BY <1>2 DEF Submit, TypeOK
<1>4. LastInv'
  <2>1. new.phase = "gone" => ~Ended(api[o])
    BY <1>2 DEF Ended
  <2>2. ~Ended(api[o]) => ~Ended(cached[o]) /\ (obj = o => ~Ended(inst))
    BY ObjectsAssumption DEF FinalizerInv, CacheInv, WorkerInv
  <2> QED BY <1>2, <1>3, <2>1, <2>2 DEF Copies, LastInv, Ended
<1>5. Unmoved'
  BY <1>2, <1>3, ObjectsAssumption DEF Copies, Unmoved, TypeOK
<1> QED BY <1>4, <1>5 DEF Copies

\* Everybody else copies what is stored.
LEMMA OtherCopies ==
  ASSUME TypeOK, Copies, Environment,
         ~\E o \in Objects : UserCreate(o) \/ UserEdit(o) \/ UserDelete(o)
  PROVE  Copies'
<1>1. /\ api' = api
      /\ obj' = NoObject \/ UNCHANGED <<obj, inst>>
      /\ \A o \in Objects : cached'[o] = cached[o] \/ cached'[o] = api[o]
  BY DEF Environment, Crash, Respawn, Restart, Relist, Resync, AdminChange,
         ServerChange, Enqueue, Watch, Observe, ExternalCreate, ExternalDrop,
         store, worker, k8s, TypeOK
<1>2. LastInv'
  BY <1>1, ObjectsAssumption DEF Copies, LastInv
<1>3. Unmoved'
  BY <1>1 DEF Copies, Unmoved
<1> QED BY <1>2, <1>3 DEF Copies

\* However late a copy is, one of an object that is gone still says where the
\* object was last, and every copy of one that nobody moves does.
THEOREM CopiesNameLast == Spec => []Copies
<1>1. Init => Copies
  BY ObjectsAssumption
     DEF Init, K8sInit, NeverCreated, NewObject, Copies, LastInv, Unmoved
<1>2. TypeOK /\ FinalizerInv /\ Current /\ Copies /\ [Next]_vars => Copies'
  <2> SUFFICES ASSUME TypeOK, FinalizerInv, Current, Copies, [Next]_vars
               PROVE  Copies'
    OBVIOUS
  <2>1. CASE UNCHANGED vars
    BY <2>1 DEF vars, k8s, Copies, LastInv, Unmoved
  <2> QED BY <2>1, StatementCopies, UpdateCopies, BeginCopies, UserCopies,
             OtherCopies DEF Next, Operator, Progress
<1> QED BY <1>1, <1>2, TypeCorrect, FinalizerCorrect, CopyIsCurrent, PTL DEF Spec

-----------------------------------------------------------------------------
(* The ledger and the objects.                                             *)

\* What the worker drops is an object's that has been deleted.
LEMMA DropEnded ==
  ASSUME TypeOK, FinalizerInv, pc = "drop"
  PROVE  Stage(api[obj]) \in {"deleting", "gone"}
<1>1. obj \in Objects /\ obj # NoObject
  BY WorkerHolds, ObjectsAssumption
<1>2. Ended(api[obj])
  BY <1>1 DEF FinalizerInv, WorkerInv, CacheInv, BranchInv, Ended
<1> QED BY <1>2 DEF Ended, Stage

\* What the worker creates and records is an object's that is protected.
LEMMA CreateKept ==
  ASSUME TypeOK, FinalizerInv, pc \in {"create", "record"}
  PROVE  Kept(obj)
<1>1. obj \in Objects /\ obj # NoObject /\ api[obj] \in Database
  BY WorkerHolds, ObjectsAssumption DEF TypeOK
<1>2. Guarded(api[obj])
  BY <1>1 DEF FinalizerInv, WorkerInv, BranchInv
<1> QED BY <1>1, <1>2, StageOf DEF Kept

\* Nothing becomes unlawful when nobody's stage or server changes.
LEMMA LawfulSame ==
  ASSUME SameStages
  PROVE  /\ \A o \in Objects : Kept(o)' <=> Kept(o)
         /\ \A o \in Objects, s \in Schemas : Lawful(o, s)' <=> Lawful(o, s)
BY DEF SameStages, Lawful, Kept

\* No object that is needed goes.
LEMMA InvTransition ==
  ASSUME TypeOK, FinalizerInv, RowInv, HeldInv, Transition
  PROVE  RowInv' /\ HeldInv'
<1>1. PICK o \in Objects :
       \/ /\ UNCHANGED <<pc, obj, inst>>
          /\ \/ Passes(o, "absent", "live") \/ Passes(o, "live", "gone")
             \/ Passes(o, "protected", "deleting") \/ Relocates(o)
       \/ pc = "addFinalizer" /\ pc' = "idle" /\ Passes(o, "live", "protected")
       \/ /\ pc = "removeFinalizer" /\ pc' = "idle" /\ o = obj
          /\ schema = Asked(o) /\ Passes(o, "deleting", "gone")
  BY DEF Transition
<1>2. UNCHANGED <<server, ledger>>
  BY DEF Transition
<1>3. \A p \in Objects : Kept(p) =>
        Kept(p)' \/ (pc = "removeFinalizer" /\ pc' = "idle" /\ p = obj)
  BY <1>1 DEF Passes, Relocates, Kept
<1>4. pc' = "idle" \/ (UNCHANGED <<pc, obj, inst>> /\ schema' = schema)
  BY <1>1 DEF schema
<1>5. ASSUME NEW p \in Objects, NEW s, Lawful(p, s),
             pc = "removeFinalizer" /\ p = obj => s # schema
      PROVE  Lawful(p, s)'
  <2>1. CASE Kept(p)
    <3>1. CASE Kept(p)'
      BY <3>1 DEF Lawful
    <3>2. CASE ~Kept(p)'
      <4>1. pc = "removeFinalizer" /\ p = obj
        BY <1>3, <2>1, <3>2
      <4>2. o = obj /\ schema = Asked(o) /\ Passes(o, "deleting", "gone")
        BY <1>1, <2>1, <3>2, <4>1 DEF Passes, Relocates, Kept
      <4> QED BY <1>5, <4>1, <4>2 DEF Lawful, Passes
    <3> QED BY <3>1, <3>2
  <2>2. CASE Stage(api[p]) = "gone" /\ s # Asked(p)
    <3>1. p # o
      BY <1>1, <2>2 DEF Passes, Relocates
    <3>2. api'[p] = api[p]
      BY <1>1, <3>1 DEF Passes, Relocates
    <3> QED BY <2>2, <3>2 DEF Lawful, Asked
  <2> QED BY <1>5, <2>1, <2>2 DEF Lawful
<1>6. RowInv'
  <2>1. \A p \in Objects : \A s \in ledger[p] : Lawful(p, s)'
    BY <1>5 DEF RowInv
  <2>2. pc' = "drop" /\ ~Kept(obj)' => server'[schema'] = Absent
    <3> SUFFICES ASSUME pc' = "drop", ~Kept(obj)' PROVE server'[schema'] = Absent
      OBVIOUS
    <3>1. pc = "drop" /\ obj' = obj /\ obj \in Objects /\ schema' = schema
      BY <1>4, WorkerHolds
    <3>2. ~Kept(obj)
      BY <1>3, <3>1
    <3> QED BY <1>2, <3>1, <3>2 DEF RowInv
  <2>3. pc' = "removeFinalizer" => schema' \notin ledger'[obj']
    BY <1>2, <1>4 DEF RowInv
  <2> QED BY <1>2, <2>1, <2>2, <2>3 DEF RowInv
<1>7. HeldInv'
  <2> SUFFICES ASSUME Faults \cap {"write", "drop"} = {} PROVE HeldInv'
    BY DEF HeldInv
  <2>1. ASSUME NEW p \in Objects, NEW s \in Schemas, server[s] = p
        PROVE  /\ Lawful(p, s)'
               /\ s \in ledger[p] \/ (pc' = "record" /\ obj' = p /\ s = schema')
    <3>1. Lawful(p, s) /\ (pc = "removeFinalizer" /\ p = obj => s # schema)
      BY <2>1 DEF HeldInv
    <3>2. pc = "record" => UNCHANGED <<pc, obj>> /\ schema' = schema
      BY <1>1 DEF schema
    <3> QED BY <1>5, <2>1, <3>1, <3>2 DEF HeldInv
  <2> QED BY <1>2, <1>4, <2>1 DEF HeldInv
<1> QED BY <1>6, <1>7

\* Steps that leave the MySQL server alone and do not begin to give up.
LEMMA InvFrame ==
  ASSUME TypeOK, RowInv, HeldInv, SameStages, UNCHANGED <<server, ledger>>,
         \/ UNCHANGED <<pc, obj>> /\ schema' = schema
         \/ pc # "record" /\ pc' \notin {"drop", "forget", "removeFinalizer"}
  PROVE  RowInv' /\ HeldInv'
<1>1. /\ \A o \in Objects : Kept(o)' <=> Kept(o)
      /\ \A o \in Objects, s \in Schemas : Lawful(o, s)' <=> Lawful(o, s)
  BY LawfulSame
<1>2. RowInv'
  <2>1. pc' = "drop" => pc = "drop" /\ obj' = obj /\ obj \in Objects /\ schema' = schema
    BY WorkerHolds
  <2>2. pc' = "removeFinalizer" =>
          pc = "removeFinalizer" /\ obj' = obj /\ schema' = schema
    OBVIOUS
  <2>3. \A o \in Objects : \A s \in ledger[o] : Lawful(o, s)'
    BY <1>1 DEF RowInv, TypeOK
  <2>4. pc' = "drop" /\ ~Kept(obj)' => server'[schema'] = Absent
    <3> SUFFICES ASSUME pc' = "drop", ~Kept(obj)' PROVE server[schema'] = Absent
      OBVIOUS
    <3>1. ~Kept(obj)
      BY <2>1, WorkerHolds, <1>1
    <3> QED BY <2>1, <3>1 DEF RowInv
  <2>5. pc' = "removeFinalizer" => schema' \notin ledger'[obj']
    BY <2>2 DEF RowInv
  <2>6. \A o \in Objects : \A s \in ledger'[o] : Lawful(o, s)'
    BY <2>3
  <2> QED BY <2>4, <2>5, <2>6 DEF RowInv
<1>3. HeldInv'
  BY <1>1 DEF HeldInv
<1> QED BY <1>2, <1>3

\* DatabaseMine: without lookup errors, an object that loses its finalizer
\* without a DROP DATABASE has no row, and one that drops has one or nothing
\* to drop.  A late copy of an object that is gone asks for what it asked last.
LEMMA InvMine ==
  ASSUME Benign, TypeOK, FinalizerInv, Copies, RowInv, HeldInv, SameStages,
         MineExists \/ MineRecord
  PROVE  RowInv' /\ HeldInv'
<1>1. /\ pc \in {"mineExists", "mineRecord"} /\ obj \in Objects /\ obj # NoObject
      /\ schema \in Schemas /\ schema' = schema /\ UNCHANGED <<server, ledger, obj>>
  BY WorkerHolds, StatementKeeps, ObjectsAssumption
     DEF MineExists, MineRecord, SqlOnly, mysql
<1>2. pc' \notin {"record", "forget"}
  BY DEF MineExists, MineRecord, Permitted, Denied, Goto
<1>3. /\ \A o \in Objects : Kept(o)' <=> Kept(o)
      /\ \A o \in Objects, s \in Schemas : Lawful(o, s)' <=> Lawful(o, s)
  BY LawfulSame
<1>4. /\ pc' = "drop" => server[schema] = Absent \/ schema \in ledger[obj]
      /\ pc' = "removeFinalizer" => schema \notin ledger[obj]
  <2>1. CASE MineExists
    <3>1. Answers(Exists) = {Exists}
      BY DEF Answers, Benign
    <3> QED BY <2>1, <3>1 DEF MineExists, Permitted, Exists, Goto
  <2>2. CASE MineRecord
    <3>1. Answers(RecordMatches) = {RecordMatches}
      BY DEF Answers, Benign
    <3>2. /\ pc' = "drop" => RecordMatches
          /\ pc' = "removeFinalizer" => ~RecordMatches
      BY <2>2, <3>1 DEF MineRecord, Permitted, Denied, Goto
    <3> QED BY <3>2 DEF RecordMatches
  <2> QED BY <2>1, <2>2
<1>5. pc' = "drop" /\ schema \in ledger[obj] => Kept(obj)
  <2> SUFFICES ASSUME pc' = "drop", schema \in ledger[obj], ~Kept(obj) PROVE FALSE
    OBVIOUS
  <2>1. Stage(api[obj]) = "gone" /\ schema # Asked(obj)
    BY <1>1 DEF RowInv, Lawful
  <2>2. api[obj].phase = "gone"
    BY <1>1, <2>1 DEF TypeOK, Database, Phases, Stage
  <2>3. inst.phase = "deleting"
    <3>1. inst.phase = "deleting" \/ Protected(inst)
      BY <1>1 DEF FinalizerInv, BranchInv
    <3>2. ~Protected(inst)
      BY <1>1, <2>2 DEF FinalizerInv, WorkerInv, Guarded
    <3> QED BY <3>1, <3>2
  <2>4. schema = Asked(obj)
    BY <1>1, <2>2, <2>3 DEF Copies, LastInv, schema, Asked
  <2> QED BY <2>1, <2>4
<1>6. RowInv'
  <2>1. \A o \in Objects : \A s \in ledger[o] : Lawful(o, s)'
    BY <1>3 DEF RowInv, TypeOK
  <2>2. pc' = "drop" /\ ~Kept(obj)' => server[schema] = Absent
    BY <1>1, <1>3, <1>4, <1>5
  <2> QED BY <1>1, <1>4, <2>1, <2>2 DEF RowInv
<1>7. HeldInv'
  <2> SUFFICES ASSUME Faults \cap {"write", "drop"} = {} PROVE HeldInv'
    BY DEF HeldInv
  <2>1. \A o \in Objects, s \in Schemas :
          server[s] = o => Lawful(o, s) /\ s \in ledger[o]
    BY <1>1 DEF HeldInv
  <2> QED BY <1>1, <1>2, <1>3, <1>4, <2>1 DEF HeldInv
<1> QED BY <1>6, <1>7

\* databaseCreate: a database is created and recorded for a protected object.
LEMMA InvCreate ==
  ASSUME TypeOK, FinalizerInv, RowInv, HeldInv, SameStages,
         CreateDatabase \/ InsertRecord
  PROVE  RowInv' /\ HeldInv'
<1>1. /\ pc \in {"create", "record"} /\ obj \in Objects /\ Kept(obj)
      /\ schema \in Schemas /\ schema' = schema /\ obj' = obj
  BY WorkerHolds, StatementKeeps, CreateKept DEF CreateDatabase, InsertRecord, SqlOnly
<1>2. \A o \in Objects, s \in Schemas :
        (Kept(o)' <=> Kept(o)) /\ (Lawful(o, s)' <=> Lawful(o, s))
  BY LawfulSame
<1>3. pc' \notin {"drop", "forget", "removeFinalizer"}
  BY DEF CreateDatabase, InsertRecord, AfterCreate, Goto
<1>4. \A s : Lawful(obj, s)
  BY <1>1 DEF Lawful
<1>5. /\ ledger' \in [Objects -> SUBSET Schemas]
      /\ \A o \in Objects : ledger'[o] = ledger[o] \/ o = obj
  BY <1>1, ChangeType DEF CreateDatabase, InsertRecord, TypeOK
<1>6. RowInv'
  <2>1. \A o \in Objects : \A s \in ledger'[o] : Lawful(o, s)
    BY <1>4, <1>5 DEF RowInv
  <2> QED BY <1>2, <1>3, <1>5, <2>1 DEF RowInv
<1>7. HeldInv'
  <2> SUFFICES ASSUME Faults \cap {"write", "drop"} = {} PROVE HeldInv'
    BY DEF HeldInv
  <2>1. Outcomes = {[applied |-> TRUE, ok |-> TRUE]}
    BY DEF Outcomes
  <2>2. ASSUME NEW o \in Objects, NEW s \in Schemas, server'[s] = o
        PROVE  /\ Lawful(o, s)
               /\ s \in ledger'[o] \/ (pc' = "record" /\ obj = o /\ s = schema)
    <3>1. CASE CreateDatabase
      <4>1. /\ ledger' = ledger /\ pc = "create"
            /\ \/ server' = server
               \/ server' = [server EXCEPT ![schema] = obj] /\ pc' = "record"
        BY <2>1, <3>1 DEF CreateDatabase, AfterCreate, Goto
      <4>2. CASE server[s] = o
        BY <2>2, <4>1, <4>2 DEF HeldInv
      <4>3. CASE server[s] # o
        <5>1. s = schema /\ o = obj /\ pc' = "record"
          BY <1>1, <2>2, <4>1, <4>3 DEF TypeOK
        <5> QED BY <1>4, <5>1
      <4> QED BY <4>2, <4>3
    <3>2. CASE InsertRecord
      <4>1. server' = server /\ ledger' = [ledger EXCEPT ![obj] = @ \cup {schema}]
        BY <2>1, <3>2 DEF InsertRecord
      <4> QED BY <1>1, <2>2, <4>1 DEF HeldInv, TypeOK
    <3> QED BY <3>1, <3>2
  <2> QED BY <1>1, <1>2, <1>3, <2>2 DEF HeldInv
<1> QED BY <1>6, <1>7

\* finalizeDatabase: the database goes, then the row, then the finalizer.
LEMMA InvFinalize ==
  ASSUME Benign, TypeOK, RowInv, HeldInv, SameStages,
         DropDatabase \/ ForgetRecord
  PROVE  RowInv' /\ HeldInv'
<1>1. /\ obj \in Objects /\ schema \in Schemas /\ schema' = schema
      /\ obj' = obj /\ pc # "record"
  BY WorkerHolds, StatementKeeps DEF DropDatabase, ForgetRecord, SqlOnly
<1>2. \A o \in Objects, s \in Schemas :
        (Kept(o)' <=> Kept(o)) /\ (Lawful(o, s)' <=> Lawful(o, s))
  BY LawfulSame
<1>3. CASE DropDatabase
  <2>1. pc' = "forget" /\ ledger' = ledger
    BY <1>3 DEF DropDatabase, AfterDrop, Goto
  <2>2. RowInv'
    <3>1. \A o \in Objects : \A s \in ledger[o] : Lawful(o, s)'
      BY <1>2 DEF RowInv, TypeOK
    <3> QED BY <2>1, <3>1 DEF RowInv
  <2>3. HeldInv'
    <3> SUFFICES ASSUME Faults \cap {"write", "drop"} = {} PROVE HeldInv'
      BY DEF HeldInv
    <3>1. server' = [server EXCEPT ![schema] = Absent]
      BY <1>3 DEF DropDatabase
    <3>2. \A o \in Objects, s \in Schemas :
            server'[s] = o => server[s] = o /\ s # schema
      BY <1>1, <3>1, DatabaseAssumption DEF TypeOK
    <3>3. \A o \in Objects, s \in Schemas :
            server[s] = o => Lawful(o, s) /\ s \in ledger[o]
      BY <1>1 DEF HeldInv
    <3>4. server'[schema] # obj
      BY <1>1, <3>2
    <3> QED BY <1>1, <1>2, <2>1, <3>2, <3>3, <3>4 DEF HeldInv
  <2> QED BY <2>2, <2>3
<1>4. CASE ForgetRecord
  <2>1. /\ pc = "forget" /\ pc' = "removeFinalizer" /\ server' = server
        /\ ledger' = [ledger EXCEPT ![obj] = @ \ {schema}]
    BY <1>4 DEF ForgetRecord, Goto, Benign
  <2>2. /\ schema \notin ledger'[obj]
        /\ \A o \in Objects, s \in Schemas :
             (s \in ledger'[o] => s \in ledger[o]) /\ (s # schema \/ o # obj =>
               (s \in ledger[o] => s \in ledger'[o]))
    BY <1>1, <2>1 DEF TypeOK
  <2>3. RowInv'
    <3>1. ledger' \in [Objects -> SUBSET Schemas]
      BY <1>4, ChangeType DEF TypeOK
    <3>2. \A o \in Objects : \A s \in ledger'[o] : Lawful(o, s)'
      BY <1>2, <2>2, <3>1 DEF RowInv
    <3> QED BY <1>1, <2>1, <2>2, <3>2 DEF RowInv
  <2>4. HeldInv'
    <3> SUFFICES ASSUME Faults \cap {"write", "drop"} = {} PROVE HeldInv'
      BY DEF HeldInv
    <3>1. \A o \in Objects, s \in Schemas :
            server[s] = o => Lawful(o, s) /\ s \in ledger[o]
      BY <1>1 DEF HeldInv
    <3>2. server[schema] # obj
      BY <2>1 DEF HeldInv
    <3> QED BY <1>1, <1>2, <2>1, <2>2, <3>1, <3>2 DEF HeldInv
  <2> QED BY <2>3, <2>4
<1> QED BY <1>3, <1>4

\* The remaining statements, beginnings and events fit the frame.
LEMMA InvRest ==
  ASSUME Benign, TypeOK, RowInv, HeldInv, SameStages,
         \/ AddFinalizer \/ RemoveFinalizer \/ SaveStatus \/ SaveReport
         \/ CheckExists \/ ConfirmCreate \/ InSync \/ AlterDatabase \/ Reread
         \/ (\E o \in Objects : BeginReconcile(o))
         \/ Environment \/ UNCHANGED vars
  PROVE  RowInv' /\ HeldInv'
<1>1. CASE \/ AddFinalizer \/ RemoveFinalizer \/ SaveStatus \/ SaveReport
           \/ CheckExists \/ ConfirmCreate \/ InSync \/ AlterDatabase \/ Reread
  <2>1. /\ UNCHANGED <<server, ledger>> /\ pc # "record"
        /\ pc' \notin {"drop", "forget", "removeFinalizer"}
    BY <1>1
       DEF AddFinalizer, RemoveFinalizer, SaveStatus, SaveReport, CheckExists,
           ConfirmCreate, InSync, AlterDatabase, Reread, Done, Goto, K8sOnly, mysql
  <2> QED BY <2>1, InvFrame
<1>2. ASSUME NEW o \in Objects, BeginReconcile(o)
      PROVE  RowInv' /\ HeldInv'
  <2>1. /\ UNCHANGED <<server, ledger>> /\ pc # "record"
        /\ pc' \notin {"drop", "forget", "removeFinalizer"}
    BY <1>2 DEF BeginReconcile, Skip, FinalizeUnreachable, FinalizeStart,
                Unreachable, StartUnprotected, StartProtected, Begin, Goto,
                K8sOnly, mysql
  <2> QED BY <2>1, InvFrame
<1>3. CASE Respawn
  <2>1. /\ UNCHANGED <<server, ledger>> /\ pc # "record" /\ pc' = "idle"
    BY <1>3 DEF Respawn, Restart, Goto, K8sOnly, mysql
  <2> QED BY <2>1, InvFrame
<1>4. CASE (Environment /\ ~Respawn) \/ UNCHANGED vars
  <2>1. UNCHANGED <<server, ledger, pc, obj, inst>>
    BY <1>4
       DEF Benign, Environment, Crash, Resync, AdminChange, ServerChange,
           Enqueue, UserCreate, UserEdit, UserDelete, Submit, Watch, Observe,
           ExternalCreate, ExternalDrop, K8sOnly, k8s, worker, mysql, vars
  <2> QED BY <2>1, InvFrame DEF schema
<1> QED BY <1>1, <1>2, <1>3, <1>4

\* An object has a finalizer as long as it has a row or a database on the server
\* that it names, however late the copy a reconcile works on.
THEOREM RowsCorrect == Benign => (Spec => [](RowInv /\ HeldInv))
<1> SUFFICES ASSUME Benign PROVE Spec => [](RowInv /\ HeldInv)
  OBVIOUS
<1>1. Init => RowInv /\ HeldInv
  <2> SUFFICES ASSUME Init PROVE RowInv /\ HeldInv
    OBVIOUS
  <2>1. \A o \in Objects, s \in Schemas : server[s] # o
    BY DatabaseAssumption DEF Init
  <2>2. /\ pc = "idle" /\ \A o \in Objects : ledger[o] = {}
    BY DEF Init
  <2>3. RowInv
    BY <2>2 DEF RowInv
  <2>4. HeldInv
    BY <2>1, <2>2 DEF HeldInv
  <2> QED BY <2>3, <2>4
<1>2. TypeOK /\ FinalizerInv /\ Current /\ Copies /\ (RowInv /\ HeldInv)
      /\ [Next]_vars
      => (RowInv /\ HeldInv)'
  <2> SUFFICES ASSUME TypeOK, FinalizerInv, Current, Copies, RowInv, HeldInv,
                      [Next]_vars
               PROVE  RowInv' /\ HeldInv'
    OBVIOUS
  <2>1. CASE Transition
    BY <2>1, InvTransition
  <2>2. CASE SameStages
    BY <2>2, InvMine, InvCreate, InvFinalize, InvRest DEF Next, Operator, Progress
  <2> QED BY <2>1, <2>2, StageChanges
<1> QED BY <1>1, <1>2, TypeCorrect, FinalizerCorrect, CopyIsCurrent,
           CopiesNameLast, PTL DEF Spec

\* When no statement fails either, an object that is gone has left neither its
\* database nor its row behind on the server that it named last, wherever its
\* user has moved it before and whichever copy the finalizer worked on
\* (finalizeDatabase).
THEOREM NothingLeftBehind ==
  Benign /\ Faults \cap {"write", "drop"} = {} => (Spec => []NoOrphan)
<1> SUFFICES ASSUME Benign, Faults \cap {"write", "drop"} = {}
             PROVE  Spec => []NoOrphan
  OBVIOUS
<1>1. RowInv /\ HeldInv /\ TypeOK => NoOrphan
  <2> SUFFICES ASSUME RowInv, HeldInv, TypeOK, NEW o \in Objects,
                      api[o].phase = "gone"
               PROVE  server[Asked(o)] # o /\ Asked(o) \notin ledger[o]
    BY DEF NoOrphan
  <2>1. ~Lawful(o, Asked(o))
    BY DEF Lawful, Kept, Stage
  <2>2. Asked(o) \in Schemas
    BY NamesAreSchemas DEF Asked, TypeOK
  <2> QED BY <2>1, <2>2 DEF RowInv, HeldInv
<1> QED BY <1>1, TypeCorrect, RowsCorrect, PTL

-----------------------------------------------------------------------------
(* The refinement.                                                         *)

life == [o \in Objects |-> Stage(api[o])]

asked == [o \in Objects |-> Asked(o)]

\* A step that changes an object's stage or server is a step of Ownership.
LEMMA TransitionRefines ==
  ASSUME TypeOK, HeldInv, Transition, TypeOK'
  PROVE  Promise!Next
<1>1. PICK o \in Objects :
         /\ UNCHANGED <<server, ledger>>
         /\ \/ Passes(o, "absent", "live") \/ Passes(o, "live", "gone")
            \/ Passes(o, "protected", "deleting") \/ Passes(o, "live", "protected")
            \/ Relocates(o)
            \/ /\ pc = "removeFinalizer" /\ o = obj /\ schema = Asked(o)
               /\ Passes(o, "deleting", "gone")
  BY DEF Transition
<1>2. ASSUME NEW from, NEW to, Passes(o, from, to)
      PROVE  /\ life[o] = from /\ life' = [life EXCEPT ![o] = to]
             /\ asked' = [asked EXCEPT ![o] = Asked(o)']
             /\ from # "absent" => asked' = asked
  BY <1>2 DEF Passes, life, asked, Asked
<1>3. Asked(o)' \in Schemas
  BY NamesAreSchemas DEF Asked, TypeOK
<1>4. CASE /\ pc = "removeFinalizer" /\ o = obj /\ schema = Asked(o)
           /\ Passes(o, "deleting", "gone")
  <2>1. server[Asked(o)] = o => Faults \cap {"write", "drop"} # {}
    BY <1>4 DEF HeldInv
  <2>2. life[o] = "deleting" /\ life' = [life EXCEPT ![o] = "gone"] /\ asked' = asked
    BY <1>2, <1>4
  <2>3. Promise!Vanish(o)
    BY <1>1, <2>1, <2>2 DEF Promise!Vanish, Promise!Become, life, asked
  <2> QED BY <2>3 DEF Promise!Next
<1>5. CASE Passes(o, "absent", "live")
  BY <1>1, <1>2, <1>3, <1>5
     DEF Promise!Next, Promise!Create, Promise!Become, life, asked
<1>6. CASE Relocates(o)
  <2>1. life' = life /\ asked' = [asked EXCEPT ![o] = Asked(o)']
    BY <1>6 DEF Relocates, life, asked, Asked
  <2>2. Promise!Edit(o)
    BY <1>1, <1>3, <1>6, <2>1 DEF Relocates, Promise!Edit, life, asked
  <2> QED BY <2>2 DEF Promise!Next
<1>7. CASE Passes(o, "live", "gone") \/ Passes(o, "protected", "deleting")
  <2>1. /\ \/ life[o] = "live" /\ life' = [life EXCEPT ![o] = "gone"]
           \/ life[o] = "protected" /\ life' = [life EXCEPT ![o] = "deleting"]
        /\ asked' = asked
    BY <1>2, <1>7
  <2>2. Promise!Delete(o)
    BY <1>1, <2>1 DEF Promise!Delete, Promise!Become, life, asked
  <2> QED BY <2>2 DEF Promise!Next
<1>8. CASE Passes(o, "live", "protected")
  <2>1. life[o] = "live" /\ life' = [life EXCEPT ![o] = "protected"] /\ asked' = asked
    BY <1>2, <1>8
  <2>2. Promise!Protect(o)
    BY <1>1, <2>1 DEF Promise!Protect, Promise!Become, life, asked
  <2> QED BY <2>2 DEF Promise!Next
<1> QED BY <1>1, <1>4, <1>5, <1>6, <1>7, <1>8

\* The name that a reconcile works on is one that its object may mean.
LEMMA SchemaIsMeant ==
  ASSUME TypeOK, Copies, pc # "idle"
  PROVE  schema \in Promise!Meant(obj)
<1>1. obj \in Objects /\ obj # NoObject /\ schema \in Schemas
  BY WorkerHolds, ObjectsAssumption
<1>2. Moves = {} => schema = Asked(obj)
  BY <1>1 DEF Copies, Unmoved, schema, Asked
<1> QED BY <1>1, <1>2 DEF Promise!Meant

\* databaseCreate takes a name for an object that is protected.
LEMMA CreateRefines ==
  ASSUME TypeOK, FinalizerInv, Copies, SameStages, CreateDatabase, server' # server
  PROVE  Promise!Next
<1>1. /\ obj \in Objects /\ schema \in Promise!Meant(obj) /\ Kept(obj)
      /\ server[schema] = Absent /\ server' = [server EXCEPT ![schema] = obj]
  BY WorkerHolds, CreateKept, SchemaIsMeant DEF CreateDatabase, Exists
<1>2. life[obj] \in {"protected", "deleting"} /\ life' = life /\ asked' = asked
  BY <1>1 DEF Kept, SameStages, life, asked
<1>3. Promise!Acquire(obj)
  BY <1>1, <1>2 DEF Promise!Acquire, Promise!Free, life, asked
<1> QED BY <1>1, <1>3 DEF Promise!Next

\* finalizeDatabase gives the name of an object back that is being deleted,
\* and not, on a late copy, of one that is gone.
LEMMA DropRefines ==
  ASSUME TypeOK, LedgerInv, FinalizerInv, Copies, RowInv, SameStages,
         DropDatabase, server' # server
  PROVE  Promise!Next
<1>1. /\ pc = "drop" /\ obj \in Objects /\ schema \in Promise!Meant(obj)
      /\ schema \in Schemas /\ server' = [server EXCEPT ![schema] = Absent]
  BY WorkerHolds, SchemaIsMeant DEF DropDatabase
<1>2. server[schema] = obj
  <2>1. server[schema] # Absent
    BY <1>1 DEF TypeOK
  <2> QED BY <1>1, <2>1 DEF LedgerInv, VerdictHolds
<1>3. Stage(api[obj]) = "deleting"
  <2>1. Kept(obj)
    BY <1>1, <1>2, DatabaseAssumption DEF RowInv
  <2> QED BY <1>1, <2>1, DropEnded DEF Kept
<1>4. life[obj] = "deleting" /\ life' = life /\ asked' = asked
  BY <1>1, <1>3 DEF SameStages, life, asked
<1>5. Promise!Release(obj)
  BY <1>1, <1>2, <1>4 DEF Promise!Release, Promise!Held, life, asked
<1> QED BY <1>1, <1>5 DEF Promise!Next

\* Nobody else creates or drops databases while the operator runs.
LEMMA WhoChangesServer ==
  ASSUME Benign, [Next]_vars, server' # server
  PROVE  CreateDatabase \/ DropDatabase
<1>1. CASE Progress
  BY <1>1 DEF Progress, AddFinalizer, RemoveFinalizer, SaveStatus, SaveReport,
              CheckExists, MineExists, MineRecord, InsertRecord, ConfirmCreate,
              InSync, AlterDatabase, Reread, ForgetRecord, K8sOnly, mysql
<1>2. ASSUME NEW o \in Objects, BeginReconcile(o)
      PROVE  UNCHANGED server
  BY <1>2 DEF BeginReconcile, Skip, FinalizeUnreachable, FinalizeStart,
              Unreachable, StartUnprotected, StartProtected, Begin, K8sOnly,
              mysql
<1>3. CASE Environment
  BY <1>3 DEF Benign, Environment, Crash, Respawn, Restart, Resync, AdminChange,
              ServerChange, UserCreate, UserEdit, UserDelete, Watch,
              ExternalCreate, ExternalDrop, K8sOnly, mysql
<1>4. CASE UNCHANGED vars
  BY <1>4 DEF vars, mysql
<1> QED BY <1>1, <1>2, <1>3, <1>4 DEF Next, Operator

\* Without lookup errors, lost DELETEs, crashes and other clients, whatever
\* else fails and however events, users and rivals interleave, the Database
\* controller does what Ownership says (Reconcile, finalizeDatabase).
THEOREM ControllerImplementsOwnership == Benign => (Spec => ImplementsOwnership)
<1> SUFFICES ASSUME Benign PROVE Spec => ImplementsOwnership
  OBVIOUS
<1>1. Init => Promise!Init
  <2> SUFFICES ASSUME Init PROVE Promise!Init
    OBVIOUS
  <2>1. \A o \in Objects : Stage(api[o]) = "absent"
    <3>1. \A k : NeverCreated(k).phase = "absent"
      BY DEF NeverCreated, NewObject
    <3> QED BY <3>1 DEF Init, K8sInit, Stage
  <2>2. \A o \in Objects : Asked(o) \in Schemas
    BY InitType, NamesAreSchemas DEF Asked, TypeOK
  <2> QED BY <2>1, <2>2 DEF Init, Promise!Init
<1>2. /\ TypeOK /\ TypeOK' /\ LedgerInv /\ FinalizerInv /\ Current /\ Copies
      /\ (RowInv /\ HeldInv) /\ [Next]_vars
      => [Promise!Next]_(Promise!vars)
  <2> SUFFICES ASSUME TypeOK, TypeOK', LedgerInv, FinalizerInv, Current, Copies,
                      RowInv, HeldInv, [Next]_vars
               PROVE  Promise!Next \/ UNCHANGED Promise!vars
    OBVIOUS
  <2>1. CASE Transition
    BY <2>1, TransitionRefines
  <2>2. CASE SameStages /\ server' # server
    BY <2>2, WhoChangesServer, CreateRefines, DropRefines
  <2>3. CASE SameStages /\ server' = server
    BY <2>3 DEF SameStages, Promise!vars
  <2> QED BY <2>1, <2>2, <2>3, StageChanges
<1> QED BY <1>1, <1>2, TypeCorrect, LedgerCorrect, FinalizerCorrect,
           CopyIsCurrent, CopiesNameLast, RowsCorrect, PTL DEF Spec, ImplementsOwnership, Promise!Spec
=============================================================================
