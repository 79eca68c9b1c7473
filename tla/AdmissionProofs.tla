-------------------------- MODULE AdmissionProofs --------------------------
(***************************************************************************)
(* The AdminConnection controller, the webhook and the Databases it        *)
(* judges, for any number of objects, any server and any specifications.   *)
(***************************************************************************)
EXTENDS Admission, TLAPS

-----------------------------------------------------------------------------
(* The AdminConnection controller.                                         *)

\* The three records that users store, or leave behind.
LEMMA ConnectionTypes ==
  {NewConnection, NeverConnected, Removed} \subseteq AdminConnection
<1>1. NewConnection \in AdminConnection
  BY DEF NewConnection, AdminConnection, Status
<1> QED BY <1>1 DEF NeverConnected, Removed, AdminConnection

\* What a status becomes when a query is answered, or not.
LEMMA StatusTypes ==
  ASSUME NEW c \in AdminConnection
  PROVE  /\ \A s \in Status : [c EXCEPT !.status = s] \in AdminConnection
         /\ c.status \in Status
         /\ \A x \in Charsets \cup {Unset} : [c.status EXCEPT !.charset = x] \in Status
         /\ \A x \in Collations \cup {Unset} :
              [c.status EXCEPT !.collation = x] \in Status
         /\ [c.status EXCEPT !.available = {}] \in Status
         /\ [c.status EXCEPT !.available = Supported, !.pinged = TRUE] \in Status
         /\ \A s \in Status : Fail(s) \in Status
BY DEF AdminConnection, Status, Fail

\* The default pair is one of the server's.
LEMMA DefaultTypes ==
  ASSUME AdminTypeOK
  PROVE  defaults[1] \in Charsets /\ defaults[2] \in Collations
BY DEF AdminTypeOK, Charsets, Collations

\* A query changes the worker's copy only.
LEMMA AskType ==
  ASSUME AdminTypeOK,
         NEW step \in Steps \ {"idle"}, NEW next \in Steps \ {"idle"},
         NEW s \in Status, NEW t \in Status, Ask(step, next, s, t)
  PROVE  AdminTypeOK'
<1>1. /\ inst \in AdminConnection /\ pc # "idle" /\ pc' # "idle" /\ pc' \in Steps
  BY DEF AdminTypeOK, Ask, Goto, Steps
<1>2. Fail(t) \in Status
  BY <1>1, StatusTypes
<1>3. inst' \in AdminConnection
  BY <1>1, <1>2, StatusTypes DEF Ask
<1> QED BY <1>1, <1>3 DEF AdminTypeOK, Ask, store, mysql

\* Every step of the AdminConnection controller, its users and its server
\* keeps the types.
LEMMA AdminType ==
  ASSUME AdminTypeOK, AdminNext
  PROVE  AdminTypeOK'
<1>1. CASE Connect \/ GetCharset \/ GetCollation \/ GetCharSets
  <2>1. inst \in AdminConnection
    BY <1>1 DEF Connect, GetCharset, GetCollation, GetCharSets, Ask, AdminTypeOK
  <2>2. CASE Connect
    BY <2>1, <2>2, StatusTypes, AskType DEF Connect, Steps
  <2>3. CASE GetCharset
    BY <2>1, <2>3, StatusTypes, DefaultTypes, AskType DEF GetCharset, Steps
  <2>4. CASE GetCollation
    BY <2>1, <2>4, StatusTypes, DefaultTypes, AskType DEF GetCollation, Steps
  <2>5. CASE GetCharSets
    BY <2>1, <2>5, StatusTypes, AskType DEF GetCharSets, Steps
  <2> QED BY <1>1, <2>2, <2>3, <2>4, <2>5
<1>2. CASE Save
  <2>1. obj \in Objects /\ inst \in AdminConnection /\ api[obj] \in AdminConnection
    BY <1>2 DEF Save, AdminTypeOK
  <2>2. [api[obj] EXCEPT !.status = inst.status] \in AdminConnection
    BY <2>1, StatusTypes
  <2>3. /\ api' \in [Objects -> AdminConnection] /\ synced' \subseteq Objects
        /\ cached' = cached
    <3>1. CASE fresh
      BY <1>2, <2>1, <2>2, <3>1 DEF Save, Write, WriteStamped, AdminTypeOK
    <3>2. CASE ~fresh
      BY <1>2, <3>2 DEF Save, store, AdminTypeOK
    <3> QED BY <3>1, <3>2
  <2>4. /\ queue' \subseteq Objects /\ obj' = NoObject /\ inst' = NoObject
        /\ fresh' = FALSE /\ pc' = "idle" /\ UNCHANGED mysql
    BY <1>2, <2>1 DEF Save, Return, Goto, AdminTypeOK
  <2> QED BY <2>3, <2>4 DEF mysql, AdminTypeOK, Steps
<1>3. ASSUME NEW o \in Objects, BeginReconcile(o)
      PROVE  AdminTypeOK'
  <2>1. CASE Skip(o)
    BY <1>3, <2>1 DEF Skip, store, worker, mysql, AdminTypeOK
  <2>2. CASE Begin(o)
    <3>1. cached[o] \in AdminConnection
      BY DEF AdminTypeOK
    <3>2. /\ queue' \subseteq Objects /\ obj' = o /\ inst' = cached[o]
          /\ fresh' \in BOOLEAN /\ pc' = "connect"
          /\ UNCHANGED <<api, cached, synced, online, defaults, changes>>
      BY <2>2 DEF Begin, Take, Goto, store, mysql, AdminTypeOK
    <3> QED BY <3>1, <3>2, ObjectsAssumption DEF AdminTypeOK, Steps
  <2> QED BY <1>3, <2>1, <2>2 DEF BeginReconcile
<1>4. CASE Resync
  BY <1>4 DEF Resync, Enqueue, store, worker, mysql, AdminTypeOK
<1>5. CASE Outage \/ SetGlobal
  <2>1. changes' \in 0..MaxChanges
    <3>1. /\ changes \in 0..MaxChanges /\ MaxChanges \in Nat
          /\ changes < MaxChanges /\ changes' = changes + 1
      BY <1>5, AdminAssumption DEF Outage, SetGlobal, Change, AdminTypeOK
    <3> QED BY <3>1
  <2>2. online' \in BOOLEAN
    BY <1>5 DEF Outage, SetGlobal, AdminTypeOK
  <2>3. defaults' \in Supported
    BY <1>5 DEF Outage, SetGlobal, AdminTypeOK
  <2>4. UNCHANGED <<api, cached, synced, queue, obj, inst, fresh, pc>>
    BY <1>5 DEF Outage, SetGlobal, k8s
  <2> QED BY <2>1, <2>2, <2>3, <2>4 DEF AdminTypeOK
<1>6. ASSUME NEW o \in Objects,
             UserConnect(o) \/ UserDisconnect(o) \/ UserReconfigure(o)
      PROVE  AdminTypeOK'
  <2>1. PICK new \in AdminConnection : Submit(o, new) /\ UNCHANGED <<pc, mysql>>
    BY <1>6, ConnectionTypes
       DEF UserConnect, UserDisconnect, UserReconfigure, AdminTypeOK
  <2> QED BY <2>1 DEF Submit, mysql, AdminTypeOK
<1>7. ASSUME NEW o \in Objects, Watch(o)
      PROVE  AdminTypeOK'
  BY <1>7 DEF Watch, Observe, mysql, AdminTypeOK
<1> QED BY <1>1, <1>2, <1>3, <1>4, <1>5, <1>6, <1>7
        DEF AdminNext, Progress, AdminEnvironment

\* The process starts again with nothing in hand.
LEMMA RestartType ==
  ASSUME AdminTypeOK, Restart
  PROVE  AdminTypeOK'
BY DEF Restart, Relist, Listed, Goto, mysql, AdminTypeOK, Steps

-----------------------------------------------------------------------------
(* The composition.                                                        *)

databaseVars == <<life, holder, spec>>

\* Which steps leave what alone.
LEMMA Frames ==
  ASSUME [Next]_vars
  PROVE  /\ AdminNext \/ Restart \/ UNCHANGED adminVars
         /\ \/ \E d \in Databases : UserCreate(d) \/ UserEdit(d)
            \/ UNCHANGED spec
BY DEF Next, vars, UserCreate, UserEdit, UserDelete, Protect, Acquire, Release,
   Vanish, Panic

\* The AdminConnections keep their types in the composition.
LEMMA AdminTypeStep ==
  ASSUME AdminTypeOK, [Next]_vars
  PROVE  AdminTypeOK'
<1>1. CASE AdminNext
  BY <1>1, AdminType
<1>2. CASE Restart
  BY <1>2, RestartType
<1>3. CASE UNCHANGED adminVars
  BY <1>3 DEF adminVars, k8s, mysql, AdminTypeOK
<1> QED BY <1>1, <1>2, <1>3, Frames

\* The Databases keep theirs.
LEMMA DatabaseType ==
  ASSUME TypeOK, NEW d \in Databases,
         UserCreate(d) \/ UserEdit(d) \/ UserDelete(d) \/ Protect(d) \/
         Acquire(d) \/ Release(d) \/ Vanish(d)
  PROVE  /\ life' \in [Databases -> Own!Stages]
         /\ holder' \in [Schemas -> Databases \cup {Absent, Foreign}]
         /\ spec' \in [Databases -> Specs \cup {NoObject}]
         /\ \A e \in Databases : spec'[e] = NoObject <=> life'[e] = "absent"
<1> USE AdmissionAssumption DEF TypeOK, Own!Stages, Own!Become
<1>1. CASE UserCreate(d)
  BY <1>1 DEF UserCreate, Own!Create
<1>2. CASE UserEdit(d)
  BY <1>2 DEF UserEdit
<1>3. CASE UserDelete(d)
  BY <1>3 DEF UserDelete, Own!Delete
<1>4. CASE Protect(d)
  BY <1>4 DEF Protect, Own!Protect
<1>5. CASE Acquire(d)
  BY <1>5 DEF Acquire, Own!Acquire
<1>6. CASE Release(d)
  BY <1>6 DEF Release, Own!Release
<1>7. CASE Vanish(d)
  BY <1>7 DEF Vanish, Own!Vanish
<1> QED BY <1>1, <1>2, <1>3, <1>4, <1>5, <1>6, <1>7

\* The types of the composition hold always.
THEOREM TypeCorrect == Spec => []TypeOK
<1>1. Init => TypeOK
  <2> SUFFICES ASSUME Init PROVE TypeOK
    OBVIOUS
  <2>1. AdminTypeOK
    <3>1. NeverConnected \in AdminConnection
      BY ConnectionTypes
    <3>2. changes \in 0..MaxChanges
      BY AdminAssumption DEF Init, AdminInit
    <3> QED BY <3>1, <3>2 DEF Init, AdminInit, K8sInit, AdminTypeOK, Steps
  <2> QED BY <2>1 DEF Init, Own!Init, Own!Stages, TypeOK
<1>2. TypeOK /\ [Next]_vars => TypeOK'
  <2> SUFFICES ASSUME TypeOK, [Next]_vars PROVE TypeOK'
    OBVIOUS
  <2>1. AdminTypeOK'
    BY AdminTypeStep DEF TypeOK
  <2>2. CASE UNCHANGED databaseVars
    BY <2>1, <2>2 DEF databaseVars, TypeOK
  <2>3. CASE ~UNCHANGED databaseVars
    BY <2>1, <2>3, DatabaseType DEF Next, vars, databaseVars, Panic, TypeOK
  <2> QED BY <2>2, <2>3
<1> QED BY <1>1, <1>2, PTL DEF Spec

-----------------------------------------------------------------------------
(* What the status says.                                                   *)

\* The status after a query.
LEMMA AskStatus ==
  ASSUME inst \in AdminConnection, NEW step, NEW next,
         NEW s \in Status, NEW t \in Status, Ask(step, next, s, t)
  PROVE  \/ pc' = next /\ inst'.status = s
         \/ pc' = "saveError" /\ ~inst'.status.pinged
<1>1. [inst EXCEPT !.status = s].status = s
  BY DEF AdminConnection
<1>2. ~[inst EXCEPT !.status = Fail(t)].status.pinged
  BY DEF AdminConnection, Status, Fail
<1> QED BY <1>1, <1>2 DEF Ask, Goto

\* A step that fails reports no success; one that succeeds adds what it read.
LEMMA CompleteAdmin ==
  ASSUME AdminTypeOK, CompleteInv, AdminNext
  PROVE  CompleteInv'
<1> USE DEF CompleteInv
<1>1. CASE Connect \/ GetCharset \/ GetCollation \/ GetCharSets
  <2>1. inst \in AdminConnection /\ Complete(inst.status) /\ pc # "idle"
    BY <1>1 DEF Connect, GetCharset, GetCollation, GetCharSets, Ask, AdminTypeOK
  <2>2. UNCHANGED <<api, cached>>
    BY <1>1 DEF Connect, GetCharset, GetCollation, GetCharSets, Ask, store
  <2>3. /\ Complete(inst'.status)
        /\ pc' \in {"collation", "charsets"} => inst'.status.charset \in Charsets
        /\ pc' = "charsets" => inst'.status.collation \in Collations
    <3>1. CASE Connect
      BY <2>1, <3>1, AskStatus, StatusTypes DEF Connect, Complete
    <3>2. CASE GetCharset
      <4> DEFINE s == [inst.status EXCEPT !.charset = defaults[1]]
                 t == [inst.status EXCEPT !.charset = Unset]
      <4>1. s \in Status /\ t \in Status
        BY <2>1, StatusTypes, DefaultTypes
      <4>2. Complete(s) /\ s.charset \in Charsets
        BY <2>1, StatusTypes, DefaultTypes DEF Complete, Status
      <4>3. Ask("charset", "collation", s, t)
        BY <3>2 DEF GetCharset
      <4> HIDE DEF s, t
      <4> QED BY <2>1, <4>1, <4>2, <4>3, AskStatus DEF Complete
    <3>3. CASE GetCollation
      <4> DEFINE s == [inst.status EXCEPT !.collation = defaults[2]]
                 t == [inst.status EXCEPT !.collation = Unset]
      <4>1. s \in Status /\ t \in Status
        BY <2>1, StatusTypes, DefaultTypes
      <4>2. inst.status.charset \in Charsets
        BY <3>3 DEF GetCollation, Ask
      <4>3. Complete(s) /\ s.charset \in Charsets /\ s.collation \in Collations
        BY <2>1, <4>2, StatusTypes, DefaultTypes DEF Complete, Status
      <4>4. Ask("collation", "charsets", s, t)
        BY <3>3 DEF GetCollation
      <4> HIDE DEF s, t
      <4> QED BY <2>1, <4>1, <4>3, <4>4, AskStatus DEF Complete
    <3>4. CASE GetCharSets
      <4> DEFINE s == [inst.status EXCEPT !.available = Supported, !.pinged = TRUE]
                 t == [inst.status EXCEPT !.available = {}]
      <4>1. s \in Status /\ t \in Status
        BY <2>1, StatusTypes
      <4>2. /\ inst.status.charset \in Charsets
            /\ inst.status.collation \in Collations
        BY <3>4 DEF GetCharSets, Ask
      <4>3. Complete(s)
        <5>1. inst.status \in Status
          BY <2>1, StatusTypes
        <5>2. /\ s.charset = inst.status.charset
              /\ s.collation = inst.status.collation /\ s.available = Supported
          BY <5>1 DEF Status
        <5> QED BY <4>2, <5>2 DEF Complete
      <4>4. Ask("charsets", "save", s, t)
        BY <3>4 DEF GetCharSets
      <4> HIDE DEF s, t
      <4> QED BY <2>1, <4>1, <4>3, <4>4, AskStatus DEF Complete
    <3> QED BY <1>1, <3>1, <3>2, <3>3, <3>4
  <2> QED BY <2>2, <2>3 DEF SuccessIsComplete
<1>2. CASE Save
  <2>1. /\ inst \in AdminConnection /\ Complete(inst.status) /\ obj \in Objects
        /\ pc' = "idle" /\ cached' = cached
    BY <1>2 DEF Save, Goto, Write, WriteStamped, store, AdminTypeOK
  <2>2. \/ api' = api
        \/ api' = [api EXCEPT ![obj] = [api[obj] EXCEPT !.status = inst.status]]
    BY <1>2 DEF Save, Write, WriteStamped, store
  <2>3. \A o \in Objects : api'[o].status \in {api[o].status, inst.status}
    BY <2>1, <2>2 DEF AdminTypeOK, AdminConnection
  <2> QED BY <2>1, <2>3 DEF SuccessIsComplete
<1>3. ASSUME NEW o \in Objects, BeginReconcile(o)
      PROVE  CompleteInv'
  BY <1>3 DEF BeginReconcile, Skip, Begin, Take, Goto, store, worker,
              SuccessIsComplete
<1>4. ASSUME NEW o \in Objects, UserConnect(o) \/ UserDisconnect(o) \/ UserReconfigure(o)
      PROVE  CompleteInv'
  <2>1. Complete(NewConnection.status) /\ Complete(Removed.status)
    BY DEF NewConnection, Removed, Complete
  <2>2. PICK new : Submit(o, new) /\ Complete(new.status) /\ pc' = pc
    BY <1>4, <2>1
       DEF UserConnect, UserDisconnect, UserReconfigure, SuccessIsComplete
  <2> QED BY <2>2 DEF Submit, SuccessIsComplete, AdminTypeOK
<1>5. ASSUME NEW o \in Objects, Watch(o)
      PROVE  CompleteInv'
  BY <1>5 DEF Watch, Observe, SuccessIsComplete, AdminTypeOK
<1>6. CASE Resync \/ Outage \/ SetGlobal
  BY <1>6 DEF Resync, Enqueue, Outage, SetGlobal, store, worker, k8s,
              SuccessIsComplete
<1> QED BY <1>1, <1>2, <1>3, <1>4, <1>5, <1>6
        DEF AdminNext, Progress, AdminEnvironment

\* A stored status that reports success is complete
\* (AdminConnectionReconciler.Reconcile).
THEOREM StatusComplete == Spec => []SuccessIsComplete
<1>1. Init => CompleteInv
  BY DEF Init, AdminInit, K8sInit, NeverConnected, NewConnection, CompleteInv,
         SuccessIsComplete, Complete
<1>2. TypeOK /\ CompleteInv /\ [Next]_vars => CompleteInv'
  <2> SUFFICES ASSUME AdminTypeOK, CompleteInv, [Next]_vars PROVE CompleteInv'
    BY DEF TypeOK
  <2>1. CASE AdminNext
    BY <2>1, CompleteAdmin
  <2>2. CASE Restart
    BY <2>2 DEF Restart, Relist, Goto, CompleteInv, SuccessIsComplete
  <2>3. CASE UNCHANGED adminVars
    BY <2>3 DEF adminVars, k8s, CompleteInv, SuccessIsComplete
  <2> QED BY <2>1, <2>2, <2>3, Frames
<1>3. CompleteInv => SuccessIsComplete
  BY DEF CompleteInv
<1> QED BY <1>1, <1>2, <1>3, TypeCorrect, PTL DEF Spec

-----------------------------------------------------------------------------
(* What the webhook lets through.                                          *)

\* A specification that passes can be completed to a pair of the server,
\* whatever status it was judged with.
LEMMA PassedIsSupported ==
  ASSUME AdminTypeOK, NEW s \in Specs, s.admin # NoObject,
         ValidateCharsetCollationCombo(s, cached)
  PROVE  \E p \in Supported :
           s.charset \in {Unset, p[1]} /\ s.collation \in {Unset, p[2]}
<1> DEFINE status == cached[s.admin].status
           pair == <<CharsetOf(s, status), CollationOf(s, status)>>
<1>1. status.available \in {{}, Supported}
  BY AdmissionAssumption DEF AdminTypeOK, AdminConnection, Status
<1>2. pair \in Supported
  BY <1>1 DEF ValidateCharsetCollationCombo, ComboValid
<1>3. s.charset \in {Unset, pair[1]} /\ s.collation \in {Unset, pair[2]}
  BY DEF CharsetOf, CollationOf
<1> QED BY <1>2, <1>3

\* Every specification that is stored has passed the webhook, so CREATE
\* DATABASE asks for nothing that the server lacks
\* (ValidateCharsetCollationCombo, databaseCreate).
THEOREM StoredIsSupported == Spec => []AdmittedIsSupported
<1>1. Init => AdmittedIsSupported
  BY DEF Init, Own!Init, AdmittedIsSupported
<1>2. TypeOK /\ TypeOK' /\ AdmittedIsSupported /\ [Next]_vars => AdmittedIsSupported'
  <2> SUFFICES ASSUME TypeOK, TypeOK', AdmittedIsSupported, [Next]_vars,
                      NEW d \in Databases, life'[d] # "absent",
                      spec'[d].admin # NoObject
               PROVE  \E p \in Supported : /\ spec'[d].charset \in {Unset, p[1]}
                                           /\ spec'[d].collation \in {Unset, p[2]}
    BY DEF AdmittedIsSupported
  <2>1. CASE spec'[d] = spec[d]
    BY <2>1 DEF TypeOK, AdmittedIsSupported
  <2>2. CASE spec'[d] # spec[d]
    <3>1. PICK s \in Specs : /\ ValidateCharsetCollationCombo(s, cached)
                             /\ spec'[d] = s
      BY <2>2, Frames DEF UserCreate, UserEdit, TypeOK
    <3> QED BY <3>1, PassedIsSupported DEF TypeOK
  <2> QED BY <2>1, <2>2
<1> QED BY <1>1, <1>2, TypeCorrect, PTL DEF Spec
=============================================================================
