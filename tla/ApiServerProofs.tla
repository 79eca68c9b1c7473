-------------------------- MODULE ApiServerProofs --------------------------
(***************************************************************************)
(* What every operation on the store, the cache and the worker's copy      *)
(* does to CacheInv and WorkerInv, for any kind of object.                 *)
(***************************************************************************)
EXTENDS ApiServer, TLAPS

\* The store, the cache and the worker, as far as the lemmas need them.
Shape == /\ DOMAIN api = Objects /\ DOMAIN cached = Objects
         /\ api = [o \in Objects |-> api[o]]
         /\ cached = [o \in Objects |-> cached[o]]
         /\ synced \subseteq Objects
         /\ obj \in Objects \cup {NoObject}

\* Nothing is cached late at the start.
LEMMA CacheInit ==
  ASSUME NEW a, K8sInit([o \in Objects |-> a]), ~Guarded(a), ~Ended(a)
  PROVE  CacheInv /\ WorkerInv
BY DEF K8sInit, CacheInv, WorkerInv, Guarded, Ended, Protected

\* Taking a key copies the cache.
LEMMA TakeCache ==
  ASSUME CacheInv, NEW o \in Objects, Take(o)
  PROVE  CacheInv' /\ WorkerInv'
BY ObjectsAssumption DEF CacheInv, WorkerInv, Take, store

\* A worker that ends holds nothing.
LEMMA ReturnCache ==
  ASSUME CacheInv, NEW r, Return(r), UNCHANGED store
  PROVE  CacheInv' /\ WorkerInv'
BY DEF CacheInv, WorkerInv, Return, store

\* An accepted update that follows the stored version.
LEMMA WriteCache ==
  ASSUME Shape, CacheInv, obj \in Objects, NEW new, NEW r, Return(r),
         Write(new) \/ WriteStamped(new), Follows(api[obj], new)
  PROVE  CacheInv' /\ WorkerInv'
<1>1. \A o \in Objects : api'[o] = IF o = obj THEN new ELSE api[o]
  BY DEF Shape, Write, WriteStamped
<1>2. \A o \in synced' : o \in synced /\ api'[o] = api[o]
  BY <1>1 DEF Shape, Write, WriteStamped
<1>3. \A o \in Objects : Follows(api[o], api'[o])
  BY <1>1 DEF Follows
<1>4. cached' = cached
  BY DEF Write, WriteStamped
<1> QED BY <1>2, <1>3, <1>4 DEF CacheInv, WorkerInv, Return, Follows

\* The finalizer comes off a copy that was current and showed the deletion.
LEMMA RemoveCache ==
  ASSUME Shape, CacheInv, WorkerInv, obj \in Objects, NEW new, NEW r,
         Return(r), Write(new), Ended(new), ~Guarded(new),
         Ended(inst), ~Protected(cached[obj])
  PROVE  CacheInv' /\ WorkerInv'
<1>1. \A o \in Objects : api'[o] = IF o = obj THEN new ELSE api[o]
  BY DEF Shape, Write
<1>2. \A o \in synced' : o \in synced /\ api'[o] = api[o]
  BY <1>1 DEF Shape, Write
<1>3. cached' = cached
  BY DEF Write
<1> QED BY <1>1, <1>2, <1>3 DEF CacheInv, WorkerInv, Return

\* Changes to the worker's copy other than phase and finalizer.
LEMMA CopyCache ==
  ASSUME CacheInv, WorkerInv, UNCHANGED <<store, obj, fresh>>,
         inst'.phase = inst.phase, inst'.finalizer = inst.finalizer
  PROVE  CacheInv' /\ WorkerInv'
BY DEF CacheInv, WorkerInv, store, Ended, Protected

\* A version submitted by somebody else.
LEMMA SubmitCache ==
  ASSUME Shape, CacheInv, WorkerInv, NEW o \in Objects, NEW new,
         Submit(o, new), Follows(api[o], new)
  PROVE  CacheInv' /\ WorkerInv'
<1>1. \A p \in Objects : api'[p] = IF p = o THEN new ELSE api[p]
  BY DEF Shape, Submit
<1>2. \A p \in Objects : Follows(api[p], api'[p])
  BY <1>1 DEF Follows
<1>3. CacheInv'
  BY <1>1, <1>2 DEF CacheInv, Submit, Follows
<1>4. WorkerInv'
  <2> SUFFICES ASSUME obj \in Objects PROVE WorkerInv'
    BY DEF Shape, WorkerInv, Submit
  <2> QED BY <1>1, <1>2, ObjectsAssumption DEF WorkerInv, Submit, Follows
<1> QED BY <1>3, <1>4

\* A watch event.
LEMMA ObserveCache ==
  ASSUME Shape, CacheInv, WorkerInv, NEW o \in Objects, Observe(o)
  PROVE  CacheInv' /\ WorkerInv'
<1>1. \A p \in Objects : cached'[p] = IF p = o THEN api[p] ELSE cached[p]
  BY DEF Shape, Observe
<1>2. CacheInv'
  BY <1>1 DEF CacheInv, Observe, Protected, Guarded
<1>3. WorkerInv'
  <2> SUFFICES ASSUME obj \in Objects PROVE WorkerInv'
    BY DEF Shape, WorkerInv, Observe
  <2> QED BY <1>1, ObjectsAssumption DEF WorkerInv, CacheInv, Observe
<1> QED BY <1>2, <1>3

\* A new process.
LEMMA RelistCache ==
  ASSUME Relist
  PROVE  CacheInv' /\ WorkerInv'
BY DEF Relist, CacheInv, WorkerInv, Protected, Guarded
=============================================================================
