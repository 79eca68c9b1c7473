----------------------------- MODULE ApiServer -----------------------------
(***************************************************************************)
(* The Kubernetes side of one controller of the operator, as the code in   *)
(* controllers/ uses it: the API server's copy of each custom resource,    *)
(* the informer cache the controller reads from, the deduplicating work    *)
(* queue that feeds its single worker, and the copy of the resource that   *)
(* the worker is reconciling.                                              *)
(*                                                                         *)
(* A resource version is represented by what the code does with it, an     *)
(* equality test on update: `synced` holds the objects whose cached copy   *)
(* is the current version, `fresh` says whether the worker's copy is.      *)
(***************************************************************************)

CONSTANTS
  Objects,    \* UIDs of the custom resources of this kind
  NoObject    \* stands for "the worker holds no object"

ASSUME ObjectsAssumption == NoObject \notin Objects

VARIABLES
  api,        \* api[o]: object o as stored by the API server
  cached,     \* cached[o]: the copy of o in the informer cache
  synced,     \* the objects whose cached copy is the stored version
  queue,      \* keys waiting in the work queue
  obj,        \* the object being reconciled, or NoObject
  inst,       \* the worker's own, modified, copy of it
  fresh       \* is that copy based on the stored version?

store  == <<api, cached, synced>>
worker == <<obj, inst, fresh>>
k8s    == <<api, cached, synced, queue, obj, inst, fresh>>

Listed(c) == {o \in Objects : c[o].phase \in {"live", "deleting"}}

K8sInit(a) ==
  /\ api = a
  /\ cached = a
  /\ synced = Objects
  /\ queue = {}
  /\ obj = NoObject
  /\ inst = NoObject
  /\ fresh = FALSE

-----------------------------------------------------------------------------
(* What a worker does.                                                     *)

\* The worker takes the key of o and reads o from the cache.
Take(o) ==
  /\ obj = NoObject
  /\ o \in queue
  /\ queue' = queue \ {o}
  /\ obj' = o
  /\ inst' = cached[o]
  /\ fresh' = (o \in synced)
  /\ UNCHANGED store

\* Reconcile returns; an error puts the key back.
Return(requeue) ==
  /\ queue' = IF requeue THEN queue \cup {obj} ELSE queue
  /\ obj' = NoObject
  /\ inst' = NoObject
  /\ fresh' = FALSE

\* The worker's update is accepted.  One that changes nothing makes no version.
Write(new) ==
  /\ api' = [api EXCEPT ![obj] = new]
  /\ synced' = IF new = api[obj] THEN synced ELSE synced \ {obj}
  /\ UNCHANGED cached

\* An accepted update that also carries a new time stamp always makes one.
WriteStamped(new) ==
  /\ api' = [api EXCEPT ![obj] = new]
  /\ synced' = synced \ {obj}
  /\ UNCHANGED cached

-----------------------------------------------------------------------------
(* What happens around it.                                                 *)

\* A watch event brings the stored version to the cache and queues the key.
Observe(o) ==
  /\ o \notin synced
  /\ cached' = [cached EXCEPT ![o] = api[o]]
  /\ synced' = synced \cup {o}
  /\ queue' = queue \cup {o}
  /\ UNCHANGED <<api, obj, inst, fresh>>

\* Keys queued for another reason: the periodic resync, a mapped event.
Enqueue(keys) ==
  /\ queue' = queue \cup (keys \cap Listed(cached))
  /\ UNCHANGED <<store, worker>>

\* Somebody else stores a version of o.
Submit(o, new) ==
  /\ api' = [api EXCEPT ![o] = new]
  /\ synced' = synced \ {o}
  /\ fresh' = (fresh /\ obj # o)
  /\ UNCHANGED <<cached, queue, obj, inst>>

\* The process dies and a new one lists everything.
Relist ==
  /\ cached' = api
  /\ synced' = Objects
  /\ queue' = Listed(api)
  /\ obj' = NoObject
  /\ inst' = NoObject
  /\ fresh' = FALSE
  /\ UNCHANGED api

-----------------------------------------------------------------------------
(* What a copy says of the stored object, however late it is: an object    *)
(* seen with its finalizer has it until a worker takes it off, which no    *)
(* worker does before the cache shows the deletion.                        *)

Guarded(r) == r.phase \in {"live", "deleting"} /\ r.finalizer
Ended(r)   == r.phase \in {"deleting", "gone"}
Protected(r) == r.phase = "live" /\ r.finalizer

\* Versions that follow each other, as users make them.
Follows(old, new) ==
  /\ Guarded(old) => Guarded(new)
  /\ Ended(old) => Ended(new)

CacheInv ==
  \A o \in Objects :
    /\ o \in synced => cached[o] = api[o]
    /\ Ended(cached[o]) => Ended(api[o])
    /\ Protected(cached[o]) => Guarded(api[o])

WorkerInv ==
  obj # NoObject =>
    /\ fresh => inst.phase = api[obj].phase /\ inst.finalizer = api[obj].finalizer
    /\ Ended(inst) => Ended(cached[obj])
    /\ Protected(inst) => Guarded(api[obj])
=============================================================================
