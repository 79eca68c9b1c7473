----------------------- MODULE ConnectionCacheProofs -----------------------
(***************************************************************************)
(* The safety properties of the connection cache, for any number of        *)
(* workers, pools and versions.                                            *)
(***************************************************************************)
EXTENDS ConnectionCache, TLAPS

-----------------------------------------------------------------------------
(* Pools that somebody refers to.                                          *)

\* The pools of the map and of the calls are referred to.
LEMMA RefersTo ==
  ASSUME NEW e, NEW c
  PROVE  /\ e # None => e.pool \in PoolsOf(e, c)
         /\ \A w \in Workers : c[w] # None => c[w].pool \in PoolsOf(e, c)
BY DEF PoolsOf

\* A new pool is one that nobody refers to.
LEMMA FreshIsNew ==
  ASSUME Pools \ Referenced # {}
  PROVE  Fresh \in Pools \ Referenced
BY DEF Fresh

-----------------------------------------------------------------------------
(* Types.                                                                  *)

\* Both of a version is a configuration, and a later password changes only that.
LEMMA ConfigTypes ==
  /\ \A v \in Versions : Both(v) \in Configs
  /\ \A c \in Configs, v \in Versions : [c EXCEPT !.password = v] \in Configs
BY DEF Both, Configs

\* Every step of a call keeps the types (GetDatabaseConnection).
LEMMA CallType ==
  ASSUME TypeOK, NEW w \in Workers, Call(w)
  PROVE  TypeOK'
<1> USE CacheAssumption
<1>1. CASE ReadUser(w)
  BY <1>1, ConfigTypes DEF ReadUser, Readable, TypeOK, Goto, world, Steps
<1>2. CASE ReadPassword(w)
  BY <1>2, ConfigTypes DEF ReadPassword, Readable, TypeOK, Goto, End, world, Steps
<1>3. CASE Lookup(w)
  BY <1>3 DEF Lookup, TypeOK, Goto, world, Steps
<1>4. CASE Ping(w)
  BY <1>4 DEF Ping, AfterPing, TypeOK, Goto, world, Steps
<1>5. CASE Close(w)
  BY <1>5 DEF Close, Closes, AfterClose, TypeOK, Goto, world, Steps
<1>6. CASE Delete(w)
  BY <1>6 DEF Delete, TypeOK, Goto, world, Steps
<1>7. CASE Connect(w)
  <2>1. Fresh \in Pools
    BY <1>7, FreshIsNew DEF Connect
  <2>2. [config |-> config[w], pool |-> Fresh] \in Entries
    BY <1>7, <2>1 DEF Connect, Entries, TypeOK
  <2> QED BY <1>7, <2>1, <2>2 DEF Connect, TypeOK, Goto, End, world, Steps
<1>8. CASE Migrate(w)
  BY <1>8 DEF Migrate, TypeOK, Goto, End, world, Steps
<1>9. CASE Store(w)
  BY <1>9 DEF Store, TypeOK, Goto, world, Steps
<1>10. CASE Finish(w)
  BY <1>10 DEF Finish, TypeOK, Goto, End, world, Steps
<1> QED BY <1>1, <1>2, <1>3, <1>4, <1>5, <1>6, <1>7, <1>8, <1>9, <1>10 DEF Call

\* The types of the cache, the calls and the world hold always.
THEOREM TypeCorrect == Spec => []TypeOK
<1>1. Init => TypeOK
  BY DEF Init, TypeOK, Steps
<1>2. TypeOK /\ [Next]_vars => TypeOK'
  <2> SUFFICES ASSUME TypeOK, [Next]_vars PROVE TypeOK'
    OBVIOUS
  <2>1. CASE \E w \in Workers : Call(w)
    BY <2>1, CallType
  <2>2. CASE FatalRace
    BY <2>2 DEF FatalRace, TypeOK, Steps, world
  <2>3. CASE SecretWrite
    BY <2>3 DEF SecretWrite, TypeOK
  <2>4. CASE ServerChange
    BY <2>4 DEF ServerChange, TypeOK
  <2>5. CASE UNCHANGED vars
    BY <2>5 DEF vars, world, TypeOK
  <2> QED BY <2>1, <2>2, <2>3, <2>4, <2>5 DEF Next
<1> QED BY <1>1, <1>2, PTL DEF Spec

-----------------------------------------------------------------------------
(* The invariant on pools.                                                 *)

\* Steps that touch neither the map nor a pool.
LEMMA QuietStep ==
  ASSUME TypeOK, PoolInv, NEW w \in Workers,
         ReadUser(w) \/ ReadPassword(w) \/ Ping(w)
  PROVE  PoolInv'
<1> USE DEF TypeOK, PoolInv, world
<1>1. CASE ReadUser(w)
  BY <1>1 DEF ReadUser, Goto, NeverPoisoned, SetUpAlone, OpenedOnce, SamePool,
     ReasonHolds
<1>2. CASE ReadPassword(w)
  BY <1>2 DEF ReadPassword, Goto, End, NeverPoisoned, SetUpAlone, OpenedOnce,
     SamePool, ReasonHolds
<1>3. CASE Ping(w)
  BY <1>3 DEF Ping, AfterPing, Goto, NeverPoisoned, SetUpAlone, OpenedOnce,
     SamePool, ReasonHolds
<1> QED BY <1>1, <1>2, <1>3

\* The entry that is looked up is judged by its configuration.
LEMMA LookupStep ==
  ASSUME TypeOK, PoolInv, NEW w \in Workers, Lookup(w)
  PROVE  PoolInv'
<1> USE DEF TypeOK, PoolInv, world, Lookup, Goto
<1>1. NeverPoisoned'
  BY DEF NeverPoisoned
<1>2. SetUpAlone'
  BY DEF SetUpAlone
<1>3. OpenedOnce'
  BY DEF OpenedOnce, SamePool
<1>4. ReasonHolds'
  BY DEF ReasonHolds, SameConfig
<1> QED BY <1>1, <1>2, <1>3, <1>4

\* The closed pool is in the map only if it is what this call looked up.
LEMMA CloseStep ==
  ASSUME TypeOK, PoolInv, NEW w \in Workers, Close(w)
  PROVE  PoolInv'
<1> USE DEF TypeOK, PoolInv, world, Close, Closes, AfterClose, Goto
<1>1. NeverPoisoned'
  BY DEF NeverPoisoned, OpenedOnce, SamePool
<1>2. SetUpAlone'
  BY DEF SetUpAlone
<1>3. OpenedOnce'
  BY DEF OpenedOnce, SamePool
<1>4. ReasonHolds'
  BY DEF ReasonHolds
<1> QED BY <1>1, <1>2, <1>3, <1>4

\* What others refer to stays as it is when the entry is deleted.
LEMMA DeleteStep ==
  ASSUME TypeOK, PoolInv, NEW w \in Workers, Delete(w)
  PROVE  PoolInv'
<1> USE DEF TypeOK, PoolInv, world, Delete, Goto
<1>1. \A v \in Workers : conn'[v] # None => conn'[v].pool \in PoolsOf(entry', conn')
  BY RefersTo
<1>2. \A v \in Workers \ {w} : conn'[v] = conn[v] /\ pc'[v] = pc[v]
  OBVIOUS
<1>3. conn'[w] = None /\ pc'[w] = "connect" /\ entry' = None
  OBVIOUS
<1>4. SetUpAlone'
  BY <1>1, <1>2, <1>3 DEF SetUpAlone
<1>5. OpenedOnce'
  BY <1>2, <1>3 DEF OpenedOnce, SamePool
<1>6. ReasonHolds'
  BY <1>1, <1>2, <1>3 DEF ReasonHolds
<1> QED BY <1>3, <1>4, <1>5, <1>6 DEF NeverPoisoned

\* A new pool is nobody else's.
LEMMA ConnectStep ==
  ASSUME TypeOK, PoolInv, NEW w \in Workers, Connect(w)
  PROVE  PoolInv'
<1> USE DEF TypeOK, PoolInv, world, Connect, Goto
<1>1. CASE config[w] = Both(accepts)
  <2>1. Fresh \in Pools \ Referenced
    BY FreshIsNew
  <2>2. /\ entry # None => entry.pool # Fresh
        /\ \A v \in Workers : conn[v] # None => conn[v].pool # Fresh
    BY <2>1, RefersTo DEF Referenced
  <2>3. /\ conn'[w] # None /\ conn'[w].pool = Fresh /\ pc'[w] = "migrate"
        /\ open' = open \cup {Fresh} /\ entry' = entry
    BY <1>1, CacheAssumption, <2>1 DEF Entries
  <2>4. \A v \in Workers \ {w} : conn'[v] = conn[v] /\ pc'[v] = pc[v]
    BY <1>1
  <2>5. config' = config
    BY <1>1
  <2>6. NeverPoisoned'
    BY <2>2, <2>3, <2>4 DEF NeverPoisoned
  <2>7. SetUpAlone'
    BY <2>2, <2>3, <2>4 DEF SetUpAlone
  <2>8. OpenedOnce'
    BY <2>2, <2>3, <2>4 DEF OpenedOnce, SamePool
  <2>9. ReasonHolds'
    BY <2>2, <2>3, <2>4, <2>5 DEF ReasonHolds
  <2> QED BY <2>6, <2>7, <2>8, <2>9
<1>2. CASE config[w] # Both(accepts)
  BY <1>2 DEF End, NeverPoisoned, SetUpAlone, OpenedOnce, SamePool, ReasonHolds
<1> QED BY <1>1, <1>2

\* A failed migration closes a pool that only this call knows.
LEMMA MigrateStep ==
  ASSUME TypeOK, PoolInv, NEW w \in Workers, Migrate(w)
  PROVE  PoolInv'
<1> USE DEF TypeOK, PoolInv, world, Migrate, Goto, End
<1>1. NeverPoisoned'
  BY DEF NeverPoisoned, SetUpAlone
<1>2. SetUpAlone'
  BY DEF SetUpAlone
<1>3. OpenedOnce'
  BY DEF OpenedOnce, SamePool
<1>4. ReasonHolds'
  BY DEF ReasonHolds
<1> QED BY <1>1, <1>2, <1>3, <1>4

\* The pool that is stored is open, and no other is being set up with it.
LEMMA StoreStep ==
  ASSUME TypeOK, PoolInv, NEW w \in Workers, Store(w)
  PROVE  PoolInv'
<1> USE DEF TypeOK, PoolInv, world, Store, Goto
<1>1. /\ entry'.pool \in PoolsOf(entry', conn)
      /\ \A v \in Workers : conn[v] # None => conn[v].pool \in PoolsOf(entry', conn)
  BY RefersTo
<1>2. entry' = conn[w] /\ conn[w] # None /\ conn[w].pool \in open
  BY DEF SetUpAlone
<1>3. NeverPoisoned'
  BY <1>1, <1>2 DEF NeverPoisoned
<1>4. SetUpAlone'
  BY <1>1, <1>2 DEF SetUpAlone
<1>5. OpenedOnce'
  BY <1>2 DEF OpenedOnce, SamePool
<1>6. ReasonHolds'
  BY <1>1 DEF ReasonHolds
<1> QED BY <1>3, <1>4, <1>5, <1>6

\* The pool of a reconcile that ends stays open while others refer to it.
LEMMA FinishStep ==
  ASSUME TypeOK, PoolInv, NEW w \in Workers, Finish(w)
  PROVE  PoolInv'
<1> USE DEF TypeOK, PoolInv, world, Finish, Goto, End
<1>1. /\ entry # None => entry.pool \in PoolsOf(entry, conn')
      /\ \A v \in Workers : conn'[v] # None => conn'[v].pool \in PoolsOf(entry, conn')
  BY RefersTo
<1>2. \A v \in Workers \ {w} : /\ conn'[v] = conn[v] /\ pc'[v] = pc[v]
                               /\ config'[v] = config[v]
  OBVIOUS
<1>3. conn'[w] = None /\ pc'[w] = "idle" /\ entry' = entry
  OBVIOUS
<1>4. NeverPoisoned'
  BY <1>1, <1>2, <1>3 DEF NeverPoisoned
<1>5. SetUpAlone'
  <2> SUFFICES ASSUME NEW u \in Workers, pc'[u] \in {"migrate", "store"}
               PROVE  /\ conn'[u].pool \in open'
                      /\ entry' # None => entry'.pool # conn'[u].pool
                      /\ \A v \in Workers \ {u} :
                           conn'[v] # None => conn'[v].pool # conn'[u].pool
    BY DEF SetUpAlone
  <2>1. u # w
    BY <1>3
  <2>2. conn'[u] = conn[u] /\ pc'[u] = pc[u] /\ conn[u] # None
    BY <1>2, <2>1
  <2>3. /\ conn[u].pool \in open
        /\ entry # None => entry.pool # conn[u].pool
        /\ \A v \in Workers \ {u} : conn[v] # None => conn[v].pool # conn[u].pool
    BY <2>2 DEF SetUpAlone
  <2> QED BY <1>1, <1>2, <1>3, <2>2, <2>3
<1>6. OpenedOnce'
  BY <1>2, <1>3 DEF OpenedOnce, SamePool
<1>7. ReasonHolds'
  BY <1>1, <1>2, <1>3 DEF ReasonHolds
<1> QED BY <1>4, <1>5, <1>6, <1>7

\* The invariant on pools holds always, races and rotations included.
THEOREM PoolsCorrect == Spec => []PoolInv
<1>1. Init => PoolInv
  BY DEF Init, PoolInv, NeverPoisoned, SetUpAlone, OpenedOnce, SamePool, ReasonHolds
<1>2. TypeOK /\ PoolInv /\ [Next]_vars => PoolInv'
  <2> SUFFICES ASSUME TypeOK, PoolInv, [Next]_vars PROVE PoolInv'
    OBVIOUS
  <2>1. CASE \E w \in Workers : Call(w)
    BY <2>1, QuietStep, LookupStep, CloseStep, DeleteStep, ConnectStep,
       MigrateStep, StoreStep, FinishStep DEF Call
  <2>2. CASE FatalRace
    BY <2>2 DEF FatalRace, PoolInv, NeverPoisoned, SetUpAlone, OpenedOnce,
       SamePool, ReasonHolds
  <2>3. CASE UNCHANGED <<entry, open, pc, config, conn>>
    BY <2>3 DEF PoolInv, NeverPoisoned, SetUpAlone, OpenedOnce, SamePool,
       ReasonHolds
  <2> QED BY <2>1, <2>2, <2>3 DEF Next, SecretWrite, ServerChange, vars
<1> QED BY <1>1, <1>2, TypeCorrect, PTL DEF Spec

\* No reconcile finds a closed pool in the map, unless the call that closed it
\* is about to delete the entry (GetDatabaseConnection).
THEOREM NothingPoisoned == Spec => []NeverPoisoned
<1>1. PoolInv => NeverPoisoned
  BY DEF PoolInv
<1> QED BY <1>1, PoolsCorrect, PTL

-----------------------------------------------------------------------------
(* Who closes a pool, and who forgets one.                                 *)

\* Pools that are in use are closed by Close only: what Delete, Store and
\* Finish forget nobody refers to, and Migrate closes a pool of its own.
LEMMA WhoCloses ==
  ASSUME TypeOK, TypeOK', PoolInv, [Next]_vars,
         NEW w \in Workers, NEW p \in open \ open', Uses(w, p), Uses(w, p)'
  PROVE  \E v \in Workers : Close(v) /\ conn[v].pool = p
<1>1. /\ conn[w] # None /\ conn[w].pool = p /\ pc[w] = "use"
      /\ conn'[w] # None /\ conn'[w].pool = p /\ pc'[w] = "use"
  BY DEF TypeOK, Uses
<1>2. \A e : p \in PoolsOf(e, conn) /\ p \in PoolsOf(e, conn')
  BY <1>1 DEF PoolsOf
<1>3. ASSUME NEW v \in Workers, Call(v), ~Close(v)
      PROVE  FALSE
  <2>1. CASE ReadUser(v) \/ ReadPassword(v) \/ Lookup(v) \/ Ping(v) \/ Connect(v)
    BY <2>1 DEF ReadUser, ReadPassword, Lookup, Ping, Connect
  <2>2. CASE Delete(v) \/ Store(v) \/ Finish(v)
    BY <1>2, <2>2 DEF Delete, Store, Finish
  <2>3. CASE Migrate(v)
    <3>1. v # w /\ conn[w].pool # conn[v].pool
      BY <1>1, <2>3 DEF Migrate, PoolInv, SetUpAlone
    <3>2. open' = open \/ open' = open \ {conn[v].pool}
      BY <2>3 DEF Migrate
    <3> QED BY <1>1, <3>1, <3>2
  <2> QED BY <1>3, <2>1, <2>2, <2>3 DEF Call
<1>4. ASSUME NEW v \in Workers, Close(v)
      PROVE  conn[v].pool = p
  BY <1>4 DEF Close, Closes
<1>5. ~FatalRace
  BY <1>1 DEF FatalRace
<1>6. ~(SecretWrite \/ ServerChange \/ UNCHANGED vars)
  BY DEF SecretWrite, ServerChange, vars
<1> QED BY <1>3, <1>4, <1>5, <1>6 DEF Next

\* A pool is closed under the statements of another worker only by a call that
\* has read another configuration (GetDatabaseConnection).
THEOREM OnlyRotationCloses == Spec => ClosedOnlyByRotation
<1>1. TypeOK /\ TypeOK' /\ PoolInv /\ [Next]_vars =>
        [\A w \in Workers : \A p \in open \ open' :
           Uses(w, p) /\ Uses(w, p)' =>
             \E v \in Workers \ {w} :
               pc[v] = "close" /\ config[v] # conn[w].config]_vars
  <2> SUFFICES ASSUME TypeOK, TypeOK', PoolInv, [Next]_vars,
                      NEW w \in Workers, NEW p \in open \ open',
                      Uses(w, p), Uses(w, p)'
               PROVE  \E v \in Workers \ {w} :
                        pc[v] = "close" /\ config[v] # conn[w].config
    OBVIOUS
  <2>1. PICK v \in Workers : Close(v) /\ conn[v].pool = p
    BY WhoCloses
  <2>2. pc[v] = "close" /\ pc[w] = "use" /\ conn[w].pool = p
    BY <2>1 DEF Close, Uses
  <2>3. conn[v] # None /\ conn[w] # None
    BY <2>2 DEF TypeOK
  <2>4. conn[v] = conn[w]
    BY <2>1, <2>2, <2>3 DEF PoolInv, OpenedOnce, SamePool
  <2>5. config[v] # conn[w].config
    BY <2>2, <2>4 DEF PoolInv, ReasonHolds
  <2> QED BY <2>2, <2>5
<1> QED BY <1>1, TypeCorrect, PoolsCorrect, PTL DEF Spec, ClosedOnlyByRotation

\* A rotation by itself leaks no connections: what drops out of the map open
\* has failed a ping or was stored by a call that overlapped
\* (GetDatabaseConnection).
THEOREM RotationLeaksNothing == Spec => RotationCloses
<1>1. TypeOK /\ PoolInv /\ [Next]_vars =>
        [entry # None /\ entry' # entry /\ entry.pool \in open =>
           \/ FatalRace
           \/ \E w \in Workers :
                /\ Writes(w) /\ pc'[w] # pc[w]
                /\ conn[w] = entry => config[w] = entry.config]_vars
  <2> SUFFICES ASSUME TypeOK, PoolInv, [Next]_vars, ~FatalRace,
                      entry # None, entry' # entry, entry.pool \in open
               PROVE  \E w \in Workers :
                        /\ Writes(w) /\ pc'[w] # pc[w]
                        /\ conn[w] = entry => config[w] = entry.config
    OBVIOUS
  <2>1. PICK w \in Workers : Call(w)
    BY DEF Next, SecretWrite, ServerChange, vars
  <2>2. Delete(w) \/ Store(w)
    BY <2>1 DEF Call, ReadUser, ReadPassword, Lookup, Ping, Close, Connect,
       Migrate, Finish
  <2>3. CASE Delete(w)
    BY <2>3 DEF Delete, Writes, PoolInv, ReasonHolds, Goto, TypeOK
  <2>4. CASE Store(w)
    BY <2>4 DEF Store, Writes, PoolInv, SetUpAlone, Goto, TypeOK
  <2> QED BY <2>2, <2>3, <2>4
<1> QED BY <1>1, TypeCorrect, PoolsCorrect, PTL DEF Spec, RotationCloses
=============================================================================
