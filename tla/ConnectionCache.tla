-------------------------- MODULE ConnectionCache --------------------------
(***************************************************************************)
(* GetDatabaseConnection (api/v1alpha1/adminconnection_types.go) and the   *)
(* cache of connection pools it keeps in orm.ConnectionDefinition: a plain *)
(* Go map from the UID of an AdminConnection to a configuration and a      *)
(* pool, shared without a lock by the workers of the three controllers.    *)
(*                                                                         *)
(* Entries of different AdminConnections meet in one thing only, the data  *)
(* race on the map, so one AdminConnection is modelled and `entry` is its  *)
(* entry.  What the code reads of a configuration is a version of it; user *)
(* and password are read one after the other and may be of two versions.   *)
(* A pool that neither the map nor a call refers to is forgotten, open or  *)
(* not, and its identifier is used again.                                  *)
(***************************************************************************)
CONSTANTS
  Workers,    \* the goroutines that reconcile
  Pools,      \* identities of sql.DB values
  Versions,   \* versions of the administrator's user and password
  Missing,    \* there is no secret, or not with the key
  Nobody,     \* the server accepts no connection, and breaks those it has
  None        \* no entry, or nothing read yet

Configs == [user : Versions, password : Versions]
Entries == [config : Configs, pool : Pools]

\* Both of one version.
Both(v) == [user |-> v, password |-> v]

ASSUME CacheAssumption ==
  /\ Missing \notin Versions
  /\ Nobody \notin Versions
  /\ None \notin Configs /\ None \notin Entries

VARIABLES
  secret,     \* the version stored in Kubernetes, or Missing
  accepts,    \* the version the server lets in, or Nobody
  entry,      \* the entry of the map, or None
  open,       \* the pools that are open, of those in use
  pc,         \* pc[w]: what the call of worker w does next
  config,     \* config[w]: the configuration it has read, or None
  conn        \* conn[w]: the entry it looked up or is about to store, or None

world == <<secret, accepts>>
vars  == <<world, entry, open, pc, config, conn>>

-----------------------------------------------------------------------------
(* Pools.                                                                  *)

\* The pools that the map or a call refers to.
PoolsOf(e, c) == {f.pool : f \in ({e} \cup {c[w] : w \in Workers}) \ {None}}

Referenced == PoolsOf(entry, conn)
Fresh      == CHOOSE p \in Pools \ Referenced : TRUE

\* What a ping or a statement on a pool may answer: TRUE for success.  After
\* a rotation the connections that a pool still has work until they are lost.
Answers(e) ==
  IF e.pool \notin open \/ accepts = Nobody THEN {FALSE}
  ELSE IF e.config = Both(accepts) THEN {TRUE} ELSE BOOLEAN

-----------------------------------------------------------------------------
(* GetDatabaseConnection as worker w runs it.                              *)

Goto(w, step) == pc' = [pc EXCEPT ![w] = step]

\* The call ends without a connection, or the reconcile is over.
End(w) ==
  /\ Goto(w, "idle")
  /\ config' = [config EXCEPT ![w] = None]
  /\ conn' = [conn EXCEPT ![w] = None]

\* GetSecretRefValue has an answer: the secret is there, with the key.
Readable == secret # Missing

\* Without a user the call ends here, before it has done anything.
ReadUser(w) ==
  /\ pc[w] = "idle" /\ Readable
  /\ config' = [config EXCEPT ![w] = Both(secret)]
  /\ Goto(w, "password")
  /\ UNCHANGED <<world, entry, open, conn>>

ReadPassword(w) ==
  /\ pc[w] = "password"
  /\ IF Readable
     THEN /\ config' = [config EXCEPT ![w].password = secret]
          /\ Goto(w, "lookup")
          /\ UNCHANGED conn
     ELSE End(w)
  /\ UNCHANGED <<world, entry, open>>

\* Variant: an entry is good whatever it was opened with.
SameConfigVariant(e, c) == TRUE

SameConfig(e, c) == e.config = c

Lookup(w) ==
  /\ pc[w] = "lookup"
  /\ conn' = [conn EXCEPT ![w] = entry]
  /\ Goto(w, IF entry = None THEN "delete"
             ELSE IF SameConfig(entry, config[w]) THEN "ping" ELSE "close")
  /\ UNCHANGED <<world, entry, open, config>>

\* Variant: a pool that does not answer is closed before it is replaced.
AfterPingVariant(ok) == IF ok THEN "use" ELSE "close"

AfterPing(ok) == IF ok THEN "use" ELSE "delete"

Ping(w) ==
  /\ pc[w] = "ping"
  /\ \E ok \in Answers(conn[w]) : Goto(w, AfterPing(ok))
  /\ UNCHANGED <<world, entry, open, config, conn>>

\* Variant: the pool that is replaced is left open.
ClosesVariant(p) == open

Closes(p) == open \ {p}

\* Variant: the entry is overwritten later, and not deleted.
AfterCloseVariant == "connect"

AfterClose == "delete"

Close(w) ==
  /\ pc[w] = "close"
  /\ open' = Closes(conn[w].pool)
  /\ Goto(w, AfterClose)
  /\ UNCHANGED <<world, entry, config, conn>>

\* Whatever entry is there by now is deleted.
Delete(w) ==
  /\ pc[w] = "delete"
  /\ entry' = None
  /\ conn' = [conn EXCEPT ![w] = None]
  /\ open' = open \cap PoolsOf(entry', conn')
  /\ Goto(w, "connect")
  /\ UNCHANGED <<world, config>>

\* Open and the first ping.  If that fails, nobody closes the new sql.DB.
Connect(w) ==
  /\ pc[w] = "connect"
  /\ Pools \ Referenced # {}
  /\ IF config[w] = Both(accepts)
     THEN /\ conn' = [conn EXCEPT ![w] = [config |-> config[w], pool |-> Fresh]]
          /\ open' = open \cup {Fresh}
          /\ Goto(w, "migrate")
          /\ UNCHANGED config
     ELSE End(w) /\ UNCHANGED open
  /\ UNCHANGED <<world, entry>>

\* The session is set up and the ledger tables are migrated on the new pool.
Migrate(w) ==
  /\ pc[w] = "migrate"
  /\ \E ok \in Answers(conn[w]) :
       IF ok THEN Goto(w, "store") /\ UNCHANGED <<open, config, conn>>
             ELSE End(w) /\ open' = open \ {conn[w].pool}
  /\ UNCHANGED <<world, entry>>

Store(w) ==
  /\ pc[w] = "store"
  /\ entry' = conn[w]
  /\ open' = open \cap PoolsOf(entry', conn)
  /\ Goto(w, "use")
  /\ UNCHANGED <<world, config, conn>>

\* The reconcile has run its statements.
Finish(w) ==
  /\ pc[w] = "use"
  /\ End(w)
  /\ open' = open \cap PoolsOf(entry, conn')
  /\ UNCHANGED <<world, entry>>

-----------------------------------------------------------------------------
(* Around the calls.                                                       *)

Writes(w)    == pc[w] \in {"delete", "store"}
UsesTheMap(w) == pc[w] = "lookup" \/ Writes(w)

\* The Go runtime may notice that a map is written while it is used, and then
\* ends the process; the new one starts with an empty map.
FatalRace ==
  /\ \E v, w \in Workers : v # w /\ Writes(v) /\ UsesTheMap(w)
  /\ entry' = None
  /\ open' = {}
  /\ pc' = [w \in Workers |-> "idle"]
  /\ config' = [w \in Workers |-> None]
  /\ conn' = [w \in Workers |-> None]
  /\ UNCHANGED world

\* The administrator's secret is written, removed or restored.
SecretWrite ==
  /\ secret' \in (Versions \cup {Missing}) \ {secret}
  /\ UNCHANGED <<accepts, entry, open, pc, config, conn>>

\* The server goes down, comes back, or is given another password.
ServerChange ==
  /\ accepts' \in (Versions \cup {Nobody}) \ {accepts}
  /\ UNCHANGED <<secret, entry, open, pc, config, conn>>

-----------------------------------------------------------------------------
(* Specification.                                                          *)

Init ==
  /\ secret \in Versions \cup {Missing}
  /\ accepts \in Versions \cup {Nobody}
  /\ entry = None
  /\ open = {}
  /\ pc = [w \in Workers |-> "idle"]
  /\ config = [w \in Workers |-> None]
  /\ conn = [w \in Workers |-> None]

Call(w) ==
  \/ ReadUser(w) \/ ReadPassword(w) \/ Lookup(w) \/ Ping(w) \/ Close(w)
  \/ Delete(w) \/ Connect(w) \/ Migrate(w) \/ Store(w) \/ Finish(w)

Next == (\E w \in Workers : Call(w)) \/ FatalRace \/ SecretWrite \/ ServerChange

Spec == Init /\ [][Next]_vars

\* No call waits for another one, and reconciles keep coming: an error puts
\* the key back, and the sync period queues every object again.
FairSpec == Spec /\ \A w \in Workers : WF_vars(Call(w))

-----------------------------------------------------------------------------
(* Types.                                                                  *)

Steps == {"idle", "password", "lookup", "ping", "close", "delete", "connect",
          "migrate", "store", "use"}

\* Every variable has its type; a worker holds an entry exactly while it has
\* one to ping, close, set up, store or use.
TypeOK ==
  /\ secret \in Versions \cup {Missing}
  /\ accepts \in Versions \cup {Nobody}
  /\ entry \in Entries \cup {None}
  /\ open \subseteq Pools
  /\ pc \in [Workers -> Steps]
  /\ config \in [Workers -> Configs \cup {None}]
  /\ conn \in [Workers -> Entries \cup {None}]
  /\ \A w \in Workers :
       /\ pc[w] = "idle" <=> config[w] = None
       /\ pc[w] \in {"idle", "password", "lookup", "connect"} => conn[w] = None
       /\ pc[w] \in {"ping", "close", "migrate", "store", "use"} => conn[w] # None

-----------------------------------------------------------------------------
(* What the callers rely on.                                               *)

Uses(w, p) == pc[w] = "use" /\ conn[w].pool = p

\* A closed pool is in the map only until the call that closed it deletes the
\* entry, however calls overlap: no later reconcile finds it there
\* (GetDatabaseConnection closes first and deletes later, without a lock).
NeverPoisoned ==
  entry # None /\ entry.pool \notin open =>
    \E w \in Workers : pc[w] = "delete" /\ conn[w] = entry

\* A pool is closed under the statements of another worker only by a call that
\* has read another configuration, never because a ping failed.
ClosedOnlyByRotation ==
  [][\A w \in Workers : \A p \in open \ open' :
       Uses(w, p) /\ Uses(w, p)' =>
         \E v \in Workers \ {w} :
           pc[v] = "close" /\ config[v] # conn[w].config]_vars

\* An open pool drops out of the map, and so is never closed, only if its ping
\* failed or another call stored it after the lookup of the call that removes
\* it, which is the one that takes the step: a rotation by itself leaks none.
RotationCloses ==
  [][entry # None /\ entry' # entry /\ entry.pool \in open =>
       \/ FatalRace
       \/ \E w \in Workers :
            /\ Writes(w) /\ pc'[w] # pc[w]
            /\ conn[w] = entry => config[w] = entry.config]_vars

Agreed(v) == secret = v /\ accepts = v

\* Once the secret and the server agree for good, and the runtime lets the
\* races pass, every worker keeps getting a connection, and in the end only
\* open pools with the right configuration are in use.
Heals ==
  \A v \in Versions :
    <>[]Agreed(v) /\ <>[][~FatalRace]_vars =>
      \A w \in Workers :
        /\ []<>(pc[w] = "use")
        /\ <>[](pc[w] = "use" =>
                  conn[w].config = Both(v) /\ conn[w].pool \in open)

-----------------------------------------------------------------------------
(* The inductive invariant behind the safety properties.                   *)

\* Only its own call refers to a pool that is being set up, and it is open.
SetUpAlone ==
  \A w \in Workers : pc[w] \in {"migrate", "store"} =>
    /\ conn[w].pool \in open
    /\ entry # None => entry.pool # conn[w].pool
    /\ \A v \in Workers \ {w} : conn[v] # None => conn[v].pool # conn[w].pool

\* A pool was opened once, with one configuration.
SamePool(e, f) == e # None /\ f # None /\ e.pool = f.pool => e = f

OpenedOnce ==
  \A w \in Workers :
    /\ SamePool(entry, conn[w])
    /\ \A v \in Workers : SamePool(conn[v], conn[w])

\* Why a call is about to close or to delete what it found.
ReasonHolds ==
  \A w \in Workers :
    /\ pc[w] = "ping" => config[w] = conn[w].config
    /\ pc[w] = "close" => config[w] # conn[w].config
    /\ pc[w] = "delete" /\ conn[w] # None /\ conn[w].pool \in open
         => config[w] = conn[w].config

PoolInv == NeverPoisoned /\ SetUpAlone /\ OpenedOnce /\ ReasonHolds
=============================================================================
