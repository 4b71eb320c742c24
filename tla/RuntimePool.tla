---------------------------- MODULE RuntimePool ----------------------------
(***************************************************************************)
(* The pool of plugin runtimes of one engine (runtime/manager.py) and the  *)
(* request threads that lease runtimes from it for the plugins of their    *)
(* profile (core/plugin_manager.py).                                       *)
(*                                                                         *)
(* A runtime is an object that runs one plugin: for a stdio plugin a       *)
(* process spoken to over pipes, for a bundled plugin an object of the     *)
(* gateway itself.  The pool keeps a list of entries per cache key.        *)
(* Everything between taking and leaving the Condition of the manager is   *)
(* one action; runtime.shutdown() is always called outside it, in an       *)
(* action of its own.                                                      *)
(***************************************************************************)
EXTENDS Naturals, FiniteSets, Sequences

CONSTANTS
  Thread,     \* the threadpool threads that serve requests
  Key,        \* runtime cache keys: one per distinct plugin runtime spec
  Runtime,    \* identities of the runtimes a behaviour may create (a bound)
  KeyOf,      \* the key each of those identities would be created for
  PoolSize,   \* pool_size of the spec behind each key
  InProcess,  \* the keys of bundled plugins (LegacyInprocessRuntime)
  Orders      \* the plugin orders of the profiles, as sequences of keys

ASSUME RuntimePoolAssumption ==
  /\ IsFiniteSet(Runtime)
  /\ KeyOf \in [Runtime -> Key]
  /\ PoolSize \in [Key -> Nat \ {0}]
  /\ InProcess \subseteq Key
  /\ Orders \subseteq Seq(Key)

VARIABLES
  entries,   \* self._runtimes: the runtimes in the pool, by key
  inUse,     \* RuntimePoolEntry.in_use of each runtime's entry
  proc,      \* "unborn", "up" or "exited": what process.poll() would say
  closed,    \* runtimes whose shutdown() has been called
  broken,    \* runtimes whose constructor raised after starting a process
  pc,        \* where each thread is
  order,     \* the keys each thread has still to acquire
  leases,    \* the active plugins' leases of each thread, oldest first
  retired,   \* runtimes a thread took out of the pool and has yet to shut down
  waiting,   \* threads blocked in Condition.wait and not notified since
  late,      \* threads whose acquire deadline has passed
  halting,   \* runtimes PluginRuntimeManager.shutdown has yet to shut down
  stopped    \* PluginRuntimeManager.shutdown has been called

vars == << entries, inUse, proc, closed, broken, pc, order, leases, retired,
           waiting, late, halting, stopped >>

-----------------------------------------------------------------------------
(* The runtimes as the pool sees them. *)

\* PluginRuntime.is_healthy: a stdio runtime is healthy while its process runs,
\* a bundled one always.
Healthy(r) == KeyOf[r] \in InProcess \/ proc[r] = "up"

Fresh(k) == {r \in Runtime : KeyOf[r] = k /\ proc[r] = "unborn"}

\* The entries _prune_unhealthy_idle_entries takes out.
Dead(k) == {r \in entries[k] : inUse[r] = 0 /\ ~Healthy(r)}

Live(k) == entries[k] \ Dead(k)

\* Mutant of Idle: any entry is taken for idle.
IdleAny(k) == Live(k)

Idle(k) == {r \in Live(k) : inUse[r] = 0}

\* Mutant of HasRoom: an off-by-one on the pool size.
HasRoomOffByOne(k) == Cardinality(Live(k)) <= PoolSize[k]

HasRoom(k) == Cardinality(Live(k)) < PoolSize[k]

\* runtime.shutdown(): a stdio runtime's process is asked to stop, then
\* terminated, then killed; a bundled runtime inherits the empty method.
Close(r) ==
  /\ closed' = closed \union {r}
  /\ proc' = [proc EXCEPT ![r] = IF KeyOf[r] \in InProcess THEN @ ELSE "exited"]

-----------------------------------------------------------------------------
Init ==
  /\ entries = [k \in Key |-> {}]
  /\ inUse = [r \in Runtime |-> 0]
  /\ proc = [r \in Runtime |-> "unborn"]
  /\ closed = {}
  /\ broken = {}
  /\ pc = [t \in Thread |-> "idle"]
  /\ order = [t \in Thread |-> << >>]
  /\ leases = [t \in Thread |-> << >>]
  /\ retired = [t \in Thread |-> {}]
  /\ waiting = {}
  /\ late = {}
  /\ halting = {}
  /\ stopped = FALSE

-----------------------------------------------------------------------------
(* A request resolves the plugins of its profile: resolve_active_plugins. *)

\* The next thing a thread does with keys o left: acquire, or run the hooks.
PcFor(o) == IF o = << >> THEN "use" ELSE "acquire"

Begin(t) ==
  /\ pc[t] = "idle"
  /\ \E o \in Orders :
       /\ order' = [order EXCEPT ![t] = o]
       /\ pc' = [pc EXCEPT ![t] = PcFor(o)]
  /\ late' = late \ {t}
  /\ UNCHANGED << entries, inUse, proc, closed, broken, leases, retired,
                  waiting, halting, stopped >>

\* The thread owns the Condition and runs the body of acquire's loop: it has
\* just entered, was notified, or its wait timed out.
Scanning(t) == pc[t] = "acquire" /\ (t \in waiting => t \in late)

\* acquire returns a lease on r; the pruned entries are shut down afterwards.
Grant(t, k, r) ==
  /\ leases' = [leases EXCEPT ![t] = Append(@, r)]
  /\ inUse' = [inUse EXCEPT ![r] = 1]
  /\ retired' = [retired EXCEPT ![t] = @ \union Dead(k)]
  /\ order' = [order EXCEPT ![t] = Tail(@)]
  /\ pc' = [pc EXCEPT ![t] = "granted"]
  /\ waiting' = waiting \ {t}

\* acquire raises: resolve_active_plugins releases what it already holds.  The
\* prune stays done, but nobody shuts the pruned runtimes down.
Raise(t) ==
  /\ order' = [order EXCEPT ![t] = << >>]
  /\ pc' = [pc EXCEPT ![t] = "unwind"]
  /\ retired' = [retired EXCEPT ![t] = {}]
  /\ waiting' = waiting \ {t}
  /\ UNCHANGED << inUse, leases >>

AcquireIdle(t) ==
  /\ Scanning(t)
  /\ LET k == Head(order[t]) IN
       /\ entries' = [entries EXCEPT ![k] = Live(k)]
       /\ \E r \in Idle(k) : Grant(t, k, r)
  /\ UNCHANGED << proc, closed, broken, late, halting, stopped >>

AcquireNew(t) ==
  /\ Scanning(t)
  /\ LET k == Head(order[t]) IN
       /\ Idle(k) = {} /\ HasRoom(k)
       /\ \E r \in Fresh(k) :
            /\ entries' = [entries EXCEPT ![k] = Live(k) \union {r}]
            /\ proc' = [proc EXCEPT ![r] = "up"]
            /\ Grant(t, k, r)
  /\ UNCHANGED << closed, broken, late, halting, stopped >>

\* create_plugin_runtime raises: nothing was started, or a stdio process was
\* started and its initialize call failed or timed out.
AcquireFails(t) ==
  /\ Scanning(t)
  /\ LET k == Head(order[t]) IN
       /\ Idle(k) = {} /\ HasRoom(k)
       /\ entries' = [entries EXCEPT ![k] = Live(k)]
       /\ \/ UNCHANGED << proc, broken >>
          \/ /\ k \notin InProcess
             /\ \E r \in Fresh(k) :
                  /\ proc' = [proc EXCEPT ![r] = "up"]
                  /\ broken' = broken \union {r}
  /\ Raise(t)
  /\ UNCHANGED << closed, late, halting, stopped >>

\* Mutant of MayWait: the deadline is not looked at before waiting again.
MayWaitForever(t) == TRUE

MayWait(t) == t \notin late

AcquireWaits(t) ==
  /\ Scanning(t)
  /\ MayWait(t)
  /\ LET k == Head(order[t]) IN
       /\ Idle(k) = {} /\ ~HasRoom(k)
       /\ entries' = [entries EXCEPT ![k] = Live(k)]
       /\ retired' = [retired EXCEPT ![t] = @ \union Dead(k)]
  /\ waiting' = waiting \union {t}
  /\ UNCHANGED << inUse, proc, closed, broken, pc, order, leases, late,
                  halting, stopped >>

AcquireTimesOut(t) ==
  /\ Scanning(t)
  /\ t \in late
  /\ LET k == Head(order[t]) IN
       /\ Idle(k) = {} /\ ~HasRoom(k)
       /\ entries' = [entries EXCEPT ![k] = Live(k)]
  /\ Raise(t)
  /\ UNCHANGED << proc, closed, broken, late, halting, stopped >>

\* One pass of a thread through the body of acquire's loop.
Scan(t) ==
  \/ AcquireIdle(t) \/ AcquireNew(t) \/ AcquireFails(t)
  \/ AcquireWaits(t) \/ AcquireTimesOut(t)

\* The Condition is left and a retired runtime is shut down, by acquire or by
\* release; an exception it raises is swallowed.
CloseRetired(t) ==
  /\ pc[t] \in {"granted", "unwind"}
  /\ \E r \in retired[t] :
       /\ Close(r)
       /\ retired' = [retired EXCEPT ![t] = @ \ {r}]
  /\ UNCHANGED << entries, inUse, broken, pc, order, leases, waiting, late,
                  halting, stopped >>

\* acquire has returned: on to the next plugin, or to the hooks.
Proceed(t) ==
  /\ pc[t] = "granted"
  /\ retired[t] = {}
  /\ pc' = [pc EXCEPT ![t] = PcFor(order[t])]
  /\ late' = late \ {t}
  /\ UNCHANGED << entries, inUse, proc, closed, broken, order, leases, retired,
                  waiting, halting, stopped >>

-----------------------------------------------------------------------------
(* The request is over: shutdown_active_plugins releases the leases. *)

Finish(t) ==
  /\ pc[t] = "use"
  /\ pc' = [pc EXCEPT ![t] = "unwind"]
  /\ UNCHANGED << entries, inUse, proc, closed, broken, order, leases, retired,
                  waiting, late, halting, stopped >>

\* Mutant of Notified: release does not notify.
NotifiedNobody == waiting

Notified == {}

\* Mutant of Kept: an unhealthy runtime is retired without leaving the list.
KeptUnhealthy(k, r) == entries[k]

Kept(k, r) == IF Healthy(r) THEN entries[k] ELSE entries[k] \ {r}

Release(t) ==
  /\ pc[t] = "unwind"
  /\ retired[t] = {}
  /\ leases[t] # << >>
  /\ leases' = [leases EXCEPT ![t] = Tail(@)]
  /\ LET r == Head(leases[t])
         k == KeyOf[r]
     IN IF r \in entries[k] /\ inUse[r] > 0
        THEN /\ inUse' = [inUse EXCEPT ![r] = @ - 1]
             /\ IF inUse[r] = 1
                THEN /\ entries' = [entries EXCEPT ![k] = Kept(k, r)]
                     /\ retired' = [retired EXCEPT
                                      ![t] = IF Healthy(r) THEN {} ELSE {r}]
                ELSE UNCHANGED << entries, retired >>
             /\ waiting' = Notified
        ELSE UNCHANGED << inUse, entries, retired, waiting >>
  /\ UNCHANGED << proc, closed, broken, pc, order, late, halting, stopped >>

End(t) ==
  /\ pc[t] = "unwind"
  /\ retired[t] = {}
  /\ leases[t] = << >>
  /\ pc' = [pc EXCEPT ![t] = "idle"]
  /\ UNCHANGED << entries, inUse, proc, closed, broken, order, leases, retired,
                  waiting, late, halting, stopped >>

-----------------------------------------------------------------------------
(* The engine of the pool is shut down, whoever still uses it. *)

\* Mutant of Collected: only idle runtimes are collected.
CollectedIdle == UNION {Idle(k) : k \in Key}

Collected == UNION {entries[k] : k \in Key}

\* Mutant of Cleared: the table is not cleared.
ClearedNever == entries

Cleared == [k \in Key |-> {}]

\* Once in a behaviour: an engine is shut down once.
Shutdown ==
  /\ ~stopped
  /\ stopped' = TRUE
  /\ halting' = Collected
  /\ entries' = Cleared
  /\ waiting' = {}
  /\ UNCHANGED << inUse, proc, closed, broken, pc, order, leases, retired, late >>

CloseHalted ==
  /\ \E r \in halting :
       /\ Close(r)
       /\ halting' = halting \ {r}
  /\ UNCHANGED << entries, inUse, broken, pc, order, leases, retired, waiting,
                  late, stopped >>

-----------------------------------------------------------------------------
(* The environment: time passes and plugin processes exit. *)

DeadlinePasses(t) ==
  /\ pc[t] = "acquire"
  /\ t \notin late
  /\ late' = late \union {t}
  /\ UNCHANGED << entries, inUse, proc, closed, broken, pc, order, leases,
                  retired, waiting, halting, stopped >>

ProcessExit(r) ==
  /\ KeyOf[r] \notin InProcess
  /\ proc[r] = "up"
  /\ proc' = [proc EXCEPT ![r] = "exited"]
  /\ UNCHANGED << entries, inUse, closed, broken, pc, order, leases, retired,
                  waiting, late, halting, stopped >>

ThreadStep(t) ==
  \/ Begin(t) \/ Scan(t) \/ CloseRetired(t) \/ Proceed(t)
  \/ Finish(t) \/ Release(t) \/ End(t) \/ DeadlinePasses(t)

Next ==
  \/ \E t \in Thread : ThreadStep(t)
  \/ Shutdown
  \/ CloseHalted
  \/ \E r \in Runtime : ProcessExit(r)

Spec == Init /\ [][Next]_vars

\* A thread inside the code keeps running and time passes.  Nothing obliges a
\* request to arrive, a process to exit or the engine to be shut down.
Fairness ==
  /\ \A t \in Thread :
       /\ WF_vars(Scan(t))
       /\ WF_vars(CloseRetired(t))
       /\ WF_vars(Proceed(t))
       /\ WF_vars(Finish(t))
       /\ WF_vars(Release(t))
       /\ WF_vars(End(t))
       /\ WF_vars(DeadlinePasses(t))
  /\ WF_vars(CloseHalted)

FairSpec == Spec /\ Fairness

-----------------------------------------------------------------------------
(* Properties. *)

TypeOK ==
  /\ entries \in [Key -> SUBSET Runtime]
  /\ inUse \in [Runtime -> Nat]
  /\ proc \in [Runtime -> {"unborn", "up", "exited"}]
  /\ closed \subseteq Runtime
  /\ broken \subseteq Runtime
  /\ pc \in [Thread -> {"idle", "acquire", "granted", "use", "unwind"}]
  /\ order \in [Thread -> Seq(Key)]
  /\ leases \in [Thread -> Seq(Runtime)]
  /\ retired \in [Thread -> SUBSET Runtime]
  /\ waiting \subseteq Thread
  /\ late \subseteq Thread
  /\ halting \subseteq Runtime
  /\ stopped \in BOOLEAN

HeldBy(t) == {leases[t][i] : i \in DOMAIN leases[t]}

Held == UNION {HeldBy(t) : t \in Thread}

Holders(r) == {t \in Thread : r \in HeldBy(t)}

\* The runtimes taken out of the pool to be shut down, or shut down already.
Gone == closed \union halting \union UNION {retired[t] : t \in Thread}

\* A plugin process answers one request at a time: no two leases, of two
\* requests or of one, are on the same runtime, although the pool hands the
\* same runtimes out again and again (acquire, lines 89-103).
ExclusiveLeases ==
  \A t, u \in Thread : \A i \in DOMAIN leases[t], j \in DOMAIN leases[u] :
    leases[t][i] = leases[u][j] => t = u /\ i = j

\* However acquires, prunes, process exits and a shutdown interleave, a pool
\* never holds more runtimes than the pool_size of its spec (line 95).
PoolBound == \A k \in Key : Cardinality(entries[k]) <= PoolSize[k]

\* As long as the engine is not shut down, a runtime is retired only when no
\* request holds a lease on it: neither the prune of another request's acquire
\* (line 72) nor a release (line 128) takes away a runtime in use.
NoRetireWhileLeased == ~stopped => Held \intersect Gone = {}

\* Each runtime is given to at most one caller of runtime.shutdown(), and only
\* after it left the pool: acquire (lines 112-116), release (lines 133-137) and
\* shutdown (lines 149-153) never shut the same runtime down twice.
RetiredOnce ==
  /\ Collected \intersect Gone = {}
  /\ closed \intersect halting = {}
  /\ \A t \in Thread :
       /\ retired[t] \intersect (closed \union halting) = {}
       /\ \A u \in Thread : u # t => retired[t] \intersect retired[u] = {}

\* A thread in acquire would find nothing: no idle runtime, no room for one.
Starved(t) ==
  /\ pc[t] = "acquire"
  /\ Idle(Head(order[t])) = {} /\ ~HasRoom(Head(order[t]))

\* No lost wakeup: a thread is left waiting, un-notified, only while its scan
\* would still find nothing, however releases, process exits and a shutdown
\* interleave (lines 131 and 147 notify whenever this changes).
NoLostWakeup == \A t \in waiting : Starved(t)

\* Every plugin process that runs is in the pool, leased by a request that
\* will give it back, or on its way to shutdown(), except those whose
\* constructor raised (stdio_jsonrpc.py, line 55: nobody stops them) and those
\* already told to stop.
LiveProcessOwned ==
  \A r \in Runtime :
    proc[r] = "up" => r \in Collected \union Gone \union broken

\* The pool is a table of exclusive leases: a runtime is leased to one request
\* at a time, retired only when free, until the engine's shutdown, and never
\* leased after that.
Leases == INSTANCE LeaseTable WITH
  Holder <- Thread, Resource <- Runtime, Exclusive <- TRUE,
  holders <- [r \in Runtime |-> Holders(r)],
  dead <- Gone, stopped <- stopped

ImplementsLeaseTable == Leases!Spec

\* What the safety properties rest on: where a runtime can be, and what in_use
\* says of an entry of the pool.
Bookkeeping ==
  /\ \A k \in Key : \A r \in entries[k] : KeyOf[r] = k
  /\ \A r \in Collected : inUse[r] = IF r \in Held THEN 1 ELSE 0
  /\ \A r \in Runtime :
       proc[r] = "unborn" => r \notin Held \union Collected \union Gone
  /\ ~stopped => Held \subseteq Collected /\ halting = {}
  /\ \A t \in Thread : pc[t] = "acquire" => order[t] # << >>
  /\ \A t \in Thread : pc[t] \notin {"granted", "unwind"} => retired[t] = {}

\* The inductive invariant of the proofs.
IInv ==
  /\ TypeOK
  /\ Bookkeeping
  /\ ExclusiveLeases
  /\ PoolBound
  /\ RetiredOnce

\* Every request gets its runtimes or an error and gives back all it took, even
\* when two requests each hold the runtime the other waits for: the deadline of
\* acquire (lines 105-109) breaks the cycle.
EveryRequestEnds == \A t \in Thread : pc[t] # "idle" ~> pc[t] = "idle"

\* Engine shutdown reaches every runtime that was in the pool, also those that
\* requests still hold: each is shut down, unless its process ends by itself
\* (lines 139-153).
ShutdownReachesAll ==
  \A r \in Runtime :
    []((~stopped /\ r \in Collected /\ <>stopped)
         => <>(r \in closed \/ proc[r] = "exited"))
=============================================================================
