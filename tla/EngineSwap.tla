----------------------------- MODULE EngineSwap -----------------------------
(***************************************************************************)
(* The gateway controller (runtime_control.py): requests borrow the        *)
(* current engine, an update of a profile's plugins replaces it by a new   *)
(* one, and the old engine is shut down when its last request has given    *)
(* it back.  Request threads run the controller from the threadpool; the   *)
(* updates and the shutdown of the application run on the event loop, one  *)
(* at a time.  An engine is known by its generation.                       *)
(*                                                                         *)
(* What the controller does holding its lock is one action; the shutdown   *)
(* of an engine, always outside the lock, is an action of its own.         *)
(***************************************************************************)
EXTENDS Naturals, FiniteSets

CONSTANTS
  Thread,        \* the threadpool threads that serve requests
  Loop,          \* the event loop
  MaxGeneration  \* bound on the generations of a behaviour

ASSUME EngineSwapAssumption ==
  /\ IsFiniteSet(Thread)
  /\ Loop \notin Thread
  /\ MaxGeneration \in Nat \ {0}

Generation == 1 .. MaxGeneration

Actor == Thread \union {Loop}

NoEngine == 0

VARIABLES
  generation,  \* _generation: the current engine
  counts,      \* _active_counts, 0 where the dictionary has no entry
  retired,     \* _retired: the replaced engines some request still uses
  lease,       \* the engine each thread has borrowed, or NoEngine
  closing,     \* the engine each actor is about to shut down, or NoEngine
  halting,     \* the engines GatewayController.shutdown has yet to shut down
  closed,      \* the engines whose shutdown() has been called
  stopped      \* GatewayController.shutdown has been called

vars == << generation, counts, retired, lease, closing, halting, closed, stopped >>

-----------------------------------------------------------------------------
Init ==
  /\ generation = 1
  /\ counts = [g \in Generation |-> 0]
  /\ retired = {}
  /\ lease = [t \in Thread |-> NoEngine]
  /\ closing = [a \in Actor |-> NoEngine]
  /\ halting = {}
  /\ closed = {}
  /\ stopped = FALSE

\* A request arrives: borrow_engine.  None arrives once the application shuts
\* down: the server has stopped serving before it runs the end of lifespan.
Borrow(t) ==
  /\ ~stopped
  /\ lease[t] = NoEngine /\ closing[t] = NoEngine
  /\ counts' = [counts EXCEPT ![generation] = @ + 1]
  /\ lease' = [lease EXCEPT ![t] = generation]
  /\ UNCHANGED << generation, retired, closing, halting, closed, stopped >>

Decremented(c) == IF c = 0 THEN 0 ELSE c - 1

\* Mutant of Retirable: the engine's count is not looked at.
RetirableAtOnce(g) == retired \intersect {g}

\* Mutant of Retirable: release_engine forgets the retired engines.
RetirableNever(g) == {}

\* The retired engine a release of g finds without users.
Retirable(g) == IF Decremented(counts[g]) = 0 THEN retired \intersect {g} ELSE {}

\* The engine has served the request: release_engine.  The stream of a
\* streaming request is consumed later, without a lease.
Release(t) ==
  /\ lease[t] # NoEngine
  /\ LET g == lease[t] IN
       /\ counts' = [counts EXCEPT ![g] = Decremented(@)]
       /\ retired' = retired \ Retirable(g)
       /\ closing' = [closing EXCEPT ![t] = IF Retirable(g) = {} THEN NoEngine ELSE g]
  /\ lease' = [lease EXCEPT ![t] = NoEngine]
  /\ UNCHANGED << generation, halting, closed, stopped >>

\* Mutant of Unused: every engine waits for a release.
UnusedNever(g) == FALSE

Unused(g) == counts[g] = 0

\* An update of a profile's plugins that is accepted, prepared and written:
\* _activate_prepared_engine.  (A rejected or failed one leaves all this as is.)
Update ==
  /\ ~stopped
  /\ closing[Loop] = NoEngine
  /\ generation < MaxGeneration
  /\ generation' = generation + 1
  /\ IF Unused(generation)
     THEN /\ closing' = [closing EXCEPT ![Loop] = generation]
          /\ UNCHANGED retired
     ELSE /\ retired' = retired \union {generation}
          /\ UNCHANGED closing
  /\ UNCHANGED << counts, lease, halting, closed, stopped >>

\* retired_engine.shutdown(), by the request or the update that retired it.
CloseOld(a) ==
  /\ closing[a] # NoEngine
  /\ closed' = closed \union {closing[a]}
  /\ closing' = [closing EXCEPT ![a] = NoEngine]
  /\ UNCHANGED << generation, counts, retired, lease, halting, stopped >>

\* Mutant of Remaining: the retired engines are forgotten.
RemainingCurrent == {generation}

Remaining == {generation} \union retired

\* The application ends: GatewayController.shutdown.  Requests may still run in
\* threads when the server was told to exit at once.
Shutdown ==
  /\ ~stopped
  /\ closing[Loop] = NoEngine
  /\ stopped' = TRUE
  /\ halting' = Remaining
  /\ retired' = {}
  /\ counts' = [g \in Generation |-> 0]
  /\ UNCHANGED << generation, lease, closing, closed >>

CloseHalted ==
  /\ \E g \in halting :
       /\ closed' = closed \union {g}
       /\ halting' = halting \ {g}
  /\ UNCHANGED << generation, counts, retired, lease, closing, stopped >>

Next ==
  \/ \E t \in Thread : Borrow(t) \/ Release(t)
  \/ \E a \in Actor : CloseOld(a)
  \/ Update
  \/ Shutdown
  \/ CloseHalted

Spec == Init /\ [][Next]_vars

\* Requests end and started shutdowns proceed; nothing obliges a request or an
\* update to come, or the application to stop.
Fairness ==
  /\ \A t \in Thread : WF_vars(Release(t))
  /\ \A a \in Actor : WF_vars(CloseOld(a))
  /\ WF_vars(CloseHalted)

FairSpec == Spec /\ Fairness

-----------------------------------------------------------------------------
(* Properties. *)

TypeOK ==
  /\ generation \in Generation
  /\ counts \in [Generation -> Nat]
  /\ retired \subseteq Generation
  /\ lease \in [Thread -> Generation \union {NoEngine}]
  /\ closing \in [Actor -> Generation \union {NoEngine}]
  /\ halting \subseteq Generation
  /\ closed \subseteq Generation
  /\ stopped \in BOOLEAN

Borrowers(g) == {t \in Thread : lease[t] = g}

Closers(g) == {a \in Actor : closing[a] = g}

\* The engines on their way to shutdown(), or past it.
Gone == {g \in Generation : Closers(g) # {}} \union halting \union closed

\* The counts never drift: however borrows, releases and updates interleave,
\* each is the number of requests that use the engine (lines 75-89, 281-295).
CountsExact ==
  ~stopped => \A g \in Generation : counts[g] = Cardinality(Borrowers(g))

\* As long as the application runs, no engine is shut down under a request that
\* borrowed it: neither by an update (line 289) nor by the release of another
\* request (line 85).
NoShutdownWhileLeased ==
  ~stopped => \A t \in Thread : lease[t] \notin Gone

\* No engine is forgotten and none is shut down twice: each generation so far
\* is current, retired with a request still to release it, held by exactly one
\* caller of its shutdown(), or shut down.
EnginesAccounted ==
  /\ 1 .. generation = {generation} \union retired \union Gone
  /\ retired \intersect (Gone \union {generation}) = {}
  /\ \A g \in retired : Borrowers(g) # {}
  /\ \A a, b \in Actor : closing[a] = closing[b] /\ closing[a] # NoEngine => a = b
  /\ \A a \in Actor : closing[a] \notin halting \union closed
  /\ halting \intersect closed = {}
  /\ stopped <=> generation \in Gone

\* The controller is a table of shared leases on the engines: see LeaseTable.
Leases == INSTANCE LeaseTable WITH
  Holder <- Thread, Resource <- Generation, Exclusive <- FALSE,
  holders <- [g \in Generation |-> Borrowers(g)],
  dead <- Gone, stopped <- stopped

ImplementsLeaseTable == Leases!Spec

\* The inductive invariant of the proofs.  A thread never shuts an engine down
\* while it uses one, so no pending shutdown is forgotten.  Once stopped, the controller has no
\* retired engine, so a late release finds nothing to shut down.
IInv ==
  /\ TypeOK
  /\ CountsExact
  /\ EnginesAccounted
  /\ \A t \in Thread : lease[t] # NoEngine => closing[t] = NoEngine
  /\ IF stopped
     THEN retired = {}
     ELSE halting = {} /\ \A t \in Thread :
            lease[t] # NoEngine => lease[t] \in {generation} \union retired

\* Every engine that is replaced, or current when the application stops, is
\* shut down in the end.
OldEnginesClose ==
  \A g \in Generation :
    (g < generation \/ (stopped /\ g = generation)) ~> g \in closed
=============================================================================
