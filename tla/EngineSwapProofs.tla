-------------------------- MODULE EngineSwapProofs --------------------------
(***************************************************************************)
(* Proofs about EngineSwap, for every number of threads and generations.   *)
(***************************************************************************)
EXTENDS EngineSwap, FiniteSetTheorems, TLAPS

USE DEF Generation, Actor, NoEngine

\* The users of an engine can be counted, and it has none when the count is 0.
LEMMA CountBorrowers ==
  ASSUME NEW g
  PROVE  /\ IsFiniteSet(Borrowers(g)) /\ Cardinality(Borrowers(g)) \in Nat
         /\ Cardinality(Borrowers(g)) = 0 <=> Borrowers(g) = {}
<1>1. Borrowers(g) \in SUBSET Thread /\ IsFiniteSet(Thread)
  BY EngineSwapAssumption DEF EngineSwapAssumption, Borrowers
<1>2. IsFiniteSet(Borrowers(g))
  BY <1>1, FS_Subset
<1> QED
  BY <1>2, FS_CardinalityType, FS_EmptySet

LEMMA TypeStep ==
  ASSUME TypeOK, [Next]_vars
  PROVE  TypeOK'
<1> USE EngineSwapAssumption DEF EngineSwapAssumption, TypeOK
<1>1. ASSUME NEW t \in Thread, Borrow(t) PROVE TypeOK'
  BY <1>1 DEF Borrow
<1>2. ASSUME NEW t \in Thread, Release(t) PROVE TypeOK'
  <2>1. lease[t] \in Generation
    BY <1>2 DEF Release
  <2>2. Decremented(counts[lease[t]]) \in Nat
    BY <2>1 DEF Decremented
  <2> QED
    BY <1>2, <2>1, <2>2 DEF Release
<1>3. ASSUME NEW a \in Actor, CloseOld(a) PROVE TypeOK'
  BY <1>3 DEF CloseOld
<1>4. CASE Update
  <2>1. generation' \in Generation /\ retired' \subseteq Generation
    <3>1. /\ generation \in Generation /\ retired \subseteq Generation
          /\ generation < MaxGeneration /\ generation' = generation + 1
          /\ retired' = retired \/ retired' = retired \union {generation}
      BY <1>4 DEF Update
    <3>2. generation' \in Generation
      BY <3>1 DEF Generation
    <3>3. {generation} \subseteq Generation
      BY <3>1
    <3> QED
      BY <3>1, <3>2, <3>3
  <2>2. closing' \in [Actor -> Generation \union {NoEngine}]
    BY <1>4 DEF Update
  <2> QED
    BY <1>4, <2>1, <2>2 DEF Update
<1>5. CASE Shutdown
  BY <1>5 DEF Shutdown, Remaining
<1>6. CASE CloseHalted
  BY <1>6 DEF CloseHalted
<1>7. CASE UNCHANGED vars
  BY <1>7 DEF vars
<1> QED
  BY <1>1, <1>2, <1>3, <1>4, <1>5, <1>6, <1>7 DEF Next

-----------------------------------------------------------------------------
(* What each kind of step does to the borrowers of the engines and to the  *)
(* engines on their way to shutdown().                                     *)

LEMMA BorrowEffect ==
  ASSUME TypeOK, NEW t \in Thread, Borrow(t)
  PROVE  /\ generation \in Generation /\ t \notin Borrowers(generation)
         /\ \A u \in Thread : lease'[u] = IF u = t THEN generation ELSE lease[u]
         /\ \A g \in Generation :
              Borrowers(g)' = IF g = generation THEN Borrowers(g) \union {t} ELSE Borrowers(g)
         /\ Gone' = Gone
<1>1. /\ lease[t] = NoEngine /\ lease' = [lease EXCEPT ![t] = generation]
      /\ UNCHANGED << closing, halting, closed >>
  BY DEF Borrow
<1>2. \A u \in Thread : lease'[u] = IF u = t THEN generation ELSE lease[u]
  BY <1>1 DEF TypeOK
<1>3. \A g \in Generation :
        Borrowers(g)' = IF g = generation THEN Borrowers(g) \union {t} ELSE Borrowers(g)
  BY <1>1, <1>2 DEF Borrowers
<1>4. t \notin Borrowers(generation) /\ generation \in Generation
  BY <1>1 DEF Borrowers, TypeOK
<1>5. Gone' = Gone
  BY <1>1 DEF Gone, Closers
<1> QED
  BY <1>2, <1>3, <1>4, <1>5

\* A release takes one borrower away, and hands its caller the engine to shut
\* down exactly when the engine is retired and was the last one's.
LEMMA ReleaseEffect ==
  ASSUME IInv, NEW t \in Thread, Release(t)
  PROVE  LET g == lease[t] IN
         /\ g \in Generation /\ t \in Borrowers(g)
         /\ counts' = [counts EXCEPT ![g] = Decremented(@)]
         /\ retired' = retired \ Retirable(g)
         /\ \A u \in Thread : lease'[u] = IF u = t THEN NoEngine ELSE lease[u]
         /\ \A h \in Generation :
              Borrowers(h)' = IF h = g THEN Borrowers(g) \ {t} ELSE Borrowers(h)
         /\ Cardinality(Borrowers(g)) \in Nat \ {0}
         /\ Cardinality(Borrowers(g) \ {t}) = Cardinality(Borrowers(g)) - 1
         /\ Retirable(g) # {} =>
              Retirable(g) = {g} /\ g \in retired /\ ~stopped /\ Borrowers(g) \ {t} = {}
         /\ closing[t] = NoEngine
         /\ \A a \in Actor :
              closing'[a] = IF a = t /\ Retirable(g) # {} THEN g ELSE closing[a]
         /\ Gone' = Gone \union Retirable(g)
<1> DEFINE g == lease[t]
<1>1. /\ g \in Generation
      /\ counts' = [counts EXCEPT ![g] = Decremented(@)]
      /\ retired' = retired \ Retirable(g)
      /\ closing' = [closing EXCEPT ![t] = IF Retirable(g) = {} THEN NoEngine ELSE g]
      /\ lease' = [lease EXCEPT ![t] = NoEngine]
      /\ UNCHANGED << generation, halting, closed, stopped >>
  BY DEF Release, IInv, TypeOK
<1> HIDE DEF g
<1>2. \A u \in Thread : lease'[u] = IF u = t THEN NoEngine ELSE lease[u]
  BY <1>1 DEF IInv, TypeOK
<1>3. \A h \in Generation :
        Borrowers(h)' = IF h = g THEN Borrowers(g) \ {t} ELSE Borrowers(h)
  BY <1>1, <1>2 DEF Borrowers, g
<1>4. t \in Borrowers(g)
  BY DEF Borrowers, g
<1>5. Cardinality(Borrowers(g) \ {t}) = Cardinality(Borrowers(g)) - 1
  BY <1>4, CountBorrowers, FS_RemoveElement
<1>6. /\ Cardinality(Borrowers(g)) \in Nat \ {0}
      /\ Cardinality(Borrowers(g)) = 1 => Borrowers(g) \ {t} = {}
  <2>1. /\ IsFiniteSet(Borrowers(g) \ {t})
        /\ Cardinality(Borrowers(g) \ {t}) = 0 <=> Borrowers(g) \ {t} = {}
    BY CountBorrowers, FS_RemoveElement, FS_EmptySet
  <2> QED
    BY <1>4, <1>5, <2>1, CountBorrowers
<1>8. Retirable(g) # {} =>
        Retirable(g) = {g} /\ g \in retired /\ ~stopped /\ Borrowers(g) \ {t} = {}
  <2> SUFFICES ASSUME Retirable(g) # {}
               PROVE  Retirable(g) = {g} /\ g \in retired /\ ~stopped
                      /\ Borrowers(g) \ {t} = {}
    OBVIOUS
  <2>1. g \in retired /\ Retirable(g) = {g} /\ Decremented(counts[g]) = 0
    BY DEF Retirable
  <2>2. ~stopped
    BY <2>1 DEF IInv
  <2>3. counts[g] = Cardinality(Borrowers(g))
    BY <1>1, <2>2 DEF IInv, CountsExact
  <2> QED
    BY <1>6, <2>1, <2>2, <2>3 DEF Decremented
<1>10. /\ closing[t] = NoEngine
       /\ \A a \in Actor : closing'[a] = IF a = t /\ Retirable(g) # {} THEN g ELSE closing[a]
  BY <1>1 DEF IInv, TypeOK, g
<1>11. Gone' = Gone \union Retirable(g)
  <2>1. \A h \in Generation :
          Closers(h)' = IF h \in Retirable(g) THEN Closers(h) \union {t} ELSE Closers(h)
    BY <1>8, <1>10 DEF Closers, Retirable
  <2>2. Retirable(g) \subseteq Generation
    BY <1>1, <1>8
  <2> QED
    BY <1>1, <2>1, <2>2 DEF Gone
<1> QED
  BY <1>1, <1>2, <1>3, <1>4, <1>5, <1>6, <1>8, <1>10, <1>11 DEF g

\* An update sends the engine it replaces to shutdown() if nobody uses it.
LEMMA UpdateEffect ==
  ASSUME TypeOK, Update
  PROVE  Gone' = Gone \union (IF Unused(generation) THEN {generation} ELSE {})
<1>1. /\ closing[Loop] = NoEngine /\ UNCHANGED << halting, closed >>
      /\ generation \in Generation
  BY DEF Update, TypeOK
<1>2. CASE Unused(generation)
  <2>1. \A a \in Actor : closing'[a] = IF a = Loop THEN generation ELSE closing[a]
    BY <1>2 DEF Update, TypeOK
  <2>2. \A g \in Generation :
          Closers(g)' = IF g = generation THEN Closers(g) \union {Loop} ELSE Closers(g)
    BY <1>1, <2>1 DEF Closers
  <2> QED
    BY <1>1, <1>2, <2>2 DEF Gone
<1>3. CASE ~Unused(generation)
  BY <1>1, <1>3 DEF Update, Gone, Closers
<1> QED
  BY <1>2, <1>3

\* Shutting an engine down leaves it among those on their way, or past it.
LEMMA CloseEffect ==
  ASSUME TypeOK, EnginesAccounted,
         (\E a \in Actor : CloseOld(a)) \/ CloseHalted \/ UNCHANGED vars
  PROVE  Gone' = Gone
<1>1. ASSUME NEW a \in Actor, CloseOld(a) PROVE Gone' = Gone
  <2>1. /\ closing[a] \in Generation /\ halting' = halting
        /\ closed' = closed \union {closing[a]}
        /\ \A b \in Actor : closing'[b] = IF b = a THEN NoEngine ELSE closing[b]
    BY <1>1 DEF CloseOld, TypeOK
  <2>2. \A g \in Generation :
          Closers(g)' = IF g = closing[a] THEN {} ELSE Closers(g)
    BY <2>1 DEF Closers, EnginesAccounted
  <2>3. closing[a] \in Gone
    BY <2>1 DEF Gone, Closers
  <2> QED
    BY <2>1, <2>2, <2>3 DEF Gone
<1>2. CASE CloseHalted
  BY <1>2 DEF CloseHalted, Gone, Closers
<1>3. CASE UNCHANGED vars
  BY <1>3 DEF vars, Gone, Closers
<1> QED
  BY <1>1, <1>2, <1>3

-----------------------------------------------------------------------------
(* Each kind of step keeps the inductive invariant. *)

LEMMA InvInit == Init => IInv
<1> SUFFICES ASSUME Init PROVE IInv
  OBVIOUS
<1> USE EngineSwapAssumption DEF EngineSwapAssumption
<1>1. TypeOK
  <2>1. generation \in Generation /\ counts \in [Generation -> Nat]
    BY DEF Init
  <2>2. /\ lease \in [Thread -> Generation \union {NoEngine}]
        /\ closing \in [Actor -> Generation \union {NoEngine}]
    BY DEF Init
  <2> QED
    BY <2>1, <2>2 DEF Init, TypeOK
<1>2. \A g \in Generation : Borrowers(g) = {} /\ Closers(g) = {}
  BY DEF Init, Borrowers, Closers
<1>3. Gone = {} /\ 1 .. generation = {1}
  BY <1>2 DEF Init, Gone
<1>4. CountsExact
  BY <1>2, FS_EmptySet DEF CountsExact, Init
<1>5. EnginesAccounted
  BY <1>3 DEF EnginesAccounted, Init
<1> QED
  BY <1>1, <1>4, <1>5 DEF IInv, Init

LEMMA BorrowStep ==
  ASSUME IInv, TypeOK', NEW t \in Thread, Borrow(t)
  PROVE  IInv'
<1>1. /\ ~stopped /\ lease[t] = NoEngine /\ closing[t] = NoEngine
      /\ counts' = [counts EXCEPT ![generation] = @ + 1]
      /\ lease' = [lease EXCEPT ![t] = generation]
      /\ UNCHANGED << generation, retired, closing, halting, closed, stopped >>
  BY DEF Borrow
<1>2. \A u \in Thread : lease'[u] = IF u = t THEN generation ELSE lease[u]
  BY BorrowEffect DEF IInv
<1>3. \A g \in Generation :
        Borrowers(g)' = IF g = generation THEN Borrowers(g) \union {t} ELSE Borrowers(g)
  BY BorrowEffect DEF IInv
<1>4. t \notin Borrowers(generation) /\ generation \in Generation
  BY BorrowEffect DEF IInv
<1>5. CountsExact'
  <2>1. Cardinality(Borrowers(generation) \union {t}) = Cardinality(Borrowers(generation)) + 1
    BY <1>4, CountBorrowers, FS_AddElement
  <2>2. \A g \in Generation :
          counts'[g] = IF g = generation THEN counts[g] + 1 ELSE counts[g]
    BY <1>1 DEF IInv, TypeOK
  <2> QED
    BY <1>1, <1>3, <2>1, <2>2 DEF IInv, CountsExact
<1>6. Gone' = Gone
  BY BorrowEffect DEF IInv
<1>7. EnginesAccounted'
  <2>1. \A g \in Generation : Borrowers(g) # {} => Borrowers(g)' # {}
    BY <1>3
  <2>2. retired \subseteq Generation
    BY DEF IInv, TypeOK
  <2> QED
    BY <1>1, <1>6, <2>1, <2>2 DEF IInv, EnginesAccounted
<1> QED
  BY <1>1, <1>2, <1>5, <1>7 DEF IInv

LEMMA ReleaseStep ==
  ASSUME IInv, TypeOK', NEW t \in Thread, Release(t)
  PROVE  IInv'
<1> DEFINE g == lease[t]
<1>1. /\ g \in Generation /\ t \in Borrowers(g)
      /\ counts' = [counts EXCEPT ![g] = Decremented(@)]
      /\ retired' = retired \ Retirable(g)
      /\ UNCHANGED << generation, halting, closed, stopped >>
  BY ReleaseEffect DEF Release
<1>2. \A u \in Thread : lease'[u] = IF u = t THEN NoEngine ELSE lease[u]
  BY ReleaseEffect
<1>3. \A h \in Generation :
        Borrowers(h)' = IF h = g THEN Borrowers(g) \ {t} ELSE Borrowers(h)
  BY ReleaseEffect
<1>5. /\ Cardinality(Borrowers(g)) \in Nat \ {0}
      /\ Cardinality(Borrowers(g) \ {t}) = Cardinality(Borrowers(g)) - 1
  BY ReleaseEffect
<1>7. CountsExact'
  <2>1. \A h \in Generation :
          counts'[h] = IF h = g THEN Decremented(counts[g]) ELSE counts[h]
    BY <1>1 DEF IInv, TypeOK
  <2>2. ~stopped => Decremented(counts[g]) = Cardinality(Borrowers(g)) - 1
    BY <1>1, <1>5 DEF Decremented, IInv, CountsExact
  <2> QED
    BY <1>1, <1>3, <1>5, <2>1, <2>2 DEF IInv, CountsExact
<1>8. Retirable(g) # {} =>
        Retirable(g) = {g} /\ g \in retired /\ ~stopped /\ Borrowers(g) \ {t} = {}
  BY ReleaseEffect
<1>9. Retirable(g) = {} => ~(g \in retired /\ Borrowers(g) \ {t} = {})
  <2> SUFFICES ASSUME Retirable(g) = {}, g \in retired, Borrowers(g) \ {t} = {}
               PROVE  FALSE
    OBVIOUS
  <2>1. ~stopped
    BY DEF IInv
  <2>2. counts[g] = 1
    <3>1. Cardinality(Borrowers(g) \ {t}) = 0
      BY FS_EmptySet
    <3> QED
      BY <1>1, <1>5, <2>1, <3>1 DEF IInv, CountsExact
  <2> QED
    BY <2>2 DEF Retirable, Decremented
<1>10. /\ closing[t] = NoEngine
       /\ \A a \in Actor : closing'[a] = IF a = t /\ Retirable(g) # {} THEN g ELSE closing[a]
  BY ReleaseEffect
<1>11. Gone' = Gone \union Retirable(g)
  BY ReleaseEffect
<1>12. EnginesAccounted'
  <2>1. retired' \intersect (Gone' \union {generation'}) = {}
    BY <1>1, <1>11 DEF IInv, EnginesAccounted
  <2>2. \A h \in retired' : Borrowers(h)' # {}
    <3> SUFFICES ASSUME NEW h \in retired' PROVE Borrowers(h)' # {}
      OBVIOUS
    <3>1. h \in retired /\ h \in Generation /\ h \notin Retirable(g)
      BY <1>1 DEF IInv, TypeOK
    <3>2. Borrowers(h) # {}
      BY <3>1 DEF IInv, EnginesAccounted
    <3>3. h = g => Retirable(g) = {}
      BY <1>8, <3>1
    <3> QED
      BY <1>3, <1>9, <3>1, <3>2, <3>3
  <2>3. 1 .. generation' = {generation'} \union retired' \union Gone'
    BY <1>1, <1>8, <1>11 DEF IInv, EnginesAccounted
  <2>4. Retirable(g) # {} => g \notin Gone
    BY <1>8 DEF IInv, EnginesAccounted
  <2>5. \A a \in Actor : Retirable(g) # {} => closing[a] # g
    BY <1>1, <2>4 DEF Gone, Closers
  <2>6. /\ \A a, b \in Actor : closing'[a] = closing'[b] /\ closing'[a] # NoEngine => a = b
        /\ \A a \in Actor : closing'[a] \notin halting' \union closed'
    <3>1. Retirable(g) # {} => g \notin halting \union closed
      BY <2>4 DEF Gone
    <3> QED
      BY <1>1, <1>10, <2>5, <3>1 DEF IInv, EnginesAccounted
  <2>7. stopped' <=> generation' \in Gone'
    BY <1>1, <1>8, <1>11 DEF IInv, EnginesAccounted
  <2>8. halting' \intersect closed' = {}
    BY <1>1 DEF IInv, EnginesAccounted
  <2> QED
    BY <2>1, <2>2, <2>3, <2>6, <2>7, <2>8 DEF EnginesAccounted
<1>13. /\ stopped' => retired' = {}
       /\ ~stopped' => halting' = {} /\ \A u \in Thread :
            lease'[u] # NoEngine => lease'[u] \in {generation'} \union retired'
  <2> SUFFICES ASSUME ~stopped
               PROVE  \A u \in Thread :
                 lease'[u] # NoEngine => lease'[u] \in {generation'} \union retired'
    BY <1>1 DEF IInv
  <2>1. \A u \in Thread :
          u # t /\ lease[u] = g => Retirable(g) = {}
    BY <1>8 DEF Borrowers
  <2> QED
    BY <1>1, <1>2, <1>8, <2>1 DEF IInv
<1>14. \A u \in Thread : lease'[u] # NoEngine => closing'[u] = NoEngine
  BY <1>2, <1>10 DEF IInv
<1> QED
  BY <1>7, <1>12, <1>13, <1>14 DEF IInv

LEMMA CloseOldStep ==
  ASSUME IInv, TypeOK', NEW a \in Actor, CloseOld(a)
  PROVE  IInv'
<1>1. /\ closing[a] \in Generation
      /\ closed' = closed \union {closing[a]}
      /\ UNCHANGED << generation, counts, retired, lease, halting, stopped >>
      /\ \A b \in Actor : closing'[b] = IF b = a THEN NoEngine ELSE closing[b]
  BY DEF CloseOld, IInv, TypeOK
<1>2. \A g \in Generation : Borrowers(g)' = Borrowers(g)
  BY <1>1 DEF Borrowers
<1>4. Gone' = Gone
  BY CloseEffect DEF IInv
<1>5. CountsExact'
  BY <1>1, <1>2 DEF CountsExact, IInv
<1>6. EnginesAccounted'
  <2>1. closing[a] \notin halting
    BY DEF IInv, EnginesAccounted
  <2>2. \A b \in Actor : b # a => closing[b] # closing[a]
    BY <1>1 DEF IInv, EnginesAccounted
  <2>3. \A b \in Actor : closing'[b] \notin halting' \union closed'
    BY <1>1, <2>2 DEF IInv, EnginesAccounted, TypeOK
  <2>4. \A g \in retired' : Borrowers(g)' # {}
    BY <1>1, <1>2 DEF IInv, EnginesAccounted, TypeOK
  <2> QED
    BY <1>1, <1>4, <2>1, <2>2, <2>3, <2>4 DEF IInv, EnginesAccounted
<1> QED
  BY <1>1, <1>5, <1>6 DEF IInv

LEMMA UpdateStep ==
  ASSUME IInv, TypeOK', Update
  PROVE  IInv'
<1>1. /\ ~stopped /\ closing[Loop] = NoEngine
      /\ generation' = generation + 1 /\ generation \in Generation
      /\ generation' \in Generation
      /\ UNCHANGED << counts, lease, halting, closed, stopped >>
  BY DEF Update, IInv, TypeOK
<1>2. \A g \in Generation : Borrowers(g)' = Borrowers(g)
  BY <1>1 DEF Borrowers
<1>3. generation \notin Gone /\ generation \notin retired
  BY <1>1 DEF IInv, EnginesAccounted
<1>4. 1 .. generation' = (1 .. generation) \union {generation'}
      /\ generation' \notin 1 .. generation
  BY <1>1
<1>5. CountsExact'
  BY <1>1, <1>2 DEF CountsExact, IInv
<1>6. CASE counts[generation] = 0
  <2>1. /\ retired' = retired
        /\ \A a \in Actor : closing'[a] = IF a = Loop THEN generation ELSE closing[a]
    BY <1>6 DEF Update, Unused, IInv, TypeOK
  <2>3. Gone' = Gone \union {generation}
    BY <1>6, UpdateEffect DEF Unused, IInv
  <2>4. Borrowers(generation) = {}
    BY <1>1, <1>6, CountBorrowers DEF IInv, CountsExact
  <2>5. \A a \in Actor : closing[a] # generation
    BY <1>1, <1>3 DEF Gone, Closers
  <2>6. generation \notin halting \union closed
    BY <1>3 DEF Gone
  <2>7. /\ \A a, b \in Actor : closing'[a] = closing'[b] /\ closing'[a] # NoEngine => a = b
        /\ \A a \in Actor : closing'[a] \notin halting' \union closed'
    BY <1>1, <2>1, <2>5, <2>6 DEF IInv, EnginesAccounted
  <2>8. generation' \notin Gone' /\ generation' \notin retired'
    BY <1>1, <1>4, <2>1, <2>3 DEF IInv, EnginesAccounted
  <2>9. \A g \in retired' : Borrowers(g)' # {}
    BY <1>2, <2>1 DEF IInv, EnginesAccounted, TypeOK
  <2>10. 1 .. generation' = {generation'} \union retired' \union Gone'
    BY <1>4, <2>1, <2>3 DEF IInv, EnginesAccounted
  <2>11. EnginesAccounted'
    BY <1>1, <1>3, <2>1, <2>3, <2>7, <2>8, <2>9, <2>10 DEF IInv, EnginesAccounted
  <2>12. \A u \in Thread : lease[u] # generation
    BY <2>4 DEF Borrowers
  <2>13. \A u \in Thread : lease'[u] # NoEngine => closing'[u] = NoEngine
    BY <1>1, <2>1, EngineSwapAssumption DEF IInv, EngineSwapAssumption
  <2> QED
    BY <1>1, <1>5, <2>1, <2>11, <2>12, <2>13 DEF IInv
<1>7. CASE counts[generation] # 0
  <2>1. retired' = retired \union {generation} /\ closing' = closing
    BY <1>7 DEF Update, Unused
  <2>2. Gone' = Gone
    BY <1>7, UpdateEffect DEF Unused, IInv
  <2>3. Borrowers(generation) # {}
    BY <1>1, <1>7, CountBorrowers DEF IInv, CountsExact
  <2>4. generation' \notin Gone' /\ generation' \notin retired'
    BY <1>1, <1>4, <2>1, <2>2 DEF IInv, EnginesAccounted
  <2>5. \A g \in retired' : Borrowers(g)' # {}
    BY <1>1, <1>2, <2>1, <2>3 DEF IInv, EnginesAccounted, TypeOK
  <2>6. 1 .. generation' = {generation'} \union retired' \union Gone'
    BY <1>4, <2>1, <2>2 DEF IInv, EnginesAccounted
  <2>7. EnginesAccounted'
    BY <1>1, <1>3, <2>1, <2>2, <2>4, <2>5, <2>6 DEF IInv, EnginesAccounted
  <2> QED
    BY <1>1, <1>5, <2>1, <2>7 DEF IInv
<1> QED
  BY <1>6, <1>7

LEMMA ShutdownStep ==
  ASSUME IInv, TypeOK', Shutdown
  PROVE  IInv'
<1>1. /\ ~stopped /\ stopped' = TRUE /\ halting = {}
      /\ halting' = {generation} \union retired /\ retired' = {}
      /\ UNCHANGED << generation, lease, closing, closed >>
  BY DEF Shutdown, Remaining, IInv
<1>2. Gone' = Gone \union {generation} \union retired
  BY <1>1 DEF Gone, Closers
<1>3. ({generation} \union retired) \intersect Gone = {}
  BY <1>1 DEF IInv, EnginesAccounted
<1>4. \A a \in Actor : closing[a] \notin {generation} \union retired
  <2>1. generation \in Generation /\ retired \subseteq Generation
    BY DEF IInv, TypeOK
  <2> QED
    BY <1>3, <2>1 DEF Gone, Closers
<1>5. closed \subseteq Gone
  BY DEF Gone
<1>6. EnginesAccounted'
  BY <1>1, <1>2, <1>3, <1>4, <1>5 DEF IInv, EnginesAccounted
<1> QED
  BY <1>1, <1>6 DEF IInv, CountsExact

LEMMA CloseHaltedStep ==
  ASSUME IInv, TypeOK', CloseHalted
  PROVE  IInv'
<1>1. PICK g \in halting : closed' = closed \union {g} /\ halting' = halting \ {g}
  BY DEF CloseHalted
<1>2. UNCHANGED << generation, counts, retired, lease, closing, stopped >>
  BY DEF CloseHalted
<1>3. Gone' = Gone
  BY CloseEffect DEF IInv
<1>4. \A h \in Generation : Borrowers(h)' = Borrowers(h)
  BY <1>2 DEF Borrowers
<1>5. stopped
  BY <1>1 DEF IInv
<1>6. EnginesAccounted'
  BY <1>1, <1>2, <1>3, <1>5 DEF IInv, EnginesAccounted
<1> QED
  BY <1>2, <1>5, <1>6 DEF IInv, CountsExact

LEMMA InvStep == IInv /\ [Next]_vars => IInv'
<1> SUFFICES ASSUME IInv, [Next]_vars PROVE IInv'
  OBVIOUS
<1>1. TypeOK'
  BY TypeStep DEF IInv
<1>2. CASE UNCHANGED vars
  <2>1. Gone' = Gone /\ \A g \in Generation : Borrowers(g)' = Borrowers(g)
    BY <1>2 DEF vars, Gone, Closers, Borrowers
  <2>2. CountsExact'
    BY <1>2, <2>1 DEF vars, IInv, CountsExact
  <2>3. EnginesAccounted'
    <3>1. \A g \in retired' : Borrowers(g)' # {}
      BY <1>2, <2>1 DEF vars, IInv, EnginesAccounted, TypeOK
    <3> QED
      BY <1>2, <2>1, <3>1 DEF vars, IInv, EnginesAccounted
  <2> QED
    BY <1>1, <1>2, <2>2, <2>3 DEF vars, IInv
<1> QED
  BY <1>1, <1>2, BorrowStep, ReleaseStep, CloseOldStep, UpdateStep, ShutdownStep,
     CloseHaltedStep DEF Next

-----------------------------------------------------------------------------
(* The theorems. *)

\* In every reachable state of every controller the inductive invariant holds.
THEOREM Invariance == Spec => []IInv
BY InvInit, InvStep, PTL DEF Spec

\* Every variable keeps its type.
THEOREM TypeCorrect == Spec => []TypeOK
BY Invariance, PTL DEF IInv

\* The counts are the numbers of requests that use each engine, for any number
\* of request threads and updates.
THEOREM CountsAreExact == Spec => []CountsExact
BY Invariance, PTL DEF IInv

\* Every engine is current, retired and in use, or shut down exactly once.
THEOREM EnginesAreAccounted == Spec => []EnginesAccounted
BY Invariance, PTL DEF IInv

\* While the application runs no engine is shut down under a request.
THEOREM BorrowedEnginesStay == Spec => []NoShutdownWhileLeased
<1>1. IInv => NoShutdownWhileLeased
  <2> SUFFICES ASSUME IInv, ~stopped, NEW t \in Thread, lease[t] \in Gone PROVE FALSE
    BY DEF NoShutdownWhileLeased
  <2>1. lease[t] \in Generation
    BY DEF Gone, IInv, TypeOK
  <2> QED
    BY <2>1 DEF IInv, EnginesAccounted
<1> QED
  BY <1>1, Invariance, PTL

-----------------------------------------------------------------------------
(* The controller implements the table of shared leases. *)

\* A step that keeps the borrowers, and at most sends engines without borrowers
\* to their shutdown, is one of the table, or leaves it alone.
LEMMA RetireOnly ==
  ASSUME NEW R \in SUBSET Generation, Gone' = Gone \union R,
         \A g \in Generation : Borrowers(g)' = Borrowers(g), UNCHANGED stopped,
         \A g \in R : Borrowers(g) = {}
  PROVE  Leases!Next
<1>1. Leases!Retire(R)
  BY DEF Leases!Retire, Leases!Retirable
<1> QED
  BY <1>1 DEF Leases!Next

LEMMA LeasesInit == Init => Leases!Init
<1> SUFFICES ASSUME Init PROVE Leases!Init
  OBVIOUS
<1>1. \A g \in Generation : Borrowers(g) = {} /\ Closers(g) = {}
  BY DEF Init, Borrowers, Closers
<1>2. Gone = {}
  BY <1>1 DEF Init, Gone
<1> QED
  BY <1>1, <1>2 DEF Init, Leases!Init

\* A borrow takes a lease, a release gives one back, an update retires the
\* engine it replaces if nobody uses it, and the end of the application stops
\* the table; the shutdowns themselves do not change it.
LEMMA LeasesStep ==
  IInv /\ [Next]_vars => [Leases!Next]_(Leases!vars)
<1> SUFFICES ASSUME IInv, [Next]_vars PROVE [Leases!Next]_(Leases!vars)
  OBVIOUS
<1>1. ASSUME NEW t \in Thread, Borrow(t) PROVE Leases!Next
  <2>1. ~stopped /\ UNCHANGED stopped
    BY <1>1 DEF Borrow
  <2>2. /\ generation \in Generation
        /\ \A g \in Generation :
             Borrowers(g)' = IF g = generation THEN Borrowers(g) \union {t} ELSE Borrowers(g)
        /\ Gone' = Gone
    BY <1>1, BorrowEffect DEF IInv
  <2>3. generation \notin Gone
    BY <2>1 DEF IInv, EnginesAccounted
  <2>4. Leases!Take(t, generation, {})
    BY <2>1, <2>2, <2>3 DEF Leases!Take, Leases!Retirable
  <2> QED
    BY <2>2, <2>4 DEF Leases!Next
<1>2. ASSUME NEW t \in Thread, Release(t) PROVE Leases!Next
  <2> DEFINE g == lease[t]
  <2>1. /\ g \in Generation
        /\ \A h \in Generation :
             Borrowers(h)' = IF h = g THEN Borrowers(g) \ {t} ELSE Borrowers(h)
        /\ Gone' = Gone \union Retirable(g)
    BY <1>2, ReleaseEffect
  <2>2. Retirable(g) # {} => Retirable(g) = {g} /\ Borrowers(g) \ {t} = {}
    BY <1>2, ReleaseEffect
  <2>3. UNCHANGED stopped
    BY <1>2 DEF Release
  <2> HIDE DEF g
  <2>4. Retirable(g) \subseteq {g} /\ Retirable(g) \in SUBSET Generation
    BY <2>1, <2>2
  <2>5. Leases!Give(t, g, Retirable(g))
    BY <2>1, <2>2, <2>3, <2>4 DEF Leases!Give, Leases!Retirable
  <2> QED
    BY <2>1, <2>4, <2>5 DEF Leases!Next
<1>3. CASE Update
  <2> DEFINE R == IF Unused(generation) THEN {generation} ELSE {}
  <2>1. generation \in Generation /\ ~stopped
    BY <1>3 DEF Update, IInv, TypeOK
  <2>2. /\ UNCHANGED stopped
        /\ \A g \in Generation : Borrowers(g)' = Borrowers(g)
    BY <1>3 DEF Update, Borrowers
  <2>3. Gone' = Gone \union R
    BY <1>3, UpdateEffect DEF IInv
  <2>4. \A g \in R : Borrowers(g) = {}
    BY <2>1, CountBorrowers DEF IInv, CountsExact, Unused
  <2>5. R \in SUBSET Generation
    BY <2>1
  <2> HIDE DEF R
  <2> QED
    BY <2>2, <2>3, <2>4, <2>5, RetireOnly
<1>4. CASE Shutdown
  <2> DEFINE R == {generation} \union retired
  <2>1. stopped' = TRUE /\ \A g \in Generation : Borrowers(g)' = Borrowers(g)
    BY <1>4 DEF Shutdown, Borrowers
  <2>2. R \in SUBSET Generation
    BY DEF IInv, TypeOK
  <2>3. Gone' = Gone \union R
    BY <1>4 DEF Shutdown, Remaining, Gone, Closers, IInv
  <2>4. Leases!Stop(R)
    BY <2>1, <2>3 DEF Leases!Stop
  <2> QED
    BY <2>2, <2>4 DEF Leases!Next
<1>5. ASSUME (\E a \in Actor : CloseOld(a)) \/ CloseHalted \/ UNCHANGED vars
      PROVE  UNCHANGED Leases!vars
  <2>1. /\ UNCHANGED stopped
        /\ \A g \in Generation : Borrowers(g)' = Borrowers(g)
    BY <1>5 DEF CloseOld, CloseHalted, vars, Borrowers
  <2>2. Gone' = Gone
    BY <1>5, CloseEffect DEF IInv
  <2> QED
    BY <2>1, <2>2 DEF Leases!vars
<1> QED
  BY <1>1, <1>2, <1>3, <1>4, <1>5 DEF Next

\* The gateway controller is a table of shared leases on the engines: whatever
\* the number of requests and updates, no engine is leased after it is retired,
\* and none is retired under a request until the application stops.
THEOREM EnginesAreLeased == Spec => ImplementsLeaseTable
BY Invariance, LeasesInit, LeasesStep, PTL DEF Spec, ImplementsLeaseTable, Leases!Spec
=============================================================================
