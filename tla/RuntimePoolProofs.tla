------------------------- MODULE RuntimePoolProofs -------------------------
(***************************************************************************)
(* Proofs about RuntimePool, for every number of threads, keys, runtimes   *)
(* and every pool size.                                                    *)
(***************************************************************************)
EXTENDS RuntimePool, FiniteSetTheorems, TLAPS

-----------------------------------------------------------------------------
(* Sequences of leases. *)

\* Appending to a sequence keeps its elements and adds one at the end.
LEMMA AppendElements ==
  ASSUME NEW S, NEW s \in Seq(S), NEW e \in S
  PROVE  /\ Append(s, e) \in Seq(S)
         /\ DOMAIN s = 1 .. Len(s)
         /\ DOMAIN Append(s, e) = 1 .. Len(s) + 1
         /\ Append(s, e)[Len(s) + 1] = e
         /\ \A i \in 1 .. Len(s) : Append(s, e)[i] = s[i]
OBVIOUS

\* Taking the tail of a sequence shifts its elements by one.
LEMMA TailElements ==
  ASSUME NEW S, NEW s \in Seq(S), s # << >>
  PROVE  /\ Tail(s) \in Seq(S)
         /\ Head(s) \in S
         /\ Head(s) = s[1]
         /\ DOMAIN s = 1 .. Len(s)
         /\ 1 \in DOMAIN s
         /\ DOMAIN Tail(s) = 1 .. Len(s) - 1
         /\ \A i \in 1 .. Len(s) - 1 : Tail(s)[i] = s[i + 1] /\ i + 1 \in DOMAIN s
OBVIOUS

-----------------------------------------------------------------------------
LEMMA TypeInit == Init => TypeOK
<1> SUFFICES ASSUME Init PROVE TypeOK
  OBVIOUS
<1>1. << >> \in Seq(Key) /\ << >> \in Seq(Runtime)
  OBVIOUS
<1>2. entries \in [Key -> SUBSET Runtime] /\ retired \in [Thread -> SUBSET Runtime]
  BY DEF Init
<1>3. order \in [Thread -> Seq(Key)] /\ leases \in [Thread -> Seq(Runtime)]
  BY <1>1 DEF Init
<1> QED
  BY <1>2, <1>3 DEF Init, TypeOK

\* A thread that scans has a key to acquire.
LEMMA ScanningKey ==
  ASSUME TypeOK, Bookkeeping, NEW t \in Thread, Scanning(t)
  PROVE  /\ Head(order[t]) \in Key
         /\ Tail(order[t]) \in Seq(Key)
         /\ pc[t] = "acquire"
         /\ retired[t] = {}
<1>1. order[t] \in Seq(Key) /\ order[t] # << >> /\ pc[t] = "acquire"
  BY DEF Scanning, TypeOK, Bookkeeping
<1>2. retired[t] = {}
  BY <1>1 DEF Bookkeeping
<1> QED
  BY <1>1, <1>2, TailElements

\* Nothing the pool or its threads do leaves the types.
LEMMA TypeStep ==
  ASSUME TypeOK, Bookkeeping, [Next]_vars
  PROVE  TypeOK'
<1>1. ASSUME NEW t \in Thread, Begin(t) PROVE TypeOK'
  BY <1>1, RuntimePoolAssumption DEF RuntimePoolAssumption, Begin, TypeOK, PcFor
<1>2. ASSUME NEW t \in Thread, AcquireIdle(t) PROVE TypeOK'
  <2>1. Scanning(t)
    BY <1>2 DEF AcquireIdle
  <2> QED
    BY <1>2, <2>1, ScanningKey, AppendElements
    DEF AcquireIdle, Grant, Idle, Live, Dead, TypeOK
<1>3. ASSUME NEW t \in Thread, AcquireNew(t) PROVE TypeOK'
  <2>1. Scanning(t)
    BY <1>3 DEF AcquireNew
  <2> QED
    BY <1>3, <2>1, ScanningKey, AppendElements
    DEF AcquireNew, Grant, Fresh, Live, Dead, TypeOK
<1>4. ASSUME NEW t \in Thread, AcquireFails(t) PROVE TypeOK'
  <2>1. Scanning(t)
    BY <1>4 DEF AcquireFails
  <2>2. /\ order' \in [Thread -> Seq(Key)]
        /\ retired' \in [Thread -> SUBSET Runtime]
        /\ pc' = [pc EXCEPT ![t] = "unwind"] /\ waiting' \subseteq Thread
        /\ UNCHANGED << inUse, leases, closed, late, halting, stopped >>
    <3>1. << >> \in Seq(Key) /\ {} \in SUBSET Runtime
      OBVIOUS
    <3> QED
      BY <1>4, <3>1 DEF AcquireFails, Raise, TypeOK
  <2>3. entries' \in [Key -> SUBSET Runtime]
    BY <1>4, <2>1, ScanningKey DEF AcquireFails, Live, TypeOK
  <2>4. proc' \in [Runtime -> {"unborn", "up", "exited"}] /\ broken' \subseteq Runtime
    BY <1>4 DEF AcquireFails, Fresh, TypeOK
  <2> QED
    BY <2>2, <2>3, <2>4 DEF TypeOK
<1>5. ASSUME NEW t \in Thread, AcquireWaits(t) PROVE TypeOK'
  <2>1. Scanning(t)
    BY <1>5 DEF AcquireWaits
  <2> QED
    BY <1>5, <2>1, ScanningKey DEF AcquireWaits, Live, Dead, TypeOK
<1>6. ASSUME NEW t \in Thread, AcquireTimesOut(t) PROVE TypeOK'
  <2>1. Scanning(t)
    BY <1>6 DEF AcquireTimesOut
  <2>2. << >> \in Seq(Key)
    OBVIOUS
  <2> QED
    BY <1>6, <2>1, <2>2, ScanningKey DEF AcquireTimesOut, Raise, Live, Dead, TypeOK
<1>7. ASSUME NEW t \in Thread, CloseRetired(t) PROVE TypeOK'
  BY <1>7 DEF CloseRetired, Close, TypeOK
<1>8. ASSUME NEW t \in Thread, Proceed(t) PROVE TypeOK'
  BY <1>8 DEF Proceed, PcFor, TypeOK
<1>9. ASSUME NEW t \in Thread, Finish(t) PROVE TypeOK'
  BY <1>9 DEF Finish, TypeOK
<1>10. ASSUME NEW t \in Thread, Release(t) PROVE TypeOK'
  <2>1. leases[t] \in Seq(Runtime) /\ leases[t] # << >>
    BY <1>10 DEF Release, TypeOK
  <2>2. Head(leases[t]) \in Runtime /\ Tail(leases[t]) \in Seq(Runtime)
    BY <2>1, TailElements
  <2> DEFINE r == Head(leases[t])
             k == KeyOf[r]
  <2>3. r \in Runtime /\ k \in Key
    BY <2>2, RuntimePoolAssumption DEF RuntimePoolAssumption
  <2>4. leases' = [leases EXCEPT ![t] = Tail(@)]
    BY <1>10 DEF Release
  <2>5. CASE r \in entries[k] /\ inUse[r] > 0
    <3>1. /\ inUse' = [inUse EXCEPT ![r] = @ - 1]
          /\ \/ /\ entries' = [entries EXCEPT ![k] = Kept(k, r)]
                /\ retired' = [retired EXCEPT ![t] = IF Healthy(r) THEN {} ELSE {r}]
             \/ UNCHANGED << entries, retired >>
          /\ waiting' = {}
      BY <1>10, <2>5 DEF Release, Notified
    <3> HIDE DEF r, k
    <3>2. inUse' \in [Runtime -> Nat] /\ waiting' \subseteq Thread
      BY <3>1, <2>3, <2>5 DEF TypeOK
    <3>3. Kept(k, r) \in SUBSET Runtime
      BY <2>3 DEF Kept, TypeOK
    <3>4. entries' \in [Key -> SUBSET Runtime]
      BY <3>1, <3>3 DEF TypeOK
    <3>5. retired' \in [Thread -> SUBSET Runtime]
      <4>1. {} \in SUBSET Runtime /\ {r} \in SUBSET Runtime
        BY <2>3
      <4>2. retired \in [Thread -> SUBSET Runtime]
        BY DEF TypeOK
      <4> QED
        BY <3>1, <4>1, <4>2
    <3> QED
      BY <1>10, <2>2, <2>4, <3>2, <3>4, <3>5 DEF Release, TypeOK
  <2>6. CASE ~(r \in entries[k] /\ inUse[r] > 0)
    BY <1>10, <2>2, <2>4, <2>6 DEF Release, TypeOK
  <2> QED
    BY <2>5, <2>6
<1>11. ASSUME NEW t \in Thread, End(t) PROVE TypeOK'
  BY <1>11 DEF End, TypeOK
<1>12. ASSUME NEW t \in Thread, DeadlinePasses(t) PROVE TypeOK'
  BY <1>12 DEF DeadlinePasses, TypeOK
<1>13. CASE Shutdown
  BY <1>13 DEF Shutdown, Collected, Cleared, TypeOK
<1>14. CASE CloseHalted
  BY <1>14 DEF CloseHalted, Close, TypeOK
<1>15. ASSUME NEW r \in Runtime, ProcessExit(r) PROVE TypeOK'
  BY <1>15 DEF ProcessExit, TypeOK
<1>16. CASE UNCHANGED vars
  BY <1>16 DEF vars, TypeOK
<1> QED
  BY <1>1, <1>2, <1>3, <1>4, <1>5, <1>6, <1>7, <1>8, <1>9, <1>10, <1>11,
     <1>12, <1>13, <1>14, <1>15, <1>16 DEF Next, ThreadStep, Scan

-----------------------------------------------------------------------------
(* What an action does to the leases held and to the runtimes of the pool. *)

\* A lease on a runtime nobody holds: it becomes held, and stays exclusive.
LEMMA TakeLease ==
  ASSUME TypeOK, ExclusiveLeases, NEW t \in Thread, NEW r \in Runtime, r \notin Held,
         leases' = [leases EXCEPT ![t] = Append(@, r)]
  PROVE  /\ \A u \in Thread : HeldBy(u)' = IF u = t THEN HeldBy(u) \union {r} ELSE HeldBy(u)
         /\ Held' = Held \union {r}
         /\ ExclusiveLeases'
<1>1. leases[t] \in Seq(Runtime)
  BY DEF TypeOK
<1>2. /\ leases'[t] = Append(leases[t], r)
      /\ \A u \in Thread : u # t => leases'[u] = leases[u]
  BY DEF TypeOK
<1>3. /\ DOMAIN leases[t] = 1 .. Len(leases[t]) /\ Len(leases[t]) \in Nat
      /\ DOMAIN leases'[t] = 1 .. Len(leases[t]) + 1
      /\ leases'[t][Len(leases[t]) + 1] = r
      /\ \A i \in DOMAIN leases[t] : leases'[t][i] = leases[t][i]
  BY <1>1, <1>2, AppendElements
<1>4. DOMAIN leases'[t] = DOMAIN leases[t] \union {Len(leases[t]) + 1}
  BY <1>3
<1>5. HeldBy(t)' = HeldBy(t) \union {r}
  BY <1>3, <1>4 DEF HeldBy
<1>6. \A u \in Thread : u # t => HeldBy(u)' = HeldBy(u)
  BY <1>2 DEF HeldBy
<1>7. Held' = Held \union {r}
  BY <1>5, <1>6 DEF Held
<1>8. \A u \in Thread : \A i \in DOMAIN leases[u] : leases[u][i] # r
  BY DEF Held, HeldBy
<1>9. ExclusiveLeases'
  BY <1>2, <1>3, <1>4, <1>8 DEF ExclusiveLeases
<1> QED
  BY <1>5, <1>6, <1>7, <1>9

\* Giving back the oldest lease of a thread: as leases are exclusive, its
\* runtime is no longer held, and every other one still is.
LEMMA DropLease ==
  ASSUME TypeOK, ExclusiveLeases, NEW t \in Thread, leases[t] # << >>,
         leases' = [leases EXCEPT ![t] = Tail(@)]
  PROVE  /\ Head(leases[t]) \in Held
         /\ \A u \in Thread :
              HeldBy(u)' = IF u = t THEN HeldBy(u) \ {Head(leases[t])} ELSE HeldBy(u)
         /\ Held' = Held \ {Head(leases[t])}
         /\ ExclusiveLeases'
<1> DEFINE r == Head(leases[t])
<1>1. leases[t] \in Seq(Runtime)
  BY DEF TypeOK
<1>2. /\ leases'[t] = Tail(leases[t])
      /\ \A u \in Thread : u # t => leases'[u] = leases[u]
  BY DEF TypeOK
<1>3. /\ r = leases[t][1] /\ 1 \in DOMAIN leases[t]
      /\ DOMAIN leases[t] = 1 .. Len(leases[t]) /\ Len(leases[t]) \in Nat
      /\ DOMAIN leases'[t] = 1 .. Len(leases[t]) - 1
      /\ \A i \in DOMAIN leases'[t] :
           leases'[t][i] = leases[t][i + 1] /\ i + 1 \in DOMAIN leases[t]
  <2>1. Len(leases[t]) \in Nat
    BY <1>1
  <2>2. /\ r = leases[t][1] /\ 1 \in DOMAIN leases[t]
        /\ DOMAIN leases[t] = 1 .. Len(leases[t])
    BY <1>1, TailElements
  <2>3. /\ DOMAIN Tail(leases[t]) = 1 .. Len(leases[t]) - 1
        /\ \A i \in 1 .. Len(leases[t]) - 1 :
             /\ Tail(leases[t])[i] = leases[t][i + 1]
             /\ i + 1 \in DOMAIN leases[t]
    BY <1>1, TailElements
  <2> QED
    BY <1>2, <2>1, <2>2, <2>3
<1> HIDE DEF r
<1>4. r \in HeldBy(t)
  BY <1>3 DEF HeldBy
<1>5. HeldBy(t)' = HeldBy(t) \ {r}
  <2>1. \A i \in DOMAIN leases'[t] : leases'[t][i] # r
    BY <1>3 DEF ExclusiveLeases
  <2>2. \A i \in DOMAIN leases[t] :
          i # 1 => i - 1 \in DOMAIN leases'[t] /\ leases'[t][i - 1] = leases[t][i]
    BY <1>3
  <2> QED
    BY <1>3, <2>1, <2>2 DEF HeldBy
<1>6. \A u \in Thread : u # t => HeldBy(u)' = HeldBy(u) /\ r \notin HeldBy(u)
  BY <1>2, <1>3 DEF HeldBy, ExclusiveLeases
<1>7. Held' = Held \ {r} /\ r \in Held
  BY <1>4, <1>5, <1>6 DEF Held
<1>8. ExclusiveLeases'
  <2> SUFFICES ASSUME NEW u \in Thread, NEW v \in Thread,
                      NEW i \in DOMAIN leases'[u], NEW j \in DOMAIN leases'[v],
                      leases'[u][i] = leases'[v][j]
               PROVE  u = v /\ i = j
    BY DEF ExclusiveLeases
  <2>1. \A w \in Thread : \A m \in DOMAIN leases'[w] :
          \E n \in DOMAIN leases[w] :
            leases'[w][m] = leases[w][n] /\ n = IF w = t THEN m + 1 ELSE m
    BY <1>2, <1>3
  <2>2. u = v
    BY <2>1 DEF ExclusiveLeases
  <2>3. CASE u = t
    <3>1. i + 1 = j + 1
      BY <2>1, <2>2, <2>3 DEF ExclusiveLeases
    <3>2. i \in Int /\ j \in Int
      BY <1>3, <2>2, <2>3
    <3> QED
      BY <2>2, <3>1, <3>2
  <2>4. CASE u # t
    BY <2>1, <2>2, <2>4 DEF ExclusiveLeases
  <2> QED
    BY <2>3, <2>4
<1> QED
  BY <1>5, <1>6, <1>7, <1>8 DEF r

\* Replacing the list of one key leaves the runtimes of the other keys.
LEMMA UpdateEntries ==
  ASSUME TypeOK, Bookkeeping, NEW k \in Key, NEW E \in SUBSET Runtime,
         \A r \in E : KeyOf[r] = k,
         entries' = [entries EXCEPT ![k] = E]
  PROVE  /\ Collected' = (Collected \ entries[k]) \union E
         /\ \A c \in Key : \A r \in entries'[c] : KeyOf[r] = c
<1>1. \A c \in Key : entries'[c] = IF c = k THEN E ELSE entries[c]
  BY DEF TypeOK
<1>2. \A c \in Key : \A r \in entries[c] : KeyOf[r] = c
  BY DEF Bookkeeping
<1> QED
  BY <1>1, <1>2 DEF Collected

\* Pruning the list of a key removes runtimes nobody holds.
LEMMA Pruned ==
  ASSUME TypeOK, Bookkeeping, NEW k \in Key
  PROVE  /\ Live(k) \in SUBSET Runtime /\ Dead(k) \in SUBSET Runtime
         /\ Live(k) \subseteq entries[k] /\ Dead(k) \subseteq Collected
         /\ \A r \in Live(k) : KeyOf[r] = k
         /\ Dead(k) \intersect Held = {}
         /\ (Collected \ entries[k]) \union Live(k) = Collected \ Dead(k)
         /\ \A r \in Idle(k) : r \in Collected \ Dead(k) /\ r \notin Held
<1>1. \A c \in Key : \A r \in entries[c] : KeyOf[r] = c
  BY DEF Bookkeeping
<1>2. \A r \in Collected : inUse[r] = 0 => r \notin Held
  BY DEF Bookkeeping
<1>3. entries[k] \subseteq Collected /\ entries[k] \subseteq Runtime
  BY DEF Collected, TypeOK
<1>4. (Collected \ entries[k]) \union Live(k) = Collected \ Dead(k)
  BY <1>3 DEF Live, Dead
<1> QED
  BY <1>1, <1>2, <1>3, <1>4 DEF Live, Dead, Idle

-----------------------------------------------------------------------------
(* The bound on the pools. *)

\* A list that loses entries, or gains one where HasRoom saw room, is within
\* the bound of its pool.
LEMMA WithinBound ==
  ASSUME TypeOK, PoolBound, NEW k \in Key
  PROVE  /\ \A E \in SUBSET entries[k] : Cardinality(E) <= PoolSize[k]
         /\ \A r \in Runtime : HasRoom(k) => Cardinality(Live(k) \union {r}) <= PoolSize[k]
         /\ ~HasRoom(k) => Dead(k) = {}
<1>1. /\ entries[k] \subseteq Runtime /\ IsFiniteSet(Runtime)
      /\ PoolSize[k] \in Nat
  BY RuntimePoolAssumption DEF RuntimePoolAssumption, TypeOK
<1>2. IsFiniteSet(entries[k]) /\ Cardinality(entries[k]) \in Nat
  BY <1>1, FS_Subset, FS_CardinalityType
<1>3. Cardinality(entries[k]) <= PoolSize[k]
  BY DEF PoolBound
<1>4. ASSUME NEW E \in SUBSET entries[k]
      PROVE  IsFiniteSet(E) /\ Cardinality(E) \in Nat
             /\ Cardinality(E) <= Cardinality(entries[k])
             /\ (Cardinality(E) = Cardinality(entries[k]) => E = entries[k])
  BY <1>2, FS_Subset, FS_CardinalityType
<1>5. \A E \in SUBSET entries[k] : Cardinality(E) <= PoolSize[k]
  <2> SUFFICES ASSUME NEW E \in SUBSET entries[k] PROVE Cardinality(E) <= PoolSize[k]
    OBVIOUS
  <2> QED
    BY <1>1, <1>2, <1>3, <1>4
<1>6. Live(k) \in SUBSET entries[k] /\ Dead(k) = entries[k] \ Live(k)
  BY DEF Live, Dead
<1>7. ASSUME NEW r \in Runtime, HasRoom(k)
      PROVE  Cardinality(Live(k) \union {r}) <= PoolSize[k]
  <2>1. IsFiniteSet(Live(k)) /\ Cardinality(Live(k)) \in Nat
    BY <1>4, <1>6
  <2>2. Cardinality(Live(k) \union {r}) <= Cardinality(Live(k)) + 1
    <3>1. Cardinality(Live(k) \union {r}) =
            IF r \in Live(k) THEN Cardinality(Live(k)) ELSE Cardinality(Live(k)) + 1
      BY <2>1, FS_AddElement
    <3> QED
      BY <2>1, <3>1
  <2>3. Cardinality(Live(k) \union {r}) \in Nat
    BY <2>1, FS_AddElement, FS_CardinalityType
  <2> QED
    BY <1>1, <1>7, <2>1, <2>2, <2>3 DEF HasRoom
<1>8. ASSUME ~HasRoom(k) PROVE Dead(k) = {}
  <2>1. Cardinality(Live(k)) = Cardinality(entries[k])
    BY <1>1, <1>2, <1>3, <1>4, <1>6, <1>8 DEF HasRoom
  <2> QED
    BY <1>4, <1>6, <2>1
<1> QED
  BY <1>5, <1>7, <1>8

-----------------------------------------------------------------------------
(* What each kind of step does to the pool, the leases and the retired ones. *)

\* Retiring some of the runtimes of the pool, by one thread, retires each once.
LEMMA RetireFrom ==
  ASSUME TypeOK, RetiredOnce, NEW t \in Thread, retired[t] = {},
         NEW D \in SUBSET Collected,
         retired' = [retired EXCEPT ![t] = D], UNCHANGED << closed, halting >>,
         Collected' \intersect (Gone \union D) = {}
  PROVE  Gone' = Gone \union D /\ RetiredOnce'
<1>1. retired'[t] = D /\ \A u \in Thread : u # t => retired'[u] = retired[u]
  BY DEF TypeOK
<1>2. Gone' = Gone \union D
  BY <1>1 DEF Gone
<1>3. D \intersect Gone = {}
  BY DEF RetiredOnce
<1>4. \A u \in Thread : retired[u] \subseteq Gone
  BY DEF Gone
<1>5. closed \subseteq Gone /\ halting \subseteq Gone
  BY DEF Gone
<1> QED
  BY <1>1, <1>2, <1>3, <1>4, <1>5 DEF RetiredOnce

\* What the two ways acquire returns a lease have in common: t obtains r, and
\* the list of its key k becomes E.
Granted(t, k, r, E) ==
  /\ retired[t] = {} /\ pc[t] = "acquire"
  /\ \/ r \in Idle(k) /\ E = Live(k)
     \/ r \in Fresh(k) /\ HasRoom(k) /\ E = Live(k) \union {r}
  /\ entries' = [entries EXCEPT ![k] = E]
  /\ Grant(t, k, r)
  /\ \A x \in Runtime : /\ proc'[x] = "unborn" => proc[x] = "unborn" /\ x # r
                        /\ proc'[x] = "up" => proc[x] = "up" \/ x = r
  /\ UNCHANGED << closed, broken, halting, stopped >>

LEMMA AcquireGrants ==
  ASSUME IInv, NEW t \in Thread, AcquireIdle(t) \/ AcquireNew(t)
  PROVE  \E r \in Runtime, E \in SUBSET Runtime :
           Head(order[t]) \in Key /\ Granted(t, Head(order[t]), r, E)
<1> USE DEF IInv
<1> DEFINE k == Head(order[t])
<1>1. k \in Key /\ pc[t] = "acquire" /\ retired[t] = {}
  BY ScanningKey DEF AcquireIdle, AcquireNew
<1>2. Live(k) \in SUBSET Runtime
  BY <1>1, Pruned
<1>3. CASE AcquireIdle(t)
  <2>1. PICK r \in Idle(k) : Grant(t, k, r)
    BY <1>3 DEF AcquireIdle
  <2>2. r \in Runtime /\ proc[r] # "unborn"
    BY <1>1, <2>1, Pruned DEF Bookkeeping, Idle
  <2>3. /\ entries' = [entries EXCEPT ![k] = Live(k)]
        /\ UNCHANGED << closed, broken, halting, stopped, proc >>
    BY <1>3 DEF AcquireIdle
  <2> HIDE DEF k
  <2>4. Granted(t, k, r, Live(k))
    BY <1>1, <2>1, <2>2, <2>3 DEF Granted
  <2> QED
    BY <1>1, <1>2, <2>2, <2>4 DEF k
<1>4. CASE AcquireNew(t)
  <2>1. PICK r \in Fresh(k) :
          /\ entries' = [entries EXCEPT ![k] = Live(k) \union {r}]
          /\ proc' = [proc EXCEPT ![r] = "up"]
          /\ Grant(t, k, r)
    BY <1>4 DEF AcquireNew
  <2>2. /\ HasRoom(k) /\ r \in Runtime
        /\ Live(k) \union {r} \in SUBSET Runtime
        /\ UNCHANGED << closed, broken, halting, stopped >>
    BY <1>2, <1>4, <2>1 DEF AcquireNew, Fresh
  <2>3. \A x \in Runtime : proc'[x] = IF x = r THEN "up" ELSE proc[x]
    BY <2>1 DEF TypeOK
  <2> HIDE DEF k
  <2>4. Granted(t, k, r, Live(k) \union {r})
    BY <1>1, <2>1, <2>2, <2>3 DEF Granted
  <2> QED
    BY <1>1, <2>2, <2>4 DEF k
<1> QED
  BY <1>3, <1>4

\* A runtime granted was free, and in the pool or new; the pruned runtimes leave
\* the pool for their shutdown.
LEMMA GrantEffect ==
  ASSUME IInv, NEW t \in Thread, NEW k \in Key, NEW r \in Runtime,
         NEW E \in SUBSET Runtime, Granted(t, k, r, E)
  PROVE  /\ r \notin Held \union Gone \union Dead(k)
         /\ \A u \in Thread : HeldBy(u)' = IF u = t THEN HeldBy(u) \union {r} ELSE HeldBy(u)
         /\ Held' = Held \union {r}
         /\ ExclusiveLeases'
         /\ \A x \in E : KeyOf[x] = k
         /\ \A c \in Key : \A x \in entries'[c] : KeyOf[x] = c
         /\ Collected' = (Collected \ Dead(k)) \union {r}
         /\ Gone' = Gone \union Dead(k)
         /\ RetiredOnce'
<1> USE DEF IInv
<1>1. r \notin Held /\ r \notin Gone /\ KeyOf[r] = k /\ r \notin Dead(k)
  <2>1. CASE r \in Idle(k)
    BY <2>1, Pruned DEF RetiredOnce, Idle, Granted
  <2>2. CASE r \in Fresh(k)
    BY <2>2 DEF Fresh, Granted, Bookkeeping, Dead, Collected
  <2> QED
    BY <2>1, <2>2 DEF Granted
<1>2. leases' = [leases EXCEPT ![t] = Append(@, r)]
  BY DEF Granted, Grant
<1>3. /\ \A u \in Thread : HeldBy(u)' = IF u = t THEN HeldBy(u) \union {r} ELSE HeldBy(u)
      /\ Held' = Held \union {r} /\ ExclusiveLeases'
  BY <1>1, <1>2, TakeLease
<1>4. \A x \in E : KeyOf[x] = k
  BY <1>1, Pruned DEF Granted
<1>5. /\ Collected' = (Collected \ entries[k]) \union E
      /\ \A c \in Key : \A x \in entries'[c] : KeyOf[x] = c
  BY <1>4, UpdateEntries DEF Granted
<1>6. Collected' = (Collected \ Dead(k)) \union {r}
  BY <1>5, Pruned DEF Granted
<1>7. Gone' = Gone \union Dead(k) /\ RetiredOnce'
  <2>1. retired' = [retired EXCEPT ![t] = Dead(k)]
    BY DEF Granted, Grant
  <2>2. Collected' \intersect (Gone \union Dead(k)) = {}
    BY <1>1, <1>6 DEF RetiredOnce
  <2> QED
    BY <2>1, <2>2, Pruned, RetireFrom DEF Granted
<1> QED
  BY <1>1, <1>3, <1>4, <1>5, <1>6, <1>7

\* Raising an error prunes the pool, and changes neither the leases nor what is
\* on its way to shutdown().
LEMMA RaiseEffect ==
  ASSUME IInv, NEW t \in Thread, AcquireFails(t) \/ AcquireTimesOut(t)
  PROVE  LET k == Head(order[t]) IN
         /\ k \in Key /\ entries' = [entries EXCEPT ![k] = Live(k)] /\ Raise(t)
         /\ UNCHANGED << inUse, leases, retired, closed, halting, stopped >>
         /\ \A x \in Runtime : /\ proc'[x] = "unborn" => proc[x] = "unborn"
                               /\ proc'[x] = "up" => proc[x] = "up" \/ x \in broken'
         /\ broken \subseteq broken'
         /\ Held' = Held /\ Gone' = Gone
         /\ Collected' = Collected \ Dead(k)
         /\ \A c \in Key : \A x \in entries'[c] : KeyOf[x] = c
<1> USE DEF IInv
<1> DEFINE k == Head(order[t])
<1>1. k \in Key /\ retired[t] = {}
  BY ScanningKey DEF AcquireFails, AcquireTimesOut
<1>2. /\ entries' = [entries EXCEPT ![k] = Live(k)] /\ Raise(t)
      /\ UNCHANGED << closed, halting, stopped >>
  BY DEF AcquireFails, AcquireTimesOut
<1>3. /\ \A x \in Runtime : /\ proc'[x] = "unborn" => proc[x] = "unborn"
                            /\ proc'[x] = "up" => proc[x] = "up" \/ x \in broken'
      /\ broken \subseteq broken'
  BY DEF AcquireFails, AcquireTimesOut, TypeOK
<1> HIDE DEF k
<1>4. UNCHANGED << inUse, leases, retired, closed, halting, stopped >>
  <2>1. retired' = retired
    BY <1>1, <1>2 DEF Raise, TypeOK
  <2> QED
    BY <1>2, <2>1 DEF Raise
<1>5. Held' = Held /\ Gone' = Gone
  BY <1>4 DEF Held, HeldBy, Gone
<1>6. /\ Collected' = Collected \ Dead(k)
      /\ \A c \in Key : \A x \in entries'[c] : KeyOf[x] = c
  <2>1. Live(k) \in SUBSET Runtime /\ \A x \in Live(k) : KeyOf[x] = k
    BY <1>1, Pruned
  <2>2. /\ Collected' = (Collected \ entries[k]) \union Live(k)
        /\ \A c \in Key : \A x \in entries'[c] : KeyOf[x] = c
    BY <1>1, <1>2, <2>1, UpdateEntries
  <2> QED
    BY <1>1, <2>2, Pruned
<1> QED
  BY <1>1, <1>2, <1>3, <1>4, <1>5, <1>6 DEF k

\* Releasing a lease takes its runtime out of the pool, for its shutdown, or
\* leaves the pool as it is.
LEMMA ReleaseEffect ==
  ASSUME IInv, NEW t \in Thread, Release(t)
  PROVE  LET r == Head(leases[t])
             D == IF r \in Collected /\ ~Healthy(r) THEN {r} ELSE {}
         IN  /\ r \in Held /\ r \in Runtime
             /\ \A u \in Thread : HeldBy(u)' = IF u = t THEN HeldBy(u) \ {r} ELSE HeldBy(u)
             /\ Held' = Held \ {r}
             /\ ExclusiveLeases'
             /\ Collected' = Collected \ D
             /\ \A c \in Key : entries'[c] \in SUBSET entries[c]
             /\ Gone' = Gone \union D
             /\ RetiredOnce'
             /\ \A x \in Collected : inUse'[x] = IF x = r THEN 0 ELSE inUse[x]
             /\ \A u \in Thread : u # t => retired'[u] = retired[u]
<1> USE DEF IInv
<1> DEFINE r == Head(leases[t])
           k == KeyOf[r]
           D == IF r \in Collected /\ ~Healthy(r) THEN {r} ELSE {}
<1>1. /\ retired[t] = {} /\ pc[t] = "unwind"
      /\ UNCHANGED << closed, halting, stopped, proc, pc, order >>
  BY DEF Release
<1>2. /\ r \in Held
      /\ \A u \in Thread : HeldBy(u)' = IF u = t THEN HeldBy(u) \ {r} ELSE HeldBy(u)
      /\ Held' = Held \ {r} /\ ExclusiveLeases'
  BY DropLease DEF Release
<1>3. r \in Runtime /\ k \in Key
  BY <1>2, RuntimePoolAssumption DEF RuntimePoolAssumption, Held, HeldBy, TypeOK
<1>4. r \in Collected <=> r \in entries[k]
  BY <1>3 DEF Collected, Bookkeeping
<1>5. r \in Collected => inUse[r] = 1
  BY <1>2 DEF Bookkeeping
<1>6. CASE r \in Collected
  <2>1. /\ inUse' = [inUse EXCEPT ![r] = 0]
        /\ entries' = [entries EXCEPT ![k] = Kept(k, r)]
        /\ retired' = [retired EXCEPT ![t] = IF Healthy(r) THEN {} ELSE {r}]
    <3>1. r \in entries[k] /\ inUse[r] = 1
      BY <1>4, <1>5, <1>6
    <3> QED
      BY <3>1 DEF Release
  <2>2. Kept(k, r) \in SUBSET entries[k] /\ entries[k] \in SUBSET Runtime
    BY <1>3 DEF Kept, TypeOK
  <2> HIDE DEF r, k
  <2>3. \A x \in Kept(k, r) : KeyOf[x] = k
    BY <1>3, <2>2 DEF Bookkeeping
  <2>4. Collected' = (Collected \ entries[k]) \union Kept(k, r)
    BY <1>3, <2>1, <2>2, <2>3, UpdateEntries
  <2>5. entries[k] \subseteq Collected
    BY <1>3 DEF Collected
  <2>6. Collected' = Collected \ D
    BY <1>4, <1>6, <2>4, <2>5 DEF Kept, r, k
  <2>7. Gone' = Gone \union D /\ RetiredOnce'
    <3>1. D \in SUBSET Collected
      OBVIOUS
    <3>2. Collected' \intersect (Gone \union D) = {}
      BY <2>6 DEF RetiredOnce
    <3>3. retired' = [retired EXCEPT ![t] = D]
      BY <1>6, <2>1
    <3> QED
      BY <1>1, <3>1, <3>2, <3>3, RetireFrom
  <2>8. /\ \A x \in Collected : inUse'[x] = IF x = r THEN 0 ELSE inUse[x]
        /\ \A u \in Thread : u # t => retired'[u] = retired[u]
        /\ \A c \in Key : entries'[c] \in SUBSET entries[c]
    BY <1>3, <2>1, <2>2 DEF Collected, TypeOK
  <2> QED
    BY <1>2, <1>3, <2>6, <2>7, <2>8 DEF r
<1>7. CASE r \notin Collected
  <2>1. UNCHANGED << inUse, entries, retired >>
    BY <1>4, <1>7 DEF Release
  <2>2. Collected' = Collected /\ Gone' = Gone
    BY <1>1, <2>1 DEF Collected, Gone
  <2>3. RetiredOnce'
    BY <1>1, <2>1, <2>2 DEF RetiredOnce
  <2>4. \A x \in Collected : inUse'[x] = IF x = r THEN 0 ELSE inUse[x]
    BY <1>7, <2>1
  <2> QED
    BY <1>2, <1>3, <1>7, <2>1, <2>2, <2>3, <2>4
<1> QED
  BY <1>6, <1>7

\* Shutting a retired runtime down leaves it among those on their way, or past it.
LEMMA CloseEffect ==
  ASSUME TypeOK, (\E t \in Thread : CloseRetired(t)) \/ CloseHalted
  PROVE  /\ UNCHANGED << entries, inUse, broken, leases, stopped, pc, order >>
         /\ Held' = Held /\ Collected' = Collected /\ Gone' = Gone
         /\ \A u \in Thread : HeldBy(u)' = HeldBy(u)
         /\ \A x \in Runtime : /\ proc'[x] = "unborn" => proc[x] = "unborn"
                               /\ proc'[x] = "up" => proc[x] = "up"
<1>1. /\ UNCHANGED << entries, inUse, broken, leases, stopped, pc, order >>
      /\ Held' = Held /\ Collected' = Collected
      /\ \A u \in Thread : HeldBy(u)' = HeldBy(u)
  BY DEF CloseRetired, CloseHalted, Held, HeldBy, Collected
<1>2. ASSUME NEW t \in Thread, CloseRetired(t)
      PROVE  /\ Gone' = Gone
             /\ \A x \in Runtime : /\ proc'[x] = "unborn" => proc[x] = "unborn"
                                   /\ proc'[x] = "up" => proc[x] = "up"
  <2>1. PICK r \in retired[t] : Close(r) /\ retired' = [retired EXCEPT ![t] = @ \ {r}]
    BY <1>2 DEF CloseRetired
  <2>2. \A u \in Thread : retired'[u] = IF u = t THEN retired[t] \ {r} ELSE retired[u]
    BY <2>1 DEF TypeOK
  <2>3. Gone' = Gone
    BY <1>2, <2>1, <2>2 DEF CloseRetired, Close, Gone
  <2> QED
    BY <2>1, <2>3 DEF Close, TypeOK
<1>3. ASSUME CloseHalted
      PROVE  /\ Gone' = Gone
             /\ \A x \in Runtime : /\ proc'[x] = "unborn" => proc[x] = "unborn"
                                   /\ proc'[x] = "up" => proc[x] = "up"
  BY <1>3 DEF CloseHalted, Close, Gone, TypeOK
<1> QED
  BY <1>1, <1>2, <1>3

\* The shutdown of the engine takes every runtime out of the pool.
LEMMA ShutdownEffect ==
  ASSUME IInv, Shutdown
  PROVE  /\ UNCHANGED << inUse, proc, closed, broken, pc, order, leases, retired >>
         /\ ~stopped /\ stopped' = TRUE /\ halting' = Collected
         /\ Held' = Held /\ \A u \in Thread : HeldBy(u)' = HeldBy(u)
         /\ Collected' = {} /\ Gone' = Gone \union Collected
<1>1. /\ halting = {}
      /\ ~stopped /\ stopped' = TRUE
      /\ halting' = Collected /\ entries' = [k \in Key |-> {}]
      /\ UNCHANGED << inUse, proc, closed, broken, pc, order, leases, retired >>
  BY DEF Shutdown, Cleared, IInv, Bookkeeping
<1> QED
  BY <1>1 DEF Held, HeldBy, Collected, Gone

-----------------------------------------------------------------------------
(* Each kind of step keeps the inductive invariant. *)

\* The two ways acquire returns a lease.
LEMMA GrantStep ==
  ASSUME IInv, TypeOK', NEW t \in Thread, AcquireIdle(t) \/ AcquireNew(t)
  PROVE  IInv'
<1> USE DEF IInv
<1> DEFINE k == Head(order[t])
<1>1. PICK r \in Runtime, E \in SUBSET Runtime : k \in Key /\ Granted(t, k, r, E)
  BY AcquireGrants
<1>2. order' = [order EXCEPT ![t] = Tail(@)]
  BY <1>1 DEF Granted, Grant
<1> HIDE DEF k
<1>3. Held' = Held \union {r} /\ ExclusiveLeases' /\ RetiredOnce'
  BY <1>1, GrantEffect
<1>4. \A c \in Key : \A x \in entries'[c] : KeyOf[x] = c
  BY <1>1, GrantEffect
<1>5. /\ Collected' = (Collected \ Dead(k)) \union {r}
      /\ Gone' = Gone \union Dead(k)
  BY <1>1, GrantEffect
<1>6. PoolBound'
  <2>1. Cardinality(E) <= PoolSize[k]
    BY <1>1, WithinBound, Pruned DEF Granted
  <2>2. \A c \in Key : entries'[c] = IF c = k THEN E ELSE entries[c]
    BY <1>1 DEF Granted, TypeOK
  <2> QED
    BY <2>1, <2>2 DEF PoolBound
<1>7. Bookkeeping'
  <2>1. \A x \in Collected' : inUse'[x] = IF x \in Held' THEN 1 ELSE 0
    <3>1. inUse' = [inUse EXCEPT ![r] = 1] /\ inUse \in [Runtime -> Nat]
      BY <1>1 DEF Granted, Grant, TypeOK
    <3>2. Collected \subseteq Runtime
      BY DEF Collected, TypeOK
    <3>3. \A x \in Collected : inUse[x] = IF x \in Held THEN 1 ELSE 0
      BY DEF Bookkeeping
    <3> QED
      BY <1>3, <1>5, <3>1, <3>2, <3>3
  <2>2. \A x \in Runtime :
          proc'[x] = "unborn" => x \notin Held' \union Collected' \union Gone'
    BY <1>1, <1>3, <1>5, Pruned DEF Granted, Bookkeeping
  <2>3. ~stopped' => Held' \subseteq Collected' /\ halting' = {}
    BY <1>1, <1>3, <1>5, Pruned DEF Granted, Bookkeeping
  <2>4. /\ pc'[t] = "granted"
        /\ \A u \in Thread : u # t => /\ pc'[u] = pc[u] /\ order'[u] = order[u]
                                      /\ retired'[u] = retired[u]
    BY <1>1, <1>2 DEF Granted, Grant, TypeOK
  <2>5. /\ \A u \in Thread : pc'[u] = "acquire" => order'[u] # << >>
        /\ \A u \in Thread : pc'[u] \notin {"granted", "unwind"} => retired'[u] = {}
    BY <2>4 DEF Bookkeeping
  <2> QED
    BY <1>4, <2>1, <2>2, <2>3, <2>5 DEF Bookkeeping
<1> QED
  BY <1>3, <1>6, <1>7

\* The two ways acquire raises: the prune stays done, the leases stay.
LEMMA RaiseStep ==
  ASSUME IInv, TypeOK', NEW t \in Thread, AcquireFails(t) \/ AcquireTimesOut(t)
  PROVE  IInv'
<1> USE DEF IInv
<1> DEFINE k == Head(order[t])
<1>1. /\ k \in Key /\ entries' = [entries EXCEPT ![k] = Live(k)] /\ Raise(t)
      /\ UNCHANGED << inUse, leases, retired, closed, halting, stopped >>
      /\ \A x \in Runtime : proc'[x] = "unborn" => proc[x] = "unborn"
  BY RaiseEffect
<1>2. /\ Held' = Held /\ Gone' = Gone
      /\ Collected' = Collected \ Dead(k)
      /\ \A c \in Key : \A x \in entries'[c] : KeyOf[x] = c
  BY RaiseEffect
<1>3. ExclusiveLeases'
  BY <1>1 DEF ExclusiveLeases
<1> HIDE DEF k
<1>4. RetiredOnce'
  BY <1>1, <1>2, <1>3 DEF RetiredOnce
<1>5. PoolBound'
  <2>1. Cardinality(Live(k)) <= PoolSize[k]
    BY <1>1, WithinBound, Pruned
  <2>2. \A c \in Key : entries'[c] = IF c = k THEN Live(k) ELSE entries[c]
    BY <1>1 DEF TypeOK
  <2> QED
    BY <2>1, <2>2 DEF PoolBound
<1>6. Bookkeeping'
  <2>1. /\ pc'[t] = "unwind"
        /\ \A u \in Thread : u # t => pc'[u] = pc[u] /\ order'[u] = order[u]
    BY <1>1 DEF Raise, TypeOK
  <2> QED
    BY <1>1, <1>2, <1>3, <2>1, Pruned DEF Bookkeeping
<1> QED
  BY <1>2, <1>3, <1>4, <1>5, <1>6

\* Steps that leave the pool, the leases and the retired runtimes alone.
LEMMA ApartStep ==
  ASSUME IInv, TypeOK', UNCHANGED << entries, inUse, closed, leases, retired, halting >>,
         stopped' = stopped,
         \A x \in Runtime : proc'[x] = "unborn" => proc[x] = "unborn",
         \A u \in Thread : pc'[u] = "acquire" => order'[u] # << >>,
         \A u \in Thread : pc'[u] \notin {"granted", "unwind"} => retired[u] = {}
  PROVE  IInv'
<1>1. Held' = Held /\ Collected' = Collected /\ Gone' = Gone
  BY DEF Held, HeldBy, Collected, Gone
<1>2. ExclusiveLeases' /\ PoolBound' /\ RetiredOnce'
  BY <1>1 DEF IInv, ExclusiveLeases, PoolBound, RetiredOnce
<1>3. Bookkeeping'
  BY <1>1 DEF IInv, Bookkeeping
<1> QED
  BY <1>2, <1>3 DEF IInv

\* A runtime already taken out of the pool is shut down.
LEMMA CloseRetiredStep ==
  ASSUME IInv, TypeOK', NEW t \in Thread, CloseRetired(t)
  PROVE  IInv'
<1> USE DEF IInv
<1>1. PICK r \in retired[t] :
        /\ Close(r)
        /\ retired' = [retired EXCEPT ![t] = @ \ {r}]
  BY DEF CloseRetired
<1>2. UNCHANGED << entries, inUse, leases, halting, stopped, pc, order >>
  BY DEF CloseRetired
<1>3. r \in Runtime
  BY <1>1 DEF TypeOK
<1>4. /\ closed' = closed \union {r}
      /\ \A x \in Runtime : proc'[x] = "unborn" => proc[x] = "unborn"
  BY <1>1, <1>3 DEF Close, TypeOK
<1>5. \A u \in Thread : retired'[u] = IF u = t THEN retired[t] \ {r} ELSE retired[u]
  BY <1>1 DEF TypeOK
<1>6. Held' = Held /\ Collected' = Collected
  BY CloseEffect
<1>7. Gone' = Gone
  BY CloseEffect
<1>8. RetiredOnce'
  BY <1>1, <1>2, <1>4, <1>5, <1>6, <1>7 DEF RetiredOnce
<1>9. ExclusiveLeases' /\ PoolBound'
  BY <1>2 DEF ExclusiveLeases, PoolBound
<1>10. Bookkeeping'
  BY <1>2, <1>4, <1>5, <1>6, <1>7 DEF Bookkeeping
<1> QED
  BY <1>8, <1>9, <1>10

\* A lease is released: its runtime stays in the pool, idle, unless it is
\* unhealthy or an engine shutdown emptied the pool before.
LEMMA ReleaseStep ==
  ASSUME IInv, TypeOK', NEW t \in Thread, Release(t)
  PROVE  IInv'
<1> USE DEF IInv
<1> DEFINE r == Head(leases[t])
           D == IF r \in Collected /\ ~Healthy(r) THEN {r} ELSE {}
<1>1. /\ retired[t] = {} /\ pc[t] = "unwind"
      /\ UNCHANGED << closed, halting, stopped, proc, pc, order >>
  BY DEF Release
<1>2. /\ r \in Held /\ r \in Runtime
      /\ Held' = Held \ {r} /\ ExclusiveLeases'
      /\ Collected' = Collected \ D
      /\ Gone' = Gone \union D /\ RetiredOnce'
  BY ReleaseEffect
<1>3. \A c \in Key : entries'[c] \in SUBSET entries[c]
  BY ReleaseEffect
<1>4. \A x \in Collected : inUse'[x] = IF x = r THEN 0 ELSE inUse[x]
  BY ReleaseEffect
<1>5. \A u \in Thread : u # t => retired'[u] = retired[u]
  BY ReleaseEffect
<1>6. D \subseteq Collected
  OBVIOUS
<1> HIDE DEF r, D
<1>7. PoolBound'
  BY <1>3, WithinBound DEF PoolBound
<1>8. Bookkeeping'
  <2>1. \A x \in Collected' : inUse'[x] = IF x \in Held' THEN 1 ELSE 0
    <3>1. \A x \in Collected : inUse[x] = IF x \in Held THEN 1 ELSE 0
      BY DEF Bookkeeping
    <3> QED
      BY <1>2, <1>4, <3>1
  <2>2. \A x \in Runtime :
          proc'[x] = "unborn" => x \notin Held' \union Collected' \union Gone'
    BY <1>1, <1>2, <1>6 DEF Bookkeeping
  <2>3. ~stopped' => Held' \subseteq Collected' /\ halting' = {}
    BY <1>1, <1>2 DEF Bookkeeping, D
  <2>4. /\ \A u \in Thread : pc'[u] = "acquire" => order'[u] # << >>
        /\ \A u \in Thread : pc'[u] \notin {"granted", "unwind"} => retired'[u] = {}
    BY <1>1, <1>5 DEF Bookkeeping
  <2>5. \A c \in Key : \A x \in entries'[c] : KeyOf[x] = c
    BY <1>3 DEF Bookkeeping
  <2> QED
    BY <2>1, <2>2, <2>3, <2>4, <2>5 DEF Bookkeeping
<1> QED
  BY <1>2, <1>7, <1>8

\* The pool is emptied: all it held is to be shut down.
LEMMA ShutdownStep ==
  ASSUME IInv, TypeOK', Shutdown
  PROVE  IInv'
<1> USE DEF IInv
<1>1. /\ halting = {}
      /\ halting' = Collected /\ entries' = [k \in Key |-> {}] /\ stopped' = TRUE
      /\ UNCHANGED << inUse, proc, closed, pc, order, leases, retired >>
  BY DEF Shutdown, Cleared, Bookkeeping
<1>2. Held' = Held /\ Collected' = {} /\ Gone' = Gone \union Collected
  BY ShutdownEffect
<1>3. RetiredOnce'
  <2>1. closed \subseteq Gone /\ \A t \in Thread : retired[t] \subseteq Gone
    BY DEF Gone
  <2> QED
    BY <1>1, <1>2, <2>1 DEF RetiredOnce
<1>4. ExclusiveLeases'
  BY <1>1 DEF ExclusiveLeases
<1>5. PoolBound'
  <2>1. Cardinality({}) = 0
    BY FS_EmptySet
  <2> QED
    BY <1>1, <2>1, RuntimePoolAssumption DEF RuntimePoolAssumption, PoolBound
<1>6. Bookkeeping'
  BY <1>1, <1>2 DEF Bookkeeping
<1> QED
  BY <1>3, <1>4, <1>5, <1>6

\* A runtime collected by the shutdown of the pool is shut down.
LEMMA CloseHaltedStep ==
  ASSUME IInv, TypeOK', CloseHalted
  PROVE  IInv'
<1> USE DEF IInv
<1>1. PICK r \in halting : Close(r) /\ halting' = halting \ {r}
  BY DEF CloseHalted
<1>2. UNCHANGED << entries, inUse, leases, retired, stopped, pc, order >>
  BY DEF CloseHalted
<1>3. /\ closed' = closed \union {r}
      /\ \A x \in Runtime : proc'[x] = "unborn" => proc[x] = "unborn"
  BY <1>1 DEF Close, TypeOK
<1>4. Held' = Held /\ Collected' = Collected /\ Gone' = Gone
  BY CloseEffect
<1>5. RetiredOnce'
  BY <1>1, <1>2, <1>3, <1>4 DEF RetiredOnce
<1>6. ExclusiveLeases' /\ PoolBound'
  BY <1>2 DEF ExclusiveLeases, PoolBound
<1>7. Bookkeeping'
  BY <1>2, <1>3, <1>4 DEF Bookkeeping
<1> QED
  BY <1>5, <1>6, <1>7

-----------------------------------------------------------------------------
(* The inductive invariant. *)

LEMMA InvInit == Init => IInv
<1> SUFFICES ASSUME Init PROVE IInv
  OBVIOUS
<1>1. TypeOK
  BY TypeInit
<1>2. \A t \in Thread : DOMAIN leases[t] = {}
  <2>1. DOMAIN << >> = {}
    OBVIOUS
  <2> QED
    BY <2>1 DEF Init
<1>3. Held = {} /\ Collected = {} /\ Gone = {}
  BY <1>2 DEF Init, Held, HeldBy, Collected, Gone
<1>4. PoolBound
  <2>1. Cardinality({}) = 0
    BY FS_EmptySet
  <2> QED
    BY <2>1, RuntimePoolAssumption DEF RuntimePoolAssumption, PoolBound, Init
<1>5. ExclusiveLeases /\ RetiredOnce
  BY <1>2, <1>3 DEF Init, ExclusiveLeases, RetiredOnce
<1>6. Bookkeeping
  BY <1>3 DEF Init, Bookkeeping
<1> QED
  BY <1>1, <1>4, <1>5, <1>6 DEF IInv

LEMMA InvStep == IInv /\ [Next]_vars => IInv'
<1> SUFFICES ASSUME IInv, [Next]_vars PROVE IInv'
  OBVIOUS
<1>t. TypeOK'
  BY TypeStep DEF IInv
<1>1. ASSUME NEW t \in Thread, Begin(t) PROVE IInv'
  <2>1. /\ UNCHANGED << entries, inUse, closed, leases, retired, halting, stopped, proc >>
        /\ \A u \in Thread : pc'[u] = "acquire" => order'[u] # << >>
        /\ \A u \in Thread : pc'[u] \notin {"granted", "unwind"} => retired[u] = {}
    BY <1>1 DEF Begin, PcFor, IInv, TypeOK, Bookkeeping
  <2> QED
    BY <1>t, <2>1, ApartStep
<1>2. ASSUME NEW t \in Thread, AcquireIdle(t) \/ AcquireNew(t) PROVE IInv'
  BY <1>t, <1>2, GrantStep
<1>3. ASSUME NEW t \in Thread, AcquireFails(t) \/ AcquireTimesOut(t) PROVE IInv'
  BY <1>t, <1>3, RaiseStep
<1>4. ASSUME NEW t \in Thread, AcquireWaits(t) PROVE IInv'
  <2>1. Head(order[t]) \in Key
    BY <1>4, ScanningKey DEF AcquireWaits, IInv
  <2>2. Dead(Head(order[t])) = {}
    BY <1>4, <2>1, WithinBound DEF AcquireWaits, IInv
  <2>3. UNCHANGED << entries, inUse, closed, leases, retired, halting, stopped, proc, pc, order >>
    <3>1. Live(Head(order[t])) = entries[Head(order[t])]
      BY <2>2 DEF Live
    <3> QED
      BY <1>4, <2>1, <2>2, <3>1 DEF AcquireWaits, IInv, TypeOK
  <2> QED
    BY <1>t, <2>3, ApartStep DEF IInv, Bookkeeping
<1>5. ASSUME NEW t \in Thread, CloseRetired(t) PROVE IInv'
  BY <1>t, <1>5, CloseRetiredStep
<1>6. ASSUME NEW t \in Thread, Proceed(t) \/ Finish(t) \/ End(t) \/ DeadlinePasses(t)
      PROVE  IInv'
  <2>1. /\ UNCHANGED << entries, inUse, closed, leases, retired, halting, stopped, proc >>
        /\ \A u \in Thread : pc'[u] = "acquire" => order'[u] # << >>
        /\ \A u \in Thread : pc'[u] \notin {"granted", "unwind"} => retired[u] = {}
    BY <1>6 DEF Proceed, PcFor, Finish, End, DeadlinePasses, IInv, TypeOK, Bookkeeping
  <2> QED
    BY <1>t, <2>1, ApartStep
<1>7. ASSUME NEW t \in Thread, Release(t) PROVE IInv'
  BY <1>t, <1>7, ReleaseStep
<1>8. CASE Shutdown
  BY <1>t, <1>8, ShutdownStep
<1>9. CASE CloseHalted
  BY <1>t, <1>9, CloseHaltedStep
<1>10. ASSUME NEW r \in Runtime, ProcessExit(r) PROVE IInv'
  <2>1. /\ UNCHANGED << entries, inUse, closed, leases, retired, halting, stopped, pc, order >>
        /\ \A x \in Runtime : proc'[x] = "unborn" => proc[x] = "unborn"
    BY <1>10 DEF ProcessExit, IInv, TypeOK
  <2> QED
    BY <1>t, <2>1, ApartStep DEF IInv, Bookkeeping
<1>11. CASE UNCHANGED vars
  BY <1>t, <1>11, ApartStep DEF vars, IInv, Bookkeeping
<1> QED
  BY <1>1, <1>2, <1>3, <1>4, <1>5, <1>6, <1>7, <1>8, <1>9, <1>10, <1>11
  DEF Next, ThreadStep, Scan

\* In every reachable state of every pool the inductive invariant holds.
THEOREM Invariance == Spec => []IInv
BY InvInit, InvStep, PTL DEF Spec

\* Every variable keeps its type.
THEOREM TypeCorrect == Spec => []TypeOK
BY Invariance, PTL DEF IInv

\* No runtime is ever leased twice, whatever the number of requests, the size
\* of the pools and the order of the plugins.
THEOREM LeasesAreExclusive == Spec => []ExclusiveLeases
BY Invariance, PTL DEF IInv

\* No pool ever exceeds the pool_size of its spec.
THEOREM PoolsAreBounded == Spec => []PoolBound
BY Invariance, PTL DEF IInv

\* No runtime is shut down twice.
THEOREM RuntimesRetireOnce == Spec => []RetiredOnce
BY Invariance, PTL DEF IInv

\* Until the engine is shut down, no leased runtime is retired.
THEOREM LeasedRuntimesStay == Spec => []NoRetireWhileLeased
<1>1. IInv => NoRetireWhileLeased
  BY DEF IInv, Bookkeeping, RetiredOnce, NoRetireWhileLeased
<1> QED
  BY <1>1, Invariance, PTL

-----------------------------------------------------------------------------
(* No lost wakeup. *)

\* A key whose pool is full and in use stays so while its list is the same and
\* its entries stay in use, whatever happens to the processes.
LEMMA StaysFull ==
  ASSUME IInv, NEW k \in Key, Idle(k) = {}, ~HasRoom(k),
         entries'[k] = entries[k], \A x \in entries[k] : inUse'[x] # 0
  PROVE  Idle(k)' = {} /\ ~HasRoom(k)'
<1>1. Live(k) = entries[k]
  BY WithinBound DEF IInv, Live
<1>2. Live(k)' = entries[k]
  BY DEF Live, Dead
<1> QED
  BY <1>1, <1>2 DEF Idle, HasRoom

LEMMA WaitStep ==
  ASSUME IInv, NoLostWakeup, [Next]_vars
  PROVE  NoLostWakeup'
<1> SUFFICES ASSUME NEW t \in Thread, t \in waiting' PROVE Starved(t)'
  <2>1. waiting' \subseteq Thread
    BY TypeStep DEF IInv, TypeOK
  <2> QED
    BY <2>1 DEF NoLostWakeup
<1> DEFINE k == Head(order[t])
<1>1. ASSUME t \in waiting
      PROVE  /\ pc[t] = "acquire" /\ k \in Key
             /\ Idle(k) = {} /\ ~HasRoom(k) /\ Dead(k) = {}
             /\ \A x \in entries[k] : inUse[x] # 0 /\ KeyOf[x] = k /\ x \in Runtime
  <2>1. pc[t] = "acquire" /\ Idle(k) = {} /\ ~HasRoom(k)
    BY <1>1 DEF NoLostWakeup, Starved
  <2>2. k \in Key
    <3>1. order[t] \in Seq(Key) /\ order[t] # << >>
      BY <2>1 DEF IInv, TypeOK, Bookkeeping
    <3> QED
      BY <3>1, TailElements
  <2>3. Dead(k) = {}
    BY <2>1, <2>2, WithinBound DEF IInv
  <2> QED
    BY <2>1, <2>2, <2>3 DEF Idle, Live, IInv, Bookkeeping, TypeOK
<1>2. ASSUME t \in waiting, pc'[t] = pc[t], order'[t] = order[t],
             entries'[k] = entries[k], \A x \in entries[k] : inUse'[x] = inUse[x]
      PROVE  Starved(t)'
  <2>1. Idle(k)' = {} /\ ~HasRoom(k)'
    BY <1>1, <1>2, StaysFull
  <2>2. pc'[t] = "acquire" /\ k = Head(order'[t])
    BY <1>1, <1>2
  <2> QED
    BY <2>1, <2>2 DEF Starved, Idle, HasRoom, Live, Dead, Healthy
<1>3. ASSUME NEW u \in Thread, Begin(u) PROVE Starved(t)'
  BY <1>1, <1>2, <1>3 DEF Begin, IInv, TypeOK
<1>4. ASSUME NEW u \in Thread, AcquireIdle(u) \/ AcquireNew(u) PROVE Starved(t)'
  <2> DEFINE c == Head(order[u])
  <2>1. PICK r \in Runtime, E \in SUBSET Runtime :
          /\ Grant(u, c, r)
          /\ entries' = [entries EXCEPT ![c] = E]
          /\ KeyOf[r] = c
          /\ Idle(c) # {} \/ HasRoom(c)
    <3>1. PICK r \in Runtime, E \in SUBSET Runtime : c \in Key /\ Granted(u, c, r, E)
      BY <1>4, AcquireGrants
    <3>2. KeyOf[r] = c
      BY <3>1, Pruned DEF Granted, Idle, Fresh, IInv
    <3> QED
      BY <3>1, <3>2 DEF Granted
  <2>2. t \in waiting /\ t # u
    BY <2>1 DEF Grant
  <2>3. k # c
    BY <1>1, <2>1, <2>2
  <2>4. pc'[t] = pc[t] /\ order'[t] = order[t]
    BY <2>1, <2>2 DEF Grant, IInv, TypeOK
  <2>5. entries'[k] = entries[k]
    BY <1>1, <2>1, <2>2, <2>3 DEF IInv, TypeOK
  <2>6. \A x \in entries[k] : inUse'[x] = inUse[x]
    BY <1>1, <2>1, <2>2, <2>3 DEF Grant, IInv, TypeOK
  <2> QED
    BY <1>2, <2>2, <2>4, <2>5, <2>6
<1>5. ASSUME NEW u \in Thread, AcquireFails(u) \/ AcquireTimesOut(u) PROVE Starved(t)'
  <2>1. /\ Raise(u) /\ UNCHANGED inUse
        /\ entries' = [entries EXCEPT ![Head(order[u])] = Live(Head(order[u]))]
    BY <1>5 DEF AcquireFails, AcquireTimesOut, Raise
  <2>2. t \in waiting /\ t # u
    BY <2>1 DEF Raise
  <2>3. pc'[t] = pc[t] /\ order'[t] = order[t]
    BY <2>1, <2>2 DEF Raise, IInv, TypeOK
  <2>4. entries'[k] = entries[k]
    BY <1>1, <2>1, <2>2 DEF Live, IInv, TypeOK
  <2> QED
    BY <1>2, <2>1, <2>2, <2>3, <2>4
<1>6. ASSUME NEW u \in Thread, AcquireWaits(u) PROVE Starved(t)'
  <2> DEFINE c == Head(order[u])
  <2>1. c \in Key /\ pc[u] = "acquire"
    BY <1>6, ScanningKey DEF AcquireWaits, IInv
  <2>2. Idle(c) = {} /\ ~HasRoom(c) /\ Dead(c) = {}
    BY <1>6, <2>1, WithinBound DEF AcquireWaits, IInv
  <2>3. UNCHANGED << entries, inUse, proc, pc, order >>
    BY <1>6, <2>1, <2>2 DEF AcquireWaits, Live, IInv, TypeOK
  <2>4. CASE t = u
    BY <2>1, <2>2, <2>3, <2>4 DEF Starved, Idle, HasRoom, Live, Dead, Healthy
  <2>5. CASE t # u
    <3>1. t \in waiting
      BY <1>6, <2>5 DEF AcquireWaits
    <3> QED
      BY <1>2, <2>3, <3>1
  <2> QED
    BY <2>4, <2>5
<1>7. ASSUME NEW u \in Thread,
             CloseRetired(u) \/ Proceed(u) \/ Finish(u) \/ End(u) \/ DeadlinePasses(u)
      PROVE  Starved(t)'
  <2>1. t \in waiting /\ UNCHANGED << entries, inUse >>
    BY <1>7 DEF CloseRetired, Proceed, Finish, End, DeadlinePasses
  <2>2. pc'[t] = pc[t] /\ order'[t] = order[t]
    BY <1>1, <1>7, <2>1
    DEF CloseRetired, Proceed, Finish, End, DeadlinePasses, IInv, TypeOK
  <2> QED
    BY <1>2, <2>1, <2>2
<1>8. ASSUME NEW u \in Thread, Release(u) PROVE Starved(t)'
  <2>1. UNCHANGED << entries, inUse, waiting, pc, order >>
    BY <1>8 DEF Release, Notified
  <2> QED
    BY <1>2, <2>1
<1>9. CASE Shutdown
  BY <1>9 DEF Shutdown
<1>10. CASE CloseHalted
  BY <1>2, <1>10 DEF CloseHalted
<1>11. ASSUME NEW r \in Runtime, ProcessExit(r) PROVE Starved(t)'
  BY <1>2, <1>11 DEF ProcessExit
<1>12. CASE UNCHANGED vars
  BY <1>2, <1>12 DEF vars
<1> QED
  BY <1>3, <1>4, <1>5, <1>6, <1>7, <1>8, <1>9, <1>10, <1>11, <1>12
  DEF Next, ThreadStep, Scan

\* A thread never sleeps on a pool that has a runtime for it, or room for one.
THEOREM WakeupsAreNotLost == Spec => []NoLostWakeup
<1>1. Init => NoLostWakeup
  BY DEF Init, NoLostWakeup
<1>2. IInv /\ NoLostWakeup /\ [Next]_vars => NoLostWakeup'
  BY WaitStep
<1> QED
  BY <1>1, <1>2, Invariance, PTL DEF Spec

-----------------------------------------------------------------------------
(* No plugin process is lost, unless its constructor raised. *)

\* What leaves the pool without a shutdown is dead already, and what leaves it
\* alive is on its way to one.
LEMMA OwnedStep == IInv /\ LiveProcessOwned /\ [Next]_vars => LiveProcessOwned'
<1> SUFFICES ASSUME IInv, LiveProcessOwned, [Next]_vars,
                    NEW x \in Runtime, proc'[x] = "up"
             PROVE  x \in Collected' \union Gone' \union broken'
  BY DEF LiveProcessOwned
<1> USE DEF IInv
<1>1. ASSUME proc[x] = "up", Collected \union Gone \subseteq Collected' \union Gone',
             broken \subseteq broken'
      PROVE  x \in Collected' \union Gone' \union broken'
  BY <1>1 DEF LiveProcessOwned
<1>2. ASSUME NEW t \in Thread, AcquireIdle(t) \/ AcquireNew(t)
      PROVE  x \in Collected' \union Gone' \union broken'
  <2> DEFINE k == Head(order[t])
  <2>1. PICK r \in Runtime, E \in SUBSET Runtime : k \in Key /\ Granted(t, k, r, E)
    BY <1>2, AcquireGrants
  <2> HIDE DEF k
  <2>2. /\ Collected' = (Collected \ Dead(k)) \union {r}
        /\ Gone' = Gone \union Dead(k)
    BY <2>1, GrantEffect
  <2>3. broken' = broken /\ (proc[x] = "up" \/ x = r)
    BY <2>1 DEF Granted
  <2> QED
    BY <1>1, <2>2, <2>3
<1>3. ASSUME NEW t \in Thread, AcquireFails(t) \/ AcquireTimesOut(t)
      PROVE  x \in Collected' \union Gone' \union broken'
  <2> DEFINE k == Head(order[t])
  <2>1. /\ Gone' = Gone /\ Collected' = Collected \ Dead(k)
        /\ broken \subseteq broken'
        /\ proc[x] = "up" \/ x \in broken'
    BY <1>3, RaiseEffect
  <2>2. proc[x] = "up" => x \notin Dead(k)
    BY DEF Dead, Healthy
  <2> QED
    BY <2>1, <2>2 DEF LiveProcessOwned
<1>4. ASSUME NEW t \in Thread, AcquireWaits(t)
      PROVE  x \in Collected' \union Gone' \union broken'
  <2> DEFINE k == Head(order[t])
  <2>1. k \in Key
    BY <1>4, ScanningKey DEF AcquireWaits
  <2>2. Dead(k) = {}
    BY <1>4, <2>1, WithinBound DEF AcquireWaits
  <2>3. UNCHANGED << entries, retired >>
    BY <1>4, <2>1, <2>2 DEF AcquireWaits, Live, TypeOK
  <2>4. UNCHANGED << closed, halting, proc, broken >>
    BY <1>4 DEF AcquireWaits
  <2> QED
    BY <1>1, <2>3, <2>4 DEF Collected, Gone
<1>5. ASSUME NEW t \in Thread, Release(t)
      PROVE  x \in Collected' \union Gone' \union broken'
  <2>1. /\ Collected \union Gone \subseteq Collected' \union Gone'
    BY <1>5, ReleaseEffect
  <2> QED
    BY <1>1, <1>5, <2>1 DEF Release
<1>6. CASE (\E t \in Thread : CloseRetired(t)) \/ CloseHalted
  <2>1. /\ Collected' = Collected /\ Gone' = Gone /\ broken' = broken
        /\ proc[x] = "up"
    BY <1>6, CloseEffect
  <2> QED
    BY <1>1, <2>1
<1>7. CASE Shutdown
  <2>1. /\ Collected' = {} /\ Gone' = Gone \union Collected
        /\ UNCHANGED << proc, broken >>
    BY <1>7, ShutdownEffect
  <2> QED
    BY <1>1, <2>1
<1>8. ASSUME \/ \E t \in Thread : \/ Begin(t) \/ Proceed(t) \/ Finish(t) \/ End(t)
                                 \/ DeadlinePasses(t)
             \/ \E r \in Runtime : ProcessExit(r)
             \/ UNCHANGED vars
      PROVE  x \in Collected' \union Gone' \union broken'
  <2>1. UNCHANGED << entries, closed, halting, retired, broken >>
    BY <1>8 DEF Begin, Proceed, Finish, End, DeadlinePasses, ProcessExit, vars
  <2>2. proc[x] = "up"
    BY <1>8 DEF Begin, Proceed, Finish, End, DeadlinePasses, ProcessExit, vars, TypeOK
  <2> QED
    BY <1>1, <2>1, <2>2 DEF Collected, Gone
<1> QED
  BY <1>2, <1>3, <1>4, <1>5, <1>6, <1>7, <1>8 DEF Next, ThreadStep, Scan

\* Every plugin process that runs is in the pool, on its way to shutdown(), or one
\* whose constructor raised: however acquires, prunes, exits and a shutdown
\* interleave, none is forgotten alive.
THEOREM LiveProcessesAreOwned == Spec => []LiveProcessOwned
<1>1. Init => LiveProcessOwned
  BY DEF Init, LiveProcessOwned
<1> QED
  BY <1>1, OwnedStep, Invariance, PTL DEF Spec

-----------------------------------------------------------------------------
(* The pool implements the table of exclusive leases. *)

LEMMA LeasesInit == Init => Leases!Init
<1> SUFFICES ASSUME Init PROVE Leases!Init
  OBVIOUS
<1>1. \A t \in Thread : HeldBy(t) = {}
  <2>1. DOMAIN << >> = {}
    OBVIOUS
  <2> QED
    BY <2>1 DEF Init, HeldBy
<1>2. Gone = {}
  BY DEF Init, Gone
<1> QED
  BY <1>1, <1>2 DEF Init, Leases!Init, Holders

\* Nobody holds a runtime exactly when it is not held.
LEMMA HeldHolders == \A r \in Runtime : r \notin Held <=> Holders(r) = {}
BY DEF Held, Holders

\* acquire takes a lease on a free runtime and retires the pruned ones, release
\* gives a lease back, the shutdown of the engine stops the table.
LEMMA LeasesStep == IInv /\ [Next]_vars => [Leases!Next]_(Leases!vars)
<1> SUFFICES ASSUME IInv, [Next]_vars PROVE [Leases!Next]_(Leases!vars)
  OBVIOUS
<1> USE DEF IInv
<1>1. ASSUME UNCHANGED << leases, stopped >>, Gone' = Gone PROVE UNCHANGED Leases!vars
  BY <1>1 DEF Leases!vars, Holders, HeldBy
<1>2. ASSUME NEW t \in Thread, AcquireIdle(t) \/ AcquireNew(t) PROVE Leases!Next
  <2> DEFINE k == Head(order[t])
  <2>1. PICK r \in Runtime, E \in SUBSET Runtime : k \in Key /\ Granted(t, k, r, E)
    BY <1>2, AcquireGrants
  <2> HIDE DEF k
  <2>2. /\ r \notin Held \union Gone \union Dead(k)
        /\ \A u \in Thread : HeldBy(u)' = IF u = t THEN HeldBy(u) \union {r} ELSE HeldBy(u)
        /\ Gone' = Gone \union Dead(k)
    BY <2>1, GrantEffect
  <2>3. /\ Dead(k) \in SUBSET Runtime
        /\ \A x \in Dead(k) : Holders(x) = {}
    BY <2>1, Pruned, HeldHolders
  <2>4. Holders(r) = {} /\ UNCHANGED stopped
    BY <2>1, <2>2, HeldHolders DEF Granted
  <2>5. \A x \in Runtime :
          Holders(x)' = IF x = r THEN Holders(x) \union {t} ELSE Holders(x)
    BY <2>2 DEF Holders
  <2>6. Leases!Take(t, r, Dead(k))
    BY <2>2, <2>3, <2>4, <2>5 DEF Leases!Take, Leases!Retirable
  <2> QED
    BY <2>3, <2>6 DEF Leases!Next
<1>3. ASSUME NEW t \in Thread, AcquireFails(t) \/ AcquireTimesOut(t)
      PROVE  UNCHANGED Leases!vars
  <2>1. UNCHANGED << leases, stopped >> /\ Gone' = Gone
    BY <1>3, RaiseEffect
  <2> QED
    BY <1>1, <2>1
<1>4. ASSUME NEW t \in Thread, AcquireWaits(t) PROVE UNCHANGED Leases!vars
  <2>1. Dead(Head(order[t])) = {}
    <3>1. Head(order[t]) \in Key
      BY <1>4, ScanningKey DEF AcquireWaits
    <3> QED
      BY <1>4, <3>1, WithinBound DEF AcquireWaits
  <2>2. UNCHANGED retired
    BY <1>4, <2>1 DEF AcquireWaits, TypeOK
  <2> QED
    BY <1>1, <1>4, <2>2 DEF AcquireWaits, Gone
<1>5. ASSUME NEW t \in Thread, Release(t) PROVE Leases!Next
  <2>1. PICK r \in Runtime, D \in SUBSET Runtime :
          /\ D \subseteq {r}
          /\ \A u \in Thread : HeldBy(u)' = IF u = t THEN HeldBy(u) \ {r} ELSE HeldBy(u)
          /\ Held' = Held \ {r}
          /\ Gone' = Gone \union D
    <3> DEFINE r == Head(leases[t])
               D == IF r \in Collected /\ ~Healthy(r) THEN {r} ELSE {}
    <3>1. /\ r \in Runtime
          /\ \A u \in Thread : HeldBy(u)' = IF u = t THEN HeldBy(u) \ {r} ELSE HeldBy(u)
          /\ Held' = Held \ {r}
          /\ Gone' = Gone \union D
      BY <1>5, ReleaseEffect
    <3>2. D \subseteq {r}
      OBVIOUS
    <3> HIDE DEF r, D
    <3> QED
      BY <3>1, <3>2
  <2>2. UNCHANGED stopped
    BY <1>5 DEF Release
  <2>3. \A x \in Runtime : Holders(x)' = IF x = r THEN Holders(x) \ {t} ELSE Holders(x)
    BY <2>1 DEF Holders
  <2>4. Holders(r)' = {}
    <3>1. r \notin Held'
      BY <2>1
    <3> QED
      BY <3>1 DEF Held, Holders
  <2>5. Leases!Give(t, r, D)
    BY <2>1, <2>2, <2>3, <2>4 DEF Leases!Give, Leases!Retirable
  <2> QED
    BY <2>5 DEF Leases!Next
<1>6. CASE (\E t \in Thread : CloseRetired(t)) \/ CloseHalted
  BY <1>1, <1>6, CloseEffect
<1>7. CASE Shutdown
  <2>1. /\ Gone' = Gone \union Collected /\ stopped' = TRUE
        /\ \A r \in Runtime : Holders(r)' = Holders(r)
    BY <1>7, ShutdownEffect DEF Holders
  <2>2. Collected \in SUBSET Runtime
    BY DEF Collected, TypeOK
  <2>3. Leases!Stop(Collected)
    BY <2>1 DEF Leases!Stop
  <2> QED
    BY <2>2, <2>3 DEF Leases!Next
<1>8. ASSUME \/ \E t \in Thread : \/ Begin(t) \/ Proceed(t) \/ Finish(t) \/ End(t)
                                 \/ DeadlinePasses(t)
             \/ \E r \in Runtime : ProcessExit(r)
             \/ UNCHANGED vars
      PROVE  UNCHANGED Leases!vars
  <2>1. UNCHANGED << closed, halting, retired, leases, stopped >>
    BY <1>8 DEF Begin, Proceed, Finish, End, DeadlinePasses, ProcessExit, vars
  <2> QED
    BY <1>1, <2>1 DEF Gone
<1> QED
  BY <1>2, <1>3, <1>4, <1>5, <1>6, <1>7, <1>8 DEF Next, ThreadStep, Scan

\* The pool of any engine is a table of exclusive leases on its runtimes: none is
\* leased to two requests or after it was retired, and none is retired while a
\* request holds it, until the engine is shut down.
THEOREM RuntimesAreLeased == Spec => ImplementsLeaseTable
BY Invariance, LeasesInit, LeasesStep, PTL DEF Spec, ImplementsLeaseTable, Leases!Spec
=============================================================================
