---------------------------- MODULE ServerProofs ----------------------------
(* Theorems about Server, for every value of its constants.                *)
EXTENDS Server, FiniteSetTheorems, SequenceTheorems, TLAPS

-----------------------------------------------------------------------------
(* Queues: what joining, leaving at the head and being dropped make of one.*)

\* A queue after one more task has joined it.
LEMMA AppendFacts ==
  ASSUME NEW T, NEW s \in Seq(T), NEW t \in T, IsInjective(s), t \notin ToSet(s)
  PROVE  /\ Append(s, t) \in Seq(T)
         /\ IsInjective(Append(s, t))
         /\ ToSet(Append(s, t)) = ToSet(s) \cup {t}
         /\ s # <<>> => Append(s, t) # <<>> /\ Head(Append(s, t)) = Head(s)
<1> DEFINE r == Append(s, t)
           n == Len(s)
<1>0. n \in Nat /\ s \in [1..n -> T] /\ DOMAIN s = 1..n
  BY LenProperties
<1>1. /\ r \in Seq(T) /\ Len(r) = n + 1 /\ n \in Nat
      /\ \A k \in 1..n : r[k] = s[k]
      /\ r[n + 1] = t
      /\ DOMAIN s = 1..n /\ DOMAIN r = 1..(n + 1)
  <2>1. r \in Seq(T) /\ Len(r) = n + 1 /\ r[n + 1] = t
    BY AppendProperties
  <2>2. \A k \in 1..n : r[k] = s[k]
    BY <1>0, AppendProperties
  <2>3. DOMAIN r = 1..(n + 1)
    BY <2>1, LenProperties
  <2> QED BY <1>0, <2>1, <2>2, <2>3
<1>2. \A k \in 1..n : s[k] # t
  BY <1>1 DEF ToSet
<1>3. IsInjective(r)
  <2> SUFFICES ASSUME NEW a \in 1..(n + 1), NEW b \in 1..(n + 1), r[a] = r[b]
               PROVE  a = b
    BY <1>1 DEF IsInjective
  <2>1. CASE a \in 1..n /\ b \in 1..n
    BY <1>1, <2>1 DEF IsInjective
  <2>2. CASE a = n + 1 \/ b = n + 1
    BY <1>1, <1>2, <2>2
  <2> QED BY <1>1, <2>1, <2>2
<1>4. ToSet(r) = ToSet(s) \cup {t}
  <2>1. ToSet(r) \subseteq ToSet(s) \cup {t}
    BY <1>1 DEF ToSet
  <2>2. ToSet(s) \subseteq ToSet(r) /\ t \in ToSet(r)
    BY <1>1 DEF ToSet
  <2> QED BY <2>1, <2>2
<1>5. s # <<>> => r # <<>> /\ Head(r) = Head(s)
  BY <1>1
<1> QED BY <1>1, <1>3, <1>4, <1>5

\* A queue after its head has left it.
LEMMA TailFacts ==
  ASSUME NEW T, NEW s \in Seq(T), s # <<>>, IsInjective(s)
  PROVE  /\ Tail(s) \in Seq(T)
         /\ IsInjective(Tail(s))
         /\ ToSet(Tail(s)) = ToSet(s) \ {Head(s)}
<1> DEFINE r == Tail(s)
           n == Len(s)
<1>1. /\ r \in Seq(T) /\ Len(r) = n - 1 /\ n \in Nat \ {0}
      /\ \A k \in 1..(n - 1) : r[k] = s[k + 1]
      /\ Head(s) = s[1]
      /\ DOMAIN s = 1..n /\ DOMAIN r = 1..(n - 1)
  BY HeadTailProperties, LenProperties, EmptySeq
<1>2. \A a, b \in 1..n : s[a] = s[b] => a = b
  BY <1>1 DEF IsInjective
<1>3. IsInjective(r)
  BY <1>1, <1>2 DEF IsInjective
<1>4. ToSet(r) \subseteq ToSet(s) \ {Head(s)}
  BY <1>1, <1>2 DEF ToSet
<1>5. ToSet(s) \ {Head(s)} \subseteq ToSet(r)
  <2>1. ToSet(s) = {s[k] : k \in 1..n} /\ ToSet(r) = {r[k] : k \in 1..(n - 1)}
    BY <1>1 DEF ToSet
  <2>2. ASSUME NEW k \in 1..n, s[k] # Head(s)
        PROVE  k - 1 \in 1..(n - 1) /\ r[k - 1] = s[k]
    <3>1. k # 1
      BY <1>1, <2>2
    <3>2. k - 1 \in 1..(n - 1) /\ (k - 1) + 1 = k
      BY <1>1, <3>1
    <3> QED BY <1>1, <3>2
  <2> HIDE DEF n, r
  <2> QED BY <2>1, <2>2
<1> QED BY <1>1, <1>3, <1>4, <1>5

\* Ranks count the kept places one by one.
LEMMA RankFacts ==
  ASSUME NEW N \in Nat, NEW places \in SUBSET (1..N)
  PROVE  /\ Cardinality(places) \in Nat
         /\ \A n \in places : Rank(places, n) \in 1..Cardinality(places)
         /\ \A m, n \in places : m < n => Rank(places, m) < Rank(places, n)
         /\ \A k \in 1..Cardinality(places) :
              Nth(places, k) \in places /\ Rank(places, Nth(places, k)) = k
<1> DEFINE upTo(n) == {m \in places : m <= n}
           K == Cardinality(places)
<1>1. IsFiniteSet(places) /\ K \in Nat
  <2>1. IsFiniteSet(1..N)
    BY FS_Interval
  <2> QED BY <2>1, FS_Subset, FS_CardinalityType
<1>2. ASSUME NEW n \in places
      PROVE  /\ IsFiniteSet(upTo(n)) /\ Rank(places, n) = Cardinality(upTo(n))
             /\ Rank(places, n) \in Nat /\ Rank(places, n) <= K
  <2>1. upTo(n) \in SUBSET places
    OBVIOUS
  <2> QED BY <1>1, <2>1, FS_Subset, FS_CardinalityType DEF Rank
<1>3. ASSUME NEW n \in places PROVE Rank(places, n) >= 1
  <2>1. {n} \in SUBSET upTo(n)
    OBVIOUS
  <2>2. Cardinality({n}) <= Cardinality(upTo(n))
    BY <1>2, <2>1, FS_Subset
  <2> QED BY <1>2, <2>2, FS_Singleton
<1>4. ASSUME NEW m \in places, NEW n \in places, m < n
      PROVE  Rank(places, m) < Rank(places, n)
  <2>1. upTo(m) \in SUBSET upTo(n) /\ n \in upTo(n) /\ n \notin upTo(m)
    <3>1. \A x \in places : x \in Nat
      OBVIOUS
    <3>2. n \in upTo(n)
      BY <3>1
    <3>3. n \notin upTo(m)
      BY <1>4, <3>1
    <3>4. \A x \in places : x <= m => x <= n
      BY <1>4, <3>1
    <3> QED BY <3>2, <3>3, <3>4
  <2>2. Cardinality(upTo(m)) <= Cardinality(upTo(n))
    BY <1>2, <2>1, FS_Subset
  <2>3. Cardinality(upTo(m)) # Cardinality(upTo(n))
    BY <1>2, <2>1, FS_Subset
  <2> QED BY <1>2, <2>2, <2>3
<1>5. \A n \in places : Rank(places, n) \in 1..K
  <2> SUFFICES ASSUME NEW n \in places PROVE Rank(places, n) \in 1..K
    OBVIOUS
  <2>1. Rank(places, n) \in Nat /\ Rank(places, n) <= K /\ Rank(places, n) >= 1
    BY <1>2, <1>3
  <2> HIDE DEF K
  <2> QED BY <1>1, <2>1
<1>6. ASSUME NEW k \in 1..K PROVE \E n \in places : Rank(places, n) = k
  <2> DEFINE f == [n \in places |-> Rank(places, n)]
  <2>1. \A n \in places : Rank(places, n) \in 1..K
    BY <1>5
  <2>2. \A m, n \in places : Rank(places, m) = Rank(places, n) => m = n
    <3>1. ASSUME NEW m \in places, NEW n \in places, m # n
          PROVE  Rank(places, m) # Rank(places, n)
      <4>1. m < n \/ n < m
        BY <3>1
      <4>2. Rank(places, m) \in Nat /\ Rank(places, n) \in Nat
        BY <1>2
      <4> QED BY <1>4, <4>1, <4>2
    <3> QED BY <3>1
  <2>3. f \in Injection(places, 1..K)
    BY <2>1, <2>2 DEF Injection, IsInjective
  <2>4. IsFiniteSet(1..K) /\ Cardinality(1..K) = K
    BY <1>1, FS_Interval
  <2>5. f \in Surjection(places, 1..K)
    BY <2>3, <2>4, FS_Injection
  <2> QED BY <1>6, <2>5 DEF Surjection
<1>7. ASSUME NEW k \in 1..K
      PROVE  Nth(places, k) \in places /\ Rank(places, Nth(places, k)) = k
  BY <1>6, <1>7 DEF Nth
<1> QED BY <1>1, <1>4, <1>5, <1>7

\* A queue after some tasks have been dropped from it: the others, each once, and
\* the head still the head if it stays.
LEMMA RemainingFacts ==
  ASSUME NEW T, NEW s \in Seq(T), NEW ts, IsInjective(s)
  PROVE  /\ Remaining(s, ts) \in Seq(T)
         /\ IsInjective(Remaining(s, ts))
         /\ ToSet(Remaining(s, ts)) = ToSet(s) \ ts
         /\ s # <<>> /\ Head(s) \notin ts =>
              Remaining(s, ts) # <<>> /\ Head(Remaining(s, ts)) = Head(s)
<1> DEFINE N == Len(s)
           places == KeptPlaces(s, ts)
           K == Cardinality(places)
           r == Remaining(s, ts)
<1>0. N \in Nat /\ s \in [1..N -> T] /\ DOMAIN s = 1..N
  BY LenProperties
<1>1. places \in SUBSET (1..N)
  BY <1>0 DEF KeptPlaces
<1>2. /\ K \in Nat
      /\ \A n \in places : Rank(places, n) \in 1..K
      /\ \A m, n \in places : m < n => Rank(places, m) < Rank(places, n)
      /\ \A k \in 1..K : Nth(places, k) \in places /\ Rank(places, Nth(places, k)) = k
  BY <1>0, <1>1, RankFacts
<1>3. r = [k \in 1..K |-> s[Nth(places, k)]]
  BY DEF Remaining, At
<1>4. \A m, n \in 1..N : s[m] = s[n] => m = n
  BY <1>0 DEF IsInjective
<1>5. \A n \in places : Nth(places, Rank(places, n)) = n
  <2> SUFFICES ASSUME NEW n \in places, Nth(places, Rank(places, n)) # n PROVE FALSE
    OBVIOUS
  <2> DEFINE m == Nth(places, Rank(places, n))
  <2>1. m \in places /\ Rank(places, m) = Rank(places, n) /\ Rank(places, n) \in Nat
    BY <1>2
  <2>2. m < n \/ n < m
    BY <1>1, <2>1
  <2> HIDE DEF m
  <2> QED BY <1>2, <2>1, <2>2
<1>6. \A n \in 1..N : n \in places <=> s[n] \notin ts
  BY <1>0 DEF KeptPlaces
<1> HIDE DEF places, K, r, N
<1>7. r \in Seq(T)
  <2>1. r \in [1..K -> T]
    BY <1>0, <1>1, <1>2, <1>3
  <2> QED BY <1>2, <2>1, SeqDef
<1>8. IsInjective(r)
  <2> SUFFICES ASSUME NEW a \in 1..K, NEW b \in 1..K, s[Nth(places, a)] = s[Nth(places, b)]
               PROVE  a = b
    BY <1>3 DEF IsInjective
  <2>1. Nth(places, a) = Nth(places, b)
    BY <1>1, <1>2, <1>4
  <2> QED BY <1>2, <2>1
<1>9. ToSet(r) = ToSet(s) \ ts
  <2>1. ToSet(r) \subseteq ToSet(s) \ ts
    BY <1>0, <1>1, <1>2, <1>3, <1>6 DEF ToSet
  <2>2. ASSUME NEW n \in 1..N, s[n] \notin ts PROVE s[n] \in ToSet(r)
    <3>1. n \in places /\ Rank(places, n) \in 1..K /\ r[Rank(places, n)] = s[n]
      BY <1>2, <1>3, <1>5, <1>6, <2>2
    <3> QED BY <1>3, <3>1 DEF ToSet
  <2> QED BY <1>0, <2>1, <2>2 DEF ToSet
<1>10. ASSUME s # <<>>, Head(s) \notin ts
       PROVE  r # <<>> /\ Head(r) = Head(s)
  <2>1. 1 \in 1..N /\ Head(s) = s[1]
    BY <1>0, <1>10, EmptySeq, HeadTailProperties DEF N
  <2>2. 1 \in places /\ Rank(places, 1) \in 1..K
    BY <1>2, <1>6, <1>10, <2>1
  <2>3. Nth(places, 1) = 1
    <3>1. 1 \in 1..K
      BY <1>2, <2>2
    <3>2. Nth(places, 1) \in places /\ Rank(places, Nth(places, 1)) = 1
      BY <1>2, <3>1
    <3>3. ~(1 < Nth(places, 1))
      BY <1>2, <2>2, <3>2
    <3>4. Nth(places, 1) \in 1..N
      BY <1>1, <3>2
    <3> HIDE DEF places
    <3> QED BY <1>0, <3>3, <3>4
  <2>4. 1 \in 1..K /\ r[1] = s[1]
    BY <1>2, <1>3, <2>2, <2>3
  <2>5. r # <<>>
    BY <1>3, <2>4
  <2> QED BY <1>7, <2>1, <2>4, <2>5, HeadTailProperties
<1> QED BY <1>7, <1>8, <1>9, <1>10 DEF r

-----------------------------------------------------------------------------
(* The stages of the tasks.                                                *)

StageNames == {"idle", "parked", "ready", "queued", "using", "over", "gone"}

\* Types and ranges, those of the lines and the counters excepted.
Shapes ==
  /\ lazy \subseteq Engines /\ tls \in BOOLEAN
  /\ phase \in {"serving", "draining", "closing", "exited"}
  /\ shut \in 0..Len(ShutOrder)
  /\ there \subseteq Engines /\ running \subseteq Engines
  /\ stage \in [Tasks -> StageNames]
  /\ leg \in [Callers -> Nat]
  /\ \A t \in Callers : leg[t] \in 0..Len(Visits[t])
  /\ stream \in [Streams -> {"none", "building", "following", "late", "closed"}]

\* Which stages a kind of task can be in; a task that waits has something to wait for.
Places ==
  /\ \A t \in Callers : stage[t] \in {"queued", "using"} => leg[t] < Len(Visits[t])
  /\ \A t \in Callers : stage[t] = "parked" => t \in Converts
  /\ \A e \in Engines : stage[e] \in {"idle", "queued", "over"}
  /\ stage[Sampler] \in {"idle", "queued"}
  /\ stage[Closer] \in {"idle", "queued", "using"}
  /\ stage[Closer] \in {"queued", "using"} => shut < Len(ShutOrder)

\* The kinds of tasks are disjoint.
LEMMA Kinds ==
  /\ Callers \subseteq Tasks /\ Engines \subseteq Tasks /\ Sampler \in Tasks /\ Closer \in Tasks
  /\ Sampler # Closer
  /\ \A t \in Callers : t \notin Engines /\ t # Sampler /\ t # Closer
  /\ \A e \in Engines : e # Sampler /\ e # Closer
  /\ \A r \in Requests : r \in Callers /\ r \notin Jobs
  /\ Jobs \subseteq Callers /\ Converts \subseteq Requests
BY TasksAssumption DEF Tasks, Callers, Requests

\* What the step of one task does to the stages and the legs.
Moves(t, p) == t \in Tasks /\ p \in StageNames /\ stage' = [stage EXCEPT ![t] = p]

\* A caller's next call is to one of the engines.
LEMMA DestinationType ==
  ASSUME Shapes, NEW t \in Callers
  PROVE  /\ Len(Visits[t]) \in Nat /\ leg[t] \in Nat /\ leg[t] <= Len(Visits[t])
         /\ leg[t] < Len(Visits[t]) => Destination(t) \in Engines
<1>1. Visits[t] \in Seq(Engines)
  BY VisitsAssumption
<1>2. /\ Len(Visits[t]) \in Nat /\ leg[t] \in Nat /\ leg[t] <= Len(Visits[t])
      /\ leg[t] < Len(Visits[t]) => leg[t] + 1 \in 1..Len(Visits[t])
  BY <1>1, LenProperties DEF Shapes
<1>3. \A k \in 1..Len(Visits[t]) : Visits[t][k] \in Engines
  BY <1>1, ElementOfSeq
<1> QED BY <1>2, <1>3 DEF Destination

\* A step of a caller moves this caller alone, and its leg within bounds.
LEMMA ProgressShape ==
  ASSUME Shapes, Places, NEW t \in Callers, Progress(t)
  PROVE  /\ \E p \in {"ready", "queued", "using", "over"} : Moves(t, p)
         /\ \E n \in 0..Len(Visits[t]) : leg' = [leg EXCEPT ![t] = n]
         /\ stage'[t] \in {"queued", "using"} => leg'[t] < Len(Visits[t])
         /\ UNCHANGED <<config, ending, stream>>
         /\ engines' = engines \/ \E e \in Engines : Launched(e)
<1>0. /\ Len(Visits[t]) \in Nat /\ leg[t] \in Nat /\ leg[t] <= Len(Visits[t])
      /\ leg[t] < Len(Visits[t]) => Destination(t) \in Engines
      /\ stage[t] \in {"queued", "using"} => leg[t] < Len(Visits[t])
      /\ t \in Tasks
      /\ leg = [leg EXCEPT ![t] = leg[t]]
      /\ stage \in [Tasks -> StageNames] /\ leg \in [Callers -> Nat]
  BY DestinationType, Kinds DEF Shapes, Places
<1> USE DEF Moves, StageNames
<1>1. CASE Call(t)
  BY <1>0, <1>1 DEF Call
<1>2. CASE Begin(t)
  BY <1>0, <1>2 DEF Begin
<1>3. CASE Unavailable(t)
  <2>1. Moves(t, "ready") /\ leg' = [leg EXCEPT ![t] = Len(Visits[t])]
    BY <1>0, <1>3 DEF Unavailable
  <2>2. Len(Visits[t]) \in 0..Len(Visits[t])
    BY <1>0
  <2> QED BY <1>0, <1>3, <2>1, <2>2 DEF Unavailable
<1>4. CASE Finish(t)
  <2>1. Moves(t, "ready") /\ \E n \in {leg[t] + 1, Len(Visits[t])} : leg' = [leg EXCEPT ![t] = n]
    BY <1>0, <1>4 DEF Finish
  <2>2. leg[t] + 1 \in 0..Len(Visits[t]) /\ Len(Visits[t]) \in 0..Len(Visits[t])
    BY <1>0, <1>4 DEF Finish
  <2> QED BY <1>0, <1>4, <2>1, <2>2 DEF Finish
<1>5. CASE Probe(t)
  <2>1. Moves(t, "ready") /\ leg' = [leg EXCEPT ![t] = leg[t] + 1]
    BY <1>0, <1>5 DEF Probe
  <2>2. leg[t] + 1 \in 0..Len(Visits[t])
    BY <1>0, <1>5 DEF Probe
  <2> QED BY <1>0, <1>5, <2>1, <2>2 DEF Probe
<1>6. CASE End(t)
  BY <1>0, <1>6 DEF End
<1> QED BY <1>1, <1>2, <1>3, <1>4, <1>5, <1>6 DEF Progress

\* Every step keeps the shapes and the places.
LEMMA ShapesNext == Shapes /\ Places /\ [Next]_vars => Shapes' /\ Places'
<1> SUFFICES ASSUME Shapes, Places, [Next]_vars PROVE Shapes' /\ Places'
  OBVIOUS
<1>0. /\ stage \in [Tasks -> StageNames]
      /\ Len(ShutOrder) \in Nat /\ shut \in Nat /\ shut <= Len(ShutOrder)
  BY OrderAssumption, LenProperties DEF Shapes
<1> USE Kinds
<1>1. ASSUME NEW e \in Engines, StarterQueues(e) \/ Starts(e) PROVE Shapes' /\ Places'
  <2>1. \E p \in {"queued", "over"} : Moves(e, p)
    BY <1>1 DEF StarterQueues, Starts, Moves, StageNames
  <2>2. UNCHANGED <<config, ending, leg, stream>>
    BY <1>1 DEF StarterQueues, Starts
  <2>3. there' \subseteq Engines /\ running' \subseteq Engines
    BY <1>1 DEF StarterQueues, Starts, Launched, engines, Shapes
  <2> QED BY <1>0, <2>1, <2>2, <2>3 DEF Shapes, Places, Moves, config, ending
<1>2. ASSUME NEW r \in Requests, Arrive(r) \/ TakePermit(r) PROVE Shapes' /\ Places'
  <2>1. \E p \in {"parked", "ready"} : Moves(r, p) /\ (p = "parked" => r \in Converts)
    BY <1>2 DEF Arrive, TakePermit, Moves, StageNames
  <2>2. UNCHANGED <<config, ending, engines, leg, stream>>
    BY <1>2 DEF Arrive, TakePermit
  <2> QED BY <1>0, <2>1, <2>2 DEF Shapes, Places, Moves, config, ending, engines
<1>3. ASSUME NEW j \in Jobs, PickUp(j) PROVE Shapes' /\ Places'
  BY <1>0, <1>3 DEF PickUp, Shapes, Places, config, ending, engines, StageNames
<1>4. ASSUME NEW t \in Callers, Progress(t) PROVE Shapes' /\ Places'
  <2>1. PICK p \in {"ready", "queued", "using", "over"} : Moves(t, p)
    BY <1>4, ProgressShape
  <2>2. PICK n \in 0..Len(Visits[t]) : leg' = [leg EXCEPT ![t] = n]
    BY <1>4, ProgressShape
  <2>3. /\ stage'[t] \in {"queued", "using"} => leg'[t] < Len(Visits[t])
        /\ UNCHANGED <<config, ending, stream>>
    BY <1>4, ProgressShape
  <2>4. there' \subseteq Engines /\ running' \subseteq Engines
    BY <1>4, ProgressShape DEF engines, Launched, Shapes
  <2>5. leg' \in [Callers -> Nat] /\ \A u \in Callers : leg'[u] \in 0..Len(Visits[u])
    BY <2>2 DEF Shapes
  <2>6. stage' \in [Tasks -> StageNames] /\ stage'[t] = p
        /\ \A u \in Tasks \ {t} : stage'[u] = stage[u]
    BY <1>0, <2>1 DEF Moves
  <2>7. \A u \in Callers \ {t} : leg'[u] = leg[u]
    BY <2>2 DEF Shapes
  <2>8. Shapes'
    BY <2>3, <2>4, <2>5, <2>6 DEF Shapes, config, ending
  <2> QED BY <2>1, <2>3, <2>6, <2>7, <2>8 DEF Places, ending
<1>5. ASSUME NEW rs \in SUBSET Requests, NEW to \in {"over", "gone"}, Dropped(rs, to)
      PROVE  /\ stage' \in [Tasks -> StageNames] /\ leg' = leg
             /\ \A u \in Tasks : stage'[u] = IF u \in rs THEN to ELSE stage[u]
             /\ shut' = shut => Places'
  <2>1. stage' \in [Tasks -> StageNames] /\ leg' = leg
    BY <1>0, <1>5 DEF Dropped, StageNames
  <2>2. \A u \in Tasks : stage'[u] = IF u \in rs THEN to ELSE stage[u]
    BY <1>5 DEF Dropped
  <2> QED BY <2>1, <2>2 DEF Places
<1>6. ASSUME NEW r \in Requests, TimesOut(r) \/ Disconnect(r) PROVE Shapes' /\ Places'
  <2>1. \E to \in {"over", "gone"} : Dropped({r}, to)
    BY <1>6 DEF TimesOut, Disconnect
  <2>2. UNCHANGED <<config, ending, engines, stream>>
    BY <1>6 DEF TimesOut, Disconnect
  <2> QED BY <1>5, <2>1, <2>2 DEF Shapes, config, ending, engines
<1>7. CASE Signal
  <2>1. \/ Dropped({r \in Requests : Live(r)}, "gone")
        \/ UNCHANGED <<stage, leg>>
    BY <1>7 DEF Signal, callers
  <2>2. /\ UNCHANGED <<config, shut, engines>>
        /\ phase' \in {"draining", "closing"}
        /\ stream' \in [Streams -> {"none", "building", "following", "late", "closed"}]
    BY <1>7 DEF Signal, Shapes
  <2>3. stage' \in [Tasks -> StageNames] /\ leg' = leg /\ Places'
    <3>1. {r \in Requests : Live(r)} \in SUBSET Requests
      OBVIOUS
    <3> QED BY <1>0, <1>5, <2>1, <2>2, <3>1 DEF Places
  <2> QED BY <2>2, <2>3 DEF Shapes, config, engines
<1>8. CASE SamplerTicks \/ SamplerProbes
  BY <1>0, <1>8 DEF SamplerTicks, SamplerProbes, Shapes, Places, config, ending, engines,
                    StageNames
<1>9. ASSUME NEW s \in Streams, Connect(s) \/ Follow(s) \/ StreamEnds(s) \/ Leave(s)
      PROVE  Shapes' /\ Places'
  BY <1>9 DEF Connect, Follow, StreamEnds, Leave, Shapes, Places, config, ending, engines, callers
<1>10. CASE Drained \/ Exit
  BY <1>10 DEF Drained, Exit, Shapes, Places, config, engines, callers
<1>11. ASSUME NEW e \in Engines, CloserQueues(e) \/ Takes(e) \/ Closes(e) \/ GivesUp(e)
       PROVE  Shapes' /\ Places'
  <2>1. \E p \in {"idle", "queued", "using"} : Moves(Closer, p)
    BY <1>11 DEF CloserQueues, Takes, Cleared, Closes, GivesUp, Moves, StageNames
  <2>2. /\ UNCHANGED <<config, leg, stream>> /\ phase' = phase
        /\ shut < Len(ShutOrder)
        /\ shut' \in {shut, shut + 1}
    BY <1>0, <1>11 DEF CloserQueues, Takes, Cleared, Closes, GivesUp, Due, ending
  <2>3. there' \subseteq Engines /\ running' \subseteq Engines
    BY <1>11 DEF CloserQueues, Takes, Cleared, Closes, GivesUp, engines, Shapes
  <2>4. shut' \in 0..Len(ShutOrder)
    BY <1>0, <2>2
  <2>5. /\ stage' \in [Tasks -> StageNames] /\ stage'[Closer] \in {"idle", "queued", "using"}
        /\ \A u \in Tasks \ {Closer} : stage'[u] = stage[u]
    BY <1>0, <2>1 DEF Moves
  <2>6. stage'[Closer] \in {"queued", "using"} => shut' = shut
    BY <1>0, <1>11 DEF CloserQueues, Takes, Cleared, Closes, GivesUp, ending
  <2>7. Shapes'
    BY <2>2, <2>3, <2>4, <2>5 DEF Shapes, config
  <2> QED BY <2>2, <2>5, <2>6, <2>7 DEF Places
<1>12. CASE UNCHANGED vars
  BY <1>12 DEF vars, config, ending, engines, callers, Shapes, Places
<1> QED BY <1>1, <1>2, <1>3, <1>4, <1>6, <1>7, <1>8, <1>9, <1>10, <1>11, <1>12
        DEF Next, Step, Closing

-----------------------------------------------------------------------------
(* The lines of the engines.                                               *)

\* The task t wants, or has, the mutex of the engine e.
Waits(t, e) ==
  \/ t \in Callers /\ stage[t] \in {"queued", "using"} /\ Destination(t) = e
  \/ t \in Engines /\ stage[t] = "queued" /\ t = e
  \/ t = Sampler /\ stage[t] = "queued" /\ e = Chrome
  \/ t = Closer /\ stage[t] \in {"queued", "using"} /\ Due(e)

\* The line of an engine is made of the tasks that want it, each once.
LineOf(e) ==
  /\ line[e] \in Seq(Tasks)
  /\ IsInjective(line[e])
  /\ \A t \in Tasks : t \in ToSet(line[e]) <=> Waits(t, e)

Lines == line \in [Engines -> Seq(Tasks)] /\ \A e \in Engines : LineOf(e)

\* The mutex of an engine whose shutdown is awaited.
CloserHolds == stage[Closer] = "using" => \A e \in Engines : Due(e) => Holds(Closer, e)

OthersWait(ts) ==
  \A u \in Tasks \ ts : \A x \in Engines : Waits(u, x)' <=> Waits(u, x)

\* The ways in which a step can change the lines.
Enters(t, e) ==
  /\ Queued(t, e)
  /\ \A x \in Engines : ~Waits(t, x) /\ (Waits(t, x)' <=> x = e)
  /\ OthersWait({t})
Leaves(t, e) ==
  /\ Holds(t, e) /\ Unlocks(e)
  /\ \A x \in Engines : (Waits(t, x) <=> x = e) /\ ~Waits(t, x)'
  /\ OthersWait({t})
LeaveAll(ts) ==
  /\ line' = Without(ts)
  /\ \A t \in ts, x \in Engines : ~Waits(t, x)'
  /\ OthersWait(ts)
LinesEffect ==
  \/ \E t \in Tasks, e \in Engines : Enters(t, e) \/ Leaves(t, e)
  \/ \E ts \in SUBSET Tasks : LeaveAll(ts)
  \/ line' = line /\ OthersWait({})

\* Whom a task waits for, by its kind.
LEMMA WaitsByKind ==
  /\ \A t \in Callers, x \in Engines :
       Waits(t, x) <=> stage[t] \in {"queued", "using"} /\ Destination(t) = x
  /\ \A t, x \in Engines : Waits(t, x) <=> stage[t] = "queued" /\ t = x
  /\ \A x \in Engines : Waits(Sampler, x) <=> stage[Sampler] = "queued" /\ x = Chrome
  /\ \A x \in Engines : Waits(Closer, x) <=> stage[Closer] \in {"queued", "using"} /\ Due(x)
BY Kinds DEF Waits

\* The same of the next state.
LEMMA WaitsByKindNext ==
  /\ \A t \in Callers, x \in Engines :
       Waits(t, x)' <=> stage'[t] \in {"queued", "using"} /\ Destination(t)' = x
  /\ \A t, x \in Engines : Waits(t, x)' <=> stage'[t] = "queued" /\ t = x
  /\ \A x \in Engines : Waits(Sampler, x)' <=> stage'[Sampler] = "queued" /\ x = Chrome
  /\ \A x \in Engines : Waits(Closer, x)' <=> stage'[Closer] \in {"queued", "using"} /\ Due(x)'
BY Kinds DEF Waits

\* A task of which nothing changes waits for what it waited for.
LEMMA WaitsFrame ==
  ASSUME NEW u \in Tasks, NEW x \in Engines, stage'[u] = stage[u],
         u \in Callers => leg'[u] = leg[u], u = Closer => shut' = shut
  PROVE  Waits(u, x)' <=> Waits(u, x)
BY Kinds DEF Waits, Destination, Due

\* When one task moves and shut stays, the others wait as before.
LEMMA OthersFrame ==
  ASSUME Shapes, NEW t, NEW p, stage' = [stage EXCEPT ![t] = p],
         \A u \in Callers \ {t} : leg'[u] = leg[u], t = Closer \/ shut' = shut
  PROVE  OthersWait({t})
<1> SUFFICES ASSUME NEW u \in Tasks \ {t}, NEW x \in Engines
             PROVE  Waits(u, x)' <=> Waits(u, x)
  BY DEF OthersWait
<1>1. stage'[u] = stage[u]
  BY DEF Shapes
<1> QED BY <1>1, WaitsFrame

\* A caller enters a line, leaves it, or stays in it or out of it.
LEMMA ProgressLines ==
  ASSUME Shapes, Places, EngineHeldWhileUsed, NEW t \in Callers, Progress(t)
  PROVE  \/ \E e \in Engines : Enters(t, e) \/ Leaves(t, e)
         \/ line' = line /\ OthersWait({})
<1>0. /\ leg[t] < Len(Visits[t]) => Destination(t) \in Engines
      /\ stage[t] \in {"queued", "using"} => leg[t] < Len(Visits[t])
      /\ t \in Tasks /\ t # Closer
      /\ stage \in [Tasks -> StageNames] /\ leg \in [Callers -> Nat]
  BY DestinationType, Kinds DEF Shapes, Places
<1>1. PICK p \in {"ready", "queued", "using", "over"} : Moves(t, p)
  BY ProgressShape
<1>2. PICK n \in 0..Len(Visits[t]) : leg' = [leg EXCEPT ![t] = n]
  BY ProgressShape
<1>3. OthersWait({t})
  <2>1. \A u \in Callers \ {t} : leg'[u] = leg[u]
    BY <1>0, <1>2
  <2>2. shut' = shut
    BY ProgressShape DEF ending
  <2> QED BY <1>1, <2>1, <2>2, OthersFrame DEF Moves
<1>4. /\ \A x \in Engines : Waits(t, x) <=> stage[t] \in {"queued", "using"} /\ Destination(t) = x
      /\ \A x \in Engines : Waits(t, x)' <=> stage'[t] \in {"queued", "using"} /\ Destination(t)' = x
  BY WaitsByKind, WaitsByKindNext
<1>5. ASSUME \A x \in Engines : Waits(t, x)' <=> Waits(t, x) PROVE OthersWait({})
  BY <1>3, <1>5 DEF OthersWait
<1>6. CASE Call(t)
  <2>1. CASE stage' = stage
    <3>1. stage[t] = "ready" /\ line' = line
      BY <1>0, <1>6, <2>1 DEF Call
    <3>2. \A x \in Engines : Waits(t, x)' <=> Waits(t, x)
      BY <1>4, <2>1, <3>1
    <3> QED BY <1>5, <3>1, <3>2
  <2>2. CASE Queued(t, Destination(t)) /\ stage' = [stage EXCEPT ![t] = "queued"] /\ leg' = leg
    <3>1. stage[t] = "ready" /\ stage'[t] = "queued" /\ Destination(t)' = Destination(t)
          /\ Destination(t) \in Engines
      BY <1>0, <1>6, <2>2 DEF Call, Destination
    <3>2. Enters(t, Destination(t))
      BY <1>3, <1>4, <2>2, <3>1 DEF Enters
    <3> QED BY <3>1, <3>2
  <2> QED BY <1>6, <2>1, <2>2 DEF Call
<1>7. CASE Begin(t)
  <2>1. stage[t] = "queued" /\ stage'[t] = "using" /\ Destination(t)' = Destination(t)
        /\ line' = line
    BY <1>0, <1>7 DEF Begin, Destination
  <2> QED BY <1>4, <1>5, <2>1
<1>8. CASE Unavailable(t) \/ Probe(t)
  <2>1. /\ stage[t] = "queued" /\ stage'[t] = "ready"
        /\ Holds(t, Destination(t)) /\ Unlocks(Destination(t))
    BY <1>0, <1>8 DEF Unavailable, Probe
  <2> QED BY <1>0, <1>3, <1>4, <2>1 DEF Leaves
<1>9. CASE Finish(t)
  <2>1. /\ stage[t] = "using" /\ stage'[t] = "ready"
        /\ Holds(t, Destination(t)) /\ Unlocks(Destination(t))
    BY <1>0, <1>9 DEF Finish, EngineHeldWhileUsed
  <2> QED BY <1>0, <1>3, <1>4, <2>1 DEF Leaves
<1>10. CASE End(t)
  <2>1. stage[t] = "ready" /\ stage'[t] = "over" /\ line' = line
    BY <1>0, <1>10 DEF End
  <2> QED BY <1>4, <1>5, <2>1
<1> QED BY <1>6, <1>7, <1>8, <1>9, <1>10 DEF Progress

\* When the futures of requests are dropped these leave their lines, and no other.
LEMMA DroppedLines ==
  ASSUME Shapes, NEW rs \in SUBSET Requests, NEW to \in {"over", "gone"}, Dropped(rs, to),
         shut' = shut
  PROVE  LeaveAll(rs)
<1>1. /\ leg' = leg /\ line' = Without(rs)
      /\ \A u \in Tasks : stage'[u] = IF u \in rs THEN to ELSE stage[u]
  BY DEF Dropped
<1>2. OthersWait(rs)
  BY <1>1, WaitsFrame DEF OthersWait
<1>3. \A t \in rs, x \in Engines : ~Waits(t, x)'
  BY <1>1, Kinds, WaitsByKindNext
<1> QED BY <1>1, <1>2, <1>3 DEF LeaveAll

\* Every step changes the lines in one of the ways above.
LEMMA EveryLinesEffect ==
  ASSUME Shapes, Places, EngineHeldWhileUsed, CloserHolds, [Next]_vars
  PROVE  LinesEffect
<1>0. /\ stage \in [Tasks -> StageNames]
      /\ Chrome \in Engines /\ Len(ShutOrder) \in Nat /\ shut \in Nat
  BY OrderAssumption, LenProperties DEF Shapes
<1> USE Kinds
<1>1. ASSUME NEW e \in Engines, StarterQueues(e) \/ Starts(e) PROVE LinesEffect
  <2>1. OthersWait({e})
    <3>1. /\ \E p : stage' = [stage EXCEPT ![e] = p]
          /\ leg' = leg /\ shut' = shut
      BY <1>1 DEF StarterQueues, Starts, ending
    <3> QED BY <3>1, OthersFrame
  <2>2. /\ \A x \in Engines : Waits(e, x) <=> stage[e] = "queued" /\ e = x
        /\ \A x \in Engines : Waits(e, x)' <=> stage'[e] = "queued" /\ e = x
    BY WaitsByKind, WaitsByKindNext
  <2>3. StarterQueues(e) => Enters(e, e)
    BY <1>0, <2>1, <2>2 DEF StarterQueues, Enters
  <2>4. Starts(e) => Leaves(e, e)
    BY <1>0, <2>1, <2>2 DEF Starts, Leaves
  <2> QED BY <1>1, <2>3, <2>4 DEF LinesEffect
<1>2. ASSUME NEW t \in Callers,
             \/ t \in Requests /\ (Arrive(t) \/ TakePermit(t))
             \/ t \in Jobs /\ PickUp(t)
      PROVE  LinesEffect
  <2>1. /\ \E p \in {"parked", "ready"} : stage' = [stage EXCEPT ![t] = p]
        /\ stage[t] \in {"idle", "parked"}
        /\ line' = line /\ leg' = leg /\ shut' = shut
    BY <1>2 DEF Arrive, TakePermit, PickUp, ending
  <2>2. stage'[t] \in {"parked", "ready"}
    BY <1>0, <2>1
  <2>3. OthersWait({t})
    BY <2>1, OthersFrame
  <2>4. \A x \in Engines : ~Waits(t, x) /\ ~Waits(t, x)'
    BY <2>1, <2>2, WaitsByKind, WaitsByKindNext
  <2> QED BY <2>1, <2>3, <2>4 DEF LinesEffect, OthersWait
<1>3. ASSUME NEW t \in Callers, Progress(t) PROVE LinesEffect
  BY <1>3, ProgressLines DEF LinesEffect
<1>4. ASSUME NEW r \in Requests, TimesOut(r) \/ Disconnect(r) PROVE LinesEffect
  <2>1. shut' = shut /\ \E to \in {"over", "gone"} : Dropped({r}, to)
    BY <1>4 DEF TimesOut, Disconnect, ending
  <2>2. {r} \in SUBSET Requests /\ {r} \in SUBSET Tasks
    OBVIOUS
  <2> QED BY <2>1, <2>2, DroppedLines DEF LinesEffect
<1>5. CASE Signal
  <2>1. CASE tls
    <3>1. shut' = shut /\ Dropped({r \in Requests : Live(r)}, "gone")
      BY <1>5, <2>1 DEF Signal
    <3>2. /\ {r \in Requests : Live(r)} \in SUBSET Requests
          /\ {r \in Requests : Live(r)} \in SUBSET Tasks
      OBVIOUS
    <3> QED BY <3>1, <3>2, DroppedLines DEF LinesEffect
  <2>2. CASE ~tls
    <3>1. UNCHANGED <<shut, line, stage, leg>>
      BY <1>5, <2>2 DEF Signal, callers
    <3> QED BY <3>1, WaitsFrame DEF LinesEffect, OthersWait
  <2> QED BY <2>1, <2>2
<1>6. CASE SamplerTicks \/ SamplerProbes
  <2>1. OthersWait({Sampler})
    <3>1. /\ \E p : stage' = [stage EXCEPT ![Sampler] = p]
          /\ leg' = leg /\ shut' = shut
      BY <1>6 DEF SamplerTicks, SamplerProbes, ending
    <3> QED BY <3>1, OthersFrame
  <2>2. /\ \A x \in Engines : Waits(Sampler, x) <=> stage[Sampler] = "queued" /\ x = Chrome
        /\ \A x \in Engines : Waits(Sampler, x)' <=> stage'[Sampler] = "queued" /\ x = Chrome
    BY WaitsByKind, WaitsByKindNext
  <2>3. SamplerTicks => Enters(Sampler, Chrome)
    BY <1>0, <2>1, <2>2 DEF SamplerTicks, Enters
  <2>4. SamplerProbes => Leaves(Sampler, Chrome)
    BY <1>0, <2>1, <2>2 DEF SamplerProbes, Leaves
  <2> QED BY <1>0, <1>6, <2>3, <2>4 DEF LinesEffect
<1>7. ASSUME NEW e \in Engines, CloserQueues(e) \/ Takes(e) \/ Closes(e) \/ GivesUp(e)
      PROVE  LinesEffect
  <2>1. OthersWait({Closer})
    <3>1. /\ \E p : stage' = [stage EXCEPT ![Closer] = p]
          /\ leg' = leg
      BY <1>7 DEF CloserQueues, Takes, Cleared, Closes, GivesUp
    <3> QED BY <3>1, OthersFrame
  <2>2. /\ \A x \in Engines : Waits(Closer, x) <=> stage[Closer] \in {"queued", "using"} /\ Due(x)
        /\ \A x \in Engines :
             Waits(Closer, x)' <=> stage'[Closer] \in {"queued", "using"} /\ Due(x)'
    BY WaitsByKind, WaitsByKindNext
  <2>3. Due(e) /\ \A x \in Engines : Due(x) <=> x = e
    BY <1>7 DEF CloserQueues, Takes, Closes, GivesUp, Due
  <2>4. CASE CloserQueues(e)
    <3>1. /\ stage[Closer] = "idle" /\ stage'[Closer] = "queued" /\ Queued(Closer, e)
          /\ shut' = shut
      BY <1>0, <2>4 DEF CloserQueues, ending
    <3>2. \A x \in Engines : Due(x)' <=> Due(x)
      BY <3>1 DEF Due
    <3>3. Enters(Closer, e)
      BY <2>1, <2>2, <2>3, <3>1, <3>2 DEF Enters
    <3> QED BY <3>3 DEF LinesEffect
  <2>5. CASE (Takes(e) \/ Closes(e)) /\ Cleared(e)
    <3>1. /\ stage[Closer] \in {"queued", "using"} /\ stage'[Closer] = "idle"
          /\ Holds(Closer, e) /\ Unlocks(e)
      BY <1>0, <2>3, <2>5 DEF Takes, Closes, Cleared, CloserHolds
    <3>2. Leaves(Closer, e)
      BY <2>1, <2>2, <2>3, <3>1 DEF Leaves
    <3> QED BY <3>2 DEF LinesEffect
  <2>7. CASE Takes(e) /\ ~Cleared(e)
    <3>1. /\ stage[Closer] = "queued" /\ stage'[Closer] = "using"
          /\ line' = line /\ shut' = shut
      BY <1>0, <2>7 DEF Takes
    <3>2. \A x \in Engines : Waits(Closer, x)' <=> Waits(Closer, x)
      BY <2>2, <3>1 DEF Due
    <3>3. OthersWait({})
      BY <2>1, <3>2 DEF OthersWait
    <3> QED BY <3>1, <3>3 DEF LinesEffect
  <2>6. CASE GivesUp(e)
    <3>1. stage'[Closer] = "idle" /\ line' = Without({Closer})
      BY <1>0, <2>6 DEF GivesUp
    <3>2. LeaveAll({Closer}) /\ {Closer} \in SUBSET Tasks
      BY <2>1, <2>2, <3>1 DEF LeaveAll
    <3> QED BY <3>2 DEF LinesEffect
  <2> QED BY <1>7, <2>4, <2>5, <2>6, <2>7 DEF Closes
<1>8. CASE UNCHANGED <<line, stage, leg, shut>>
  BY <1>8, WaitsFrame DEF LinesEffect, OthersWait
<1>9. ASSUME NEW s \in Streams, Connect(s) \/ Follow(s) \/ StreamEnds(s) \/ Leave(s)
      PROVE  UNCHANGED <<line, stage, leg, shut>>
  BY <1>9 DEF Connect, Follow, StreamEnds, Leave, ending, callers
<1>10. Drained \/ Exit \/ UNCHANGED vars => UNCHANGED <<line, stage, leg, shut>>
  BY DEF Drained, Exit, vars, ending, callers
<1> QED BY <1>1, <1>2, <1>3, <1>4, <1>5, <1>6, <1>7, <1>8, <1>9, <1>10
        DEF Next, Step, Closing

\* A mutex passes from the head of its line to the next: the line holds just the
\* tasks that want the engine, and the head stays the head until it leaves.
LEMMA LinesKept ==
  ASSUME Lines, LinesEffect
  PROVE  /\ Lines'
         /\ \A t \in Tasks, e \in Engines :
              Holds(t, e) /\ Waits(t, e)' => Holds(t, e)'
<1>1. ASSUME NEW t \in Tasks, NEW e \in Engines, Enters(t, e), NEW x \in Engines
      PROVE  LineOf(x)' /\ \A u \in Tasks : Holds(u, x) => Holds(u, x)'
  <2>1. CASE x = e
    <3>1. /\ line[e] \in Seq(Tasks) /\ IsInjective(line[e]) /\ t \notin ToSet(line[e])
          /\ line'[e] = Append(line[e], t)
      BY <1>1 DEF Lines, LineOf, Enters, Queued
    <3>2. /\ line'[e] \in Seq(Tasks)
          /\ IsInjective(line'[e])
          /\ ToSet(line'[e]) = ToSet(line[e]) \cup {t}
          /\ line[e] # <<>> => line'[e] # <<>> /\ Head(line'[e]) = Head(line[e])
      BY <3>1, AppendFacts
    <3>3. \A u \in Tasks : u \in ToSet(line'[e]) <=> Waits(u, e)'
      BY <1>1, <3>2 DEF Lines, LineOf, Enters, OthersWait
    <3> QED BY <2>1, <3>2, <3>3 DEF LineOf, Holds
  <2>2. CASE x # e
    <3>1. line'[x] = line[x]
      BY <1>1, <2>2 DEF Enters, Queued
    <3>2. \A u \in Tasks : Waits(u, x)' <=> Waits(u, x)
      BY <1>1, <2>2 DEF Enters, OthersWait
    <3> QED BY <3>1, <3>2 DEF Lines, LineOf, Holds
  <2> QED BY <2>1, <2>2
<1>2. ASSUME NEW t \in Tasks, NEW e \in Engines, Leaves(t, e), NEW x \in Engines
      PROVE  LineOf(x)' /\ \A u \in Tasks : Holds(u, x) /\ Waits(u, x)' => Holds(u, x)'
  <2>1. CASE x = e
    <3>1. /\ line[e] \in Seq(Tasks) /\ IsInjective(line[e])
          /\ line[e] # <<>> /\ Head(line[e]) = t
          /\ line'[e] = Tail(line[e])
      BY <1>2 DEF Lines, LineOf, Leaves, Holds, Unlocks
    <3>2. /\ line'[e] \in Seq(Tasks)
          /\ IsInjective(line'[e])
          /\ ToSet(line'[e]) = ToSet(line[e]) \ {t}
      BY <3>1, TailFacts
    <3>3. \A u \in Tasks : u \in ToSet(line'[e]) <=> Waits(u, e)'
      BY <1>2, <3>2 DEF Lines, LineOf, Leaves, OthersWait
    <3>4. \A u \in Tasks : Holds(u, x) => u = t
      BY <2>1, <3>1 DEF Holds
    <3>5. ~Waits(t, x)'
      BY <1>2 DEF Leaves
    <3> QED BY <2>1, <3>2, <3>3, <3>4, <3>5 DEF LineOf
  <2>2. CASE x # e
    <3>1. line'[x] = line[x]
      BY <1>2, <2>2 DEF Leaves, Unlocks
    <3>2. \A u \in Tasks : Waits(u, x)' <=> Waits(u, x)
      BY <1>2, <2>2 DEF Leaves, OthersWait
    <3> QED BY <3>1, <3>2 DEF Lines, LineOf, Holds
  <2> QED BY <2>1, <2>2
<1>3. ASSUME NEW ts \in SUBSET Tasks, LeaveAll(ts), NEW x \in Engines
      PROVE  LineOf(x)' /\ \A u \in Tasks : Holds(u, x) /\ Waits(u, x)' => Holds(u, x)'
  <2>1. /\ line[x] \in Seq(Tasks) /\ IsInjective(line[x])
        /\ line'[x] = Remaining(line[x], ts)
    BY <1>3 DEF Lines, LineOf, LeaveAll, Without
  <2>2. /\ line'[x] \in Seq(Tasks)
        /\ IsInjective(line'[x])
        /\ ToSet(line'[x]) = ToSet(line[x]) \ ts
        /\ line[x] # <<>> /\ Head(line[x]) \notin ts =>
             line'[x] # <<>> /\ Head(line'[x]) = Head(line[x])
    <3> DEFINE r == Remaining(line[x], ts)
    <3>1. /\ r \in Seq(Tasks)
          /\ IsInjective(r)
          /\ ToSet(r) = ToSet(line[x]) \ ts
          /\ line[x] # <<>> /\ Head(line[x]) \notin ts => r # <<>> /\ Head(r) = Head(line[x])
      BY <2>1, RemainingFacts
    <3> HIDE DEF r
    <3> QED BY <2>1, <3>1 DEF r
  <2>3. \A u \in Tasks : u \in ToSet(line'[x]) <=> Waits(u, x)'
    BY <1>3, <2>2 DEF Lines, LineOf, LeaveAll, OthersWait
  <2>4. \A u \in Tasks : Holds(u, x) /\ Waits(u, x)' => Holds(u, x)'
    BY <1>3, <2>2 DEF LeaveAll, Holds
  <2> QED BY <2>2, <2>3, <2>4 DEF LineOf
<1>4. ASSUME line' = line, OthersWait({}), NEW x \in Engines
      PROVE  LineOf(x)' /\ \A u \in Tasks : Holds(u, x) => Holds(u, x)'
  BY <1>4 DEF Lines, LineOf, OthersWait, Holds
<1>5. line' \in [Engines -> Seq(Tasks)]
  <2>1. \/ \E f : line' = [line EXCEPT ![f] = line'[f]]
        \/ \E ts : line' = Without(ts)
        \/ line' = line
    BY DEF LinesEffect, Enters, Leaves, LeaveAll, Queued, Unlocks, Lines
  <2>2. line' = [x \in Engines |-> line'[x]]
    BY <2>1 DEF Lines, Without
  <2>3. \A x \in Engines : line'[x] \in Seq(Tasks)
    BY <1>1, <1>2, <1>3, <1>4 DEF LinesEffect, LineOf
  <2> QED BY <2>2, <2>3
<1> QED BY <1>1, <1>2, <1>3, <1>4, <1>5 DEF Lines, LinesEffect

\* An engine is taken away by the task that holds its mutex, so not under a caller
\* that uses it; and nobody gets into use without being at the head.
LEMMA UsersKept ==
  ASSUME Shapes, Places, Lines, EngineHeldWhileUsed, CloserHolds, [Next]_vars
  PROVE  EngineHeldWhileUsed'
<1> SUFFICES ASSUME NEW t \in Callers, stage'[t] = "using"
             PROVE  Holds(t, Destination(t))' /\ Destination(t)' \in there'
  BY DEF EngineHeldWhileUsed
<1> DEFINE e == Destination(t)
<1>0. /\ stage \in [Tasks -> StageNames] /\ leg \in [Callers -> Nat]
      /\ leg[t] < Len(Visits[t]) => e \in Engines
      /\ t \in Tasks /\ t # Closer
  BY DestinationType, Kinds DEF Shapes
<1>1. LinesEffect
  BY EveryLinesEffect
<1>2. \/ Begin(t)
      \/ stage[t] = "using" /\ leg'[t] = leg[t]
  <2>1. ASSUME NEW u \in Callers, Progress(u)
        PROVE  Begin(t) \/ (stage[t] = "using" /\ leg'[t] = leg[t])
    <3>1. CASE u # t
      BY <1>0, <2>1, <3>1, ProgressShape DEF Moves
    <3>2. CASE u = t
      <4>1. Call(t) => stage[t] = "ready" /\ stage'[t] \in {"ready", "queued"}
        BY <1>0 DEF Call
      <4>2. Unavailable(t) \/ Finish(t) \/ Probe(t) => stage'[t] = "ready"
        BY <1>0 DEF Unavailable, Finish, Probe
      <4>3. End(t) => stage'[t] = "over"
        BY <1>0 DEF End
      <4>4. Call(t) \/ Begin(t) \/ Unavailable(t) \/ Finish(t) \/ Probe(t) \/ End(t)
        BY <2>1, <3>2 DEF Progress
      <4> QED BY <4>1, <4>2, <4>3, <4>4
    <3> QED BY <3>1, <3>2
  <2>2. ASSUME NEW x \in Engines,
               \/ StarterQueues(x) \/ Starts(x)
               \/ CloserQueues(x) \/ Takes(x) \/ Closes(x) \/ GivesUp(x)
        PROVE  stage[t] = "using" /\ leg'[t] = leg[t]
    BY <1>0, <2>2, Kinds DEF StarterQueues, Starts, CloserQueues, Takes, Cleared, Closes, GivesUp
  <2>3. ASSUME NEW r \in Requests, Arrive(r) \/ TakePermit(r)
        PROVE  stage[t] = "using" /\ leg'[t] = leg[t]
    BY <1>0, <2>3 DEF Arrive, TakePermit
  <2>4. ASSUME NEW j \in Jobs, PickUp(j)
        PROVE  stage[t] = "using" /\ leg'[t] = leg[t]
    BY <1>0, <2>4 DEF PickUp
  <2>5. ASSUME NEW rs, NEW to \in {"over", "gone"}, Dropped(rs, to)
        PROVE  stage[t] = "using" /\ leg'[t] = leg[t]
    BY <1>0, <2>5 DEF Dropped
  <2>6. ASSUME NEW r \in Requests, TimesOut(r) \/ Disconnect(r)
        PROVE  stage[t] = "using" /\ leg'[t] = leg[t]
    BY <2>5, <2>6 DEF TimesOut, Disconnect
  <2>7. CASE Signal
    BY <2>5, <2>7 DEF Signal, callers
  <2>8. CASE SamplerTicks \/ SamplerProbes
    BY <1>0, <2>8, Kinds DEF SamplerTicks, SamplerProbes
  <2>9. ASSUME NEW s \in Streams, Connect(s) \/ Follow(s) \/ StreamEnds(s) \/ Leave(s)
        PROVE  stage[t] = "using" /\ leg'[t] = leg[t]
    BY <2>9 DEF Connect, Follow, StreamEnds, Leave, callers
  <2>10. CASE Drained \/ Exit \/ UNCHANGED vars
    BY <2>10 DEF Drained, Exit, vars, callers
  <2> QED BY <2>1, <2>2, <2>3, <2>4, <2>6, <2>7, <2>8, <2>9, <2>10
          DEF Next, Step, Closing
<1>3. CASE Begin(t)
  <2>1. Holds(t, e) /\ e' = e /\ line' = line /\ e \in there'
    BY <1>0, <1>3 DEF Begin, Launched, engines, Destination
  <2> QED BY <2>1 DEF Holds
<1>4. CASE stage[t] = "using" /\ leg'[t] = leg[t]
  <2>1. e' = e /\ e \in Engines /\ Holds(t, e) /\ e \in there
    BY <1>0, <1>4 DEF Places, EngineHeldWhileUsed, Destination
  <2>2. Waits(t, e)'
    BY <2>1, WaitsByKindNext
  <2>3. Holds(t, e)'
    BY <1>0, <1>1, <2>1, <2>2, LinesKept
  <2>4. e \in there'
    <3>1. ASSUME NEW x \in Engines, Takes(x) PROVE x # e
      BY <1>0, <2>1, <3>1 DEF Takes, Holds
    <3>2. ASSUME NEW x \in Engines, Takes(x) PROVE e \in there'
      BY <2>1, <3>1, <3>2 DEF Takes
    <3>3. ASSUME NEW u \in Callers, Progress(u) PROVE there \subseteq there'
      BY <3>3, ProgressShape DEF engines, Launched
    <3>4. ASSUME NEW x \in Engines, StarterQueues(x) \/ Starts(x) \/ CloserQueues(x)
                                    \/ Closes(x) \/ GivesUp(x)
          PROVE  there \subseteq there'
      BY <3>4 DEF StarterQueues, Starts, CloserQueues, Closes, GivesUp, engines, Launched
    <3>5. ASSUME NEW r \in Requests, Arrive(r) \/ TakePermit(r) \/ TimesOut(r) \/ Disconnect(r)
          PROVE  there' = there
      BY <3>5 DEF Arrive, TakePermit, TimesOut, Disconnect, engines
    <3>6. ASSUME NEW j \in Jobs, PickUp(j) PROVE there' = there
      BY <3>6 DEF PickUp, engines
    <3>7. ASSUME NEW s \in Streams, Connect(s) \/ Follow(s) \/ StreamEnds(s) \/ Leave(s)
          PROVE  there' = there
      BY <3>7 DEF Connect, Follow, StreamEnds, Leave, engines
    <3>8. CASE \/ SamplerTicks \/ SamplerProbes \/ Signal \/ Drained \/ Exit
               \/ UNCHANGED vars
      BY <2>1, <3>8 DEF SamplerTicks, SamplerProbes, Signal, Drained, Exit, vars, engines
    <3> QED BY <2>1, <3>2, <3>3, <3>4, <3>5, <3>6, <3>7, <3>8
            DEF Next, Step, Closing
  <2> HIDE DEF e
  <2> QED BY <2>1, <2>3, <2>4 DEF e, Holds
<1> QED BY <1>2, <1>3, <1>4

-----------------------------------------------------------------------------
(* The shutdown of the engines.                                            *)

\* The flag of an engine that is not there is clear, but for one serve has taken.
Flags == \A e \in running \ there : e # Chrome /\ Taken(e)

\* What a step does that is not a step of the shutdown of an engine.
LEMMA CloserFrame ==
  ASSUME Shapes, Places, [Next]_vars
  PROVE  \/ \E e \in Engines : CloserQueues(e) \/ Takes(e) \/ Closes(e) \/ GivesUp(e)
         \/ /\ stage'[Closer] = stage[Closer] /\ shut' = shut
            /\ engines' = engines \/ \E e \in Engines : Launched(e)
<1> DEFINE Still == /\ stage'[Closer] = stage[Closer] /\ shut' = shut
                    /\ engines' = engines \/ \E e \in Engines : Launched(e)
<1>0. /\ stage \in [Tasks -> StageNames] /\ Closer \in Tasks
      /\ \A t \in Callers : t # Closer
  BY Kinds DEF Shapes
<1>1. ASSUME NEW e \in Engines, StarterQueues(e) \/ Starts(e) PROVE Still
  BY <1>0, <1>1, Kinds DEF StarterQueues, Starts, ending, engines
<1>2. ASSUME NEW r \in Requests, Arrive(r) \/ TakePermit(r) PROVE Still
  BY <1>0, <1>2, Kinds DEF Arrive, TakePermit, ending, engines
<1>3. ASSUME NEW rs \in SUBSET Requests, NEW to, Dropped(rs, to)
      PROVE  stage'[Closer] = stage[Closer]
  BY <1>0, <1>3, Kinds DEF Dropped
<1>4. ASSUME NEW r \in Requests, TimesOut(r) \/ Disconnect(r) PROVE Still
  <2>1. {r} \in SUBSET Requests /\ \E to : Dropped({r}, to)
    BY <1>4 DEF TimesOut, Disconnect
  <2>2. shut' = shut /\ engines' = engines
    BY <1>4 DEF TimesOut, Disconnect, ending, engines
  <2> QED BY <1>3, <2>1, <2>2
<1>5. ASSUME NEW j \in Jobs, PickUp(j) PROVE Still
  BY <1>0, <1>5, Kinds DEF PickUp, ending, engines
<1>6. ASSUME NEW t \in Callers, Progress(t) PROVE Still
  <2>1. stage'[Closer] = stage[Closer]
    BY <1>0, <1>6, ProgressShape DEF Moves
  <2> QED BY <1>6, <2>1, ProgressShape DEF ending
<1>7. CASE SamplerTicks \/ SamplerProbes
  BY <1>0, <1>7, Kinds DEF SamplerTicks, SamplerProbes, ending, engines
<1>8. CASE Signal
  <2>1. {r \in Requests : Live(r)} \in SUBSET Requests
    OBVIOUS
  <2>2. stage'[Closer] = stage[Closer]
    BY <1>3, <1>8, <2>1 DEF Signal, callers
  <2> QED BY <1>8, <2>2 DEF Signal
<1>9. ASSUME NEW s \in Streams, Connect(s) \/ Follow(s) \/ StreamEnds(s) \/ Leave(s)
      PROVE  Still
  BY <1>9 DEF Connect, Follow, StreamEnds, Leave, callers, ending
<1>10. Drained \/ Exit \/ UNCHANGED vars => Still
  BY DEF Drained, Exit, vars, callers, ending
<1> QED BY <1>1, <1>2, <1>4, <1>5, <1>6, <1>7, <1>8, <1>9, <1>10
        DEF Next, Step, Closing

\* Who awaits the shutdown of an engine keeps its mutex until it is through.
LEMMA CloserKept ==
  ASSUME Shapes, Places, Lines, EngineHeldWhileUsed, CloserHolds, [Next]_vars
  PROVE  CloserHolds'
<1> SUFFICES ASSUME stage'[Closer] = "using", NEW e \in Engines, Due(e)'
             PROVE  Holds(Closer, e)'
  BY DEF CloserHolds
<1>0. stage \in [Tasks -> StageNames] /\ Closer \in Tasks
  BY Kinds DEF Shapes
<1>1. \/ \E x \in Engines : Takes(x) /\ ~Cleared(x)
      \/ stage[Closer] = "using" /\ shut' = shut
  <2>1. ASSUME NEW x \in Engines, CloserQueues(x) \/ Takes(x) \/ Closes(x) \/ GivesUp(x)
        PROVE  Takes(x) /\ ~Cleared(x)
    BY <1>0, <2>1 DEF CloserQueues, Takes, Cleared, Closes, GivesUp
  <2> QED BY <2>1, CloserFrame
<1>2. ASSUME NEW x \in Engines, Takes(x), ~Cleared(x) PROVE Holds(Closer, e)'
  <2>1. Holds(Closer, x) /\ Due(x) /\ line' = line /\ shut' = shut
    BY <1>2 DEF Takes
  <2>2. x = e
    BY <2>1 DEF Due
  <2> QED BY <2>1, <2>2 DEF Holds
<1>3. CASE stage[Closer] = "using" /\ shut' = shut
  <2>1. Due(e) /\ Holds(Closer, e)
    BY <1>3 DEF Due, CloserHolds
  <2>2. Waits(Closer, e)'
    BY WaitsByKindNext
  <2> QED BY <1>0, <2>1, <2>2, EveryLinesEffect, LinesKept
<1> QED BY <1>1, <1>2, <1>3

\* A flag is left set over no engine by an awaited shutdown only.
LEMMA FlagsKept ==
  ASSUME Shapes, Places, Flags, [Next]_vars
  PROVE  Flags'
<1> SUFFICES ASSUME NEW e \in running' \ there' PROVE e # Chrome /\ Taken(e)'
  BY DEF Flags
<1>0. /\ Len(ShutOrder) \in Nat /\ shut \in Nat /\ shut <= Len(ShutOrder)
      /\ stage \in [Tasks -> StageNames] /\ Closer \in Tasks
  BY OrderAssumption, LenProperties, Kinds DEF Shapes
<1>1. ASSUME NEW x \in Engines, CloserQueues(x) \/ Takes(x) \/ Closes(x) \/ GivesUp(x)
      PROVE  e # Chrome /\ Taken(e)'
  <2>1. CASE CloserQueues(x)
    <3>1. e \in running \ there /\ shut' = shut /\ stage[Closer] = "idle"
      BY <2>1 DEF CloserQueues, engines, ending
    <3> QED BY <3>1 DEF Flags, Taken
  <2>2. CASE Takes(x) /\ ~Cleared(x)
    <3>1. /\ Due(x) /\ x # Chrome /\ running' = running /\ there' = there \ {x}
          /\ shut' = shut /\ stage[Closer] = "queued" /\ stage'[Closer] = "using"
      BY <1>0, <2>2 DEF Takes
    <3>2. CASE e = x
      <4>1. shut + 1 \in 1..Len(ShutOrder) /\ ShutOrder[shut + 1] = e
        BY <1>0, <3>1, <3>2 DEF Due
      <4> QED BY <3>1, <3>2, <4>1 DEF Taken
    <3>3. CASE e # x
      <4>1. e \in running \ there
        BY <3>1, <3>3
      <4> QED BY <3>1, <4>1 DEF Flags, Taken
    <3> QED BY <3>2, <3>3
  <2>3. CASE (Cleared(x) /\ (Takes(x) \/ Closes(x))) \/ GivesUp(x)
    <3>1. /\ e \in running \ there /\ shut' = shut + 1
      BY <2>3 DEF Takes, Closes, Cleared, GivesUp, engines
    <3>2. PICK n \in 1..Len(ShutOrder) : ShutOrder[n] = e /\ (n <= shut \/ n = shut + 1)
      BY <3>1 DEF Flags, Taken
    <3>3. n <= shut'
      BY <1>0, <3>1, <3>2
    <3> QED BY <3>1, <3>2, <3>3 DEF Flags, Taken
  <2> QED BY <1>1, <2>1, <2>2, <2>3 DEF Closes
<1>2. ASSUME stage'[Closer] = stage[Closer], shut' = shut,
             engines' = engines \/ \E x \in Engines : Launched(x)
      PROVE  e # Chrome /\ Taken(e)'
  <2>1. e \in running \ there
    BY <1>2 DEF engines, Launched
  <2> QED BY <1>2, <2>1 DEF Flags, Taken
<1> QED BY <1>1, <1>2, CloserFrame

-----------------------------------------------------------------------------
(* The counters.                                                           *)

Arrived == {r \in Requests : stage[r] # "idle"}
Open == {r \in Requests : Live(r) \/ stage[r] = "gone"}
Permitted == {r \in Converts : HasPermit(r)}

\* The counters agree with the requests.  However many requests there may ever
\* be, only finitely many have arrived.
Counts ==
  /\ IsFiniteSet(Arrived)
  /\ active = Cardinality(Open)
  /\ permits \in Nat
  /\ permits + Cardinality(Permitted) = Permits

\* What is counted is finite.
LEMMA CountedFinite ==
  ASSUME Counts
  PROVE  /\ IsFiniteSet(Open) /\ Cardinality(Open) \in Nat
         /\ IsFiniteSet(Permitted) /\ Cardinality(Permitted) \in Nat
<1>1. Open \in SUBSET Arrived
  BY DEF Open, Arrived, Live
<1>2. Permitted \in SUBSET Arrived
  BY DEF Permitted, Arrived, HasPermit, Requests
<1> QED BY <1>1, <1>2, FS_Subset, FS_CardinalityType DEF Counts

\* A step that leaves the three sets alone, and the counters.
LEMMA CountsFrame ==
  ASSUME Counts, \A r \in Requests : stage'[r] = stage[r], active' = active, permits' = permits
  PROVE  Counts'
<1>1. Arrived' = Arrived
  BY DEF Arrived
<1>2. Open' = Open
  BY DEF Open, Live
<1>3. Permitted' = Permitted
  BY DEF Permitted, HasPermit, Requests
<1> QED BY <1>1, <1>2, <1>3 DEF Counts

\* Leaving the set of those that hold a permit, by any number of requests.
LEMMA PermitsBack ==
  ASSUME Counts, NEW rs \in SUBSET Requests, Permitted' = Permitted \ rs,
         permits' = permits + Cardinality({r \in rs : HasPermit(r)})
  PROVE  permits' \in Nat /\ permits' + Cardinality(Permitted') = Permits
<1>1. {r \in rs : HasPermit(r)} = Permitted \cap rs
  BY DEF Permitted, HasPermit
<1>2. /\ IsFiniteSet(Permitted) /\ Cardinality(Permitted) \in Nat
      /\ permits \in Nat /\ permits + Cardinality(Permitted) = Permits
  BY CountedFinite DEF Counts
<1>3. Cardinality(Permitted \ rs) = Cardinality(Permitted) - Cardinality(Permitted \cap rs)
  BY <1>2, FS_Difference
<1>4. Cardinality(Permitted \cap rs) \in Nat
  BY <1>2, FS_Intersection, FS_CardinalityType
<1>5. permits' = permits + Cardinality(Permitted \cap rs)
  BY <1>1
<1>6. Cardinality(Permitted') = Cardinality(Permitted) - Cardinality(Permitted \cap rs)
  BY <1>3
<1> QED BY <1>2, <1>4, <1>5, <1>6

\* A request that arrives is counted; it holds no permit yet.
LEMMA ArriveCounts ==
  ASSUME Shapes, Counts, NEW r \in Requests, Arrive(r)
  PROVE  Counts'
<1>0. /\ stage \in [Tasks -> StageNames] /\ r \in Tasks
      /\ stage[r] = "idle" /\ stage'[r] = IF r \in Converts THEN "parked" ELSE "ready"
      /\ \A u \in Requests \ {r} : stage'[u] = stage[u]
      /\ active' = active + 1 /\ permits' = permits
  BY Kinds DEF Shapes, Arrive
<1>1. Arrived' = Arrived \cup {r} /\ IsFiniteSet(Arrived')
  <2>1. Arrived' = Arrived \cup {r}
    BY <1>0 DEF Arrived
  <2> QED BY <2>1, FS_AddElement DEF Counts
<1>2. Open' = Open \cup {r} /\ r \notin Open
  BY <1>0 DEF Open, Live
<1>3. Permitted' = Permitted
  BY <1>0 DEF Permitted, HasPermit, Requests
<1>4. Cardinality(Open \cup {r}) = Cardinality(Open) + 1
  BY <1>2, CountedFinite, FS_AddElement
<1> QED BY <1>0, <1>1, <1>2, <1>3, <1>4 DEF Counts

\* A permit goes from the semaphore to the request.
LEMMA TakePermitCounts ==
  ASSUME Shapes, Places, Counts, NEW r \in Requests, TakePermit(r)
  PROVE  Counts'
<1>0. /\ stage \in [Tasks -> StageNames] /\ r \in Tasks /\ r \in Converts
      /\ stage[r] = "parked" /\ stage'[r] = "ready"
      /\ \A u \in Requests \ {r} : stage'[u] = stage[u]
      /\ active' = active /\ permits' = permits - 1 /\ permits > 0
  BY Kinds DEF Shapes, Places, TakePermit
<1>1. Arrived' = Arrived
  BY <1>0 DEF Arrived
<1>2. Open' = Open
  BY <1>0 DEF Open, Live
<1>3. Permitted' = Permitted \cup {r} /\ r \notin Permitted
  BY <1>0 DEF Permitted, HasPermit, Requests
<1>4. Cardinality(Permitted \cup {r}) = Cardinality(Permitted) + 1
  BY <1>3, CountedFinite, FS_AddElement
<1>5. permits' \in Nat /\ permits' + Cardinality(Permitted') = Permits
  BY <1>0, <1>3, <1>4, CountedFinite DEF Counts
<1> QED BY <1>0, <1>1, <1>2, <1>5 DEF Counts

\* Between its first call and its answer a request keeps what it holds.
LEMMA ProgressCounts ==
  ASSUME Shapes, Places, Counts, NEW t \in Callers, Progress(t)
  PROVE  Counts'
<1>0. /\ stage \in [Tasks -> StageNames] /\ t \in Tasks
      /\ \A u \in Requests \ {t} : stage'[u] = stage[u]
  BY ProgressShape, Kinds DEF Shapes, Moves
<1>1. CASE End(t)
  <2>0. /\ stage[t] = "ready" /\ stage'[t] = "over"
        /\ permits' = IF HasPermit(t) THEN permits + 1 ELSE permits
        /\ active' = IF t \in Requests THEN active - 1 ELSE active
    BY <1>0, <1>1 DEF End
  <2>1. Arrived' = Arrived
    BY <1>0, <2>0 DEF Arrived
  <2>2. Open' = Open \ {t} /\ (t \in Open <=> t \in Requests)
    BY <1>0, <2>0 DEF Open, Live
  <2>3. Permitted' = Permitted \ {t} /\ (t \in Permitted <=> HasPermit(t))
    BY <1>0, <2>0 DEF Permitted, HasPermit, Requests
  <2>4. /\ Cardinality(Open \ {t}) = IF t \in Open THEN Cardinality(Open) - 1 ELSE Cardinality(Open)
        /\ Cardinality(Permitted \ {t}) =
             IF t \in Permitted THEN Cardinality(Permitted) - 1 ELSE Cardinality(Permitted)
    BY CountedFinite, FS_RemoveElement
  <2>5. active' = Cardinality(Open')
    BY <2>0, <2>2, <2>4 DEF Counts
  <2>6. permits' \in Nat /\ permits' + Cardinality(Permitted') = Permits
    BY <2>0, <2>3, <2>4, CountedFinite DEF Counts
  <2> QED BY <2>1, <2>5, <2>6 DEF Counts
<1>2. CASE Call(t) \/ Begin(t) \/ Unavailable(t) \/ Finish(t) \/ Probe(t)
  <2>0. /\ stage[t] \in {"ready", "queued", "using"} /\ stage'[t] \in {"ready", "queued", "using"}
        /\ active' = active /\ permits' = permits
    BY <1>0, <1>2 DEF Call, Begin, Unavailable, Finish, Probe
  <2>1. Arrived' = Arrived
    BY <1>0, <2>0 DEF Arrived
  <2>2. Open' = Open
    BY <1>0, <2>0 DEF Open, Live
  <2>3. Permitted' = Permitted
    BY <1>0, <2>0 DEF Permitted, HasPermit, Requests
  <2> QED BY <2>0, <2>1, <2>2, <2>3 DEF Counts
<1> QED BY <1>1, <1>2 DEF Progress

\* Requests whose futures are dropped give their permits back; the counter falls
\* only where the middleware is there to count.
LEMMA DroppedCounts ==
  ASSUME Shapes, Counts, NEW rs \in SUBSET Requests, \A r \in rs : Live(r),
         \/ Dropped(rs, "gone") /\ active' = active
         \/ /\ Dropped(rs, "over")
            /\ \E r \in rs : rs = {r} /\ active' = active - 1
  PROVE  Counts'
<1>0. PICK to \in {"over", "gone"} : Dropped(rs, to)
  OBVIOUS
<1>1. \A u \in Requests : stage'[u] = IF u \in rs THEN to ELSE stage[u]
  BY <1>0, Kinds DEF Dropped
<1>2. Arrived' = Arrived
  BY <1>0, <1>1 DEF Arrived, Live
<1>3. Permitted' = Permitted \ rs
  BY <1>0, <1>1 DEF Permitted, HasPermit, Requests
<1>4. permits' \in Nat /\ permits' + Cardinality(Permitted') = Permits
  BY <1>0, <1>3, PermitsBack DEF Dropped
<1>5. active' = Cardinality(Open')
  <2>1. CASE Dropped(rs, "gone") /\ active' = active
    <3>1. \A u \in Requests : stage'[u] = IF u \in rs THEN "gone" ELSE stage[u]
      BY <2>1, Kinds DEF Dropped
    <3>2. Open' = Open
      BY <3>1 DEF Open, Live
    <3> QED BY <2>1, <3>2 DEF Counts
  <2>2. ASSUME NEW r \in rs, rs = {r}, active' = active - 1, Dropped(rs, "over")
        PROVE  active' = Cardinality(Open')
    <3>1. \A u \in Requests : stage'[u] = IF u = r THEN "over" ELSE stage[u]
      BY <2>2, Kinds DEF Dropped
    <3>2. Open' = Open \ {r} /\ r \in Open
      BY <3>1 DEF Open, Live
    <3>3. Cardinality(Open \ {r}) = Cardinality(Open) - 1
      BY <3>2, CountedFinite, FS_RemoveElement
    <3> QED BY <2>2, <3>2, <3>3 DEF Counts
  <2> QED BY <2>1, <2>2
<1> QED BY <1>2, <1>4, <1>5 DEF Counts

\* Every step keeps the counters exact.
LEMMA CountsNext == Shapes /\ Places /\ Counts /\ [Next]_vars => Counts'
<1> SUFFICES ASSUME Shapes, Places, Counts, [Next]_vars PROVE Counts'
  OBVIOUS
<1>0. stage \in [Tasks -> StageNames]
  BY DEF Shapes
<1>1. ASSUME NEW t, t \notin Requests, \E p : stage' = [stage EXCEPT ![t] = p],
             active' = active, permits' = permits
      PROVE  Counts'
  BY <1>0, <1>1, Kinds, CountsFrame
<1>2. ASSUME NEW e \in Engines,
             \/ StarterQueues(e) \/ Starts(e)
             \/ CloserQueues(e) \/ Takes(e) \/ Closes(e) \/ GivesUp(e)
      PROVE  Counts'
  <2>1. StarterQueues(e) \/ Starts(e) => \E p : stage' = [stage EXCEPT ![e] = p]
    BY DEF StarterQueues, Starts
  <2>2. CloserQueues(e) \/ Takes(e) \/ Closes(e) \/ GivesUp(e) =>
          \E p : stage' = [stage EXCEPT ![Closer] = p]
    BY DEF CloserQueues, Takes, Cleared, Closes, GivesUp
  <2>3. active' = active /\ permits' = permits
    BY <1>2 DEF StarterQueues, Starts, CloserQueues, Takes, Closes, GivesUp
  <2>4. e \notin Requests /\ Closer \notin Requests
    BY Kinds
  <2> QED BY <1>1, <1>2, <2>1, <2>2, <2>3, <2>4
<1>3. ASSUME NEW r \in Requests, Arrive(r) \/ TakePermit(r) PROVE Counts'
  BY <1>3, ArriveCounts, TakePermitCounts
<1>4. ASSUME NEW r \in Requests, TimesOut(r) \/ Disconnect(r) PROVE Counts'
  <2>1. Live(r) /\ {r} \in SUBSET Requests
    BY <1>4 DEF TimesOut, Disconnect
  <2>2. \/ Dropped({r}, "gone") /\ active' = active
        \/ Dropped({r}, "over") /\ active' = active - 1
    BY <1>4 DEF TimesOut, Disconnect
  <2> QED BY <2>1, <2>2, DroppedCounts
<1>5. ASSUME NEW j \in Jobs, PickUp(j) PROVE Counts'
  BY <1>1, <1>5, Kinds DEF PickUp
<1>6. ASSUME NEW t \in Callers, Progress(t) PROVE Counts'
  BY <1>6, ProgressCounts
<1>7. CASE SamplerTicks \/ SamplerProbes
  BY <1>1, <1>7, Kinds DEF SamplerTicks, SamplerProbes
<1>8. CASE Signal
  <2>1. CASE tls
    <3>1. /\ Dropped({r \in Requests : Live(r)}, "gone") /\ active' = active
      BY <1>8, <2>1 DEF Signal
    <3>2. {r \in Requests : Live(r)} \in SUBSET Requests
      OBVIOUS
    <3> QED BY <3>1, <3>2, DroppedCounts
  <2>2. CASE ~tls
    BY <1>8, <2>2, CountsFrame DEF Signal, callers
  <2> QED BY <2>1, <2>2
<1>9. ASSUME NEW s \in Streams, Connect(s) \/ Follow(s) \/ StreamEnds(s) \/ Leave(s)
      PROVE  UNCHANGED <<stage, active, permits>>
  BY <1>9 DEF Connect, Follow, StreamEnds, Leave, callers
<1>10. Drained \/ Exit \/ UNCHANGED vars => UNCHANGED <<stage, active, permits>>
  BY DEF Drained, Exit, vars, callers
<1>11. CASE UNCHANGED <<stage, active, permits>>
  BY <1>11, CountsFrame
<1> QED BY <1>2, <1>3, <1>4, <1>5, <1>6, <1>7, <1>8, <1>9, <1>10, <1>11
        DEF Next, Step, Closing

-----------------------------------------------------------------------------
(* The theorems.                                                           *)

\* The inductive invariant.
IInv == /\ Shapes /\ Places /\ Lines /\ EngineHeldWhileUsed /\ CloserHolds
        /\ Flags /\ Counts

\* It holds of the initial states.
LEMMA InitIInv == Init => IInv
<1> SUFFICES ASSUME Init PROVE IInv
  OBVIOUS
<1>1. Len(ShutOrder) \in Nat /\ \A t \in Callers : Len(Visits[t]) \in Nat
  BY OrderAssumption, VisitsAssumption, LenProperties
<1>2. /\ \A t \in Tasks : stage[t] = "idle"
      /\ \A t \in Callers : leg[t] = 0
  BY DEF Init
<1>3. Shapes
  BY <1>1, <1>2, LazyAssumption DEF Init, Shapes, StageNames
<1>4. Places
  BY <1>2, Kinds DEF Places
<1>5. Lines
  <2>1. ASSUME NEW e \in Engines PROVE LineOf(e)
    <3>1. line[e] = <<>>
      BY DEF Init
    <3>2. <<>> \in Seq(Tasks) /\ IsInjective(<<>>) /\ ToSet(<<>>) = {}
      BY EmptySeq DEF IsInjective, ToSet
    <3>3. \A t \in Tasks : ~Waits(t, e)
      BY <1>2 DEF Waits
    <3> QED BY <3>1, <3>2, <3>3 DEF LineOf
  <2> QED BY <2>1 DEF Lines, LineOf, Init
<1>6. EngineHeldWhileUsed
  BY <1>2, Kinds DEF EngineHeldWhileUsed
<1>7. Counts
  <2>1. Arrived = {} /\ Open = {} /\ Permitted = {}
    BY <1>2, Kinds DEF Arrived, Open, Permitted, Live, HasPermit
  <2> QED BY <2>1, FS_EmptySet, PermitsAssumption DEF Counts, Init
<1>8. CloserHolds /\ Flags
  BY <1>2, Kinds DEF CloserHolds, Flags, Init
<1> QED BY <1>3, <1>4, <1>5, <1>6, <1>7, <1>8 DEF IInv

\* Every reachable state satisfies it.
THEOREM Inductive == Spec => []IInv
<1>1. IInv /\ [Next]_vars => IInv'
  BY ShapesNext, EveryLinesEffect, LinesKept, UsersKept, CloserKept, FlagsKept,
     CountsNext DEF IInv
<1> QED BY <1>1, InitIInv, PTL DEF Spec

\* It implies the types, and that nothing leaks.
LEMMA IInvImplies == IInv => TypeOK /\ NothingLeaks
<1> SUFFICES ASSUME IInv PROVE TypeOK /\ NothingLeaks
  OBVIOUS
<1>1. TypeOK
  <2>1. line \in [Engines -> Seq(Tasks)]
    BY DEF IInv, Lines
  <2>2. permits \in 0..Permits /\ active \in Nat
    BY CountedFinite, PermitsAssumption DEF IInv, Counts
  <2> QED BY <2>1, <2>2 DEF TypeOK, IInv, Shapes, Flags, StageNames
<1>2. \A e \in Engines :
        /\ IsInjective(line[e])
        /\ \A t \in Callers : t \in ToSet(line[e]) <=>
             stage[t] \in {"queued", "using"} /\ Destination(t) = e
  BY WaitsByKind, Kinds DEF IInv, Lines, LineOf
<1> QED BY <1>1, <1>2 DEF NothingLeaks, IInv, Counts, Open, Permitted

\* All variables keep their types and ranges.
THEOREM TypeCorrect == Spec => []TypeOK
BY Inductive, IInvImplies, PTL

\* Wherever a future is dropped its permit and its place in the line go with it,
\* and the counter of active requests is off by the clients that went away only.
THEOREM NothingEverLeaks == Spec => []NothingLeaks
BY Inductive, IInvImplies, PTL

\* A conversion has its engine to itself until it ends, against every other caller
\* and against the shutdown.
THEOREM EngineStaysHeld == Spec => []EngineHeldWhileUsed
<1>1. IInv => EngineHeldWhileUsed
  BY DEF IInv
<1> QED BY <1>1, Inductive, PTL
=============================================================================
