--------------------------- MODULE Adapter_proofs ---------------------------
(***************************************************************************)
(* What the adapter's requests read of the registry, proved for any number *)
(* of requests, any lists OAP may have and any number of steps.            *)
(*                                                                         *)
(* Two arguments meet in one invariant.  A request for the list holds the  *)
(* read lock, so that no store falls between its two loads (LockInv): all  *)
(* it loaded is the registry as it is.  A request for a value holds no     *)
(* lock; of it is known only that each word it loaded, and each word it    *)
(* may load next, belongs to a list the registry had since it began        *)
(* (ReadInv).                                                              *)
(*                                                                         *)
(* The second part is about what a selector says, for any selector: the    *)
(* loop of extractValue puts each piece at its number in the buffer        *)
(* (Filled), and a buffer with gaps comes to the same string as the pieces *)
(* in the order of their numbers (BufferJoins).  These facts are about     *)
(* loops, and are proved by induction on the number of turns.              *)
(*                                                                         *)
(* The third part puts the two together: to requests for the list the      *)
(* adapter is MetricRegistry.  The types of all variables come last.       *)
(***************************************************************************)
EXTENDS Adapter, SequenceTheorems, FiniteSetTheorems, WellFoundedInduction, TLAPS

\* The variables of the requests have an entry for each.
ShapeInv ==
  /\ DOMAIN pc = Handlers /\ DOMAIN seen = Handlers /\ DOMAIN md = Handlers
  /\ DOMAIN ans = Handlers /\ DOMAIN since = Handlers
  /\ \A h \in Handlers : DOMAIN seen[h] \subseteq Words

\* The registry is the slice of a list, but for the moment between the stores of
\* the two words, in which one word is the old list's and one the new one's.
RegistryInv ==
  /\ oap \in Oaps /\ mdd \in Lists
  /\ \E l \in Lists :
       IF refresher = "stored"
         THEN metricDefines \in {[array |-> l, len |-> Len(mdd)],
                                 [array |-> mdd, len |-> Len(l)]}
         ELSE metricDefines = Slice(l)

\* The lock keeps the writer's store and the readers apart.
LockInv ==
  /\ DOMAIN lock = {"writer", "readers"}
  /\ refresher \in {"idle", "list", "lock"} => lock.writer = "none"
  /\ refresher = "acquire" => lock.writer = "waiting"
  /\ refresher \in {"store", "stored", "unlock"} =>
       lock.writer = "held" /\ lock.readers = {}
  /\ refresher \in {"idle", "list", "lock", "acquire", "store", "stored", "unlock"}
  /\ \A h \in Listers : /\ pc[h] \in {"idle", "rlock", "read", "runlock"}
                        /\ pc[h] \in {"read", "runlock"} => h \in lock.readers

\* What a request for the list has loaded is the registry, which is a list that
\* it counts among those it may answer with.
ListerInv ==
  \A h \in Listers : pc[h] = "read" =>
    /\ \A w \in DOMAIN seen[h] : seen[h][w] = metricDefines[w]
    /\ metricDefines.array \in since[h]

\* s may be the slice of lists in S: both words come from there.
Within(s, S) ==
  /\ "array" \in DOMAIN s => s.array \in S
  /\ "len" \in DOMAIN s => \E l \in S : s.len = Len(l)

\* What a request has loaded, and what it may load, comes from the lists the
\* registry had since it began.
ReadInv ==
  \A h \in Handlers : pc[h] = "read" =>
    /\ since[h] \subseteq Lists
    /\ Within(seen[h], since[h]) /\ Within(metricDefines, since[h])
    /\ refresher = "stored" => mdd \in since[h]

IndInv == ShapeInv /\ RegistryInv /\ LockInv /\ ListerInv /\ ReadInv

----------------------------------------------------------------------------
(* Lists and slices *)

\* A list OAP may have is a sequence.
LEMMA ListIsSeq ==
  ASSUME NEW l \in Lists
  PROVE  /\ l \in Seq(ToSet(l))
         /\ Len(l) \in Nat /\ DOMAIN l = 1 .. Len(l)
<1>1. CASE l = << >>
  BY <1>1 DEF ToSet
<1>2. CASE l \in {o.defs : o \in Oaps}
  BY <1>2, OapsAssumption DEF IsList
<1>3. l \in Seq(ToSet(l))
  BY <1>1, <1>2 DEF Lists
<1> QED BY <1>3

\* The words of the slice of a list.
LEMMA SliceWords ==
  ASSUME NEW l
  PROVE  /\ DOMAIN Slice(l) = Words
         /\ Slice(l).array = l /\ Slice(l).len = Len(l)
BY DEF Slice, Words

\* The registry has both words, each from a list that it has now.
LEMMA CurrentHas ==
  ASSUME RegistryInv
  PROVE  /\ DOMAIN metricDefines = Words
         /\ Current \subseteq Lists
         /\ Within(metricDefines, Current)
         /\ refresher = "stored" => mdd \in Current
         /\ refresher # "stored" =>
              metricDefines.array \in Lists
              /\ metricDefines = Slice(metricDefines.array)
<1>1. CASE refresher = "stored"
  <2>1. PICK l \in Lists :
          metricDefines \in {[array |-> l, len |-> Len(mdd)],
                             [array |-> mdd, len |-> Len(l)]}
    BY <1>1 DEF RegistryInv
  <2>2. l \in Current /\ mdd \in Current /\ Current \subseteq Lists
    BY <1>1, <2>1 DEF Current, RegistryInv
  <2>3. CASE metricDefines = [array |-> l, len |-> Len(mdd)]
    BY <1>1, <2>2, <2>3 DEF Within, Words
  <2>4. CASE metricDefines = [array |-> mdd, len |-> Len(l)]
    BY <1>1, <2>2, <2>4 DEF Within, Words
  <2> QED BY <2>1, <2>3, <2>4
<1>2. CASE refresher # "stored"
  <2>1. PICK l \in Lists : metricDefines = Slice(l)
    BY <1>2 DEF RegistryInv
  <2>2. DOMAIN metricDefines = Words /\ metricDefines.array = l
        /\ metricDefines.len = Len(l)
    BY <2>1, SliceWords
  <2>3. Current = {l}
    BY <1>2, <2>2 DEF Current
  <2> QED BY <1>2, <2>1, <2>2, <2>3 DEF Within
<1> QED BY <1>1, <1>2

----------------------------------------------------------------------------
(* The steps of OAP and of the refreshing goroutine *)

\* A step that changes only OAP, or how far the refreshing goroutine has got
\* between two stores, keeps the invariant.
LEMMA QuietKeeps ==
  ASSUME IndInv, \/ \E o \in Oaps : ChangeOap(o)
                 \/ Tick \/ ListMetrics \/ LockRequest \/ LockAcquire \/ Unlock
                 \/ UNCHANGED vars
  PROVE  IndInv'
<1>1. /\ UNCHANGED <<metricDefines, requests>>
      /\ refresher' = "stored" <=> refresher = "stored"
      /\ refresher = "stored" => mdd' = mdd
  BY DEF IndInv, LockInv, ChangeOap, Tick, ListMetrics, LockRequest, LockAcquire,
         Unlock, vars, registry
<1>2. ShapeInv'
  BY <1>1 DEF IndInv, ShapeInv, requests
<1>3. oap' \in Oaps /\ mdd' \in Lists
  BY DEF IndInv, RegistryInv, Lists, ChangeOap, Tick, ListMetrics, LockRequest,
         LockAcquire, Unlock, vars, registry
<1>4. RegistryInv'
  BY <1>1, <1>3 DEF IndInv, RegistryInv
<1>5. LockInv'
  BY DEF IndInv, LockInv, ChangeOap, Tick, ListMetrics, LockRequest, LockAcquire,
         Unlock, vars, registry, requests
<1>6. ListerInv'
  BY <1>1 DEF IndInv, ListerInv, requests
<1>7. ReadInv'
  BY <1>1 DEF IndInv, ReadInv, Within, requests
<1> QED BY <1>2, <1>4, <1>5, <1>6, <1>7 DEF IndInv

\* The first store: the lists of the requests that read are joined by the new one.
LEMMA StoreHalfKeeps ==
  ASSUME IndInv, StoreHalf
  PROVE  IndInv'
<1>0. /\ refresher = "store" /\ refresher' = "stored"
      /\ UNCHANGED <<oap, lock, mdd, pc, seen, md, ans>>
      /\ since' = [h \in Handlers |->
                     IF pc[h] = "read" THEN since[h] \cup {mdd} ELSE since[h]]
  BY DEF StoreHalf
<1>1. PICK w \in Words : metricDefines' = [metricDefines EXCEPT ![w] = Slice(mdd)[w]]
  BY DEF StoreHalf
<1>2. PICK l \in Lists : metricDefines = Slice(l)
  BY <1>0 DEF IndInv, RegistryInv
<1>3. metricDefines' \in {[array |-> l, len |-> Len(mdd)],
                          [array |-> mdd, len |-> Len(l)]}
  <2>1. CASE w = "array"
    BY <1>1, <1>2, <2>1 DEF Slice
  <2>2. CASE w = "len"
    BY <1>1, <1>2, <2>2 DEF Slice
  <2> QED BY <2>1, <2>2 DEF Words
<1>4. RegistryInv'
  BY <1>0, <1>3 DEF IndInv, RegistryInv
<1>5. ShapeInv' /\ LockInv'
  BY <1>0 DEF IndInv, ShapeInv, LockInv
<1>6. ListerInv'
  BY <1>0 DEF IndInv, LockInv, ListerInv
<1>7. ASSUME NEW h \in Handlers, pc'[h] = "read"
      PROVE  /\ since'[h] \subseteq Lists
             /\ Within(seen'[h], since'[h]) /\ Within(metricDefines', since'[h])
             /\ mdd' \in since'[h]
  <2>1. since'[h] = since[h] \cup {mdd} /\ since[h] \subseteq Lists /\ mdd \in Lists
    BY <1>0, <1>7 DEF IndInv, RegistryInv, ReadInv
  <2>2. Within(seen'[h], since'[h])
    BY <1>0, <1>7, <2>1 DEF IndInv, ReadInv, Within
  <2>3. Within(metricDefines, since[h])
    BY <1>0, <1>7 DEF IndInv, ReadInv
  <2>4. l \in since[h] /\ \E k \in since[h] : Len(l) = Len(k)
    BY <1>2, <2>3, SliceWords DEF Within, Words
  <2>5. Within(metricDefines', since'[h])
    <3>1. CASE metricDefines' = [array |-> l, len |-> Len(mdd)]
      BY <2>1, <2>4, <3>1 DEF Within
    <3>2. CASE metricDefines' = [array |-> mdd, len |-> Len(l)]
      BY <2>1, <2>4, <3>2 DEF Within
    <3> QED BY <1>3, <3>1, <3>2
  <2> QED BY <1>0, <2>1, <2>2, <2>5
<1>8. ReadInv'
  BY <1>7 DEF ReadInv
<1> QED BY <1>4, <1>5, <1>6, <1>8 DEF IndInv

\* The second store.
LEMMA StoreRestKeeps ==
  ASSUME IndInv, StoreRest
  PROVE  IndInv'
<1>0. /\ refresher = "stored" /\ refresher' = "unlock"
      /\ metricDefines' = Slice(mdd)
      /\ UNCHANGED <<oap, lock, mdd, pc, seen, md, ans, since>>
  BY DEF StoreRest, requests
<1>1. RegistryInv'
  BY <1>0 DEF IndInv, RegistryInv
<1>2. ShapeInv' /\ LockInv'
  BY <1>0 DEF IndInv, ShapeInv, LockInv
<1>3. ListerInv'
  BY <1>0 DEF IndInv, LockInv, ListerInv
<1>4. ASSUME NEW h \in Handlers, pc[h] = "read"
      PROVE  Within(metricDefines', since[h])
  <2>1. mdd \in since[h]
    BY <1>0, <1>4 DEF IndInv, ReadInv
  <2> QED BY <1>0, <2>1, SliceWords DEF Within
<1>5. ReadInv'
  BY <1>0, <1>4 DEF IndInv, ReadInv
<1> QED BY <1>1, <1>2, <1>3, <1>5 DEF IndInv

----------------------------------------------------------------------------
(* The steps of the requests *)

\* A step of request h leaves the registry and the other requests as they are.
Alone(h) ==
  /\ UNCHANGED <<oap, metricDefines, refresher, mdd>>
  /\ ShapeInv'
  /\ \A k \in Handlers \ {h} :
       pc'[k] = pc[k] /\ seen'[k] = seen[k] /\ since'[k] = since[k]

\* What then remains to be shown is about request h and the lock.
LEMMA AloneKeeps ==
  ASSUME IndInv, NEW h \in Handlers, Alone(h), LockInv',
         pc'[h] = "read" =>
           /\ since'[h] \subseteq Lists
           /\ Within(seen'[h], since'[h]) /\ Within(metricDefines, since'[h])
           /\ refresher = "stored" => mdd \in since'[h]
           /\ h \in Listers =>
                /\ \A w \in DOMAIN seen'[h] : seen'[h][w] = metricDefines[w]
                /\ metricDefines.array \in since'[h]
  PROVE  IndInv'
<1>1. RegistryInv'
  BY DEF IndInv, RegistryInv, Alone
<1>2. ListerInv'
  BY DEF IndInv, ListerInv, Alone, Handlers
<1>3. ReadInv'
  <2> SUFFICES ASSUME NEW k \in Handlers, pc'[k] = "read"
               PROVE  /\ since'[k] \subseteq Lists
                      /\ Within(seen'[k], since'[k])
                      /\ Within(metricDefines', since'[k])
                      /\ refresher' = "stored" => mdd' \in since'[k]
    BY DEF ReadInv
  <2>1. CASE k = h
    BY <2>1 DEF Alone
  <2>2. CASE k # h
    BY <2>2 DEF Alone, IndInv, ReadInv
  <2> QED BY <2>1, <2>2
<1> QED BY <1>1, <1>2, <1>3 DEF IndInv, Alone

\* A request begins to read: with the lists the registry has now.
LEMMA BeginKeeps ==
  ASSUME IndInv, NEW h \in Handlers, Begin(h),
         UNCHANGED <<oap, metricDefines, refresher, mdd, md, ans>>,
         LockInv'
  PROVE  IndInv'
<1>1. /\ pc' = [pc EXCEPT ![h] = "read"] /\ seen' = [seen EXCEPT ![h] = << >>]
      /\ since' = [since EXCEPT ![h] = Current]
  BY DEF Begin
<1>2. /\ pc'[h] = "read" /\ seen'[h] = << >> /\ since'[h] = Current
      /\ DOMAIN seen'[h] = {}
  BY <1>1 DEF IndInv, ShapeInv
<1>3. Alone(h)
  BY <1>1, <1>2 DEF Alone, IndInv, ShapeInv
<1>4. /\ DOMAIN metricDefines = Words /\ Current \subseteq Lists
      /\ Within(metricDefines, Current)
      /\ refresher = "stored" => mdd \in Current
  BY CurrentHas DEF IndInv
<1>5. h \in Listers => metricDefines.array \in Current
  BY <1>4 DEF Within, Words
<1>6. Within(seen'[h], since'[h])
  BY <1>2 DEF Within
<1> QED BY <1>2, <1>3, <1>4, <1>5, <1>6, AloneKeeps

\* A step of h after which h does not read.
LEMMA LeaveKeeps ==
  ASSUME IndInv, NEW h \in Handlers, Alone(h), pc'[h] # "read", LockInv'
  PROVE  IndInv'
BY AloneKeeps

\* One word of the slice is loaded.
LEMMA ReadWordKeeps ==
  ASSUME IndInv, NEW h \in Handlers, NEW w \in Words, ReadWord(h, w)
  PROVE  IndInv'
<1> DEFINE loaded == [v \in DOMAIN seen[h] \cup {w} |->
                        IF v = w THEN metricDefines[w] ELSE seen[h][v]]
<1>1. /\ pc[h] = "read" /\ w \notin DOMAIN seen[h]
      /\ seen' = [seen EXCEPT ![h] = loaded]
      /\ UNCHANGED <<oap, metricDefines, lock, refresher, mdd, pc, md, ans, since>>
  BY DEF ReadWord, registry
<1>2. seen'[h] = loaded /\ DOMAIN loaded = DOMAIN seen[h] \cup {w}
  BY <1>1 DEF IndInv, ShapeInv
<1>3. /\ loaded[w] = metricDefines[w]
      /\ \A v \in DOMAIN seen[h] : loaded[v] = seen[h][v]
  BY <1>1
<1> HIDE DEF loaded
<1>4. Alone(h)
  <2>1. DOMAIN loaded \subseteq Words
    BY <1>2 DEF IndInv, ShapeInv
  <2> QED BY <1>1, <1>2, <2>1 DEF Alone, IndInv, ShapeInv
<1>5. LockInv'
  BY <1>1 DEF IndInv, LockInv
<1>6. /\ since[h] \subseteq Lists
      /\ Within(seen[h], since[h]) /\ Within(metricDefines, since[h])
      /\ refresher = "stored" => mdd \in since[h]
      /\ h \in Listers => /\ \A v \in DOMAIN seen[h] : seen[h][v] = metricDefines[v]
                          /\ metricDefines.array \in since[h]
  BY <1>1 DEF IndInv, ReadInv, ListerInv
<1>7. DOMAIN metricDefines = Words
  BY CurrentHas DEF IndInv
<1>8. Within(loaded, since[h])
  BY <1>2, <1>3, <1>6, <1>7 DEF Within, Words
<1>9. h \in Listers => \A v \in DOMAIN loaded : loaded[v] = metricDefines[v]
  BY <1>2, <1>3, <1>6
<1> QED BY <1>1, <1>2, <1>4, <1>5, <1>6, <1>8, <1>9, AloneKeeps

\* The steps of a request for the list.
LEMMA ListerKeeps ==
  ASSUME IndInv, NEW h \in Listers, List(h) \/ RLock(h) \/ Collect(h)
  PROVE  IndInv'
<1>0. h \in Handlers
  BY DEF Handlers
<1>1. CASE List(h)
  <2>1. /\ pc[h] = "idle" /\ pc' = [pc EXCEPT ![h] = "rlock"]
        /\ UNCHANGED <<oap, metricDefines, lock, refresher, mdd, seen, md, ans, since>>
    BY <1>1 DEF List, registry
  <2>2. Alone(h) /\ pc'[h] # "read"
    BY <1>0, <2>1 DEF Alone, IndInv, ShapeInv
  <2>3. LockInv'
    BY <1>0, <2>1 DEF IndInv, LockInv, ShapeInv
  <2> QED BY <1>0, <2>2, <2>3, LeaveKeeps
<1>2. CASE RLock(h)
  <2>1. /\ pc[h] = "rlock" /\ lock.writer = "none" /\ Begin(h)
        /\ lock' = [lock EXCEPT !.readers = @ \cup {h}]
        /\ UNCHANGED <<oap, metricDefines, refresher, mdd, md, ans>>
    BY <1>2 DEF RLock
  <2>2. pc' = [pc EXCEPT ![h] = "read"]
    BY <2>1 DEF Begin
  <2>3. /\ DOMAIN lock' = {"writer", "readers"} /\ lock'.writer = lock.writer
        /\ lock'.readers = lock.readers \cup {h}
    BY <2>1 DEF IndInv, LockInv
  <2>4. LockInv'
    BY <1>0, <2>1, <2>2, <2>3 DEF IndInv, LockInv, ShapeInv, Handlers
  <2> QED BY <1>0, <2>1, <2>4, BeginKeeps
<1>3. CASE Collect(h)
  <2>1. /\ pc[h] = "read" /\ pc' = [pc EXCEPT ![h] = "runlock"]
        /\ DOMAIN ans' = DOMAIN ans
        /\ seen' = [seen EXCEPT ![h] = << >>]
        /\ since' = [since EXCEPT ![h] = {}]
        /\ UNCHANGED <<oap, metricDefines, lock, refresher, mdd, md>>
    BY <1>3 DEF Collect, End, registry
  <2>2. Alone(h) /\ pc'[h] # "read"
    BY <1>0, <2>1 DEF Alone, IndInv, ShapeInv
  <2>3. LockInv'
    BY <1>0, <2>1 DEF IndInv, LockInv, ShapeInv, Handlers
  <2> QED BY <1>0, <2>2, <2>3, LeaveKeeps
<1> QED BY <1>1, <1>2, <1>3

\* RUnlock.
LEMMA RUnlockKeeps ==
  ASSUME IndInv, NEW h \in Handlers, RUnlock(h)
  PROVE  IndInv'
<1>1. /\ pc[h] = "runlock" /\ pc' = [pc EXCEPT ![h] = "idle"]
      /\ lock' = [lock EXCEPT !.readers = @ \ {h}]
      /\ DOMAIN ans' = DOMAIN ans
      /\ UNCHANGED <<oap, metricDefines, refresher, mdd, seen, md, since>>
  BY DEF RUnlock
<1>2. Alone(h) /\ pc'[h] # "read"
  BY <1>1 DEF Alone, IndInv, ShapeInv
<1>3. /\ DOMAIN lock' = {"writer", "readers"} /\ lock'.writer = lock.writer
      /\ lock'.readers = lock.readers \ {h}
  BY <1>1 DEF IndInv, LockInv
<1>4. LockInv'
  BY <1>1, <1>3 DEF IndInv, LockInv, ShapeInv, Handlers
<1> QED BY <1>2, <1>4, LeaveKeeps

\* The steps of a request for a value.
LEMMA GetterKeeps ==
  ASSUME IndInv, NEW h \in Handlers,
         (\E i \in Infos : h \in Getters /\ Get(h, i)) \/ Lookup(h) \/ Query(h) \/ Reply(h)
  PROVE  IndInv'
<1>1. CASE \E i \in Infos : h \in Getters /\ Get(h, i)
  <2>1. /\ h \in Getters /\ Begin(h)
        /\ UNCHANGED <<oap, metricDefines, lock, refresher, mdd, md, ans>>
    BY <1>1 DEF Get, registry
  <2>2. pc' = [pc EXCEPT ![h] = "read"]
    BY <2>1 DEF Begin
  <2>3. LockInv'
    BY <2>1, <2>2, RequestsAssumption DEF IndInv, LockInv, ShapeInv, Handlers
  <2> QED BY <2>1, <2>3, BeginKeeps
<1>2. CASE Lookup(h) \/ Query(h) \/ Reply(h)
  <2>1. /\ pc[h] \in {"query", "done"} \/ h \in Getters
        /\ \E to \in {"query", "done", "idle"} : pc' = [pc EXCEPT ![h] = to]
        /\ DOMAIN ans' = DOMAIN ans /\ DOMAIN md' = DOMAIN md
        /\ \/ UNCHANGED <<seen, since>>
           \/ /\ seen' = [seen EXCEPT ![h] = << >>]
              /\ since' = [since EXCEPT ![h] = {}]
        /\ UNCHANGED <<oap, metricDefines, lock, refresher, mdd>>
    <3>1. CASE Lookup(h)
      BY <3>1 DEF Lookup, End, registry
    <3>2. CASE Query(h)
      BY <3>2 DEF Query, registry
    <3>3. CASE Reply(h)
      BY <3>3 DEF Reply, registry
    <3> QED BY <1>2, <3>1, <3>2, <3>3
  <2>2. Alone(h) /\ pc'[h] # "read"
    BY <2>1 DEF Alone, IndInv, ShapeInv
  <2>3. h \notin Listers
    BY <2>1, RequestsAssumption DEF IndInv, LockInv
  <2>4. LockInv'
    BY <2>1, <2>3 DEF IndInv, LockInv, ShapeInv, Handlers
  <2> QED BY <2>2, <2>4, LeaveKeeps
<1> QED BY <1>1, <1>2

----------------------------------------------------------------------------
(* Every step *)

\* The invariant holds initially.
LEMMA InitHolds == Init => IndInv
<1> SUFFICES ASSUME Init PROVE IndInv
  OBVIOUS
<1>1. << >> \in Lists
  BY DEF Lists
<1>2. ShapeInv
  BY DEF Init, ShapeInv
<1>3. RegistryInv
  BY <1>1 DEF Init, RegistryInv
<1>4. LockInv /\ ListerInv /\ ReadInv
  BY DEF Init, LockInv, ListerInv, ReadInv, Handlers
<1> QED BY <1>2, <1>3, <1>4 DEF IndInv

\* A new process starts with the invariant.
LEMMA RestartKeeps ==
  ASSUME IndInv, Restarted
  PROVE  IndInv'
<1>1. << >> \in Lists
  BY DEF Lists
<1>2. ShapeInv'
  BY DEF Restarted, ShapeInv
<1>3. RegistryInv'
  BY <1>1 DEF IndInv, Restarted, RegistryInv
<1>4. LockInv' /\ ListerInv' /\ ReadInv'
  BY DEF Restarted, LockInv, ListerInv, ReadInv, Handlers
<1> QED BY <1>2, <1>3, <1>4 DEF IndInv

\* Every step keeps the invariant.
LEMMA StepKeeps ==
  ASSUME IndInv, [Next]_vars
  PROVE  IndInv'
<1>1. CASE (\E o \in Oaps : ChangeOap(o)) \/ UNCHANGED vars
  BY <1>1, QuietKeeps
<1>2. CASE Refresh
  BY <1>2, QuietKeeps, StoreHalfKeeps, StoreRestKeeps DEF Refresh
<1>3. CASE Restart
  BY <1>3, RestartKeeps DEF Restart
<1>4. ASSUME NEW h \in Listers, List(h) \/ RLock(h)
      PROVE  IndInv'
  BY <1>4, ListerKeeps
<1>5. ASSUME NEW h \in Getters, LookupDies(h) \/ \E i \in Infos : Get(h, i)
      PROVE  IndInv'
  BY <1>5, RestartKeeps, GetterKeeps DEF LookupDies, Handlers
<1>6. ASSUME NEW h \in Handlers, Serve(h)
      PROVE  IndInv'
  <2>1. CASE \E w \in Words : ReadWord(h, w)
    BY <2>1, ReadWordKeeps
  <2>2. CASE Collect(h)
    <3>1. h \in Listers
      BY <2>2 DEF Collect
    <3> QED BY <2>2, <3>1, ListerKeeps
  <2>3. CASE RUnlock(h)
    BY <2>3, RUnlockKeeps
  <2>4. CASE Lookup(h) \/ Query(h) \/ Reply(h)
    BY <2>4, GetterKeeps
  <2> QED BY <1>6, <2>1, <2>2, <2>3, <2>4 DEF Serve
<1> QED BY <1>1, <1>2, <1>3, <1>4, <1>5, <1>6 DEF Next

\* The inductive invariant holds always.
LEMMA IndInvHolds == Spec => []IndInv
<1>1. IndInv /\ [Next]_vars => IndInv'
  BY StepKeeps
<1> QED BY InitHolds, <1>1, PTL DEF Spec

----------------------------------------------------------------------------
(* Answers *)

\* Only Collect gives a request for the list an answer.
LEMMA ListerAnswers ==
  ASSUME IndInv, [Next]_vars, NEW h \in Listers, ans[h] = None, ans'[h] # None
  PROVE  Collect(h)
<1>0. h \in Handlers /\ DOMAIN ans = Handlers /\ h \notin Getters
  BY RequestsAssumption DEF IndInv, ShapeInv, Handlers
<1>1. ASSUME ans' = ans \/ ans' = [k \in Handlers |-> None]
      PROVE  FALSE
  BY <1>0, <1>1
<1>2. ASSUME NEW k \in Handlers, NEW a, ans' = [ans EXCEPT ![k] = a],
             a = None \/ k # h
      PROVE  FALSE
  BY <1>0, <1>2
<1>3. CASE UNCHANGED vars \/ (\E o \in Oaps : ChangeOap(o)) \/ Refresh
  BY <1>1, <1>3 DEF vars, requests, ChangeOap, Refresh, Tick, ListMetrics, LockRequest,
                    LockAcquire, StoreHalf, StoreRest, Unlock
<1>4. CASE Restart \/ \E k \in Getters : LookupDies(k)
  BY <1>1, <1>4 DEF Restart, LookupDies, Restarted
<1>5. CASE \E k \in Listers : List(k) \/ RLock(k)
  BY <1>1, <1>5 DEF List, RLock
<1>6. CASE \E k \in Getters : \E i \in Infos : Get(k, i)
  BY <1>1, <1>6 DEF Get
<1>7. ASSUME NEW k \in Handlers, Serve(k)
      PROVE  Collect(h)
  <2>1. CASE \E w \in Words : ReadWord(k, w)
    BY <1>1, <2>1 DEF ReadWord
  <2>2. CASE Collect(k)
    <3>1. PICK a : ans' = [ans EXCEPT ![k] = a]
      BY <2>2 DEF Collect
    <3> QED BY <1>2, <2>2, <3>1
  <2>3. CASE RUnlock(k) \/ Reply(k)
    BY <1>2, <2>3 DEF RUnlock, Reply
  <2>4. CASE Lookup(k)
    <3>1. PICK a : ans' = [ans EXCEPT ![k] = a]
      BY <2>4 DEF Lookup
    <3> QED BY <1>0, <1>2, <2>4, <3>1 DEF Lookup
  <2>5. CASE Query(k)
    <3>1. PICK a : ans' = [ans EXCEPT ![k] = a]
      BY <2>5 DEF Query
    <3>2. k \notin Listers
      BY <2>5 DEF Query, IndInv, LockInv
    <3> QED BY <1>2, <3>1, <3>2
  <2> QED BY <1>7, <2>1, <2>2, <2>3, <2>4, <2>5 DEF Serve
<1> QED BY <1>3, <1>4, <1>5, <1>6, <1>7 DEF Next

\* The list that Collect answers with is one of those the registry had.
LEMMA CollectIsSnapshot ==
  ASSUME IndInv, NEW h \in Listers, Collect(h)
  PROVE  \E l \in since[h] : ans'[h] = [i \in DOMAIN l |-> Qualified(l[i].name)]
<1>1. /\ pc[h] = "read" /\ DOMAIN seen[h] = Words
      /\ ans' = [ans EXCEPT ![h] =
           IF seen[h].len > Len(seen[h].array) THEN Garbage
           ELSE [i \in 1 .. seen[h].len |-> Qualified(seen[h].array[i].name)]]
  BY DEF Collect
<1>2. refresher # "stored"
  BY <1>1 DEF IndInv, LockInv
<1>3. metricDefines.array \in Lists /\ metricDefines = Slice(metricDefines.array)
  BY <1>2, CurrentHas DEF IndInv
<1>4. PICK l \in Lists : l = metricDefines.array
  BY <1>3
<1>5. l \in since[h] /\ seen[h].array = l /\ seen[h].len = Len(l)
  BY <1>1, <1>3, <1>4, SliceWords DEF IndInv, ListerInv, Words
<1>6. Len(l) \in Nat /\ DOMAIN l = 1 .. Len(l)
  BY ListIsSeq
<1>7. h \in DOMAIN ans
  BY DEF IndInv, ShapeInv, Handlers
<1>8. ans'[h] = [i \in DOMAIN l |-> Qualified(l[i].name)]
  BY <1>1, <1>5, <1>6, <1>7
<1> QED BY <1>5, <1>8

\* The answer of ListAllExternalMetrics is one whole list the registry had while
\* the request read it: the RWMutex keeps the refresh out between the two loads.
THEOREM ListsAreSnapshots == Spec => ListIsSnapshot
<1>1. IndInv /\ [Next]_vars
        => [\A h \in Listers : ans[h] = None /\ ans'[h] # None =>
              \E l \in since[h] :
                ans'[h] = [i \in DOMAIN l |-> Qualified(l[i].name)]]_vars
  BY ListerAnswers, CollectIsSnapshot
<1> QED BY <1>1, IndInvHolds, PTL DEF Spec, ListIsSnapshot

\* Only Lookup gives a request for a value its definition.
LEMMA GetterLooksUp ==
  ASSUME IndInv, [Next]_vars, NEW g \in Getters, md[g] = None, md'[g] # None
  PROVE  /\ pc[g] = "read" /\ DOMAIN seen[g] = Words
         /\ md'[g] \in Finds(g)
<1>0. g \in Handlers /\ DOMAIN md = Handlers
  BY DEF IndInv, ShapeInv, Handlers
<1>1. ASSUME md' = md \/ md' = [k \in Handlers |-> None]
      PROVE  FALSE
  BY <1>0, <1>1
<1>2. ASSUME NEW k \in Handlers, NEW d, md' = [md EXCEPT ![k] = d],
             d = None \/ k # g
      PROVE  FALSE
  BY <1>0, <1>2
<1>3. CASE UNCHANGED vars \/ (\E o \in Oaps : ChangeOap(o)) \/ Refresh
  BY <1>1, <1>3 DEF vars, requests, ChangeOap, Refresh, Tick, ListMetrics, LockRequest,
                    LockAcquire, StoreHalf, StoreRest, Unlock
<1>4. CASE Restart \/ \E k \in Getters : LookupDies(k)
  BY <1>1, <1>4 DEF Restart, LookupDies, Restarted
<1>5. CASE \/ \E k \in Listers : List(k) \/ RLock(k)
           \/ \E k \in Getters : \E i \in Infos : Get(k, i)
  BY <1>1, <1>5 DEF List, RLock, Get
<1>6. ASSUME NEW k \in Handlers, Serve(k)
      PROVE  /\ pc[g] = "read" /\ DOMAIN seen[g] = Words
             /\ md'[g] \in Finds(g)
  <2>1. CASE (\E w \in Words : ReadWord(k, w)) \/ Collect(k) \/ RUnlock(k) \/ Query(k)
    BY <1>1, <2>1 DEF ReadWord, Collect, RUnlock, Query
  <2>2. CASE Reply(k)
    BY <1>2, <2>2 DEF Reply
  <2>3. CASE Lookup(k)
    <3>1. PICK d \in Finds(k) : md' = [md EXCEPT ![k] = d]
      BY <2>3 DEF Lookup
    <3>2. k = g
      BY <1>2, <3>1
    <3>3. md'[g] = d
      BY <1>0, <3>1, <3>2
    <3> QED BY <2>3, <3>1, <3>2, <3>3 DEF Lookup
  <2> QED BY <1>6, <2>1, <2>2, <2>3 DEF Serve
<1> QED BY <1>3, <1>4, <1>5, <1>6 DEF Next

\* With lists of one length, the words a lookup has loaded, of whichever lists,
\* make up a list the registry had, and the lookup finds what that list has.
LEMMA LookupIsExact ==
  ASSUME IndInv, NEW g \in Getters, pc[g] = "read", DOMAIN seen[g] = Words,
         \A l, k \in since[g] : Len(l) = Len(k)
  PROVE  Finds(g) \subseteq {Find(l, info[g].metric) : l \in since[g]}
<1>1. g \in Handlers
  BY DEF Handlers
<1>2. since[g] \subseteq Lists /\ Within(seen[g], since[g])
  BY <1>1 DEF IndInv, ReadInv
<1>3. PICK l \in since[g] : l = seen[g].array
  BY <1>2 DEF Within, Words
<1>4. seen[g].len = Len(l)
  BY <1>2 DEF Within, Words
<1>5. l \in Seq(ToSet(l)) /\ Len(l) \in Nat
  BY <1>2, <1>3, ListIsSeq
<1>6. SubSeq(l, 1, Len(l)) = l
  BY <1>5
<1>7. Finds(g) = {Find(SubSeq(l, 1, Len(l)), info[g].metric)}
  BY <1>3, <1>4, <1>5 DEF Finds
<1> QED BY <1>3, <1>6, <1>7

\* GetExternalMetric, which takes no lock, uses a definition that one of the lists
\* has which took each other's place while it read, if these have one length.
THEOREM GetsAreExact == Spec => GetExact
<1>1. ASSUME IndInv, [Next]_vars, NEW g \in Getters, md[g] = None, md'[g] # None,
             \A l, k \in since[g] : Len(l) = Len(k)
      PROVE  md'[g] \in {Find(l, info[g].metric) : l \in since[g]}
  BY <1>1, GetterLooksUp, LookupIsExact
<1>2. IndInv /\ [Next]_vars
        => [\A g \in Getters :
              (/\ md[g] = None /\ md'[g] # None
               /\ \A l, k \in since[g] : Len(l) = Len(k))
                => md'[g] \in {Find(l, info[g].metric) : l \in since[g]}]_vars
  BY <1>1
<1> QED BY <1>2, IndInvHolds, PTL DEF Spec, GetExact

----------------------------------------------------------------------------
(* Numbers and loops *)

\* A set of numbers that is not empty has a least one.
LEMMA Least ==
  ASSUME NEW T, T \subseteq Nat, T # {}
  PROVE  \E m \in T : \A n \in T : m <= n
<1>1. \A n, m \in Nat : n < m => <<n, m>> \in OpToRel(<, Nat)
  BY DEF OpToRel
<1>2. \E m \in T : \A n \in T : ~(<<n, m>> \in OpToRel(<, Nat))
  BY NatLessThanWellFounded, WFMin
<1>3. PICK m \in T : \A n \in T : ~(<<n, m>> \in OpToRel(<, Nat))
  BY <1>2
<1>4. ASSUME NEW n \in T PROVE ~(n < m)
  <2>1. n \in Nat /\ m \in Nat
    OBVIOUS
  <2>2. ~(<<n, m>> \in OpToRel(<, Nat))
    BY <1>3
  <2> QED BY <1>1, <2>1, <2>2, Zenon
<1> QED BY <1>4

\* Induction, for a set instead of a predicate.
LEMMA Induction ==
  ASSUME NEW S, 0 \in S, \A n \in Nat : n \in S => n + 1 \in S
  PROVE  Nat \subseteq S
<1> SUFFICES ASSUME ~(Nat \subseteq S) PROVE FALSE
  OBVIOUS
<1>1. PICK m \in Nat \ S : \A n \in Nat \ S : m <= n
  BY Least
<1>2. m # 0 /\ m - 1 \in Nat
  BY <1>1
<1>3. m - 1 \in S
  BY <1>1, <1>2
<1> QED BY <1>1, <1>2, <1>3

\* f gives the value, in S, of a loop after each number of its N turns.
IsLoop(f, N, S, base, step) ==
  /\ f \in [0 .. N -> S] /\ f[0] = base
  /\ \A n \in 1 .. N : f[n] = step[<<f[n - 1], n>>]

\* A loop has a value after each number of its turns.
LEMMA LoopIsDefined ==
  ASSUME NEW N \in Nat, NEW S, NEW base \in S, NEW step \in [S \X (1 .. N) -> S]
  PROVE  \E f : IsLoop(f, N, S, base, step)
<1> DEFINE Run(m, f) ==
             f[0] = base /\ \A n \in 1 .. m : f[n] = step[<<f[n - 1], n>>]
           Turns == {m \in Nat : m <= N => \E f \in [0 .. m -> S] : Run(m, f)}
<1>1. 0 \in Turns
  <2> DEFINE f == [n \in 0 .. 0 |-> base]
  <2>1. f \in [0 .. 0 -> S] /\ Run(0, f)
    OBVIOUS
  <2> QED BY <2>1
<1>2. ASSUME NEW m \in Nat, m \in Turns PROVE m + 1 \in Turns
  <2> SUFFICES ASSUME m + 1 <= N
               PROVE  \E f \in [0 .. m + 1 -> S] : Run(m + 1, f)
    OBVIOUS
  <2>1. PICK g \in [0 .. m -> S] : Run(m, g)
    BY <1>2
  <2> DEFINE f == [n \in 0 .. m + 1 |->
                     IF n = m + 1 THEN step[<<g[m], m + 1>>] ELSE g[n]]
  <2>2. step[<<g[m], m + 1>>] \in S
    BY <2>1
  <2>3. f \in [0 .. m + 1 -> S]
    BY <2>1, <2>2
  <2>4. f[0] = base
    BY <2>1
  <2>5. ASSUME NEW n \in 1 .. m + 1 PROVE f[n] = step[<<f[n - 1], n>>]
    <3>1. n - 1 \in 0 .. m /\ n - 1 # m + 1 /\ f[n - 1] = g[n - 1]
      OBVIOUS
    <3>2. CASE n = m + 1
      <4>1. f[n] = step[<<g[m], m + 1>>] /\ n - 1 = m
        BY <3>2
      <4>2. f[n - 1] = g[m]
        BY <3>1, <4>1
      <4> HIDE DEF f
      <4> QED BY <3>2, <4>1, <4>2
    <3>3. CASE n # m + 1
      <4>1. n \in 1 .. m /\ f[n] = g[n]
        BY <3>3
      <4> QED BY <2>1, <3>1, <4>1
    <3> QED BY <3>2, <3>3
  <2> QED BY <2>3, <2>4, <2>5
<1>3. N \in Turns
  <2> HIDE DEF Turns
  <2> QED BY <1>1, <1>2, Induction
<1> QED BY <1>3 DEF IsLoop

----------------------------------------------------------------------------
(* Strings, one behind the other *)

\* p[n] is what the first n of the strings x come to, one behind the other.
IsJoin(p, x, T) ==
  /\ p \in [0 .. Len(x) -> Seq(T)] /\ p[0] = << >>
  /\ \A n \in 1 .. Len(x) : p[n] = p[n - 1] \o x[n]

\* FlattenSeq joins all of them.
LEMMA FlattenJoins ==
  ASSUME NEW T, NEW x \in Seq(Seq(T))
  PROVE  \E p : IsJoin(p, x, T) /\ FlattenSeq(x) = p[Len(x)]
<1> DEFINE N == Len(x)
           step == [q \in Seq(T) \X (1 .. N) |-> q[1] \o x[q[2]]]
<1>1. /\ N \in Nat /\ \A n \in 1 .. N : x[n] \in Seq(T)
      /\ << >> \in Seq(T)
  OBVIOUS
<1>2. step \in [Seq(T) \X (1 .. N) -> Seq(T)]
  <2> SUFFICES ASSUME NEW q \in Seq(T) \X (1 .. N) PROVE q[1] \o x[q[2]] \in Seq(T)
    OBVIOUS
  <2>1. q[1] \in Seq(T) /\ x[q[2]] \in Seq(T)
    BY <1>1
  <2> QED BY <2>1
<1>3. PICK p : IsLoop(p, N, Seq(T), << >>, step)
  <2> HIDE DEF step, N
  <2> QED BY <1>1, <1>2, LoopIsDefined
<1>4. IsJoin(p, x, T)
  <2>1. p \in [0 .. N -> Seq(T)] /\ p[0] = << >>
    BY <1>3 DEF IsLoop
  <2>2. ASSUME NEW n \in 1 .. N PROVE p[n] = p[n - 1] \o x[n]
    <3>0. n - 1 \in 0 .. N
      <4> HIDE DEF N, step
      <4> QED BY <1>1
    <3>1. p[n - 1] \in Seq(T)
      <4> HIDE DEF N, step
      <4> QED BY <2>1, <3>0
    <3>2. step[<<p[n - 1], n>>] = p[n - 1] \o x[n]
      BY <3>1
    <3> HIDE DEF step
    <3> QED BY <1>3, <3>2 DEF IsLoop
  <2> HIDE DEF step
  <2> QED BY <2>1, <2>2 DEF IsJoin
<1>5. FlattenSeq(x) = p[N]
  <2>1. CASE N = 0
    BY <1>4, <2>1 DEF FlattenSeq, IsJoin
  <2>2. CASE N # 0
    <3> DEFINE f == [i \in 1 .. N |-> p[i]]
               flatten[i \in 1 .. N] == IF i = 1 THEN x[i] ELSE flatten[i - 1] \o x[i]
    <3>1. FlattenSeq(x) = flatten[N]
      BY <2>2 DEF FlattenSeq
    <3>2. ASSUME NEW i \in 1 .. N
          PROVE  f[i] = IF i = 1 THEN x[i] ELSE f[i - 1] \o x[i]
      <4>1. p[i] = p[i - 1] \o x[i]
        BY <1>4 DEF IsJoin
      <4>2. CASE i = 1
        <5>1. i - 1 = 0 /\ p[0] = << >>
          BY <1>4, <4>2 DEF IsJoin
        <5>2. p[1] = << >> \o x[1]
          BY <4>1, <4>2, <5>1
        <5> QED BY <1>1, <4>2, <5>2
      <4>3. CASE i # 1
        <5>1. i - 1 \in 1 .. N
          BY <1>1, <4>3
        <5> QED BY <4>1, <4>3, <5>1
      <4> QED BY <4>2, <4>3
    <3>3. f = [i \in 1 .. N |-> IF i = 1 THEN x[i] ELSE f[i - 1] \o x[i]]
      <4>1. f = [i \in 1 .. N |-> f[i]]
        OBVIOUS
      <4> HIDE DEF f, N, flatten, step
      <4> QED BY <3>2, <4>1, Zenon
    <3>4. flatten = [i \in 1 .. N |-> IF i = 1 THEN x[i] ELSE flatten[i - 1] \o x[i]]
      <4> HIDE DEF f, N
      <4> QED BY <3>3
    <3> HIDE DEF flatten
    <3> DEFINE Turns == {m \in Nat : m \in 1 .. N => flatten[m] = p[m]}
    <3>5. 0 \in Turns
      OBVIOUS
    <3>6. ASSUME NEW m \in Nat, m \in Turns PROVE m + 1 \in Turns
      <4> SUFFICES ASSUME m + 1 \in 1 .. N PROVE flatten[m + 1] = p[m + 1]
        OBVIOUS
      <4>1. p[m + 1] = p[m] \o x[m + 1]
        <5>1. (m + 1) - 1 = m
          OBVIOUS
        <5> QED BY <1>4, <5>1 DEF IsJoin
      <4>2. CASE m = 0
        <5>1. p[0] = << >> /\ x[1] \in Seq(T)
          BY <1>1, <1>4, <4>2 DEF IsJoin
        <5>2. flatten[1] = x[1]
          BY <3>4, <4>2
        <5> QED BY <4>1, <4>2, <5>1, <5>2
      <4>3. CASE m # 0
        <5>1. m \in 1 .. N /\ m + 1 # 1 /\ (m + 1) - 1 = m
          BY <1>1, <4>3
        <5>2. flatten[m] = p[m]
          BY <3>6, <5>1
        <5>3. flatten[m + 1] = flatten[m] \o x[m + 1]
          BY <3>4, <5>1
        <5> QED BY <4>1, <5>2, <5>3
      <4> QED BY <4>2, <4>3
    <3>7. N \in Turns
      <4> HIDE DEF Turns, N
      <4> QED BY <1>1, <3>5, <3>6, Induction
    <3>8. N \in 1 .. N
      BY <1>1, <2>2
    <3> QED BY <3>1, <3>7, <3>8
  <2> QED BY <2>1, <2>2
<1> QED BY <1>4, <1>5

\* The buffer b holds the strings x at the numbers num, and is empty elsewhere.
Holds(b, x, num) ==
  /\ \A a \in 1 .. Len(x) : num[a] \in Nat /\ num[a] < Len(b) /\ b[num[a] + 1] = x[a]
  /\ \A a, c \in 1 .. Len(x) : a < c => num[a] < num[c]
  /\ \A j \in 1 .. Len(b) :
       (\A a \in 1 .. Len(x) : num[a] # j - 1) => b[j] = << >>

\* Then the buffer comes to what the strings come to.
LEMMA BufferJoins ==
  ASSUME NEW T, NEW b \in Seq(Seq(T)), NEW x \in Seq(Seq(T)), NEW num, Holds(b, x, num)
  PROVE  FlattenSeq(b) = FlattenSeq(x)
<1>1. PICK p : IsJoin(p, b, T) /\ FlattenSeq(b) = p[Len(b)]
  BY FlattenJoins
<1>2. PICK q : IsJoin(q, x, T) /\ FlattenSeq(x) = q[Len(x)]
  BY FlattenJoins
<1>0. Len(b) \in Nat /\ Len(x) \in Nat
  OBVIOUS
<1> DEFINE Split(n, j) == /\ \A a \in 1 .. n : num[a] < j
                          /\ \A a \in n + 1 .. Len(x) : num[a] >= j
           Turns == {j \in Nat : j <= Len(b) =>
                       \A n \in 0 .. Len(x) : Split(n, j) => p[j] = q[n]}
<1>3. 0 \in Turns
  <2> SUFFICES ASSUME NEW n \in 0 .. Len(x), Split(n, 0) PROVE p[0] = q[n]
    OBVIOUS
  <2>1. n = 0
    <3> SUFFICES ASSUME n # 0 PROVE FALSE
      OBVIOUS
    <3>1. 1 \in 1 .. n /\ 1 \in 1 .. Len(x)
      BY <1>0
    <3>2. num[1] < 0
      BY <3>1
    <3>3. num[1] \in Nat
      BY <3>1 DEF Holds
    <3> QED BY <3>2, <3>3
  <2> QED BY <1>1, <1>2, <2>1 DEF IsJoin
<1>4. ASSUME NEW j \in Nat, j \in Turns PROVE j + 1 \in Turns
  <2> SUFFICES ASSUME j + 1 <= Len(b), NEW n \in 0 .. Len(x), Split(n, j + 1)
               PROVE  p[j + 1] = q[n]
    <3> HIDE DEF Split
    <3> QED OBVIOUS
  <2>0. j + 1 \in 1 .. Len(b) /\ (j + 1) - 1 = j /\ j \in 0 .. Len(b)
    BY <1>0
  <2>1. p[j + 1] = p[j] \o b[j + 1] /\ p[j] \in Seq(T)
    BY <1>1, <2>0 DEF IsJoin
  <2>2. CASE n # 0 /\ num[n] = j
    <3>1. n \in 1 .. Len(x) /\ n - 1 \in 0 .. Len(x)
      BY <1>0, <2>2
    <3>2. Split(n - 1, j)
      <4>1. ASSUME NEW a \in 1 .. n - 1 PROVE num[a] < j
        <5>1. a \in 1 .. Len(x) /\ a < n
          BY <1>0, <3>1
        <5> QED BY <2>2, <3>1, <5>1 DEF Holds
      <4>2. ASSUME NEW a \in (n - 1) + 1 .. Len(x) PROVE num[a] >= j
        <5>1. CASE a = n
          BY <2>2, <5>1
        <5>2. CASE a # n
          <6>1. a \in n + 1 .. Len(x) /\ a \in 1 .. Len(x)
            BY <1>0, <3>1, <5>2
          <6>2. num[a] >= j + 1 /\ num[a] \in Nat
            BY <6>1 DEF Holds
          <6> QED BY <6>2
        <5> QED BY <5>1, <5>2
      <4> QED BY <4>1, <4>2
    <3>3. p[j] = q[n - 1]
      <4>1. j <= Len(b)
        BY <1>0
      <4> HIDE DEF Split
      <4> QED BY <1>4, <3>1, <3>2, <4>1
    <3>4. q[n] = q[n - 1] \o x[n]
      BY <1>2, <3>1 DEF IsJoin
    <3>5. b[j + 1] = x[n]
      BY <2>2, <3>1 DEF Holds
    <3> QED BY <2>1, <3>3, <3>4, <3>5
  <2>3. CASE ~(n # 0 /\ num[n] = j)
    <3>1. ASSUME NEW a \in 1 .. n PROVE num[a] < j
      <4>1. /\ n \in 1 .. Len(x) /\ a \in 1 .. Len(x) /\ n \in 1 .. n
            /\ num[a] \in Nat /\ num[n] \in Nat
        BY <1>0, SMTT(30) DEF Holds
      <4>2. num[n] < j
        BY <2>3, <4>1, SMTT(30)
      <4>3. CASE a = n
        BY <4>2, <4>3
      <4>4. CASE a # n
        <5>1. num[a] < num[n]
          BY <4>1, <4>4 DEF Holds
        <5> QED BY <4>1, <4>2, <5>1, SMTT(30)
      <4> QED BY <4>3, <4>4
    <3>2. ASSUME NEW a \in n + 1 .. Len(x) PROVE num[a] >= j /\ num[a] # j
      <4>1. a \in 1 .. Len(x)
        BY <1>0
      <4>2. num[a] \in Nat /\ num[a] >= j + 1
        BY <4>1 DEF Holds
      <4> QED BY <4>2
    <3>3. p[j] = q[n]
      <4>1. Split(n, j) /\ j <= Len(b)
        BY <1>0, <3>1, <3>2
      <4> HIDE DEF Split
      <4> QED BY <1>4, <4>1
    <3>4. b[j + 1] = << >>
      <4>1. ASSUME NEW a \in 1 .. Len(x) PROVE num[a] # (j + 1) - 1
        <5>1. CASE a \in 1 .. n
          <6>1. num[a] < j /\ num[a] \in Nat
            BY <3>1, <5>1 DEF Holds
          <6> QED BY <6>1
        <5>2. CASE a \in n + 1 .. Len(x)
          BY <2>0, <3>2, <5>2
        <5> QED BY <1>0, <5>1, <5>2
      <4> QED BY <2>0, <4>1 DEF Holds
    <3> QED BY <2>1, <3>3, <3>4
  <2> QED BY <2>2, <2>3
<1>5. Len(b) \in Turns
  <2> HIDE DEF Turns
  <2> QED BY <1>0, <1>3, <1>4, Induction
<1>6. Split(Len(x), Len(b)) /\ Len(x) \in 0 .. Len(x) /\ Len(b) <= Len(b)
  BY <1>0 DEF Holds
<1>7. p[Len(b)] = q[Len(x)]
  <2> HIDE DEF Split
  <2> QED BY <1>5, <1>6
<1> QED BY <1>1, <1>2, <1>7

----------------------------------------------------------------------------
(* Lists in the order of their numbers *)

\* o lists the members of M, by the numbers s gives them, and lists each.
IsListed(o, M, s) ==
  /\ \A a, c \in DOMAIN o : a < c => s[o[a]].index < s[o[c]].index
  /\ \A i \in M : \E a \in DOMAIN o : o[a] = i

\* A set whose members have different numbers, below a bound, can be listed so.
LEMMA SortedExists ==
  ASSUME NEW M, NEW s, NEW bound \in Nat,
         \A i \in M : s[i].index \in Nat /\ s[i].index < bound,
         \A i, j \in M : s[i].index = s[j].index => i = j
  PROVE  \E n \in Nat : \E o \in [1 .. n -> M] : IsListed(o, M, s)
<1> DEFINE Below(m) == {i \in M : s[i].index < m}
           Turns == {m \in Nat :
             \E n \in Nat : \E o \in [1 .. n -> Below(m)] : IsListed(o, Below(m), s)}
<1>1. 0 \in Turns
  <2>1. Below(0) = {}
    OBVIOUS
  <2> DEFINE o == [a \in 1 .. 0 |-> a]
  <2>2. o \in [1 .. 0 -> Below(0)] /\ DOMAIN o = {}
    OBVIOUS
  <2> HIDE DEF o, Below
  <2>3. IsListed(o, Below(0), s)
    BY <2>1, <2>2 DEF IsListed
  <2> QED BY <2>2, <2>3
<1>2. ASSUME NEW m \in Nat, m \in Turns PROVE m + 1 \in Turns
  <2>0. PICK n \in Nat : \E o \in [1 .. n -> Below(m)] : IsListed(o, Below(m), s)
    BY <1>2
  <2>1. PICK o \in [1 .. n -> Below(m)] : IsListed(o, Below(m), s)
    BY <2>0
  <2>2. CASE \A i \in M : s[i].index # m
    <3>1. Below(m + 1) = Below(m)
      BY <2>2
    <3> HIDE DEF Below
    <3> QED BY <2>1, <3>1
  <2>3. CASE \E i \in M : s[i].index = m
    <3>1. PICK k \in M : s[k].index = m
      BY <2>3
    <3> DEFINE e == [a \in 1 .. n + 1 |-> IF a = n + 1 THEN k ELSE o[a]]
    <3>2. Below(m + 1) = Below(m) \cup {k}
      BY <3>1
    <3>3. ASSUME NEW a \in 1 .. n + 1, a # n + 1
          PROVE  a \in 1 .. n /\ e[a] = o[a] /\ o[a] \in Below(m)
      <4> HIDE DEF Below
      <4> QED BY <2>1, <3>3
    <3>4. e[n + 1] = k /\ DOMAIN e = 1 .. n + 1 /\ DOMAIN o = 1 .. n
      OBVIOUS
    <3>5. e \in [1 .. n + 1 -> Below(m + 1)]
      <4> HIDE DEF Below
      <4> QED BY <3>2, <3>3
    <3>6. ASSUME NEW a \in 1 .. n + 1, NEW c \in 1 .. n + 1, a < c
          PROVE  s[e[a]].index < s[e[c]].index
      <4> HIDE DEF e
      <4>1. a # n + 1 /\ e[a] = o[a] /\ o[a] \in Below(m) /\ a \in 1 .. n
        BY <3>3, <3>6
      <4>2. CASE c = n + 1
        BY <3>1, <3>4, <4>1, <4>2
      <4>3. CASE c # n + 1
        <5>1. c \in 1 .. n /\ e[c] = o[c]
          BY <3>3, <4>3
        <5> HIDE DEF Below
        <5> QED BY <2>1, <3>4, <3>6, <4>1, <5>1 DEF IsListed
      <4> QED BY <4>2, <4>3
    <3>7. ASSUME NEW i \in Below(m + 1) PROVE \E a \in 1 .. n + 1 : e[a] = i
      <4>1. CASE i = k
        BY <3>4, <4>1
      <4>2. CASE i # k
        <5> HIDE DEF Below
        <5>1. i \in Below(m)
          BY <3>2, <3>7, <4>2
        <5>2. PICK a \in 1 .. n : o[a] = i
          BY <2>1, <3>4, <5>1 DEF IsListed
        <5>3. a \in 1 .. n + 1 /\ e[a] = i
          BY <5>2
        <5> QED BY <5>3
      <4> QED BY <4>1, <4>2
    <3> HIDE DEF e, Below
    <3>8. IsListed(e, Below(m + 1), s)
      BY <3>4, <3>6, <3>7 DEF IsListed
    <3> QED BY <3>5, <3>8
  <2> QED BY <2>2, <2>3
<1>3. bound \in Turns
  <2> HIDE DEF Turns
  <2> QED BY <1>1, <1>2, Induction
<1>4. Below(bound) = M
  OBVIOUS
<1> HIDE DEF Below
<1> QED BY <1>3, <1>4

IsChosen(order, M, s) ==
  order = CHOOSE o \in SetToSeqs(M) :
            \A m, n \in DOMAIN o : m < n => s[o[m]].index < s[o[n]].index

\* The list that is chosen from all the lists of M is one, and it is complete.
LEMMA SortedIsChosen ==
  ASSUME NEW M, NEW s, NEW bound \in Nat,
         \A i \in M : s[i].index \in Nat /\ s[i].index < bound,
         \A i, j \in M : s[i].index = s[j].index => i = j,
         NEW order, IsChosen(order, M, s)
  PROVE  /\ order \in [1 .. Cardinality(M) -> M] /\ Cardinality(M) \in Nat
         /\ IsListed(order, M, s)
<1> DEFINE P(o) == \A m, n \in DOMAIN o : m < n => s[o[m]].index < s[o[n]].index
<1>0. PICK c \in Nat : \E o \in [1 .. c -> M] : IsListed(o, M, s)
  BY SortedExists
<1>1. PICK o \in [1 .. c -> M] : IsListed(o, M, s)
  BY <1>0
<1>2. ASSUME NEW m \in 1 .. c, NEW n \in 1 .. c, m # n PROVE o[m] # o[n]
  <2>1. s[o[m]].index \in Nat /\ s[o[n]].index \in Nat
    OBVIOUS
  <2>2. CASE m < n
    BY <1>1, <2>1, <2>2, SMTT(30) DEF IsListed
  <2>3. CASE n < m
    BY <1>1, <2>1, <2>3, SMTT(30) DEF IsListed
  <2> QED BY <1>2, <2>2, <2>3
<1>3. o \in Bijection(1 .. c, M)
  <2>1. DOMAIN o = 1 .. c
    OBVIOUS
  <2> QED BY <1>1, <1>2, <2>1 DEF IsListed, Bijection, Injection, Surjection, IsInjective
<1>4. IsFiniteSet(M) /\ Cardinality(M) = c
  <2>1. IsFiniteSet(1 .. c) /\ Cardinality(1 .. c) = c
    BY FS_Interval
  <2>2. ExistsBijection(1 .. c, M)
    BY <1>3 DEF ExistsBijection
  <2> QED BY <2>1, <2>2, FS_Bijection
<1>5. o \in SetToSeqs(M) /\ P(o)
  BY <1>1, <1>2, <1>4 DEF SetToSeqs, IsListed
<1>6. order \in SetToSeqs(M) /\ P(order)
  <2> HIDE DEF P
  <2>1. order = CHOOSE x \in SetToSeqs(M) : P(x)
    BY DEF P, IsChosen
  <2> QED BY <1>5, <2>1
<1>7. /\ order \in [1 .. c -> M]
      /\ \A i, j \in 1 .. c : i # j => order[i] # order[j]
  BY <1>4, <1>6 DEF SetToSeqs
<1>8. order \in Surjection(1 .. c, M)
  <2>1. order \in Injection(1 .. c, M)
    BY <1>7 DEF Injection, IsInjective
  <2>2. Cardinality(1 .. c) = Cardinality(M)
    BY <1>4, FS_Interval
  <2> QED BY <1>4, <2>1, <2>2, FS_Injection
<1>9. IsListed(order, M, s)
  BY <1>6, <1>7, <1>8 DEF IsListed, Surjection
<1> QED BY <1>4, <1>7, <1>9

----------------------------------------------------------------------------
(* The loop of extractValue *)

\* The requirements of a selector that name the parameter k, and the string one of
\* them says.
Mine(s, k) == {i \in DOMAIN s : s[i].key = k}
Text(r) == IF r.shape = "byte" THEN Hex[r.value] ELSE r.value
Pieces(s, k) == UNION {ToSet(Text(s[i])) : i \in Mine(s, k)}

\* The two ways to name a parameter.
Spells(s, k) ==
  /\ \A i \in Mine(s, k) : /\ s[i].value # None
                           /\ s[i].shape \in {"str", "byte"}
                           /\ s[i].index \in 0 .. 127
                           /\ s[i].shape = "byte" => s[i].value \in DOMAIN Hex
  /\ \A i, j \in Mine(s, k) : s[i].index = s[j].index => i = j

Names(s, k, i) ==
  /\ Mine(s, k) = {i} /\ s[i].shape = "whole" /\ s[i].value # None

\* A selector that can be asked with.
IsSelector(s) ==
  /\ IsList(s)
  /\ \A n \in DOMAIN s : s[n].value # None => IsList(s[n].value)

\* A well-formed selector names a parameter in one of them.
LEMMA WellFormedCases ==
  ASSUME NEW s, NEW k, IsSelector(s), WellFormed(s, k)
  PROVE  Spells(s, k) \/ \E i : Names(s, k, i)
<1>1. IsFiniteSet(Mine(s, k))
  <2>1. DOMAIN s = 1 .. Len(s) /\ Len(s) \in Nat
    BY DEF IsSelector, IsList
  <2>2. IsFiniteSet(DOMAIN s)
    BY <2>1, FS_Interval
  <2>3. Mine(s, k) \in SUBSET DOMAIN s
    BY DEF Mine
  <2> QED BY <2>2, <2>3, FS_Subset
<1>2. CASE /\ Cardinality(Mine(s, k)) = 1
           /\ \A i \in Mine(s, k) : s[i].shape = "whole" /\ s[i].value # None
  <2>1. PICK i : Mine(s, k) = {i}
    BY <1>1, <1>2, FS_Singleton
  <2> QED BY <1>2, <2>1 DEF Names
<1>3. CASE Spells(s, k)
  BY <1>3
<1> QED BY <1>2, <1>3 DEF WellFormed, Spells, Mine

\* What is said consists of pieces.
LEMMA TextIsList ==
  ASSUME NEW s, NEW k, IsSelector(s), NEW i \in Mine(s, k), s[i].value # None,
         s[i].shape = "byte" => s[i].value \in DOMAIN Hex
  PROVE  Text(s[i]) \in Seq(Pieces(s, k)) /\ Text(s[i]) # None
<1>1. i \in DOMAIN s
  BY DEF Mine
<1>2. IsList(Text(s[i])) /\ Text(s[i]) # None
  <2>1. CASE s[i].shape = "byte"
    BY <2>1, SelectorsAssumption DEF Text
  <2>2. CASE s[i].shape # "byte"
    BY <1>1, <2>2 DEF Text, IsSelector
  <2> QED BY <2>1, <2>2
<1>3. ToSet(Text(s[i])) \subseteq Pieces(s, k)
  BY DEF Pieces
<1> DEFINE x == Text(s[i])
           A == ToSet(x)
           B == Pieces(s, k)
<1>4. x \in Seq(A) /\ A \subseteq B
  BY <1>2, <1>3 DEF IsList
<1> HIDE DEF x, A, B
<1>5. x \in Seq(B)
  BY <1>4
<1> QED BY <1>2, <1>5 DEF x, B

\* A function on 1 .. n is a sequence.
LEMMA ListOfLength ==
  ASSUME NEW S, NEW n \in Nat, NEW b \in [1 .. n -> S]
  PROVE  b \in Seq(S) /\ Len(b) = n
OBVIOUS

\* The buffer w is vv, with v at the place with number i.
IsPut(w, vv, i, v, T) ==
  /\ w \in Seq(Seq(T)) /\ Len(w) >= Len(vv) /\ i < Len(w) /\ w[i + 1] = v
  /\ \A j \in 1 .. Len(w) : j # i + 1 =>
       w[j] = IF j <= Len(vv) THEN vv[j] ELSE << >>

\* bufferEntity sets one string, and makes the buffer long enough by empty ones.
LEMMA BufferEntityPuts ==
  ASSUME NEW T, NEW vv \in Seq(Seq(T)), NEW i \in Nat, NEW v \in Seq(T), v # None,
         NEW w, w = BufferEntity(vv, i, v)
  PROVE  IsPut(w, vv, i, v, T)
<1> DEFINE grown == IF Len(vv) <= i THEN vv \o Buffer(i + 1 - Len(vv)) ELSE vv
<1>1. w = [grown EXCEPT ![i + 1] = v]
  BY DEF BufferEntity
<1>2. /\ grown \in Seq(Seq(T)) /\ Len(grown) >= Len(vv) /\ i < Len(grown)
      /\ \A j \in 1 .. Len(grown) :
           grown[j] = IF j <= Len(vv) THEN vv[j] ELSE << >>
  <2>1. CASE Len(vv) <= i
    <3> DEFINE n == i + 1 - Len(vv)
               b == Buffer(n)
    <3>1. n \in Nat /\ n + Len(vv) = i + 1
      BY <2>1
    <3>2. << >> \in Seq(T)
      OBVIOUS
    <3>3. b \in Seq(Seq(T)) /\ Len(b) = n /\ \A j \in 1 .. n : b[j] = << >>
      <4> HIDE DEF n
      <4>1. b \in [1 .. n -> Seq(T)] /\ \A j \in 1 .. n : b[j] = << >>
        BY <3>2 DEF Buffer
      <4> HIDE DEF b
      <4> QED BY <3>1, <4>1
    <3>4. grown = vv \o b
      BY <2>1
    <3> HIDE DEF n, b, grown
    <3> QED BY <2>1, <3>1, <3>3, <3>4
  <2>2. CASE ~(Len(vv) <= i)
    <3>1. grown = vv
      BY <2>2
    <3> HIDE DEF grown
    <3> QED BY <2>2, <3>1
  <2> QED BY <2>1, <2>2
<1> HIDE DEF grown
<1>3. i + 1 \in 1 .. Len(grown)
  BY <1>2
<1>4. w \in Seq(Seq(T)) /\ Len(w) = Len(grown)
  BY <1>1, <1>2, <1>3
<1>5. w[i + 1] = v /\ \A j \in 1 .. Len(grown) : j # i + 1 => w[j] = grown[j]
  BY <1>1, <1>2, <1>3
<1> QED BY <1>2, <1>4, <1>5 DEF IsPut

\* What the loop of extractValue works on.
Accs(T) == [vv : Seq(Seq(T)), end : {"no", "whole"}]

Start == [vv |-> Buffer(10), end |-> "no"]

\* The buffer the loop starts with.
LEMMA StartIsEmpty ==
  ASSUME NEW T
  PROVE  /\ Start \in Accs(T) /\ Len(Start.vv) = 10
         /\ \A j \in 1 .. 10 : Start.vv[j] = << >>
<1>1. << >> \in Seq(T)
  OBVIOUS
<1>2. Buffer(10) \in [1 .. 10 -> Seq(T)] /\ \A j \in 1 .. 10 : Buffer(10)[j] = << >>
  BY <1>1 DEF Buffer
<1> DEFINE b == Buffer(10)
<1> HIDE DEF b
<1>3. b \in [1 .. 10 -> Seq(T)] /\ \A j \in 1 .. 10 : b[j] = << >>
  BY <1>2 DEF b
<1>4. b \in Seq(Seq(T)) /\ Len(b) = 10
  <2>1. 10 \in Nat
    OBVIOUS
  <2>2. b \in [1 .. 10 -> Seq(T)]
    BY <1>3
  <2> QED BY <2>1, <2>2, ListOfLength, ZenonT(30)
<1>5. Start = [vv |-> b, end |-> "no"]
  BY DEF Start, b
<1> QED BY <1>3, <1>4, <1>5 DEF Accs

\* A turn of the loop on a requirement of another parameter, or after the end.
LEMMA ExtractSkips ==
  ASSUME NEW k, NEW acc, NEW r, acc.end # "no" \/ r.key # k
  PROVE  Extract(k, acc, r) = acc
BY DEF Extract

\* A turn on a piece of the parameter.
LEMMA ExtractPuts ==
  ASSUME NEW T, NEW s, NEW k, Spells(s, k), NEW i \in Mine(s, k), NEW acc \in Accs(T),
         acc.end = "no"
  PROVE  Extract(k, acc, s[i])
           = [vv |-> BufferEntity(acc.vv, s[i].index, Text(s[i])), end |-> "no"]
<1> DEFINE r == s[i]
<1>1. /\ r.key = k /\ r.value # None /\ r.shape \in {"str", "byte"}
      /\ r.index \in 0 .. 127
      /\ r.shape = "byte" => r.value \in DOMAIN Hex
  BY DEF Spells, Mine
<1> HIDE DEF r
<1>2. \A i1, v : [acc EXCEPT !.vv = BufferEntity(acc.vv, i1, v)]
                   = [vv |-> BufferEntity(acc.vv, i1, v), end |-> "no"]
  BY DEF Accs
<1>3. r.index \in -128 .. 127 /\ ~(r.index < 0)
  BY <1>1
<1>4. Extract(k, acc, r) = [acc EXCEPT !.vv = BufferEntity(acc.vv, r.index, Text(r))]
  <2>1. CASE r.shape = "str"
    BY <1>1, <1>3, <2>1 DEF Extract, Text
  <2>2. CASE r.shape = "byte"
    BY <1>1, <1>3, <2>2 DEF Extract, Text
  <2> QED BY <1>1, <2>1, <2>2
<1> QED BY <1>2, <1>4 DEF r

\* A turn on a label that says all of the parameter.
LEMMA ExtractEnds ==
  ASSUME NEW T, NEW s, NEW k, NEW i, Names(s, k, i), NEW acc \in Accs(T), acc.end = "no"
  PROVE  Extract(k, acc, s[i])
           = [vv |-> BufferEntity(acc.vv, 0, Text(s[i])), end |-> "whole"]
<1> DEFINE r == s[i]
<1>1. r.key = k /\ r.shape = "whole" /\ Text(r) = r.value
  BY DEF Names, Mine, Text
<1> HIDE DEF r
<1>2. Extract(k, acc, r) = [[acc EXCEPT !.vv = BufferEntity(acc.vv, 0, r.value)]
                              EXCEPT !.end = "whole"]
  BY <1>1 DEF Extract
<1> QED BY <1>1, <1>2 DEF Accs, r

\* What the loop of extractValue has got after each number of turns.
IsTurns(f, s, k) ==
  /\ f[0] = Start
  /\ \A n \in 1 .. Len(s) : f[n] = Extract(k, f[n - 1], s[n])

Result(acc) ==
  CASE acc.end = "no"    -> FlattenSeq(acc.vv)
    [] acc.end = "whole" -> acc.vv[1]
    [] acc.end = "error" -> Nil
    [] acc.end = "panic" -> Panic

\* The loop has a result.
LEMMA ExtractLoops ==
  ASSUME NEW T, NEW s, NEW k, Len(s) \in Nat,
         \A acc \in Accs(T), n \in 1 .. Len(s) : Extract(k, acc, s[n]) \in Accs(T)
  PROVE  \E f : IsTurns(f, s, k) /\ ExtractValue(s, k) = Result(f[Len(s)])
<1> DEFINE N == Len(s)
           Step(a, n) == Extract(k, a, s[n])
           step == [q \in Accs(T) \X (1 .. N) |-> Step(q[1], q[2])]
           acc[n \in 0 .. N] == IF n = 0 THEN Start ELSE Step(acc[n - 1], n)
<1>1. step \in [Accs(T) \X (1 .. N) -> Accs(T)]
  OBVIOUS
<1>2. PICK f : IsLoop(f, N, Accs(T), Start, step)
  <2>1. Start \in Accs(T) /\ N \in Nat
    BY StartIsEmpty
  <2> HIDE DEF step, acc, Step, N
  <2> QED BY <1>1, <2>1, LoopIsDefined
<1>3. f = [n \in 0 .. N |-> IF n = 0 THEN Start ELSE Step(f[n - 1], n)]
  <2>1. ASSUME NEW n \in 1 .. N PROVE step[<<f[n - 1], n>>] = Step(f[n - 1], n)
    <3>1. f[n - 1] \in Accs(T)
      <4> HIDE DEF step, Step, acc
      <4> QED BY <1>2 DEF IsLoop
    <3> HIDE DEF Step
    <3> QED BY <3>1
  <2> HIDE DEF step, acc, Step, N
  <2>2. f = [n \in 0 .. N |-> f[n]]
    BY <1>2 DEF IsLoop
  <2>3. ASSUME NEW n \in 0 .. N
        PROVE  f[n] = IF n = 0 THEN Start ELSE Step(f[n - 1], n)
    <3>1. CASE n = 0
      BY <1>2, <3>1 DEF IsLoop
    <3>2. CASE n # 0
      <4>1. n \in 1 .. N
        BY <3>2 DEF N
      <4> QED BY <1>2, <2>1, <3>2, <4>1 DEF IsLoop
    <3> QED BY <3>1, <3>2
  <2> QED BY <2>2, <2>3, Zenon
<1>4. acc = [n \in 0 .. N |-> IF n = 0 THEN Start ELSE Step(acc[n - 1], n)]
  <2> HIDE DEF Step, N, step
  <2> QED BY <1>3
<1>5. ExtractValue(s, k) = Result(acc[N])
  BY DEF ExtractValue, Result, Start
<1> HIDE DEF acc
<1>6. IsTurns(acc, s, k)
  <2>1. acc[0] = Start
    <3> HIDE DEF Step
    <3> QED BY <1>4
  <2>2. ASSUME NEW n \in 1 .. N PROVE acc[n] = Extract(k, acc[n - 1], s[n])
    <3>1. n \in 0 .. N /\ n # 0
      OBVIOUS
    <3>2. acc[n] = Step(acc[n - 1], n)
      <4> HIDE DEF Step, N
      <4> QED BY <1>4, <3>1
    <3> QED BY <3>2
  <2> QED BY <2>1, <2>2 DEF IsTurns
<1> QED BY <1>5, <1>6

\* After n turns the buffer holds the pieces among the first n requirements, each
\* at its number, and is empty elsewhere.
Filled(acc, s, k, n) ==
  /\ acc \in Accs(Pieces(s, k)) /\ acc.end = "no"
  /\ \A i \in Mine(s, k) : i <= n =>
       s[i].index < Len(acc.vv) /\ acc.vv[s[i].index + 1] = Text(s[i])
  /\ \A j \in 1 .. Len(acc.vv) :
       (\A i \in Mine(s, k) : i <= n => s[i].index # j - 1) => acc.vv[j] = << >>

\* A turn on a piece keeps that.
LEMMA FilledStep ==
  ASSUME NEW s, NEW k, IsSelector(s), Spells(s, k), NEW n \in Nat, n + 1 \in DOMAIN s,
         NEW acc, Filled(acc, s, k, n)
  PROVE  Filled(Extract(k, acc, s[n + 1]), s, k, n + 1)
<1> DEFINE T == Pieces(s, k)
<1>0. Mine(s, k) \subseteq Nat
  BY DEF Mine, IsSelector, IsList
<1>1. CASE n + 1 \notin Mine(s, k)
  <2>1. Extract(k, acc, s[n + 1]) = acc
    BY <1>1, ExtractSkips DEF Mine
  <2>2. \A i \in Mine(s, k) : i <= n + 1 <=> i <= n
    BY <1>0, <1>1
  <2> QED BY <2>1, <2>2 DEF Filled
<1>2. CASE n + 1 \in Mine(s, k)
  <2> DEFINE x == s[n + 1].index
             t == Text(s[n + 1])
             w == BufferEntity(acc.vv, x, t)
             new == [vv |-> w, end |-> "no"]
  <2>1. Extract(k, acc, s[n + 1]) = new
    BY <1>2, ExtractPuts DEF Filled
  <2>2. x \in Nat /\ t \in Seq(T) /\ t # None /\ acc.vv \in Seq(Seq(T))
    <3>1. t \in Seq(T) /\ t # None
      BY <1>2, TextIsList DEF Spells
    <3>2. x \in Nat
      BY <1>2 DEF Spells
    <3> QED BY <3>1, <3>2 DEF Filled, Accs
  <2> DEFINE vv == acc.vv
  <2> HIDE DEF w, t, x, T, vv
  <2>3. /\ w \in Seq(Seq(T)) /\ Len(w) >= Len(vv) /\ x < Len(w) /\ w[x + 1] = t
        /\ \A j \in 1 .. Len(w) : j # x + 1 =>
             w[j] = IF j <= Len(vv) THEN vv[j] ELSE << >>
    <3>1. w = BufferEntity(vv, x, t)
      BY DEF w, vv
    <3>2. vv \in Seq(Seq(T))
      BY <2>2 DEF vv
    <3>3. x \in Nat
      BY <2>2
    <3>4. t \in Seq(T)
      BY <2>2
    <3>5. t # None
      BY <2>2
    <3>6. IsPut(w, vv, x, t, T)
      BY <3>1, <3>2, <3>3, <3>4, <3>5, BufferEntityPuts, Zenon
    <3> QED BY <3>6 DEF IsPut
  <2>4. Len(vv) \in Nat /\ Len(w) \in Nat
    BY <2>2, <2>3 DEF vv
  <2>5. new \in Accs(T) /\ new.end = "no" /\ new.vv = w
    BY <2>3 DEF Accs
  <2>6. ASSUME NEW i \in Mine(s, k), i <= n + 1
        PROVE  s[i].index < Len(w) /\ w[s[i].index + 1] = Text(s[i])
    <3>1. CASE i = n + 1
      BY <2>3, <3>1 DEF x, t
    <3>2. CASE i # n + 1
      <4>1. i <= n
        BY <1>0, <2>6, <3>2
      <4>2. s[i].index \in Nat /\ s[i].index # x
        BY <1>2, <3>2 DEF Spells, x
      <4>3. s[i].index < Len(vv) /\ vv[s[i].index + 1] = Text(s[i])
        BY <4>1 DEF Filled, vv
      <4> DEFINE y == s[i].index
                 j == y + 1
      <4>4. j \in 1 .. Len(w) /\ j # x + 1 /\ j <= Len(vv)
        <5>1. y \in Nat /\ y # x /\ y < Len(vv) /\ Len(vv) <= Len(w)
          BY <2>3, <2>4, <4>2, <4>3
        <5> HIDE DEF y
        <5> QED BY <2>2, <2>4, <5>1
      <4>5. w[j] = vv[j]
        <5> HIDE DEF j
        <5> QED BY <2>3, <4>4
      <4> QED BY <2>3, <2>4, <4>2, <4>3, <4>5
    <3> QED BY <3>1, <3>2
  <2>7. ASSUME NEW j \in 1 .. Len(w),
               \A i \in Mine(s, k) : i <= n + 1 => s[i].index # j - 1
        PROVE  w[j] = << >>
    <3>1. j # x + 1
      <4>1. x # j - 1
        BY <1>2, <2>7 DEF x
      <4> QED BY <2>2, <4>1
    <3>2. CASE j <= Len(vv)
      <4>1. \A i \in Mine(s, k) : i <= n => s[i].index # j - 1
        BY <1>0, <2>7
      <4>2. j \in 1 .. Len(vv)
        BY <2>4, <3>2
      <4>3. vv[j] = << >>
        BY <4>1, <4>2 DEF Filled, vv
      <4> QED BY <2>3, <3>1, <3>2, <4>3
    <3>3. CASE ~(j <= Len(vv))
      BY <2>3, <3>1, <3>3
    <3> QED BY <3>2, <3>3
  <2> HIDE DEF new
  <2>8. Filled(new, s, k, n + 1)
    BY <2>5, <2>6, <2>7 DEF Filled, T
  <2> QED BY <2>1, <2>8
<1> QED BY <1>1, <1>2

----------------------------------------------------------------------------
(* The entity of a request *)

\* extractValue puts the pieces together that the selector spells.
LEMMA SpelledIsMeant ==
  ASSUME NEW s, NEW k, IsSelector(s), Spells(s, k)
  PROVE  ExtractValue(s, k) = Meaning(s, k)
<1> DEFINE T == Pieces(s, k)
           M == Mine(s, k)
           N == Len(s)
<1>1. N \in Nat /\ DOMAIN s = 1 .. N /\ M \subseteq 1 .. N
  BY DEF IsSelector, IsList, Mine
<1>2. ASSUME NEW i \in M
      PROVE  Text(s[i]) \in Seq(T) /\ Text(s[i]) # None /\ s[i].index \in Nat
             /\ s[i].index < 128
  <2>1. s[i].index \in 0 .. 127
    BY DEF Spells
  <2>2. Text(s[i]) \in Seq(T) /\ Text(s[i]) # None
    BY TextIsList DEF Spells
  <2>3. \A x \in 0 .. 127 : x \in Nat /\ x < 128
    OBVIOUS
  <2> HIDE DEF M, T
  <2> QED BY <2>1, <2>2, <2>3, Zenon
<1>3. ASSUME NEW acc \in Accs(T), NEW n \in 1 .. N
      PROVE  Extract(k, acc, s[n]) \in Accs(T)
  <2>1. CASE acc.end # "no" \/ s[n].key # k
    BY <2>1, ExtractSkips
  <2>2. CASE acc.end = "no" /\ s[n].key = k
    <3>1. n \in M
      BY <1>1, <2>2 DEF Mine
    <3> DEFINE w == BufferEntity(acc.vv, s[n].index, Text(s[n]))
    <3>2. acc.vv \in Seq(Seq(T))
      BY DEF Accs
    <3>3. w \in Seq(Seq(T))
      <4> HIDE DEF T, M
      <4>1. IsPut(w, acc.vv, s[n].index, Text(s[n]), T)
        BY <1>2, <3>1, <3>2, BufferEntityPuts
      <4> QED BY <4>1 DEF IsPut
    <3>4. Extract(k, acc, s[n]) = [vv |-> w, end |-> "no"]
      BY <2>2, <3>1, ExtractPuts
    <3> HIDE DEF w, T
    <3> QED BY <3>3, <3>4 DEF Accs
  <2> QED BY <2>1, <2>2
<1>4. PICK f : IsTurns(f, s, k) /\ ExtractValue(s, k) = Result(f[N])
  <2> HIDE DEF T
  <2> QED BY <1>1, <1>3, ExtractLoops
<1>5. Filled(f[N], s, k, N)
  <2> DEFINE Turns == {n \in Nat : n <= N => Filled(f[n], s, k, n)}
  <2>1. 0 \in Turns
    <3>1. f[0] = Start
      BY <1>4 DEF IsTurns
    <3>2. \A i \in M : ~(i <= 0)
      BY <1>1
    <3>3. Start \in Accs(T) /\ Start.end = "no"
      BY StartIsEmpty DEF Start
    <3> QED BY <3>1, <3>2, <3>3, StartIsEmpty DEF Filled
  <2>2. ASSUME NEW n \in Nat, n \in Turns PROVE n + 1 \in Turns
    <3> SUFFICES ASSUME n + 1 <= N PROVE Filled(f[n + 1], s, k, n + 1)
      OBVIOUS
    <3>1. n + 1 \in 1 .. N /\ (n + 1) - 1 = n /\ n <= N
      BY <1>1
    <3>2. f[n + 1] = Extract(k, f[n], s[n + 1])
      BY <1>4, <3>1 DEF IsTurns
    <3>3. Filled(f[n], s, k, n)
      BY <2>2, <3>1
    <3>4. n + 1 \in DOMAIN s
      BY <1>1, <3>1
    <3> QED BY <3>2, <3>3, <3>4, FilledStep
  <2>3. N \in Turns
    <3> HIDE DEF Turns, N
    <3> QED BY <1>1, <2>1, <2>2, Induction
  <2> QED BY <1>1, <2>3
<1>6. ExtractValue(s, k) = FlattenSeq(f[N].vv)
  BY <1>4, <1>5 DEF Filled, Result
<1> DEFINE order == CHOOSE o \in SetToSeqs(M) : \A m, n \in DOMAIN o :
                      m < n => s[o[m]].index < s[o[n]].index
           c == Cardinality(M)
           x == [n \in DOMAIN order |-> Text(s[order[n]])]
           num == [n \in DOMAIN order |-> s[order[n]].index]
<1>7. Meaning(s, k) = FlattenSeq(x)
  BY DEF Meaning, Mine, Text
<1>8. order \in [1 .. c -> M] /\ c \in Nat /\ IsListed(order, M, s)
  <2>1. \A i, j \in M : s[i].index = s[j].index => i = j
    BY DEF Spells
  <2>2. \A i \in M : s[i].index \in Nat /\ s[i].index < 128
    BY <1>2
  <2>3. IsChosen(order, M, s)
    BY DEF IsChosen
  <2>4. 128 \in Nat
    OBVIOUS
  <2> HIDE DEF M, order
  <2> QED BY <2>1, <2>2, <2>3, <2>4, SortedIsChosen, Zenon
<1> HIDE DEF order, c, M, T
<1>9. x \in Seq(Seq(T)) /\ Len(x) = c /\ DOMAIN order = 1 .. c
  <2>1. DOMAIN order = 1 .. c
    BY <1>8
  <2>2. x \in [1 .. c -> Seq(T)]
    BY <1>2, <1>8, <2>1
  <2> HIDE DEF x
  <2> QED BY <1>8, <2>1, <2>2, ListOfLength
<1> DEFINE b == f[N].vv
<1>10. b \in Seq(Seq(T))
  BY <1>5 DEF Filled, Accs, T
<1>11. Holds(b, x, num)
  <2>1. \A a \in 1 .. c : /\ order[a] \in M /\ x[a] = Text(s[order[a]])
                          /\ num[a] = s[order[a]].index
    BY <1>8, <1>9
  <2>2. \A i \in M : s[i].index < Len(b) /\ b[s[i].index + 1] = Text(s[i])
    <3>1. \A i \in M : i <= N
      BY <1>1 DEF M
    <3> QED BY <1>5, <3>1 DEF Filled, M
  <2> HIDE DEF x, num
  <2>3. ASSUME NEW a \in 1 .. c
        PROVE  num[a] \in Nat /\ num[a] < Len(b) /\ b[num[a] + 1] = x[a]
    BY <1>2, <2>1, <2>2, SMTT(30)
  <2>4. ASSUME NEW a \in 1 .. c, NEW d \in 1 .. c, a < d PROVE num[a] < num[d]
    <3>1. s[order[a]].index < s[order[d]].index
      BY <1>8, <1>9, <2>4 DEF IsListed
    <3> QED BY <2>1, <3>1
  <2>5. ASSUME NEW j \in 1 .. Len(b), \A a \in 1 .. c : num[a] # j - 1
        PROVE  b[j] = << >>
    <3>1. ASSUME NEW i \in M PROVE s[i].index # j - 1
      <4>1. PICK a \in 1 .. c : order[a] = i
        BY <1>8, <1>9 DEF IsListed
      <4> QED BY <2>1, <2>5, <4>1
    <3> QED BY <1>5, <3>1 DEF Filled, M
  <2> HIDE DEF b
  <2> QED BY <1>9, <2>3, <2>4, <2>5 DEF Holds
<1>12. FlattenSeq(b) = FlattenSeq(x)
  <2> HIDE DEF b, x, num
  <2> QED BY <1>9, <1>10, <1>11, BufferJoins
<1> QED BY <1>6, <1>7, <1>12

\* extractValue takes the label that names the parameter alone.
LEMMA NamedIsMeant ==
  ASSUME NEW s, NEW k, IsSelector(s), NEW i, Names(s, k, i)
  PROVE  ExtractValue(s, k) = Meaning(s, k)
<1> DEFINE T == Pieces(s, k)
           N == Len(s)
           t == Text(s[i])
           w == BufferEntity(Start.vv, 0, t)
           last == [vv |-> w, end |-> "whole"]
<1>1. N \in Nat /\ DOMAIN s = 1 .. N /\ i \in 1 .. N
  BY DEF IsSelector, IsList, Mine, Names
<1>2. t \in Seq(T) /\ t # None
  <2>1. i \in Mine(s, k) /\ s[i].value # None /\ s[i].shape # "byte"
    BY DEF Names
  <2> QED BY <2>1, TextIsList
<1>3. ASSUME NEW n \in 1 .. N, n # i, NEW acc PROVE Extract(k, acc, s[n]) = acc
  <2>1. s[n].key # k
    BY <1>1, <1>3 DEF Names, Mine
  <2> QED BY <2>1, ExtractSkips
<1>4. ASSUME NEW acc \in Accs(T), NEW n \in 1 .. N
      PROVE  Extract(k, acc, s[n]) \in Accs(T)
  <2>1. CASE acc.end # "no" \/ n # i
    BY <1>3, <2>1, ExtractSkips
  <2>2. CASE acc.end = "no" /\ n = i
    <3> DEFINE v == BufferEntity(acc.vv, 0, t)
    <3>1. Extract(k, acc, s[n]) = [vv |-> v, end |-> "whole"]
      BY <2>2, ExtractEnds
    <3>2. acc.vv \in Seq(Seq(T))
      BY DEF Accs
    <3>3. v \in Seq(Seq(T))
      <4> HIDE DEF T, t
      <4>1. 0 \in Nat
        OBVIOUS
      <4>2. IsPut(v, acc.vv, 0, t, T)
        BY <1>2, <3>2, <4>1, BufferEntityPuts
      <4> QED BY <4>2 DEF IsPut
    <3> HIDE DEF v, T
    <3> QED BY <3>1, <3>3 DEF Accs
  <2> QED BY <2>1, <2>2
<1>5. PICK f : IsTurns(f, s, k) /\ ExtractValue(s, k) = Result(f[N])
  <2> HIDE DEF T
  <2> QED BY <1>1, <1>4, ExtractLoops
<1>6. Start \in Accs(T) /\ Start.end = "no"
  BY StartIsEmpty DEF Start
<1>7. f[N] = last
  <2> DEFINE Turns == {n \in Nat : n <= N => f[n] = IF n < i THEN Start ELSE last}
  <2> HIDE DEF last
  <2>1. 0 \in Turns
    BY <1>1, <1>5 DEF IsTurns
  <2>2. ASSUME NEW n \in Nat, n \in Turns PROVE n + 1 \in Turns
    <3> SUFFICES ASSUME n + 1 <= N
                 PROVE  f[n + 1] = IF n + 1 < i THEN Start ELSE last
      OBVIOUS
    <3>1. n + 1 \in 1 .. N /\ (n + 1) - 1 = n /\ n <= N
      BY <1>1
    <3>2. f[n + 1] = Extract(k, f[n], s[n + 1])
      BY <1>5, <3>1 DEF IsTurns
    <3>3. f[n] = IF n < i THEN Start ELSE last
      BY <2>2, <3>1
    <3>4. CASE n + 1 = i
      <4>1. f[n] = Start
        BY <1>1, <3>3, <3>4
      <4>2. Extract(k, Start, s[i]) = last
        BY <1>6, ExtractEnds DEF last
      <4> QED BY <1>1, <3>2, <3>4, <4>1, <4>2
    <3>5. CASE n + 1 # i
      <4>1. f[n + 1] = f[n]
        BY <1>3, <3>1, <3>2, <3>5
      <4>2. n < i <=> n + 1 < i
        BY <1>1, <3>5
      <4> QED BY <3>3, <4>1, <4>2
    <3> QED BY <3>4, <3>5
  <2>3. N \in Turns
    <3> HIDE DEF Turns, N
    <3> QED BY <1>1, <2>1, <2>2, Induction
  <2> QED BY <1>1, <2>3
<1>8. w[1] = t
  <2>1. Start.vv \in Seq(Seq(T))
    BY <1>6 DEF Accs
  <2> HIDE DEF T, t
  <2>2. 0 \in Nat /\ 0 + 1 = 1
    OBVIOUS
  <2>3. IsPut(w, Start.vv, 0, t, T)
    BY <1>2, <2>1, <2>2, BufferEntityPuts
  <2> QED BY <2>2, <2>3 DEF IsPut
<1>9. ExtractValue(s, k) = t
  <2>1. last.end = "whole" /\ last.vv = w
    OBVIOUS
  <2> HIDE DEF last, w, t
  <2> QED BY <1>5, <1>7, <1>8, <2>1 DEF Result
<1> DEFINE order == CHOOSE o \in SetToSeqs(Mine(s, k)) : \A m, n \in DOMAIN o :
                      m < n => s[o[m]].index < s[o[n]].index
           x == [n \in DOMAIN order |-> Text(s[order[n]])]
<1>10. Meaning(s, k) = FlattenSeq(x)
  BY DEF Meaning, Mine, Text
<1>11. order \in [1 .. 1 -> {i}]
  <2> DEFINE P(o) == \A m, n \in DOMAIN o : m < n => s[o[m]].index < s[o[n]].index
             one == [n \in 1 .. 1 |-> i]
  <2>1. Mine(s, k) = {i} /\ Cardinality({i}) = 1
    BY FS_Singleton DEF Names
  <2>2. SetToSeqs(Mine(s, k))
          = {o \in [1 .. 1 -> {i}] : \A m, n \in 1 .. 1 : m # n => o[m] # o[n]}
    BY <2>1 DEF SetToSeqs
  <2>3. one \in SetToSeqs(Mine(s, k)) /\ P(one)
    BY <2>2
  <2>4. order \in SetToSeqs(Mine(s, k))
    <3>1. order = CHOOSE o \in SetToSeqs(Mine(s, k)) : P(o)
      OBVIOUS
    <3> HIDE DEF P, order, one
    <3> QED BY <2>3, <3>1
  <2> HIDE DEF order
  <2> QED BY <2>2, <2>4
<1> HIDE DEF order
<1>12. x \in Seq(Seq(T)) /\ Len(x) = 1 /\ x[1] = t
  <2>1. DOMAIN order = 1 .. 1 /\ order[1] = i
    BY <1>11
  <2> HIDE DEF T
  <2>2. x \in [1 .. 1 -> Seq(T)] /\ x[1] = t
    BY <1>2, <1>11, <2>1
  <2>3. 1 \in Nat
    OBVIOUS
  <2> HIDE DEF x, t
  <2> QED BY <2>2, <2>3, ListOfLength
<1>13. FlattenSeq(x) = t
  <2> HIDE DEF x, T, t
  <2>1. PICK p : IsJoin(p, x, T) /\ FlattenSeq(x) = p[Len(x)]
    BY <1>12, FlattenJoins
  <2>2. p[1] = p[1 - 1] \o x[1] /\ p[0] = << >> /\ 1 - 1 = 0
    BY <1>12, <2>1 DEF IsJoin
  <2> QED BY <1>2, <1>12, <2>1, <2>2
<1> QED BY <1>9, <1>10, <1>13

\* A request that has an entity has what extractValue made of its selector.
EntityInv ==
  /\ DOMAIN pc = Handlers /\ DOMAIN info = Handlers /\ DOMAIN entity = Handlers
  /\ \A g \in Getters :
       /\ pc[g] \in {"idle", "read", "query", "done"}
       /\ pc[g] # "idle" => info[g] \in Infos
       /\ pc[g] \in {"idle", "read"} => entity[g] = None
       /\ entity[g] # None => /\ info[g].selector # Nothing
                              /\ entity[g] = Entities[info[g].selector]

\* A step of a request for the list, or of no request, keeps it.
LEMMA OthersKeepEntity ==
  ASSUME EntityInv, UNCHANGED <<info, entity>>,
         \/ pc' = pc
         \/ \E h \in Listers : \E to : pc' = [pc EXCEPT ![h] = to]
  PROVE  EntityInv'
<1>1. CASE pc' = pc
  BY <1>1 DEF EntityInv
<1>2. ASSUME NEW h \in Listers, NEW to, pc' = [pc EXCEPT ![h] = to]
      PROVE  EntityInv'
  <2>1. \A g \in Getters : pc'[g] = pc[g]
    BY <1>2, RequestsAssumption DEF EntityInv, Handlers
  <2>2. DOMAIN pc' = Handlers
    BY <1>2 DEF EntityInv
  <2> QED BY <2>1, <2>2 DEF EntityInv
<1> QED BY <1>1, <1>2

\* new is old, but for what it has of h.
Sets(new, old, h, v) ==
  /\ DOMAIN new = Handlers /\ new[h] = v
  /\ \A g \in Getters \ {h} : new[g] = old[g]

LEMMA SetsOne ==
  ASSUME NEW h \in Getters, NEW old, NEW v, DOMAIN old = Handlers
  PROVE  Sets([old EXCEPT ![h] = v], old, h, v) /\ Sets(old, old, h, old[h])
BY DEF Sets, Handlers

\* A step that sets what is known of request h, one for a value.
LEMMA SetsEntity ==
  ASSUME EntityInv, NEW h \in Getters, NEW to, NEW i, NEW e,
         Sets(pc', pc, h, to), Sets(info', info, h, i), Sets(entity', entity, h, e),
         to \in {"idle", "read", "query", "done"}, to # "idle" => i \in Infos,
         to \in {"idle", "read"} => e = None,
         e # None => i.selector # Nothing /\ e = Entities[i.selector]
  PROVE  EntityInv'
<1>1. /\ DOMAIN pc' = Handlers /\ DOMAIN info' = Handlers /\ DOMAIN entity' = Handlers
      /\ pc'[h] = to /\ info'[h] = i /\ entity'[h] = e
      /\ \A g \in Getters \ {h} :
           pc'[g] = pc[g] /\ info'[g] = info[g] /\ entity'[g] = entity[g]
  BY DEF Sets
<1>2. ASSUME NEW g \in Getters
      PROVE  /\ pc'[g] \in {"idle", "read", "query", "done"}
             /\ pc'[g] # "idle" => info'[g] \in Infos
             /\ pc'[g] \in {"idle", "read"} => entity'[g] = None
             /\ entity'[g] # None => /\ info'[g].selector # Nothing
                                     /\ entity'[g] = Entities[info'[g].selector]
  <2>1. CASE g = h
    BY <1>1, <2>1
  <2>2. CASE g # h
    BY <1>1, <2>2 DEF EntityInv
  <2> QED BY <2>1, <2>2
<1> QED BY <1>1, <1>2 DEF EntityInv

\* The steps of a request for a value keep it.
LEMMA GetterKeepsEntity ==
  ASSUME EntityInv, NEW h \in Getters,
         (\E i \in Infos : Get(h, i)) \/ Lookup(h) \/ Query(h) \/ Reply(h)
  PROVE  EntityInv'
<1>0. DOMAIN pc = Handlers /\ DOMAIN info = Handlers /\ DOMAIN entity = Handlers
  BY DEF EntityInv
<1>2. ASSUME NEW i \in Infos, Get(h, i) PROVE EntityInv'
  <2>1. /\ pc[h] = "idle" /\ pc' = [pc EXCEPT ![h] = "read"]
        /\ info' = [info EXCEPT ![h] = i] /\ entity' = entity
    BY <1>2 DEF Get, Begin
  <2>2. entity[h] = None
    BY <2>1 DEF EntityInv
  <2>3. Sets(pc', pc, h, "read") /\ Sets(info', info, h, i) /\ Sets(entity', entity, h, None)
    BY <1>0, <2>1, <2>2, SetsOne
  <2> QED BY <2>3, SetsEntity
<1>3. CASE Lookup(h)
  <2> DEFINE s == info[h].selector
  <2>1. PICK d : /\ entity' = [entity EXCEPT ![h] =
                       IF d \in {Nil, Garbage} \/ s = Nothing THEN None
                       ELSE Entities[s]]
                 /\ \E to \in {"query", "done"} : pc' = [pc EXCEPT ![h] = to]
                 /\ pc[h] = "read" /\ info' = info
    BY <1>3 DEF Lookup
  <2>2. PICK to \in {"query", "done"} : pc' = [pc EXCEPT ![h] = to]
    BY <2>1
  <2> DEFINE e == IF d \in {Nil, Garbage} \/ s = Nothing THEN None ELSE Entities[s]
  <2>3. e # None => s # Nothing /\ e = Entities[s]
    OBVIOUS
  <2>4. info[h] \in Infos /\ entity' = [entity EXCEPT ![h] = e]
    BY <2>1 DEF EntityInv
  <2>5. to # "idle" /\ to # "read" /\ to \in {"idle", "read", "query", "done"}
    BY <2>2
  <2> HIDE DEF e
  <2>6. Sets(pc', pc, h, to) /\ Sets(info', info, h, info[h]) /\ Sets(entity', entity, h, e)
    <3>1. Sets(info', info, h, info[h])
      BY <1>0, <2>1, SetsOne
    <3>2. Sets(pc', pc, h, to)
      BY <1>0, <2>2, SetsOne
    <3>3. Sets(entity', entity, h, e)
      BY <1>0, <2>4, SetsOne
    <3> QED BY <3>1, <3>2, <3>3
  <2> QED BY <2>3, <2>4, <2>5, <2>6, SetsEntity
<1>4. CASE Query(h)
  <2>1. pc[h] = "query" /\ pc' = [pc EXCEPT ![h] = "done"] /\ UNCHANGED <<info, entity>>
    BY <1>4 DEF Query
  <2>2. /\ info[h] \in Infos
        /\ entity[h] # None =>
             info[h].selector # Nothing /\ entity[h] = Entities[info[h].selector]
    BY <2>1 DEF EntityInv
  <2>3. /\ Sets(pc', pc, h, "done") /\ Sets(info', info, h, info[h])
        /\ Sets(entity', entity, h, entity[h])
    <3>1. info' = info /\ entity' = entity
      BY <2>1
    <3>2. Sets(info', info, h, info[h]) /\ Sets(entity', entity, h, entity[h])
      BY <1>0, <3>1, SetsOne
    <3> QED BY <1>0, <2>1, <3>2, SetsOne
  <2> QED BY <2>2, <2>3, SetsEntity
<1>5. CASE Reply(h)
  <2>1. Sets(pc', pc, h, "idle") /\ Sets(info', info, h, None) /\ Sets(entity', entity, h, None)
    BY <1>0, <1>5, SetsOne DEF Reply
  <2> QED BY <2>1, SetsEntity
<1> QED BY <1>2, <1>3, <1>4, <1>5

\* A new process has no requests.
LEMMA RestartKeepsEntity ==
  ASSUME Restarted
  PROVE  EntityInv'
BY DEF Restarted, EntityInv, Handlers

\* Every step keeps it.
LEMMA StepKeepsEntity ==
  ASSUME EntityInv, IndInv, [Next]_vars
  PROVE  EntityInv'
<1>1. CASE (\E o \in Oaps : ChangeOap(o)) \/ UNCHANGED vars \/ Refresh
  <2>1. UNCHANGED <<pc, info, entity>>
    BY <1>1 DEF ChangeOap, vars, requests, Refresh, Tick, ListMetrics, LockRequest,
                LockAcquire, StoreHalf, StoreRest, Unlock
  <2> QED BY <2>1, OthersKeepEntity
<1>2. CASE Restart \/ \E h \in Getters : LookupDies(h)
  BY <1>2, RestartKeepsEntity DEF Restart, LookupDies
<1>3. ASSUME NEW h \in Listers, List(h) \/ RLock(h) PROVE EntityInv'
  BY <1>3, OthersKeepEntity DEF List, RLock, Begin
<1>4. ASSUME NEW h \in Getters, NEW i \in Infos, Get(h, i) PROVE EntityInv'
  BY <1>4, GetterKeepsEntity
<1>5. ASSUME NEW h \in Handlers, Serve(h) PROVE EntityInv'
  <2>1. CASE \E w \in Words : ReadWord(h, w)
    BY <2>1, OthersKeepEntity DEF ReadWord
  <2>2. CASE Collect(h)
    BY <2>2, OthersKeepEntity DEF Collect
  <2>3. CASE RUnlock(h)
    <3>1. h \in Listers
      BY <2>3 DEF RUnlock, EntityInv, Handlers
    <3> QED BY <2>3, <3>1, OthersKeepEntity DEF RUnlock
  <2>4. CASE Lookup(h) \/ Query(h) \/ Reply(h)
    <3>1. h \in Getters
      BY <2>4 DEF Lookup, Query, Reply, IndInv, LockInv, Handlers
    <3> QED BY <2>4, <3>1, GetterKeepsEntity
  <2> QED BY <1>5, <2>1, <2>2, <2>3, <2>4 DEF Serve
<1> QED BY <1>1, <1>2, <1>3, <1>4, <1>5 DEF Next

\* It holds always.
LEMMA EntityInvHolds == Spec => []EntityInv
<1>1. Init => EntityInv
  BY DEF Init, EntityInv, Handlers
<1>2. EntityInv /\ IndInv /\ [Next]_vars => EntityInv'
  BY StepKeepsEntity
<1> QED BY <1>1, <1>2, IndInvHolds, PTL DEF Spec

\* The entity OAP is asked about is the one the selector spells: the pieces of each
\* parameter in the order of their numbers, in whatever order the labels come and
\* however often bufferEntity has to grow the buffer.
THEOREM EntitiesAreAssembled == Spec => []Assembled
<1>1. ASSUME EntityInv PROVE Assembled
  <2> SUFFICES ASSUME NEW g \in Getters, entity[g] # None, NEW k \in Params,
                      WellFormed(info[g].selector, k)
               PROVE  entity[g][k] = Meaning(info[g].selector, k)
    BY DEF Assembled
  <2> DEFINE s == info[g].selector
  <2>1. info[g] \in Infos /\ s # Nothing /\ entity[g] = Entities[s]
    BY <1>1 DEF EntityInv
  <2>2. IsSelector(s)
    BY <2>1, SelectorsAssumption DEF IsSelector
  <2>3. entity[g][k] = ExtractValue(s, k)
    BY <2>1 DEF Entities
  <2> HIDE DEF s
  <2>4. ExtractValue(s, k) = Meaning(s, k)
    <3>1. WellFormed(s, k)
      BY DEF s
    <3> QED BY <2>2, <3>1, WellFormedCases, SpelledIsMeant, NamedIsMeant
  <2> QED BY <2>3, <2>4 DEF s
<1> QED BY <1>1, EntityInvHolds, PTL

----------------------------------------------------------------------------
(* The refinement of MetricRegistry *)

\* What the refreshing goroutine is about to store is not empty; a request for the
\* list has an answer only between Collect and RUnlock; starts are counted.
FreshInv ==
  /\ refresher \in {"lock", "acquire", "store", "stored"} => mdd # << >>
  /\ \A h \in Listers : pc[h] # "runlock" => ans[h] = None
  /\ restarts \in [stopped : Nat, died : Nat]

\* A step of a request for a value, or one that concerns no request's answer, leaves
\* the second part as it is.
LEMMA AnswersStay ==
  ASSUME FreshInv, \A h \in Listers : pc'[h] = pc[h] /\ ans'[h] = ans[h],
         UNCHANGED <<refresher, mdd, restarts>>
  PROVE  FreshInv'
BY DEF FreshInv

\* A step of request h changes only what is known of h.
LEMMA OthersStay ==
  ASSUME ShapeInv, NEW h \in Handlers, NEW to, NEW a,
         pc' = [pc EXCEPT ![h] = to], ans' = [ans EXCEPT ![h] = a]
  PROVE  /\ pc'[h] = to /\ ans'[h] = a
         /\ \A k \in Listers \ {h} : pc'[k] = pc[k] /\ ans'[k] = ans[k]
BY DEF ShapeInv, Handlers

\* A step of the refreshing goroutine keeps it.
LEMMA RefreshKeepsFresh ==
  ASSUME FreshInv, IndInv, Refresh
  PROVE  FreshInv'
<1>1. UNCHANGED <<pc, ans, restarts>>
  BY DEF Refresh, Tick, ListMetrics, LockRequest, LockAcquire, StoreHalf, StoreRest,
         Unlock, requests
<1>2. CASE ListMetrics
  <2>1. oap.defs \in Lists
    BY DEF IndInv, RegistryInv, Lists
  <2>2. Len(oap.defs) > 0 => oap.defs # << >>
    OBVIOUS
  <2>3. refresher' \in {"lock", "acquire", "store", "stored"} => mdd' # << >>
    BY <1>2, <2>2 DEF ListMetrics
  <2> QED BY <1>1, <2>3 DEF FreshInv
<1>3. CASE Tick \/ LockRequest \/ LockAcquire \/ StoreHalf \/ StoreRest \/ Unlock
  <2>1. refresher' \in {"lock", "acquire", "store", "stored"} => mdd' # << >>
    BY <1>3 DEF Tick, LockRequest, LockAcquire, StoreHalf, StoreRest, Unlock, FreshInv
  <2> QED BY <1>1, <2>1 DEF FreshInv
<1> QED BY <1>2, <1>3 DEF Refresh

\* A new process starts with it.
LEMMA RestartKeepsFresh ==
  ASSUME FreshInv, Restarted,
         \/ restarts' = [restarts EXCEPT !.stopped = @ + 1]
         \/ restarts' = [restarts EXCEPT !.died = @ + 1]
  PROVE  FreshInv' /\ restarts' # restarts
<1>1. restarts' \in [stopped : Nat, died : Nat] /\ restarts' # restarts
  BY DEF FreshInv
<1>2. /\ refresher' = "idle" /\ pc' = [h \in Handlers |-> "idle"]
      /\ ans' = [h \in Handlers |-> None]
  BY DEF Restarted
<1> QED BY <1>1, <1>2 DEF FreshInv, Handlers

\* The requests that ReadWord, Lookup, Query and Reply serve: those for the list
\* only load words.
LEMMA GetterIsNoLister ==
  ASSUME IndInv, NEW h \in Handlers,
         (\E i \in Infos : h \in Getters /\ Get(h, i)) \/ Lookup(h) \/ Query(h) \/ Reply(h)
  PROVE  /\ UNCHANGED <<oap, registry, changes, restarts>>
         /\ \A k \in Listers : pc'[k] = pc[k] /\ ans'[k] = ans[k]
<1>1. h \notin Listers
  BY RequestsAssumption DEF IndInv, LockInv, Lookup, Query, Reply
<1>2. CASE \E i \in Infos : Get(h, i)
  <2>1. pc' = [pc EXCEPT ![h] = "read"] /\ ans' = ans
        /\ UNCHANGED <<oap, registry, changes, restarts>>
    BY <1>2 DEF Get, Begin
  <2> QED BY <1>1, <2>1 DEF IndInv, ShapeInv, Handlers
<1>3. CASE Lookup(h) \/ Query(h) \/ Reply(h)
  <2>1. \E to : pc' = [pc EXCEPT ![h] = to]
    BY <1>3 DEF Lookup, Query, Reply
  <2>2. \E a : ans' = [ans EXCEPT ![h] = a]
    BY <1>3 DEF Lookup, Query, Reply
  <2>3. UNCHANGED <<oap, registry, changes, restarts>>
    BY <1>3 DEF Lookup, Query, Reply
  <2> QED BY <1>1, <2>1, <2>2, <2>3, OthersStay DEF IndInv
<1> QED BY <1>2, <1>3

\* The steps in which a request for the list is asked and reads.
LEMMA ListerAsks ==
  ASSUME IndInv, FreshInv, NEW h \in Handlers,
         \/ h \in Listers /\ (List(h) \/ RLock(h))
         \/ \E w \in Words : ReadWord(h, w)
  PROVE  FreshInv' /\ UNCHANGED <<metricDefines, refresher, mdd, ans, restarts>>
<1>1. UNCHANGED <<metricDefines, refresher, mdd, ans, restarts>>
  BY DEF List, RLock, ReadWord, registry
<1>2. CASE \E w \in Words : ReadWord(h, w)
  BY <1>1, <1>2, AnswersStay DEF ReadWord
<1>3. CASE h \in Listers /\ (List(h) \/ RLock(h))
  <2>1. /\ \E to : pc' = [pc EXCEPT ![h] = to]
        /\ pc[h] # "runlock" /\ h \in Listers
    BY <1>3 DEF List, RLock, Begin
  <2>2. ans[h] = None
    BY <2>1 DEF FreshInv
  <2>3. \A k \in Listers \ {h} : pc'[k] = pc[k]
    BY <2>1 DEF IndInv, ShapeInv, Handlers
  <2> QED BY <1>1, <2>2, <2>3 DEF FreshInv
<1> QED BY <1>2, <1>3

\* The steps that give and take an answer.
LEMMA AnswerKeepsFresh ==
  ASSUME IndInv, EntityInv, FreshInv, NEW h \in Handlers, Collect(h) \/ RUnlock(h)
  PROVE  /\ FreshInv' /\ h \in Listers
         /\ UNCHANGED <<metricDefines, refresher, mdd, restarts>>
         /\ \E a : /\ ans' = [ans EXCEPT ![h] = a] /\ ans'[h] = a
                   /\ Collect(h) \/ a = None
<1>1. UNCHANGED <<metricDefines, refresher, mdd, restarts>>
  BY DEF Collect, RUnlock, registry
<1>2. CASE Collect(h)
  <2>1. PICK a : ans' = [ans EXCEPT ![h] = a]
    BY <1>2 DEF Collect
  <2>2. h \in Listers /\ pc' = [pc EXCEPT ![h] = "runlock"]
    BY <1>2 DEF Collect
  <2>3. /\ pc'[h] = "runlock" /\ ans'[h] = a
        /\ \A k \in Listers \ {h} : pc'[k] = pc[k] /\ ans'[k] = ans[k]
    BY <2>1, <2>2, OthersStay DEF IndInv
  <2> QED BY <1>1, <1>2, <2>1, <2>2, <2>3 DEF FreshInv
<1>3. CASE RUnlock(h)
  <2>1. /\ pc[h] = "runlock" /\ pc' = [pc EXCEPT ![h] = "idle"]
        /\ ans' = [ans EXCEPT ![h] = None]
    BY <1>3 DEF RUnlock
  <2>2. /\ ans'[h] = None
        /\ \A k \in Listers \ {h} : pc'[k] = pc[k] /\ ans'[k] = ans[k]
    <3>1. ShapeInv /\ pc' = [pc EXCEPT ![h] = "idle"] /\ ans' = [ans EXCEPT ![h] = None]
      BY <2>1 DEF IndInv
    <3> QED BY <3>1, OthersStay
  <2>3. h \in Listers
    BY <2>1 DEF EntityInv, Handlers
  <2> QED BY <1>1, <2>1, <2>2, <2>3 DEF FreshInv
<1> QED BY <1>2, <1>3

\* Every step keeps it.
LEMMA StepKeepsFresh ==
  ASSUME IndInv, EntityInv, FreshInv, [Next]_vars
  PROVE  FreshInv'
<1>1. CASE (\E o \in Oaps : ChangeOap(o)) \/ UNCHANGED vars
  BY <1>1, AnswersStay DEF ChangeOap, vars, registry, requests
<1>2. CASE Refresh
  BY <1>2, RefreshKeepsFresh
<1>3. CASE Restart \/ \E h \in Getters : LookupDies(h)
  BY <1>3, RestartKeepsFresh DEF Restart, LookupDies
<1>4. ASSUME NEW h \in Listers, List(h) \/ RLock(h) PROVE FreshInv'
  BY <1>4, ListerAsks DEF Handlers
<1>5. ASSUME NEW h \in Getters, NEW i \in Infos, Get(h, i) PROVE FreshInv'
  <2>1. /\ UNCHANGED registry /\ UNCHANGED restarts
        /\ \A k \in Listers : pc'[k] = pc[k] /\ ans'[k] = ans[k]
    BY <1>5, GetterIsNoLister DEF Handlers
  <2> QED BY <2>1, AnswersStay DEF registry
<1>6. ASSUME NEW h \in Handlers, Serve(h) PROVE FreshInv'
  <2>1. CASE \E w \in Words : ReadWord(h, w)
    BY <2>1, ListerAsks
  <2>2. CASE Collect(h) \/ RUnlock(h)
    BY <2>2, AnswerKeepsFresh
  <2>3. CASE Lookup(h) \/ Query(h) \/ Reply(h)
    <3>1. /\ UNCHANGED registry /\ UNCHANGED restarts
          /\ \A k \in Listers : pc'[k] = pc[k] /\ ans'[k] = ans[k]
      BY <2>3, GetterIsNoLister
    <3> QED BY <3>1, AnswersStay DEF registry
  <2> QED BY <1>6, <2>1, <2>2, <2>3 DEF Serve
<1> QED BY <1>1, <1>2, <1>3, <1>4, <1>5, <1>6 DEF Next

\* A step of the refreshing goroutine is an abstract Replace, with the first of the
\* two stores, or none.
LEMMA RefreshRefines ==
  ASSUME IndInv, FreshInv, Refresh
  PROVE  Registry!Next \/ UNCHANGED <<restarts, TheList, Answers>>
<1>1. UNCHANGED <<ans, restarts>> /\ Answers' = Answers
  BY DEF Refresh, Tick, ListMetrics, LockRequest, LockAcquire, StoreHalf, StoreRest,
         Unlock, requests, Answers
<1>2. CASE StoreHalf
  <2>1. TheList' = mdd /\ mdd # << >> /\ mdd \in Lists
    BY <1>2 DEF StoreHalf, TheList, FreshInv, IndInv, RegistryInv
  <2>2. Registry!Replace(mdd)
    BY <1>1, <2>1 DEF Registry!Replace
  <2> QED BY <2>1, <2>2 DEF Registry!Next
<1>3. CASE StoreRest
  <2>1. TheList = mdd /\ TheList' = mdd
    BY <1>3, SliceWords DEF StoreRest, TheList
  <2> QED BY <1>1, <2>1
<1>4. CASE Tick \/ ListMetrics \/ LockRequest \/ LockAcquire \/ Unlock
  <2>1. /\ metricDefines' = metricDefines
        /\ refresher # "stored" /\ refresher' # "stored"
    BY <1>4 DEF Tick, ListMetrics, LockRequest, LockAcquire, Unlock
  <2>2. TheList' = TheList
    BY <2>1 DEF TheList
  <2> QED BY <1>1, <2>2
<1> QED BY <1>2, <1>3, <1>4 DEF Refresh

\* Collect is an abstract Answer: no store is under way, and the list is answered
\* with that there is at this moment.
LEMMA CollectRefines ==
  ASSUME IndInv, FreshInv, NEW h \in Listers, Collect(h)
  PROVE  Registry!Answer(h)
<1>1. /\ pc[h] = "read" /\ DOMAIN seen[h] = Words
      /\ ans' = [ans EXCEPT ![h] =
           IF seen[h].len > Len(seen[h].array) THEN Garbage
           ELSE [i \in 1 .. seen[h].len |-> Qualified(seen[h].array[i].name)]]
      /\ UNCHANGED <<metricDefines, refresher, mdd, restarts>>
  BY DEF Collect, registry
<1>2. refresher # "stored"
  BY <1>1 DEF IndInv, LockInv
<1>3. metricDefines.array \in Lists /\ metricDefines = Slice(metricDefines.array)
  BY <1>2, CurrentHas DEF IndInv
<1>4. PICK l \in Lists : l = metricDefines.array
  BY <1>3
<1>5. seen[h].array = l /\ seen[h].len = Len(l)
  BY <1>1, <1>3, <1>4, SliceWords DEF IndInv, ListerInv, Words
<1>6. Len(l) \in Nat /\ DOMAIN l = 1 .. Len(l)
  BY ListIsSeq
<1>7. ans' = [ans EXCEPT ![h] = [i \in DOMAIN l |-> <<Namespace, l[i].name>>]]
  <2>1. PICK a : /\ ans' = [ans EXCEPT ![h] = a]
                 /\ a = IF seen[h].len > Len(seen[h].array) THEN Garbage
                        ELSE [i \in 1 .. seen[h].len |-> Qualified(seen[h].array[i].name)]
    BY <1>1
  <2>2. a = [i \in 1 .. Len(l) |-> Qualified(l[i].name)]
    BY <1>5, <1>6, <2>1
  <2>3. [i \in 1 .. Len(l) |-> Qualified(l[i].name)]
          = [i \in DOMAIN l |-> <<Namespace, l[i].name>>]
    BY <1>6 DEF Qualified
  <2> QED BY <2>1, <2>2, <2>3
<1>8. TheList = l /\ TheList' = l
  BY <1>1, <1>2, <1>4 DEF TheList
<1>9. Registry!Names = [i \in DOMAIN l |-> <<Namespace, l[i].name>>]
  BY <1>8 DEF Registry!Names
<1>10. Answers' = [Answers EXCEPT ![h] = Registry!Names]
  BY <1>7, <1>9 DEF Answers, IndInv, ShapeInv, Handlers
<1>11. Answers[h] = None
  BY <1>1 DEF Answers, FreshInv
<1> QED BY <1>1, <1>8, <1>10, <1>11 DEF Registry!Answer

\* A step of request h is an abstract step of that request, or none.
LEMMA RequestRefines ==
  ASSUME IndInv, EntityInv, FreshInv, NEW h \in Handlers,
         \/ h \in Listers /\ (List(h) \/ RLock(h))
         \/ \E i \in Infos : h \in Getters /\ Get(h, i)
         \/ Serve(h)
  PROVE  Registry!Next \/ UNCHANGED <<restarts, TheList, Answers>>
<1>1. ASSUME UNCHANGED <<metricDefines, refresher, mdd, restarts>>,
             \A k \in Listers : ans'[k] = ans[k]
      PROVE  UNCHANGED <<restarts, TheList, Answers>>
  BY <1>1 DEF TheList, Answers
<1>2. CASE \/ h \in Listers /\ (List(h) \/ RLock(h))
           \/ \E w \in Words : ReadWord(h, w)
  <2>1. UNCHANGED <<metricDefines, refresher, mdd, ans, restarts>>
    BY <1>2, ListerAsks
  <2> QED BY <1>1, <2>1
<1>3. CASE \/ \E i \in Infos : h \in Getters /\ Get(h, i)
           \/ Lookup(h) \/ Query(h) \/ Reply(h)
  <2>1. /\ UNCHANGED registry /\ UNCHANGED restarts
        /\ \A k \in Listers : ans'[k] = ans[k]
    BY <1>3, GetterIsNoLister
  <2> QED BY <1>1, <2>1 DEF registry
<1>4. CASE Collect(h)
  <2>1. h \in Listers
    BY <1>4 DEF Collect
  <2> QED BY <1>4, <2>1, CollectRefines DEF Registry!Next
<1>5. CASE RUnlock(h)
  <2>1. h \in Listers /\ UNCHANGED <<metricDefines, refresher, mdd, restarts>>
    BY <1>5, AnswerKeepsFresh
  <2>2. ans' = [ans EXCEPT ![h] = None]
    BY <1>5 DEF RUnlock
  <2>3. Answers' = [Answers EXCEPT ![h] = None] /\ TheList' = TheList
    BY <2>1, <2>2 DEF Answers, TheList, IndInv, ShapeInv, Handlers
  <2>4. Registry!Done(h)
    BY <2>1, <2>3 DEF Registry!Done
  <2> QED BY <2>1, <2>4 DEF Registry!Next
<1> QED BY <1>2, <1>3, <1>4, <1>5 DEF Serve

\* A new process is an abstract Restart.
LEMMA RestartRefines ==
  ASSUME FreshInv, Restart \/ \E h \in Getters : LookupDies(h)
  PROVE  Registry!Next
<1>1. Restarted /\ restarts' # restarts
  BY RestartKeepsFresh DEF Restart, LookupDies
<1>2. TheList' = << >>
  BY <1>1, SliceWords DEF Restarted, TheList
<1>3. Answers' = [c \in Listers |-> None]
  BY <1>1 DEF Restarted, Answers, Handlers
<1> QED BY <1>1, <1>2, <1>3 DEF Registry!Next, Registry!Restart

\* The adapter implements MetricRegistry: to requests for the list, whatever the
\* refreshing goroutine, the other requests, OAP and restarts do, the registry is
\* one list, replaced at once, never by an empty one, and read at once.
THEOREM RegistryIsImplemented == Spec => ImplementsRegistry
<1>1. Init => FreshInv /\ Registry!Init
  <2> SUFFICES ASSUME Init PROVE FreshInv /\ Registry!Init
    OBVIOUS
  <2>1. FreshInv
    BY DEF Init, FreshInv, Handlers
  <2>2. TheList = << >> /\ Answers = [c \in Listers |-> None]
    BY SliceWords DEF Init, TheList, Answers, Handlers
  <2> QED BY <2>1, <2>2 DEF Registry!Init
<1>2. IndInv /\ EntityInv /\ FreshInv /\ [Next]_vars => FreshInv'
  BY StepKeepsFresh
<1>3. IndInv /\ EntityInv /\ FreshInv /\ [Next]_vars
        => [Registry!Next]_<<restarts, TheList, Answers>>
  <2> SUFFICES ASSUME IndInv, EntityInv, FreshInv, [Next]_vars
               PROVE  Registry!Next \/ UNCHANGED <<restarts, TheList, Answers>>
    OBVIOUS
  <2>1. CASE (\E o \in Oaps : ChangeOap(o)) \/ UNCHANGED vars
    BY <2>1 DEF ChangeOap, vars, registry, requests, TheList, Answers
  <2>2. CASE Refresh
    BY <2>2, RefreshRefines
  <2>3. CASE Restart \/ \E h \in Getters : LookupDies(h)
    BY <2>3, RestartRefines
  <2>4. ASSUME NEW h \in Handlers,
               \/ h \in Listers /\ (List(h) \/ RLock(h))
               \/ \E i \in Infos : h \in Getters /\ Get(h, i)
               \/ Serve(h)
        PROVE  Registry!Next \/ UNCHANGED <<restarts, TheList, Answers>>
    BY <2>4, RequestRefines
  <2> QED BY <2>1, <2>2, <2>3, <2>4 DEF Next, Handlers
<1> QED BY <1>1, <1>2, <1>3, IndInvHolds, EntityInvHolds, PTL
        DEF Spec, ImplementsRegistry, Registry!Spec

----------------------------------------------------------------------------
(* Types *)

\* A set of numbers up to n that is not empty has a greatest one.
LEMMA Greatest ==
  ASSUME NEW n \in Nat, NEW T, T \subseteq 1 .. n, T # {}
  PROVE  \E m \in T : \A k \in T : k <= m
<1> DEFINE S == {n - k : k \in T}
<1>1. S \subseteq Nat /\ S # {}
  <2>1. PICK k \in T : TRUE
    OBVIOUS
  <2>2. n - k \in S
    BY <2>1
  <2>3. \A t \in T : n - t \in Nat
    OBVIOUS
  <2> QED BY <2>2, <2>3
<1>2. PICK s \in S : \A t \in S : s <= t
  BY <1>1, Least
<1>3. PICK m \in T : s = n - m
  BY <1>2
<1>4. ASSUME NEW k \in T PROVE k <= m
  <2>1. n - k \in S
    OBVIOUS
  <2>2. n - m <= n - k
    BY <1>2, <1>3, <2>1
  <2> QED BY <2>2
<1> QED BY <1>4

\* The loop of GetExternalMetric over a part of a list finds a definition of the
\* list, or nothing.
LEMMA FindIsDefined ==
  ASSUME NEW l \in Lists, NEW n \in Nat, n <= Len(l), NEW m
  PROVE  Find(SubSeq(l, 1, n), m) \in Defines \cup {Nil}
<1> DEFINE part == SubSeq(l, 1, n)
           matches == {i \in DOMAIN part : Qualified(part[i].name) = m}
           last == CHOOSE i \in matches : \A j \in matches : j <= i
<1>1. l \in Seq(ToSet(l)) /\ Len(l) \in Nat /\ DOMAIN l = 1 .. Len(l)
  BY ListIsSeq
<1>2. DOMAIN part = 1 .. n /\ \A i \in 1 .. n : part[i] = l[i]
  BY <1>1
<1>3. \A i \in 1 .. n : part[i] \in Defines
  <2>1. \A i \in 1 .. n : l[i] \in ToSet(l)
    BY <1>1 DEF ToSet
  <2> QED BY <1>2, <2>1 DEF Defines
<1>4. CASE matches = {}
  BY <1>4 DEF Find
<1>5. CASE matches # {}
  <2>1. matches \subseteq 1 .. n
    BY <1>2
  <2>2. \E i \in matches : \A j \in matches : j <= i
    BY <1>5, <2>1, Greatest
  <2>3. last \in matches
    BY <2>2
  <2>4. Find(part, m) = part[last]
    BY <1>5 DEF Find
  <2> HIDE DEF last
  <2> QED BY <1>3, <2>1, <2>3, <2>4
<1> QED BY <1>4, <1>5

\* So a lookup comes out with a definition of OAP's, nothing, or what is no
\* definition.
LEMMA FindsAreDefined ==
  ASSUME IndInv, NEW h \in Handlers, pc[h] = "read", DOMAIN seen[h] = Words
  PROVE  Finds(h) \subseteq Defines \cup {Nil, Garbage}
<1>1. since[h] \subseteq Lists /\ Within(seen[h], since[h])
  BY DEF IndInv, ReadInv
<1>2. seen[h].array \in Lists /\ \E k \in Lists : seen[h].len = Len(k)
  BY <1>1 DEF Within, Words
<1>3. seen[h].len \in Nat /\ Len(seen[h].array) \in Nat
  BY <1>2, ListIsSeq
<1>4. CASE seen[h].len <= Len(seen[h].array)
  <2>1. Find(SubSeq(seen[h].array, 1, seen[h].len), info[h].metric) \in Defines \cup {Nil}
    BY <1>2, <1>3, <1>4, FindIsDefined
  <2> QED BY <1>4, <2>1 DEF Finds
<1>5. CASE ~(seen[h].len <= Len(seen[h].array))
  BY <1>5 DEF Finds
<1> QED BY <1>4, <1>5

\* What TypeOK says that the invariants above do not.
TypeInv ==
  /\ lock.readers \subseteq Listers
  /\ pc \in [Handlers -> {"idle", "rlock", "read", "query", "runlock", "done"}]
  /\ \A g \in Getters : md[g] \in Defines \cup {Nil, Garbage, None}
  /\ changes \in 0 .. MaxChanges
  /\ restarts.stopped \in 0 .. MaxRestarts

\* Every step of a request keeps it.
LEMMA RequestKeepsTypes ==
  ASSUME IndInv, TypeInv, NEW h \in Handlers,
         \/ h \in Listers /\ (List(h) \/ RLock(h))
         \/ \E i \in Infos : h \in Getters /\ Get(h, i)
         \/ Serve(h)
  PROVE  TypeInv'
<1> DEFINE Places == {"idle", "rlock", "read", "query", "runlock", "done"}
<1>0. UNCHANGED <<changes, restarts>>
  BY DEF List, RLock, Get, Serve, ReadWord, Collect, RUnlock, Lookup, Query, Reply
<1>1. pc' = pc \/ \E to \in Places : pc' = [pc EXCEPT ![h] = to]
  BY DEF List, RLock, Get, Begin, Serve, ReadWord, Collect, RUnlock, Lookup, Query, Reply
<1>2. pc' \in [Handlers -> Places]
  BY <1>1 DEF TypeInv
<1>3. lock'.readers \subseteq Listers
  <2>1. \/ lock' = lock
        \/ h \in Listers /\ lock' = [lock EXCEPT !.readers = @ \cup {h}]
        \/ lock' = [lock EXCEPT !.readers = @ \ {h}]
    BY DEF List, RLock, Get, Serve, ReadWord, Collect, RUnlock, Lookup, Query, Reply,
           registry
  <2>2. "readers" \in DOMAIN lock
    BY DEF IndInv, LockInv
  <2> QED BY <2>1, <2>2 DEF TypeInv
<1>4. \/ md' = md
      \/ \E d \in Defines \cup {Nil, Garbage, None} : md' = [md EXCEPT ![h] = d]
  <2>1. CASE Lookup(h)
    <3>1. pc[h] = "read" /\ DOMAIN seen[h] = Words
      BY <2>1 DEF Lookup
    <3>2. PICK d \in Finds(h) : md' = [md EXCEPT ![h] = d]
      BY <2>1 DEF Lookup
    <3> QED BY <3>1, <3>2, FindsAreDefined
  <2>2. CASE Reply(h)
    BY <2>2 DEF Reply
  <2>3. CASE ~Lookup(h) /\ ~Reply(h)
    BY <2>3 DEF List, RLock, Get, Serve, ReadWord, Collect, RUnlock, Query
  <2> QED BY <2>1, <2>2, <2>3
<1>5. \A g \in Getters : md'[g] \in Defines \cup {Nil, Garbage, None}
  BY <1>4 DEF TypeInv, IndInv, ShapeInv, Handlers
<1> QED BY <1>0, <1>2, <1>3, <1>5 DEF TypeInv

\* Every step keeps it.
LEMMA StepKeepsTypes ==
  ASSUME IndInv, FreshInv, TypeInv, [Next]_vars
  PROVE  TypeInv'
<1>1. CASE Refresh \/ UNCHANGED vars
  <2>1. UNCHANGED <<pc, md, changes, restarts>>
    BY <1>1 DEF Refresh, Tick, ListMetrics, LockRequest, LockAcquire, StoreHalf,
                StoreRest, Unlock, requests, vars
  <2>2. lock' = lock \/ \E w : lock' = [lock EXCEPT !.writer = w]
    BY <1>1 DEF Refresh, Tick, ListMetrics, LockRequest, LockAcquire, StoreHalf,
                StoreRest, Unlock, registry, vars
  <2>3. lock'.readers = lock.readers
    BY <2>2 DEF IndInv, LockInv
  <2> QED BY <2>1, <2>3 DEF TypeInv
<1>2. ASSUME NEW o \in Oaps, ChangeOap(o) PROVE TypeInv'
  <2>1. changes < MaxChanges /\ changes' = changes + 1
        /\ UNCHANGED <<lock, pc, md, restarts>>
    BY <1>2 DEF ChangeOap, registry, requests
  <2>2. changes' \in 0 .. MaxChanges
    BY <2>1, BoundsAssumption DEF TypeInv
  <2> QED BY <2>1, <2>2 DEF TypeInv
<1>3. CASE Restart \/ \E h \in Getters : LookupDies(h)
  <2>1. Restarted
    BY <1>3 DEF Restart, LookupDies
  <2>2. restarts'.stopped \in 0 .. MaxRestarts
    <3>1. CASE Restart
      BY <3>1, BoundsAssumption DEF Restart, TypeInv, FreshInv
    <3>2. CASE \E h \in Getters : LookupDies(h)
      BY <3>2 DEF LookupDies, TypeInv, FreshInv
    <3> QED BY <1>3, <3>1, <3>2
  <2> QED BY <2>1, <2>2 DEF Restarted, TypeInv, Handlers
<1>4. ASSUME NEW h \in Handlers,
             \/ h \in Listers /\ (List(h) \/ RLock(h))
             \/ \E i \in Infos : h \in Getters /\ Get(h, i)
             \/ Serve(h)
      PROVE  TypeInv'
  BY <1>4, RequestKeepsTypes
<1> QED BY <1>1, <1>2, <1>3, <1>4 DEF Next, Handlers

\* The invariants together are the types.
LEMMA TypesFollow ==
  ASSUME IndInv, FreshInv, TypeInv
  PROVE  TypeOK
<1>1. Current \subseteq Lists /\ Within(metricDefines, Current)
      /\ DOMAIN metricDefines = Words
  BY CurrentHas DEF IndInv
<1>2. metricDefines.array \in Lists /\ metricDefines.len \in {Len(l) : l \in Lists}
  BY <1>1 DEF Within, Words
<1>3. oap \in Oaps /\ mdd \in Lists
  BY DEF IndInv, RegistryInv
<1>4. /\ lock.writer \in {"none", "waiting", "held"}
      /\ refresher \in {"idle", "list", "lock", "acquire", "store", "stored", "unlock"}
  BY DEF IndInv, LockInv
<1>5. ASSUME NEW h \in Handlers
      PROVE  DOMAIN seen[h] \subseteq Words /\ (pc[h] = "read" => since[h] # {})
  <2>1. DOMAIN seen[h] \subseteq Words
    BY DEF IndInv, ShapeInv
  <2>2. pc[h] = "read" => metricDefines.array \in since[h]
    BY <1>1 DEF IndInv, ReadInv, Within, Words
  <2> QED BY <2>1, <2>2
<1>6. restarts.died \in Nat
  BY DEF FreshInv
<1> QED BY <1>2, <1>3, <1>4, <1>5, <1>6 DEF TypeInv, TypeOK

\* The adapter's variables always have the values TypeOK names: among them, only
\* requests for the list hold the lock, and a lookup comes out with one of OAP's
\* definitions, with nothing, or with what lies beyond an array.
THEOREM TypeCorrect == Spec => []TypeOK
<1>1. Init => FreshInv /\ TypeInv
  <2> SUFFICES ASSUME Init PROVE FreshInv /\ TypeInv
    OBVIOUS
  <2>1. FreshInv
    BY DEF Init, FreshInv, Handlers
  <2>2. TypeInv
    BY BoundsAssumption DEF Init, TypeInv, Handlers
  <2> QED BY <2>1, <2>2
<1>2. IndInv /\ EntityInv /\ FreshInv /\ TypeInv /\ [Next]_vars => FreshInv' /\ TypeInv'
  BY StepKeepsFresh, StepKeepsTypes
<1>3. IndInv /\ FreshInv /\ TypeInv => TypeOK
  BY TypesFollow
<1> QED BY <1>1, <1>2, <1>3, IndInvHolds, EntityInvHolds, PTL DEF Spec
=============================================================================
