------------------------------ MODULE Adapter ------------------------------
(***************************************************************************)
(* The custom metrics adapter: an API server in front of OAP.  One         *)
(* goroutine refreshes the registry, the list of OAP's metric definitions. *)
(* Requests to list the metrics read it under a read lock; requests for a  *)
(* metric's value read it without the lock, and then ask OAP.              *)
(*                                                                         *)
(* metricDefines is a slice: a pointer to its array and a length, two      *)
(* words that are stored, and loaded, one after the other.  A lookup that  *)
(* meets a store may hold the pointer of one list and the length of the    *)
(* other (the compiler fixes the order of neither).                        *)
(*                                                                         *)
(* A string is a sequence of pieces, << >> being the empty one.            *)
(***************************************************************************)
EXTENDS Integers, FiniteSets, Sequences, SequencesExt

CONSTANTS
  Getters, Listers,  \* the requests for a value and for the list
  Oaps,              \* the states of OAP: defs, a sequence of [name, type], and
                     \* whether it answers "yes", with an "error" or "never"
  Infos,             \* what is asked for: a metric, <<namespace, name>>, and a
                     \* selector, a sequence of requirements
  Readings,          \* the series OAP may answer with
  Hex,               \* what the label values that are hexadecimal decode to
  Namespace,
  None, Nil, Nothing, Panic, Garbage,  \* no value; Nothing is a selector
  MaxChanges,        \* how often OAP changes
  MaxRestarts        \* how often the adapter's process is stopped

\* x is a sequence, whatever its elements.
IsList(x) == x \in Seq(ToSet(x))

\* A request asks for one thing; OAP's definitions are a list; so are a selector
\* and the strings in it.
ASSUME RequestsAssumption == Getters \cap Listers = {}
ASSUME OapsAssumption == \A o \in Oaps : IsList(o.defs)
ASSUME SelectorsAssumption ==
  /\ \A i \in Infos : i.selector # Nothing =>
       /\ IsList(i.selector)
       /\ \A n \in DOMAIN i.selector : LET v == i.selector[n].value IN
            v # None => IsList(v)
  /\ \A v \in DOMAIN Hex : Hex[v] # None /\ IsList(Hex[v])
ASSUME BoundsAssumption == MaxChanges \in Nat /\ MaxRestarts \in Nat

VARIABLES
  oap,               \* the definitions OAP has, and how it answers
  metricDefines,     \* the registry's slice
  lock,              \* the RWMutex: its writer and its readers
  refresher, mdd,    \* the refreshing goroutine and the list it fetched
  pc, info, seen,    \* requests: what is asked for, the words loaded so far
  md, entity, ans,   \* the definition found, the entity, the answer
  since,             \* lists the registry had while the request read it
  changes,           \* how often OAP has changed
  restarts           \* how often the process was stopped, and has died

registry == <<metricDefines, lock, refresher, mdd>>
requests == <<pc, info, seen, md, entity, ans, since>>
vars == <<oap, registry, requests, changes, restarts>>

Handlers == Getters \cup Listers
Params   == {"service", "label", "instance", "endpoint"}
Words    == {"array", "len"}
Lists    == {o.defs : o \in Oaps} \cup {<< >>}
Defines  == UNION {ToSet(l) : l \in Lists}

\* The two words of the slice that holds the list l.
Slice(l) == [array |-> l, len |-> Len(l)]

TypeOK ==
  /\ oap \in Oaps
  /\ metricDefines.array \in Lists
  /\ metricDefines.len \in {Len(l) : l \in Lists}
  /\ lock.writer \in {"none", "waiting", "held"} /\ lock.readers \subseteq Listers
  /\ refresher \in {"idle", "list", "lock", "acquire", "store", "stored", "unlock"}
  /\ mdd \in Lists
  /\ pc \in [Handlers -> {"idle", "rlock", "read", "query", "runlock", "done"}]
  /\ \A g \in Getters : md[g] \in Defines \cup {Nil, Garbage, None}
  /\ \A h \in Handlers : /\ DOMAIN seen[h] \subseteq Words
                         /\ pc[h] = "read" => since[h] # {}
  /\ changes \in 0 .. MaxChanges
  /\ restarts.stopped \in 0 .. MaxRestarts /\ restarts.died \in Nat

----------------------------------------------------------------------------
(* The label selector *)

\* getMetricNameWithNamespace
Qualified(name) == <<Namespace, name>>

\* A buffer of n empty strings, counted from 1.
Buffer(n) == [i \in 1 .. n |-> << >>]

\* Mutant: the buffer grows only when it is too short by more than one.
BufferEntity_Short(vv, index, value) ==
  LET grown == IF Len(vv) < index THEN vv \o Buffer(index + 1 - Len(vv)) ELSE vv
  IN  IF value = None THEN grown ELSE [grown EXCEPT ![index + 1] = value]

\* bufferEntity: grow the buffer up to index, and set the element if the
\* requirement has a value.
BufferEntity(vv, index, value) ==
  LET grown == IF Len(vv) <= index THEN vv \o Buffer(index + 1 - Len(vv)) ELSE vv
  IN  IF value = None THEN grown ELSE [grown EXCEPT ![index + 1] = value]

\* One turn of the loop of extractValue.  r.key is the parameter whose name the
\* label starts with, r.shape the label's second component ("whole" if it has one
\* component, "short" if two), r.index its third.  An index that is no number
\* counts as one out of range; of several values r.value is the one PopAny takes.
Extract(key, acc, r) ==
  LET end(e)    == [acc EXCEPT !.end = e]
      put(i, v) == [acc EXCEPT !.vv = BufferEntity(acc.vv, i, v)]
  IN  IF acc.end # "no" \/ r.key # key THEN acc
      ELSE IF r.shape = "whole" THEN [put(0, r.value) EXCEPT !.end = "whole"]
      ELSE IF r.shape = "short" \/ r.index \notin -128 .. 127 THEN end("error")
      ELSE IF r.shape \notin {"str", "byte"} \/ r.value = None
        THEN acc
      ELSE IF r.index < 0 THEN end("panic")
      ELSE IF r.shape = "str" THEN put(r.index, r.value)
      ELSE IF r.value \in DOMAIN Hex THEN put(r.index, Hex[r.value])
      ELSE end("error")

\* extractValue: the value of a parameter, Nil if an error ended the loop.
ExtractValue(requirements, key) ==
  LET turns == Len(requirements)
      acc[n \in 0 .. turns] == IF n = 0 THEN [vv |-> Buffer(10), end |-> "no"]
                               ELSE Extract(key, acc[n - 1], requirements[n])
  IN  CASE acc[turns].end = "no"    -> FlattenSeq(acc[turns].vv)
        [] acc[turns].end = "whole" -> acc[turns].vv[1]
        [] acc[turns].end = "error" -> Nil
        [] acc[turns].end = "panic" -> Panic

\* The function extractValue: what every selector comes to.
Entities ==
  [s \in {i.selector : i \in Infos} \ {Nothing} |->
     [k \in Params |-> ExtractValue(s, k)]]

----------------------------------------------------------------------------
(* OAP and the refreshing goroutine *)

\* OAP comes or goes, answers with errors, stops answering, or has other metrics.
ChangeOap(o) ==
  /\ changes < MaxChanges /\ o # oap
  /\ oap' = o /\ changes' = changes + 1
  /\ UNCHANGED <<registry, requests, restarts>>

\* sync: wait.Until calls updateMetrics at once and then each interval.
Tick ==
  /\ refresher = "idle" /\ refresher' = "list"
  /\ UNCHANGED <<oap, metricDefines, lock, mdd, requests, changes, restarts>>

\* Mutant: an empty list replaces the one there is.
ListMetrics_Empty ==
  /\ refresher = "list" /\ oap.answers # "never"
  /\ IF oap.answers = "yes" THEN refresher' = "lock" /\ mdd' = oap.defs
                            ELSE refresher' = "idle" /\ UNCHANGED mdd
  /\ UNCHANGED <<oap, metricDefines, lock, requests, changes, restarts>>

\* updateMetrics: ListMetrics; an error or an empty list changes nothing.
ListMetrics ==
  /\ refresher = "list" /\ oap.answers # "never"
  /\ IF oap.answers = "yes" /\ Len(oap.defs) > 0
       THEN refresher' = "lock" /\ mdd' = oap.defs
       ELSE refresher' = "idle" /\ UNCHANGED mdd
  /\ UNCHANGED <<oap, metricDefines, lock, requests, changes, restarts>>

\* Lock: a writer that waits keeps new readers out, then waits for those inside.
LockRequest ==
  /\ refresher = "lock" /\ refresher' = "acquire"
  /\ lock' = [lock EXCEPT !.writer = "waiting"]
  /\ UNCHANGED <<oap, metricDefines, mdd, requests, changes, restarts>>

LockAcquire ==
  /\ refresher = "acquire" /\ lock.readers = {} /\ refresher' = "store"
  /\ lock' = [lock EXCEPT !.writer = "held"]
  /\ UNCHANGED <<oap, metricDefines, mdd, requests, changes, restarts>>

\* Mutant: the registry is emptied before it is filled.
StoreHalf_Clear ==
  /\ refresher = "store" /\ refresher' = "stored"
  /\ metricDefines' = Slice(<< >>)
  /\ since' = [h \in Handlers |->
                 IF pc[h] = "read" THEN since[h] \cup {mdd} ELSE since[h]]
  /\ UNCHANGED <<oap, lock, mdd, pc, info, seen, md, entity, ans, changes, restarts>>

\* p.metricDefines = mdd: one word of the slice, and then the other.
StoreHalf ==
  /\ refresher = "store" /\ refresher' = "stored"
  /\ \E w \in Words : metricDefines' = [metricDefines EXCEPT ![w] = Slice(mdd)[w]]
  /\ since' = [h \in Handlers |->
                 IF pc[h] = "read" THEN since[h] \cup {mdd} ELSE since[h]]
  /\ UNCHANGED <<oap, lock, mdd, pc, info, seen, md, entity, ans, changes, restarts>>

\* Mutant: only an empty registry is filled.
StoreRest_Once ==
  /\ refresher = "stored" /\ refresher' = "unlock"
  /\ metricDefines' = IF metricDefines.array = << >> \/ metricDefines.len = 0
                        THEN Slice(mdd) ELSE metricDefines
  /\ UNCHANGED <<oap, lock, mdd, requests, changes, restarts>>

StoreRest ==
  /\ refresher = "stored" /\ refresher' = "unlock"
  /\ metricDefines' = Slice(mdd)
  /\ UNCHANGED <<oap, lock, mdd, requests, changes, restarts>>

Unlock ==
  /\ refresher = "unlock" /\ refresher' = "idle" /\ mdd' = << >>
  /\ lock' = [lock EXCEPT !.writer = "none"]
  /\ UNCHANGED <<oap, metricDefines, requests, changes, restarts>>

Refresh == Tick \/ ListMetrics \/ LockRequest \/ LockAcquire \/ StoreHalf
             \/ StoreRest \/ Unlock

----------------------------------------------------------------------------
(* Requests *)

\* The lists the registry has now: two, while one takes the place of the other.
\* A half-stored one is the list its array, or its length, was taken from.
Current ==
  IF refresher = "stored"
    THEN {mdd} \cup {l \in Lists :
                       metricDefines \in {[array |-> l, len |-> Len(mdd)],
                                          [array |-> mdd, len |-> Len(l)]}}
    ELSE {metricDefines.array}

Begin(h) ==
  /\ pc' = [pc EXCEPT ![h] = "read"]
  /\ seen' = [seen EXCEPT ![h] = << >>]
  /\ since' = [since EXCEPT ![h] = Current]

\* The words loaded are used and no longer needed.
End(h) ==
  /\ seen' = [seen EXCEPT ![h] = << >>]
  /\ since' = [since EXCEPT ![h] = {}]

\* One of the two words of the slice is loaded.
ReadWord(h, w) ==
  /\ pc[h] = "read" /\ w \notin DOMAIN seen[h]
  /\ seen' = [seen EXCEPT ![h] = [v \in DOMAIN seen[h] \cup {w} |->
                IF v = w THEN metricDefines[w] ELSE seen[h][v]]]
  /\ UNCHANGED <<oap, registry, pc, info, md, entity, ans, since, changes, restarts>>

\* ListAllExternalMetrics
List(h) ==
  /\ pc[h] = "idle" /\ pc' = [pc EXCEPT ![h] = "rlock"]
  /\ UNCHANGED <<oap, registry, info, seen, md, entity, ans, since, changes, restarts>>

\* Mutant: the list is read without the lock.
RLock_Not(h) ==
  /\ pc[h] = "rlock" /\ Begin(h)
  /\ UNCHANGED <<oap, registry, info, md, entity, ans, changes, restarts>>

RLock(h) ==
  /\ pc[h] = "rlock" /\ lock.writer = "none" /\ Begin(h)
  /\ lock' = [lock EXCEPT !.readers = @ \cup {h}]
  /\ UNCHANGED <<oap, metricDefines, refresher, mdd, info, md, entity, ans, changes,
                 restarts>>

\* The range over the slice; a length beyond the array reads what lies there.
Collect(h) ==
  /\ h \in Listers /\ pc[h] = "read" /\ DOMAIN seen[h] = Words
  /\ pc' = [pc EXCEPT ![h] = "runlock"]
  /\ ans' = [ans EXCEPT ![h] =
       IF seen[h].len > Len(seen[h].array) THEN Garbage
       ELSE [i \in 1 .. seen[h].len |-> Qualified(seen[h].array[i].name)]]
  /\ End(h)
  /\ UNCHANGED <<oap, registry, info, md, entity, changes, restarts>>

RUnlock(h) ==
  /\ pc[h] = "runlock" /\ pc' = [pc EXCEPT ![h] = "idle"]
  /\ lock' = [lock EXCEPT !.readers = @ \ {h}]
  /\ ans' = [ans EXCEPT ![h] = None]
  /\ UNCHANGED <<oap, metricDefines, refresher, mdd, info, seen, md, entity, since,
                 changes, restarts>>

\* GetExternalMetric is called.
Get(h, i) ==
  /\ pc[h] = "idle" /\ Begin(h)
  /\ info' = [info EXCEPT ![h] = i]
  /\ UNCHANGED <<oap, registry, md, entity, ans, changes, restarts>>

\* The loop of GetExternalMetric over the registry: the last match counts.
Find(list, m) ==
  LET matches == {i \in DOMAIN list : Qualified(list[i].name) = m}
  IN  IF matches = {} THEN Nil
      ELSE list[CHOOSE i \in matches : \A j \in matches : j <= i]

Fail(error) == [error |-> error]

\* The definitions a lookup can come out with.  Beyond an array lies anything; the
\* nil pointer of the first, empty registry is caught.
Finds(h) ==
  LET m == info[h].metric IN
  IF seen[h].len <= Len(seen[h].array)
    THEN {Find(SubSeq(seen[h].array, 1, seen[h].len), m)}
    ELSE {Garbage} \cup (IF seen[h].array = << >> THEN {}
                         ELSE {Nil} \cup {d \in Defines : Qualified(d.name) = m})

\* parseScope follows the pointers to the endpoint's name and, if that is empty, to
\* the instance's: are they there?
ParseScope(e) ==
  e["endpoint"] # Nil /\ (e["endpoint"] = << >> => e["instance"] # Nil)

\* GetExternalMetric up to the call of OAP, with definition d and selector s: the
\* answer, or None if there is none yet.  Nothing is the selector without
\* requirements.
Before(d, s) ==
  LET e == Entities[s]
  IN  IF d = Garbage THEN Panic
      ELSE IF d = Nil \/ s = Nothing THEN Fail("BadRequest")
      ELSE IF (\E k \in Params : e[k] = Panic) \/ e["service"] = Nil THEN Panic
      ELSE IF e["service"] = << >> THEN Fail("BadRequest")
      ELSE IF ~ParseScope(e) THEN Panic
      ELSE CASE d.type = "REGULAR_VALUE" -> None
             [] d.type = "LABELED_VALUE" ->
                  IF e["label"] = Nil THEN Panic
                  ELSE IF e["label"] = << >> THEN Fail("BadRequest") ELSE None
             [] OTHER -> Fail("NotFound")

Lookup(h) ==
  /\ h \in Getters /\ pc[h] = "read" /\ DOMAIN seen[h] = Words
  /\ \E d \in Finds(h) :
       LET s == info[h].selector
           a == Before(d, s)
       IN  /\ md' = [md EXCEPT ![h] = d]
           /\ entity' = [entity EXCEPT ![h] =
                IF d \in {Nil, Garbage} \/ s = Nothing THEN None
                ELSE Entities[s]]
           /\ ans' = [ans EXCEPT ![h] = a]
           /\ pc' = [pc EXCEPT ![h] = IF a = None THEN "query" ELSE "done"]
  /\ End(h)
  /\ UNCHANGED <<oap, registry, info, changes, restarts>>

\* The end of GetExternalMetric: the last reading is of a minute still running,
\* the one before it counts.
Value(values) ==
  IF Len(values) < 2 THEN Fail("NotFound")
  ELSE LET v == values[Len(values) - 1]
       IN  [value |-> IF v > 0 THEN v ELSE 0, minutesAgo |-> IF v > 0 THEN 1 ELSE 0]

\* Mutant: a call that fails is tried again until it succeeds.
Query_Again(h) ==
  /\ pc[h] = "query" /\ oap.answers = "yes"
  /\ pc' = [pc EXCEPT ![h] = "done"]
  /\ \E values \in Readings \cup {<< >>} : ans' = [ans EXCEPT ![h] = Value(values)]
  /\ UNCHANGED <<oap, registry, info, seen, md, entity, since, changes, restarts>>

\* The call of OAP.  A labelled metric has a series for each label; without one
\* for the label asked for there are no values.
Query(h) ==
  /\ pc[h] = "query" /\ oap.answers # "never"
  /\ pc' = [pc EXCEPT ![h] = "done"]
  /\ \E values \in Readings \cup {<< >>} :
       ans' = [ans EXCEPT ![h] =
                 IF oap.answers = "error" THEN Fail("InternalError") ELSE Value(values)]
  /\ UNCHANGED <<oap, registry, info, seen, md, entity, since, changes, restarts>>

\* The answer is sent.
Reply(h) ==
  /\ pc[h] = "done" /\ pc' = [pc EXCEPT ![h] = "idle"]
  /\ info' = [info EXCEPT ![h] = None] /\ md' = [md EXCEPT ![h] = None]
  /\ entity' = [entity EXCEPT ![h] = None] /\ ans' = [ans EXCEPT ![h] = None]
  /\ UNCHANGED <<oap, registry, seen, since, changes, restarts>>

\* The process dies, or is stopped, and is started again.
Restarted ==
  /\ metricDefines' = Slice(<< >>) /\ mdd' = << >> /\ refresher' = "idle"
  /\ lock' = [writer |-> "none", readers |-> {}]
  /\ pc' = [h \in Handlers |-> "idle"]
  /\ info' = [h \in Handlers |-> None] /\ seen' = [h \in Handlers |-> << >>]
  /\ md' = [h \in Handlers |-> None] /\ entity' = [h \in Handlers |-> None]
  /\ ans' = [h \in Handlers |-> None] /\ since' = [h \in Handlers |-> {}]
  /\ UNCHANGED <<oap, changes>>

Restart ==
  /\ restarts.stopped < MaxRestarts /\ Restarted
  /\ restarts' = [restarts EXCEPT !.stopped = @ + 1]

\* A pointer to nowhere ends the process.
LookupDies(h) ==
  /\ h \in Getters /\ pc[h] = "read" /\ DOMAIN seen[h] = Words
  /\ seen[h].array # << >> /\ seen[h].len > Len(seen[h].array)
  /\ Restarted /\ restarts' = [restarts EXCEPT !.died = @ + 1]

----------------------------------------------------------------------------
\* NewProvider: an empty registry; requests are served at once.
Init ==
  /\ oap \in Oaps
  /\ metricDefines = Slice(<< >>) /\ mdd = << >> /\ refresher = "idle"
  /\ lock = [writer |-> "none", readers |-> {}]
  /\ pc = [h \in Handlers |-> "idle"]
  /\ info = [h \in Handlers |-> None] /\ seen = [h \in Handlers |-> << >>]
  /\ md = [h \in Handlers |-> None] /\ entity = [h \in Handlers |-> None]
  /\ ans = [h \in Handlers |-> None] /\ since = [h \in Handlers |-> {}]
  /\ changes = 0 /\ restarts = [stopped |-> 0, died |-> 0]

Serve(h) ==
  \/ \E w \in Words : ReadWord(h, w)
  \/ Collect(h) \/ RUnlock(h) \/ Lookup(h) \/ Query(h) \/ Reply(h)

Next ==
  \/ \E o \in Oaps : ChangeOap(o)
  \/ Refresh \/ Restart
  \/ \E h \in Listers : List(h) \/ RLock(h)
  \/ \E h \in Getters : LookupDies(h) \/ \E i \in Infos : Get(h, i)
  \/ \E h \in Handlers : Serve(h)

Spec == Init /\ [][Next]_vars

(***************************************************************************)
(* Goroutines go on, the ticker ticks, and a call of OAP returns unless    *)
(* OAP does not answer (no call has a deadline).  Unlock lets the readers  *)
(* in that wait before the next writer: a reader is not overtaken for      *)
(* ever.                                                                   *)
(***************************************************************************)
Fairness ==
  /\ WF_vars(Refresh)
  /\ \A h \in Handlers : WF_vars(Serve(h))
  /\ \A h \in Listers : SF_vars(RLock(h))

FairSpec == Spec /\ Fairness

----------------------------------------------------------------------------
(* Properties *)

\* The answer of ListAllExternalMetrics is one whole list the registry had while
\* it was asked, whatever the refreshing goroutine did meanwhile.
ListIsSnapshot ==
  [][\A h \in Listers : ans[h] = None /\ ans'[h] # None =>
       \E l \in since[h] : ans'[h] = [i \in DOMAIN l |-> Qualified(l[i].name)]]_vars

\* The list counts as replaced with the first of the two stores.
TheList == IF refresher = "stored" THEN mdd ELSE metricDefines.array
Answers == [h \in Listers |-> ans[h]]

Registry == INSTANCE MetricRegistry WITH
  Clients <- Listers, Known <- Lists,
  starts <- restarts, list <- TheList, answer <- Answers

\* To those who list the metrics, the registry with its lock, its half-stored
\* slices and its failing refreshes is one list that changes at once, never to an
\* empty one, and is read at once.
ImplementsRegistry == Registry!Spec

\* Although GetExternalMetric reads the registry without the lock: as long as the
\* lists that took each other's place meanwhile have one length (the refresh of a
\* registry that did not change is such a case) it uses the definition one of them
\* has, and misses no metric that they all have.
GetExact ==
  [][\A g \in Getters :
       (/\ md[g] = None /\ md'[g] # None
        /\ \A l, k \in since[g] : Len(l) = Len(k))
         => md'[g] \in {Find(l, info[g].metric) : l \in since[g]}]_vars

\* A selector that names parameter k in the documented way: by one label, or by
\* pieces with distinct numbers, those in bytes in hexadecimal.
WellFormed(s, k) ==
  LET mine == {i \in DOMAIN s : s[i].key = k}
  IN  /\ \A i \in mine : s[i].value # None
      /\ \/ Cardinality(mine) = 1 /\ \A i \in mine : s[i].shape = "whole"
         \/ /\ \A i \in mine : /\ s[i].shape \in {"str", "byte"}
                               /\ s[i].index \in 0 .. 127
                               /\ s[i].shape = "byte" => s[i].value \in DOMAIN Hex
            /\ \A i, j \in mine : s[i].index = s[j].index => i = j

\* What such a selector says: the pieces one behind the other, by their numbers.
Meaning(s, k) ==
  LET mine   == {i \in DOMAIN s : s[i].key = k}
      order  == CHOOSE o \in SetToSeqs(mine) : \A m, n \in DOMAIN o :
                  m < n => s[o[m]].index < s[o[n]].index
      text(i) == IF s[i].shape = "byte" THEN Hex[s[i].value] ELSE s[i].value
  IN  FlattenSeq([n \in DOMAIN order |-> text(order[n])])

\* The entity OAP is asked about is the one the selector spells, in whatever order
\* its labels come and whatever the buffer's size: the last number of the first
\* buffer, the first one past it, and none left out.
Assembled ==
  \A g \in Getters : entity[g] # None =>
    \A k \in Params : WellFormed(info[g].selector, k) =>
      entity[g][k] = Meaning(info[g].selector, k)

\* If OAP ends up answering, with metrics, the registry ends up with just these.
Follows ==
  <>[](oap.answers = "yes" /\ Len(oap.defs) > 0 => metricDefines = Slice(oap.defs))

\* Every request is answered.  One for the list is answered even if OAP never
\* answers, since the lock is not held during the call; one for a value, unless
\* OAP does not answer it.
Answered ==
  /\ \A h \in Listers : pc[h] # "idle" ~> pc[h] = "idle"
  /\ \A g \in Getters : pc[g] # "idle" ~> pc[g] = "idle" \/ oap.answers = "never"
=============================================================================
