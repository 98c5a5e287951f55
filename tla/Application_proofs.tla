------------------------- MODULE Application_proofs -------------------------
(***************************************************************************)
(* Proofs, for every number of CRs, manifests and versions and for every   *)
(* template function, that a finished pass of ApplyAll leaves no manifest  *)
(* behind, that objects come from stored versions of their CR, and that    *)
(* no reconcile takes a CR's objects back in time.                         *)
(***************************************************************************)
EXTENDS Application, TLAPS

Locals == Files \ Shared

\* The cache is a position in the history the API server has.
CacheInHistory == \A c \in CRs : cache[c] \in 1 .. Len(log[c])

\* A busy worker handles a version of a CR that existed and that the cache has
\* reached; what it is about to write was rendered; a pass starts at file 1.
WorkerInv ==
  /\ pc \in {"idle", "inject"} => file = 1
  /\ pc # "idle" =>
       /\ req \in CRs
       /\ seen \in 1 .. cache[req]
       /\ log[req][seen].spec # Deleted
  /\ pc \in {"create", "update"} => Current \in Manifests

\* No object of a CR is newer than what the cache has reached, nor, while the
\* CR is being reconciled, than the version being reconciled.
NothingNewer ==
  \A c \in CRs, f \in Locals :
    objects[<<c, f>>] # Absent =>
      /\ objects[<<c, f>>].src <= cache[c]
      /\ (pc # "idle" /\ req = c) => objects[<<c, f>>].src <= seen

IndInv ==
  TypeOK /\ CacheInHistory /\ WorkerInv /\ NothingNewer /\ Provenance
    /\ PassComplete

-----------------------------------------------------------------------------
(* Facts about keys and renderings *)

\* Every manifest of a CR has a key of the cluster: its own under the CR's name,
\* or the one of a cluster-scoped object that all CRs of the kind share.
LEMMA KeyFacts ==
  ASSUME NEW c \in CRs, NEW f \in Files
  PROVE  /\ Key(c, f) \in Keys
         /\ f \notin Shared => Key(c, f) = <<c, f>>
         /\ f \in Shared => Key(c, f) = <<Cluster, f>>
  BY DEF Key, Keys

\* A rendering keeps its type, and a longer history does not change it.
LEMMA RenderType ==
  ASSUME TypeOK, NEW c \in CRs, NEW f \in Files, NEW p \in 1 .. Len(log[c]),
         NEW i \in Injected, log[c][p].spec # Deleted
  PROVE  Render(c, f, p, i) \in Manifests \cup {Nothing, Failed}
  <1>1. log[c][p] \in Versions
    BY DEF TypeOK
  <1>2. log[c][p].spec \in Specs
    BY <1>1 DEF Versions
  <1>. QED
    BY <1>2, ConstantsAssumption DEF Render

\* What compose() makes of a rendering is an object of the cluster.
LEMMA ComposeType ==
  ASSUME TypeOK, NEW c \in CRs, NEW p \in 1 .. Len(log[c]),
         NEW mf \in Manifests
  PROVE  compose(c, p, mf) \in Objects
  <1>1. log[c][p] \in Versions
    BY DEF TypeOK
  <1>2. log[c][p].uid \in Nat /\ p \in Nat
    BY <1>1 DEF Versions, TypeOK
  <1>. QED
    BY <1>2 DEF compose, Objects, Hashes, hash, Manifests

-----------------------------------------------------------------------------
(* The inductive invariant, one lemma for each kind of step *)

\* Before the first CR is submitted nothing is cached, queued or stored.
LEMMA InitInd == Init => IndInv
  <1>. SUFFICES ASSUME Init PROVE IndInv
    OBVIOUS
  <1>1. TypeOK
    <2>1. [uid |-> 0, spec |-> Deleted] \in Versions
      BY DEF Versions
    <2>2. << [uid |-> 0, spec |-> Deleted] >> \in Seq(Versions)
      BY <2>1
    <2>. QED
      BY <2>2, ConstantsAssumption DEF Init, TypeOK, Injected, Files
  <1>2. CacheInHistory /\ WorkerInv /\ PassComplete
    BY DEF Init, CacheInHistory, WorkerInv, PassComplete
  <1>3. NothingNewer /\ Provenance
    BY KeyFacts DEF Init, NothingNewer, Provenance, Locals
  <1>. QED
    BY <1>1, <1>2, <1>3 DEF IndInv

\* A user stores a new version of a CR: the old positions stay what they were.
LEMMA SubmitInd ==
  ASSUME IndInv, NEW c \in CRs, NEW v \in Versions, Submit(c, v)
  PROVE  IndInv'
  <1>. USE DEF IndInv
  <1>1. /\ log' \in [CRs -> Seq(Versions)]
        /\ \A d \in CRs : /\ Len(log'[d]) >= Len(log[d])
                          /\ \A p \in 1 .. Len(log[d]) : log'[d][p] = log[d][p]
    BY DEF Submit, TypeOK
  <1>2. UNCHANGED <<cache, storage, objects, queue, timer, worker, dirty, faults>>
    BY DEF Submit
  <1>3. TypeOK'
    BY <1>1, <1>2, ConstantsAssumption DEF TypeOK, Submit, Edit, worker
  <1>4. CacheInHistory'
    BY <1>1, <1>2 DEF CacheInHistory, TypeOK
  <1>5. \A d \in CRs, f \in Files, i \in Injected : \A p \in 1 .. Len(log[d]) :
          Render(d, f, p, i)' = Render(d, f, p, i)
    BY <1>1 DEF Render
  <1>6. pc # "idle" => /\ req \in CRs /\ seen \in 1 .. Len(log[req])
                       /\ injected \in Injected /\ file \in Files
    BY DEF WorkerInv, CacheInHistory, TypeOK
  <1>7. WorkerInv'
    <2>1. pc # "idle" => Current' = Current
      BY <1>2, <1>5, <1>6 DEF Current, worker
    <2>. QED
      BY <1>1, <1>2, <1>6, <2>1 DEF WorkerInv, worker
  <1>8. NothingNewer'
    BY <1>2 DEF NothingNewer, worker
  <1>9. Provenance'
    <2>1. ASSUME NEW d \in CRs, NEW f \in Files, NEW o \in Objects,
                 Genuine(d, f, o)
          PROVE  Genuine(d, f, o)'
      BY <2>1, <1>1, <1>5 DEF Genuine, hash, Objects, TypeOK
    <2>. QED
      BY <2>1, <1>2, KeyFacts DEF Provenance, TypeOK, Key
  <1>10. PassComplete'
    <2>1. pc # "idle" =>
            \A f \in Files : InPlace(req, f, seen, injected)'
                               = InPlace(req, f, seen, injected)
      BY <1>2, <1>5, <1>6 DEF InPlace, worker, Key
    <2>. QED
      BY <2>1, <1>2, <1>6 DEF PassComplete, Done, worker, Key
  <1>. QED
    BY <1>3, <1>4, <1>7, <1>8, <1>9, <1>10

\* Somebody deletes an object, or changes it and leaves where it came from.
LEMMA TouchInd ==
  ASSUME IndInv, NEW k \in Keys, NEW o \in Objects \cup {Absent}, Touch(k, o),
         edits' \in 0 .. MaxEdits,
         o # Absent => /\ o.src = objects[k].src /\ o.uid = objects[k].uid
                       /\ o.version = objects[k].version
                       /\ \/ o.drifted
                          \/ /\ o.drifted = objects[k].drifted
                             /\ o.contents = objects[k].contents
  PROVE  IndInv'
  <1>. USE DEF IndInv
  <1>1. /\ UNCHANGED <<log, cache, storage, timer, worker, faults>>
        /\ objects' = [objects EXCEPT ![k] = o]
        /\ objects[k] # Absent
    BY DEF Touch
  <1>2. queue' \subseteq CRs
    <2>1. k[2] \in Owned => k[1] \in CRs
      BY ConstantsAssumption DEF Keys
    <2>. QED
      BY <2>1 DEF Touch, Notify, TypeOK
  <1>3. TypeOK'
    BY <1>1, <1>2 DEF TypeOK, Touch, worker
  <1>4. CacheInHistory' /\ WorkerInv'
    BY <1>1 DEF CacheInHistory, WorkerInv, worker, Current, Render
  <1>5. NothingNewer'
    BY <1>1, KeyFacts DEF NothingNewer, worker, Locals, Keys, TypeOK
  <1>6. Provenance'
    <2>1. ASSUME NEW c \in CRs, NEW f \in Files \ Shared
          PROVE  LET old == objects[Key(c, f)]  new == objects'[Key(c, f)] IN
                 new # Absent =>
                   /\ old # Absent
                   /\ new.src = old.src /\ new.uid = old.uid
                   /\ new.version = old.version
                   /\ \/ new.drifted
                      \/ new.drifted = old.drifted /\ new.contents = old.contents
      BY <1>1, KeyFacts DEF TypeOK
    <2>2. ASSUME NEW c \in CRs, NEW f \in Files \ Shared, NEW old, NEW new,
                 Genuine(c, f, old),
                 new.src = old.src, new.uid = old.uid,
                 new.version = old.version,
                 \/ new.drifted
                 \/ new.drifted = old.drifted /\ new.contents = old.contents
          PROVE  Genuine(c, f, new)'
      BY <2>2, <1>1 DEF Genuine, Render, hash
    <2>. QED
      BY <2>1, <2>2 DEF Provenance, Key
  <1>7. PassComplete'
    <2>. SUFFICES ASSUME pc # "idle", NEW f \in Done,
                         Key(req, f) \notin dirty \cup {k}
                  PROVE  InPlace(req, f, seen, injected)'
      BY <1>1 DEF PassComplete, worker, Touch, Key, Done
    <2>1. f \in Files /\ req \in CRs
      BY DEF Done, WorkerInv
    <2>2. objects'[Key(req, f)] = objects[Key(req, f)]
      BY <1>1, <2>1, KeyFacts DEF TypeOK
    <2>. QED
      BY <1>1, <2>1, <2>2 DEF PassComplete, InPlace, Render, hash, getVersion,
                              worker, Key
  <1>. QED
    BY <1>3, <1>4, <1>5, <1>6, <1>7

\* A reconcile ends, its last write carried out or not; the cache may have been
\* listed afresh (a crash).
LEMMA ReturnInd ==
  ASSUME IndInv, Return, UNCHANGED <<log, storage>>,
         objects' \in [Keys -> Objects \cup {Absent}], Provenance',
         \A c \in CRs, f \in Locals :
           objects'[<<c, f>>] # Absent => objects'[<<c, f>>].src <= cache[c],
         queue' \subseteq CRs, timer' \subseteq CRs,
         edits' \in 0 .. MaxEdits, faults' \in 0 .. MaxFaults,
         cache' = cache \/ cache' = [c \in CRs |-> Len(log[c])]
  PROVE  IndInv'
  <1>. USE DEF IndInv
  <1>1. /\ cache' \in [CRs -> Nat]
        /\ \A c \in CRs : /\ cache'[c] \in 1 .. Len(log[c])
                          /\ cache'[c] >= cache[c]
    BY DEF TypeOK, CacheInHistory
  <1>2. TypeOK'
    BY <1>1, ConstantsAssumption DEF TypeOK, Return, Injected, Files
  <1>3. CacheInHistory' /\ WorkerInv' /\ PassComplete'
    BY <1>1 DEF CacheInHistory, WorkerInv, PassComplete, Return
  <1>4. NothingNewer'
    <2>. SUFFICES ASSUME NEW c \in CRs, NEW f \in Locals,
                         objects'[<<c, f>>] # Absent
                  PROVE  objects'[<<c, f>>].src <= cache'[c]
      BY DEF NothingNewer, Return
    <2>1. objects'[<<c, f>>] \in Objects
      BY KeyFacts DEF Locals, Keys
    <2>2. objects'[<<c, f>>].src \in Nat
      BY <2>1 DEF Objects
    <2>. QED
      BY <1>1, <2>2 DEF TypeOK
  <1>. QED
    BY <1>2, <1>3, <1>4

\* Where the history and the objects stay, so does where the objects came from.
LEMMA ProvenanceKept ==
  ASSUME Provenance, UNCHANGED <<log, objects>> PROVE Provenance'
  <1>1. ASSUME NEW c \in CRs, NEW f \in Files, NEW o, Genuine(c, f, o)
        PROVE  Genuine(c, f, o)'
    BY <1>1 DEF Genuine, Render
  <1>. QED
    BY <1>1 DEF Provenance, Key

\* ApplyAll goes on to the next manifest, this one being in place by now.
LEMMA AdvanceInd ==
  ASSUME IndInv, pc \in {"apply", "create", "update"}, NextFile,
         UNCHANGED <<log, cache, storage, timer, edits, faults>>,
         queue' \subseteq CRs,
         objects' \in [Keys -> Objects \cup {Absent}],
         Provenance',
         \A c \in CRs, f \in Locals :
           objects'[<<c, f>>] # Absent =>
             /\ objects'[<<c, f>>].src <= cache[c]
             /\ req = c => objects'[<<c, f>>].src <= seen,
         \A f \in Files \ {file} : objects'[Key(req, f)] = objects[Key(req, f)],
         \/ Current = Nothing
         \/ /\ Current \in Manifests /\ objects'[Here] # Absent
            /\ getVersion(objects'[Here]) = hash(Current)
  PROVE  IndInv'
  <1>. USE DEF IndInv
  <1>1. /\ UNCHANGED <<req, seen, injected, dirty>>
        /\ pc' \in {"apply", "check"}
        /\ file' \in Files
        /\ \A f \in Files : (f < file' \/ pc' = "check") => (f \in Done \/ f = file)
    BY ConstantsAssumption DEF NextFile, TypeOK, Files, Done
  <1>2. TypeOK'
    BY <1>1 DEF TypeOK
  <1>3. CacheInHistory' /\ WorkerInv'
    BY <1>1 DEF CacheInHistory, WorkerInv
  <1>4. NothingNewer'
    BY <1>1 DEF NothingNewer
  <1>5. PassComplete'
    <2>. SUFFICES ASSUME NEW f \in Files, f < file' \/ pc' = "check",
                         Key(req, f) \notin dirty
                  PROVE  \/ Render(req, f, seen, injected) = Nothing
                         \/ /\ Render(req, f, seen, injected) \in Manifests
                            /\ objects'[Key(req, f)] # Absent
                            /\ getVersion(objects'[Key(req, f)])
                                 = hash(Render(req, f, seen, injected))
      BY <1>1 DEF PassComplete, Done, InPlace, Render, Key, getVersion, hash
    <2>1. CASE f = file
      BY <2>1 DEF Current, Here
    <2>2. CASE f # file
      <3>1. f \in Done
        BY <1>1, <2>2
      <3>2. InPlace(req, f, seen, injected)
        BY <3>1 DEF PassComplete
      <3>. QED
        BY <2>2, <3>2 DEF InPlace
    <2>. QED
      BY <2>1, <2>2
  <1>. QED
    BY <1>2, <1>3, <1>4, <1>5

\* What a Create or an Update that is carried out does to the objects.
LEMMA StoreFacts ==
  ASSUME IndInv, Accepted, Store, log' = log
  PROVE  /\ objects' \in [Keys -> Objects \cup {Absent}]
         /\ Provenance'
         /\ \A c \in CRs, f \in Locals :
              objects'[<<c, f>>] # Absent =>
                /\ objects'[<<c, f>>].src <= cache[c]
                /\ req = c => objects'[<<c, f>>].src <= seen
         /\ \A f \in Files \ {file} :
              objects'[Key(req, f)] = objects[Key(req, f)]
         /\ Current \in Manifests /\ objects'[Here] # Absent
         /\ getVersion(objects'[Here]) = hash(Current)
         /\ req \in CRs
  <1>. USE DEF IndInv
  <1>. DEFINE new == compose(req, seen, Current)
  <1>1. /\ req \in CRs /\ file \in Files /\ injected \in Injected
        /\ seen \in 1 .. cache[req] /\ seen \in 1 .. Len(log[req])
        /\ Current \in Manifests /\ log[req][seen].spec # Deleted
        /\ pc # "idle"
    BY DEF Accepted, WorkerInv, TypeOK, CacheInHistory
  <1>2. Here \in Keys
    BY <1>1, KeyFacts DEF Here
  <1>3. new \in Objects
    BY <1>1, ComposeType
  <1>4. /\ objects' \in [Keys -> Objects \cup {Absent}]
        /\ objects'[Here] = new
        /\ \A k \in Keys \ {Here} : objects'[k] = objects[k]
    BY <1>2, <1>3 DEF Store, TypeOK
  <1>5. new # Absent
    BY <1>3, AbsentAssumption
  <1>6. getVersion(new) = hash(Current) /\ new.src = seen
    BY DEF compose, getVersion
  <1>7. \A f \in Files \ {file} : Key(req, f) \in Keys \ {Here}
    BY <1>1, KeyFacts DEF Here, Key
  <1>8. ASSUME NEW c \in CRs, NEW f \in Locals, objects'[<<c, f>>] # Absent
        PROVE  /\ objects'[<<c, f>>].src <= cache[c]
               /\ req = c => objects'[<<c, f>>].src <= seen
    <2>1. <<c, f>> \in Keys
      BY DEF Keys, Locals
    <2>2. CASE <<c, f>> = Here
      <3>1. c = req
        BY <1>1, <2>2, ConstantsAssumption DEF Here, Key
      <3>2. objects'[<<c, f>>].src = seen
        BY <1>4, <1>6, <2>2
      <3>3. cache[req] \in Nat
        BY <1>1 DEF TypeOK
      <3>. QED
        BY <1>1, <3>1, <3>2, <3>3
    <2>3. CASE <<c, f>> # Here
      BY <1>1, <1>4, <1>8, <2>1, <2>3 DEF NothingNewer
    <2>. QED
      BY <2>2, <2>3
  <1>9. Provenance'
    <2>1. ASSUME NEW c \in CRs, NEW f \in Files, NEW o, Genuine(c, f, o)
          PROVE  Genuine(c, f, o)'
      BY <2>1 DEF Genuine, Render
    <2>2. file \notin Shared => Genuine(req, file, new)
      BY <1>1 DEF Genuine, Current, compose, hash
    <2>3. ASSUME NEW c \in CRs, NEW f \in Files \ Shared,
                 objects'[Key(c, f)] # Absent
          PROVE  Genuine(c, f, objects'[Key(c, f)])
      <3>1. Key(c, f) = <<c, f>> /\ Key(c, f) \in Keys
        BY KeyFacts
      <3>2. CASE Key(c, f) = Here
        <4>1. c = req /\ f = file
          BY <1>1, <3>1, <3>2, ConstantsAssumption DEF Here, Key
        <4>. QED
          BY <1>4, <2>2, <3>2, <4>1
      <3>3. CASE Key(c, f) # Here
        BY <1>4, <2>3, <3>1, <3>3 DEF Provenance
      <3>. QED
        BY <3>2, <3>3
    <2>. QED
      BY <2>1, <2>3 DEF Provenance, Key
  <1>. QED
    BY <1>1, <1>4, <1>5, <1>6, <1>7, <1>8, <1>9

\* A step that touches neither the history, the cache, the objects nor the worker.
LEMMA FrameInd ==
  ASSUME IndInv, UNCHANGED <<log, cache, objects, worker, dirty, faults>>,
         queue' \subseteq CRs, timer' \subseteq CRs,
         storage' \in Injected, edits' \in 0 .. MaxEdits
  PROVE  IndInv'
  <1>. USE DEF IndInv
  <1>1. TypeOK' /\ CacheInHistory' /\ WorkerInv' /\ NothingNewer'
    BY DEF TypeOK, CacheInHistory, WorkerInv, NothingNewer, Current, Render,
           worker, Injected
  <1>2. Provenance' /\ PassComplete'
    BY ProvenanceKept DEF PassComplete, Done, InPlace, Render, Key, worker
  <1>. QED
    BY <1>1, <1>2

\* Every step of the specification preserves the invariant.
LEMMA StepInd == IndInv /\ [Next]_vars => IndInv'
  <1>. SUFFICES ASSUME IndInv, [Next]_vars PROVE IndInv'
    OBVIOUS
  <1>. USE DEF IndInv
  <1>1. ASSUME NEW c \in CRs, StartReconcile(c) PROVE IndInv'
    <2>1. /\ UNCHANGED <<log, cache, storage, objects, timer, injected, file,
                         dirty, edits, faults>>
          /\ queue' \subseteq CRs
          /\ pc = "idle" /\ file = 1
      BY <1>1 DEF StartReconcile, worker, TypeOK, WorkerInv
    <2>2. CASE UNCHANGED worker
      BY <2>1, <2>2, FrameInd DEF worker, TypeOK, Injected
    <2>3. CASE /\ pc' = "inject" /\ req' = c /\ seen' = cache[c]
               /\ log[c][cache[c]].spec # Deleted
      <3>1. TypeOK'
        BY <2>1, <2>3 DEF TypeOK
      <3>2. CacheInHistory' /\ WorkerInv'
        BY <2>1, <2>3 DEF CacheInHistory, WorkerInv, TypeOK
      <3>3. NothingNewer'
        BY <2>1, <2>3 DEF NothingNewer
      <3>4. Provenance'
        BY <2>1, ProvenanceKept
      <3>5. PassComplete'
        BY <2>1, <2>3 DEF PassComplete, Done, Files
      <3>. QED
        BY <3>1, <3>2, <3>3, <3>4, <3>5
    <2>. QED
      BY <1>1, <2>2, <2>3 DEF StartReconcile
  <1>2. CASE InjectStorage
    <2>1. /\ UNCHANGED <<log, cache, storage, objects, queue, timer, req, seen,
                         file, dirty, edits>>
          /\ pc = "inject" /\ pc' = "apply" /\ file = 1
          /\ injected' \in Injected /\ faults' \in 0 .. MaxFaults
      BY <1>2, ConstantsAssumption
         DEF InjectStorage, TypeOK, WorkerInv, Injected
    <2>2. TypeOK'
      BY <2>1 DEF TypeOK
    <2>3. CacheInHistory' /\ WorkerInv' /\ NothingNewer'
      BY <2>1 DEF CacheInHistory, WorkerInv, NothingNewer
    <2>4. Provenance'
      BY <2>1, ProvenanceKept
    <2>5. PassComplete'
      BY <2>1 DEF PassComplete, Done, Files
    <2>. QED
      BY <2>2, <2>3, <2>4, <2>5
  <1>3. ASSUME pc \in {"apply", "create", "update", "check"}, ReconcileError,
               UNCHANGED <<log, cache, storage, timer, edits>>,
               faults' \in 0 .. MaxFaults, objects' = objects
        PROVE  IndInv'
    <2>1. queue' \subseteq CRs
      BY <1>3 DEF ReconcileError, TypeOK, WorkerInv
    <2>. QED
      BY <1>3, <2>1, ProvenanceKept, ReturnInd
         DEF ReconcileError, TypeOK, NothingNewer
  <1>4. CASE ApplyTemplate
    <2>1. CASE Current = Nothing /\ NextFile /\ UNCHANGED queue
      <3>1. Provenance'
        BY <1>4, ProvenanceKept DEF ApplyTemplate
      <3>. QED
        BY <1>4, <2>1, <3>1, AdvanceInd
           DEF ApplyTemplate, TypeOK, NothingNewer, getVersion
    <2>2. CASE ReconcileError
      BY <1>3, <1>4, <2>2 DEF ApplyTemplate, TypeOK
    <2>. QED
      BY <1>4, <2>1, <2>2 DEF ApplyTemplate
  <1>5. CASE ApplyGet
    <2>1. CASE /\ pc' \in {"create", "update"}
               /\ UNCHANGED <<req, seen, injected, file, dirty>>
      <3>1. /\ UNCHANGED <<log, cache, storage, objects, queue, timer, req, seen,
                           injected, file, dirty, edits, faults>>
            /\ pc = "apply" /\ Current \in Manifests
        BY <1>5, <2>1 DEF ApplyGet
      <3>2. TypeOK' /\ CacheInHistory' /\ WorkerInv' /\ NothingNewer'
        BY <2>1, <3>1 DEF TypeOK, CacheInHistory, WorkerInv, NothingNewer,
             Current, Render
      <3>3. Provenance'
        BY <3>1, ProvenanceKept
      <3>4. PassComplete'
        BY <2>1, <3>1 DEF PassComplete, Done, InPlace, Render, Key
      <3>. QED
        BY <3>2, <3>3, <3>4
    <2>2. CASE /\ objects[Here] # Absent
               /\ getVersion(objects[Here]) = hash(Current) /\ NextFile
      <3>1. Provenance'
        BY <1>5, ProvenanceKept DEF ApplyGet
      <3>. QED
        BY <1>5, <2>2, <3>1, AdvanceInd
           DEF ApplyGet, TypeOK, NothingNewer, getVersion
    <2>. QED
      BY <1>5, <2>1, <2>2 DEF ApplyGet
  <1>6. CASE ApplyWrite
    <2>1. pc \in {"create", "update"} /\ log' = log
      BY <1>6 DEF ApplyWrite, Accepted
    <2>2. queue' \subseteq CRs
      BY <1>6, StoreFacts, <2>1 DEF ApplyWrite, Notify, TypeOK
    <2>. QED
      BY <1>6, <2>1, <2>2, StoreFacts, AdvanceInd DEF ApplyWrite
  <1>7. CASE ApplyRejected
    BY <1>3, <1>7 DEF ApplyRejected, TypeOK
  <1>8. CASE CheckState
    <2>1. timer \cup {req} \subseteq CRs
      BY <1>8 DEF CheckState, TypeOK, WorkerInv
    <2>. QED
      BY <1>8, <2>1, ProvenanceKept, ReturnInd
         DEF CheckState, TypeOK, NothingNewer
  <1>9. CASE CallFails
    <2>1. faults + 1 \in 0 .. MaxFaults
      BY <1>9, ConstantsAssumption DEF CallFails, TypeOK
    <2>. QED
      BY <1>3, <1>9, <2>1 DEF CallFails
  <1>10. CASE ReplyLost
    <2>1. /\ log' = log /\ faults + 1 \in 0 .. MaxFaults
          /\ UNCHANGED <<cache, storage, timer, edits>>
      BY <1>10, ConstantsAssumption DEF ReplyLost, TypeOK
    <2>2. queue' \subseteq CRs
      BY <1>10, <2>1, StoreFacts DEF ReplyLost, ReconcileError, TypeOK
    <2>. QED
      BY <1>10, <2>1, <2>2, StoreFacts, ReturnInd
         DEF ReplyLost, ReconcileError, TypeOK
  <1>11. CASE Crash
    <2>1. faults + 1 \in 0 .. MaxFaults
      BY <1>11, ConstantsAssumption DEF Crash, TypeOK
    <2>. QED
      BY <1>11, <2>1, ProvenanceKept, ReturnInd DEF Crash, TypeOK, NothingNewer
  <1>12. ASSUME NEW c \in CRs, Observe(c) PROVE IndInv'
    <2>1. PICK p \in cache[c] + 1 .. Len(log[c]) :
            cache' = [cache EXCEPT ![c] = p]
      BY <1>12 DEF Observe
    <2>2. /\ UNCHANGED <<log, storage, objects, timer, pc, req, seen, injected,
                         file, dirty, edits, faults>>
          /\ queue' \subseteq CRs
      BY <1>12 DEF Observe, worker, TypeOK
    <2>3. /\ cache' \in [CRs -> Nat]
          /\ \A d \in CRs : /\ cache'[d] \in 1 .. Len(log[d])
                            /\ cache'[d] >= cache[d]
      BY <2>1 DEF TypeOK, CacheInHistory
    <2>4. TypeOK' /\ CacheInHistory'
      BY <2>2, <2>3 DEF TypeOK, CacheInHistory
    <2>5. WorkerInv'
      BY <2>2, <2>3 DEF WorkerInv, Current, Render, TypeOK
    <2>6. NothingNewer'
      <3>1. \A d \in CRs, f \in Locals :
              objects[<<d, f>>] # Absent => objects[<<d, f>>].src \in Nat
        BY DEF TypeOK, Locals, Keys, Objects
      <3>. QED
        BY <2>2, <2>3, <3>1, SMTT(30) DEF NothingNewer, TypeOK
    <2>7. Provenance' /\ PassComplete'
      BY <2>2, ProvenanceKept DEF PassComplete, Done, InPlace, Render, Key
    <2>. QED
      BY <2>4, <2>5, <2>6, <2>7
  <1>13. ASSUME NEW c \in CRs, RequeueAfter(c) PROVE IndInv'
    BY FrameInd, <1>13 DEF RequeueAfter, TypeOK, Injected
  <1>14. ASSUME NEW i \in Injected, ChangeStorage(i) PROVE IndInv'
    <2>1. edits' \in 0 .. MaxEdits
      BY <1>14, ConstantsAssumption DEF ChangeStorage, Edit, TypeOK
    <2>. QED
      BY FrameInd, <1>14, <2>1 DEF ChangeStorage, TypeOK
  <1>15. ASSUME NEW c \in CRs PROVE Latest(c) \in Versions /\ Len(log[c]) \in Nat
    <2>1. log[c] \in Seq(Versions) /\ Len(log[c]) >= 1
      BY DEF TypeOK, CacheInHistory
    <2>. QED
      BY <2>1 DEF Latest
  <1>16. ASSUME NEW c \in CRs, DeleteCR(c) PROVE IndInv'
    <2>1. [uid |-> Latest(c).uid, spec |-> Deleted] \in Versions
      BY <1>15 DEF Versions
    <2>. QED
      BY <1>16, <2>1, SubmitInd DEF DeleteCR
  <1>17. ASSUME NEW c \in CRs, NEW s \in Specs,
                CreateCR(c, s) \/ UpdateCR(c, s)
         PROVE  IndInv'
    <2>1. /\ [uid |-> Len(log[c]), spec |-> s] \in Versions
          /\ [uid |-> Latest(c).uid, spec |-> s] \in Versions
      BY <1>15 DEF Versions
    <2>. QED
      BY <1>17, <2>1, SubmitInd DEF CreateCR, UpdateCR
  <1>18. ASSUME NEW k \in Keys,
                DeleteObject(k) \/ Drift(k) \/ Annotate(k) \/ GarbageCollect(k)
         PROVE  IndInv'
    <2>1. edits' \in 0 .. MaxEdits
      BY <1>18, ConstantsAssumption
         DEF DeleteObject, Drift, Annotate, GarbageCollect, Edit, TypeOK
    <2>2. CASE DeleteObject(k) \/ GarbageCollect(k)
      BY <2>1, <2>2, TouchInd DEF DeleteObject, GarbageCollect
    <2>3. ASSUME NEW o,
                 objects[k] # Absent, Touch(k, o),
                 \/ o = [objects[k] EXCEPT !.contents = Foreign,
                                           !.drifted = TRUE]
                 \/ o = [objects[k] EXCEPT !.meta = Foreign]
          PROVE  IndInv'
      <3>1. objects[k] \in Objects
        BY <2>3 DEF TypeOK
      <3>2. /\ o \in Objects
            /\ o.src = objects[k].src /\ o.uid = objects[k].uid
            /\ o.version = objects[k].version
            /\ \/ o.drifted
               \/ /\ o.drifted = objects[k].drifted
                  /\ o.contents = objects[k].contents
        BY <2>3, <3>1 DEF Objects
      <3>. QED
        BY <2>1, <2>3, <3>2, TouchInd
    <2>. QED
      BY <1>18, <2>2, <2>3 DEF Drift, Annotate
  <1>19. CASE UNCHANGED vars
    BY FrameInd, <1>19 DEF vars, TypeOK, Injected
  <1>. QED
    BY <1>1, <1>2, <1>4, <1>5, <1>6, <1>7, <1>8, <1>9, <1>10, <1>11, <1>12,
       <1>13, <1>14, <1>16, <1>17, <1>18, <1>19 DEF Next, Work

-----------------------------------------------------------------------------
(* The theorems *)

\* The inductive invariant holds in every reachable state.
LEMMA IndInvariant == Spec => []IndInv
  BY InitInd, StepInd, PTL DEF Spec

\* Every variable keeps its type.
THEOREM TypeCorrect == Spec => []TypeOK
  <1>1. IndInv => TypeOK
    BY DEF IndInv
  <1>. QED
    BY <1>1, IndInvariant, PTL

\* A pass of ApplyAll (pkg/kubernetes/apply.go) that has gone past a manifest has
\* left the object it describes in place, unless somebody else touched it.
THEOREM PassIsComplete == Spec => []PassComplete
  <1>1. IndInv => PassComplete
    BY DEF IndInv
  <1>. QED
    BY <1>1, IndInvariant, PTL

\* What compose and apply store for a CR was rendered from a stored version.
THEOREM ObjectsAreGenuine == Spec => []Provenance
  <1>1. IndInv => Provenance
    BY DEF IndInv
  <1>. QED
    BY <1>1, IndInvariant, PTL

\* A step that stores an object for a CR, not counting users' edits, is a write
\* of the worker, and the worker's version is the newest around.
LEMMA WritesAreNewest ==
  ASSUME IndInv, [Next]_vars, NEW c \in CRs, NEW f \in Locals, NEW g \in Locals,
         edits' = edits, objects[Key(c, g)] # Absent,
         objects'[Key(c, f)] # Absent, objects'[Key(c, f)] # objects[Key(c, f)]
  PROVE  objects'[Key(c, f)].src >= objects[Key(c, g)].src
  <1>. USE DEF IndInv
  <1>1. Key(c, f) = <<c, f>> /\ Key(c, g) = <<c, g>>
    BY KeyFacts DEF Locals
  <1>2. ASSUME Accepted, Store
        PROVE  objects'[Key(c, f)].src >= objects[Key(c, g)].src
    <2>1. /\ req \in CRs /\ pc # "idle" /\ file \in Files /\ Here \in Keys
          /\ seen \in Nat
      BY <1>2, KeyFacts DEF Accepted, WorkerInv, TypeOK, Here
    <2>2. Key(c, f) = Here
      BY <1>2, <2>1 DEF Store, TypeOK
    <2>3. req = c
      BY <1>1, <2>1, <2>2, ConstantsAssumption DEF Here, Key
    <2>4. objects'[Key(c, f)].src = seen
      BY <1>2, <2>1, <2>2 DEF Store, compose, TypeOK
    <2>5. objects[Key(c, g)].src <= seen
      BY <1>1, <2>1, <2>3 DEF NothingNewer
    <2>6. <<c, g>> \in Keys
      BY DEF Keys, Locals
    <2>7. objects[<<c, g>>] \in Objects
      BY <1>1, <2>6 DEF TypeOK
    <2>8. objects[<<c, g>>].src \in Nat
      BY <2>7 DEF Objects
    <2>. QED
      BY <1>1, <2>1, <2>4, <2>5, <2>8
  <1>3. ASSUME NEW k \in Keys, GarbageCollect(k) PROVE FALSE
    <2>1. objects' = [objects EXCEPT ![k] = Absent]
      BY <1>3 DEF GarbageCollect, Touch
    <2>. QED
      BY <1>1, <2>1 DEF TypeOK, Keys, Locals
  <1>4. edits \in Nat
    BY ConstantsAssumption DEF TypeOK
  <1>5. ~\E k \in Keys : DeleteObject(k) \/ Drift(k) \/ Annotate(k)
    <2>1. ~Edit
      <3>1. edits' # edits + 1
        BY <1>4
      <3>. QED
        BY <3>1 DEF Edit
    <2>. QED
      BY <2>1 DEF DeleteObject, Drift, Annotate
  <1>6. (Accepted /\ Store) \/ objects' = objects
    <2>1. CASE Work \/ CallFails \/ ReplyLost \/ Crash
      BY <2>1 DEF Work, InjectStorage, ApplyTemplate, ApplyGet, ApplyWrite,
           ApplyRejected, CheckState, CallFails, ReplyLost, Crash
    <2>2. CASE \E d \in CRs : \/ StartReconcile(d) \/ Observe(d)
                              \/ RequeueAfter(d) \/ DeleteCR(d)
                              \/ \E s \in Specs : CreateCR(d, s) \/ UpdateCR(d, s)
      BY <2>2 DEF StartReconcile, Observe, RequeueAfter, DeleteCR, CreateCR,
           UpdateCR, Submit
    <2>3. CASE \E i \in Injected : ChangeStorage(i)
      BY <2>3 DEF ChangeStorage
    <2>4. CASE UNCHANGED vars
      BY <2>4 DEF vars
    <2>. QED
      BY <1>3, <1>5, <2>1, <2>2, <2>3, <2>4 DEF Next
  <1>. QED
    BY <1>2, <1>6

\* No reconcile takes a CR's objects back in time, although Client.Update in
\* apply names no resourceVersion and the CR is read from a cache.
THEOREM NoRollbackEver == Spec => NoRollback
  <1>1. IndInv /\ [Next]_vars => [StoresNewest]_vars
    BY WritesAreNewest DEF Locals, StoresNewest
  <1>. QED
    BY <1>1, IndInvariant, PTL DEF Spec, NoRollback

-----------------------------------------------------------------------------
(* The refinement of DesiredState *)

\* What the worker stores is an abstract Place, or an object CRs share.
LEMMA StoreRefines ==
  ASSUME IndInv, Accepted, Store, UNCHANGED log
  PROVE  Desired!Next \/ UNCHANGED <<log, Placed>>
  <1>. USE DEF IndInv
  <1>1. /\ req \in CRs /\ pc \in {"create", "update"} /\ file \in Files
        /\ Here \in Keys /\ seen \in 1 .. Len(log[req]) /\ seen \in Nat
        /\ injected \in Injected
    BY KeyFacts DEF Accepted, WorkerInv, CacheInHistory, TypeOK, Here
  <1>2. objects' = [objects EXCEPT ![Here] = compose(req, seen, Current)]
    BY DEF Store
  <1>3. CASE file \in Shared
    <2>1. \A k \in CRs \X Locals : k # Here
      BY <1>1, <1>3, KeyFacts, ConstantsAssumption DEF Here, Locals
    <2>2. \A k \in CRs \X Locals : objects'[k] = objects[k]
      BY <1>2, <2>1 DEF TypeOK, Keys, Locals
    <2>. QED
      BY <2>2 DEF Placed, Locals
  <1>4. CASE file \notin Shared
    <2>1. Here = <<req, file>> /\ file \in Locals
      BY <1>1, <1>4, KeyFacts DEF Here, Locals
    <2>2. log[req][seen].spec \in Wanted(req, file)
      <3>1. Current \in Manifests /\ log[req][seen].spec # Deleted
        BY <1>1 DEF WorkerInv
      <3>2. log[req][seen] \in Versions
        BY <1>1 DEF TypeOK
      <3>3. log[req][seen].spec \in Specs
        BY <3>1, <3>2 DEF Versions
      <3>. QED
        BY <1>1, <3>1, <3>3 DEF Wanted, Current, Render
    <2>3. \A t \in Locals : Placed[<<req, t>>] <= seen
      <3>. SUFFICES ASSUME NEW t \in Locals PROVE Placed[<<req, t>>] <= seen
        OBVIOUS
      <3>1. objects[<<req, t>>] # Absent => objects[<<req, t>>].src <= seen
        BY <1>1 DEF NothingNewer
      <3>2. Placed[<<req, t>>] = IF objects[<<req, t>>] = Absent
                                   THEN 0 ELSE objects[<<req, t>>].src
        BY <1>1 DEF Placed, Locals
      <3>. QED
        BY <1>1, <3>1, <3>2
    <2>4. Placed' = [Placed EXCEPT ![<<req, file>>] = seen]
      <3>1. compose(req, seen, Current) # Absent
        BY <1>1, ComposeType, AbsentAssumption DEF WorkerInv
      <3>2. compose(req, seen, Current).src = seen
        BY DEF compose
      <3>3. \A k \in CRs \X Locals :
              Placed'[k] = IF k = <<req, file>> THEN seen ELSE Placed[k]
        BY <1>2, <2>1, <3>1, <3>2 DEF Placed, TypeOK, Keys, Locals
      <3>. QED
        BY <1>1, <2>1, <3>3 DEF Placed, Locals
    <2>5. Desired!Place(req, file, seen)
      BY <1>1, <2>1, <2>2, <2>3, <2>4 DEF Desired!Place, Locals
    <2>. QED
      BY <1>1, <2>1, <2>5 DEF Desired!Next, Locals
  <1>. QED
    BY <1>3, <1>4

\* A version that a user stores is an abstract Submit.
LEMMA SubmitRefines ==
  ASSUME IndInv, NEW c \in CRs, NEW v \in Versions, Submit(c, v)
  PROVE  Desired!Next
  <1>1. log[c] \in Seq(Versions) /\ log \in [CRs -> Seq(Versions)]
    BY DEF IndInv, TypeOK
  <1>2. log' = [log EXCEPT ![c] = Append(@, v)] /\ UNCHANGED objects
    BY DEF Submit
  <1>3. /\ log'[c] = Append(log[c], v)
        /\ Len(log'[c]) = Len(log[c]) + 1
        /\ log'[c][Len(log[c]) + 1] = v
    BY <1>1, <1>2
  <1>4. Placed' = Placed
    BY <1>2 DEF Placed
  <1>5. Desired!Submit(c)
    BY <1>2, <1>3, <1>4 DEF Desired!Submit
  <1>. QED
    BY <1>5 DEF Desired!Next

\* An object that others remove is an abstract Remove; one they change stays
\* where it is from.
LEMMA TouchRefines ==
  ASSUME IndInv, NEW k \in Keys, NEW o, Touch(k, o),
         o = Absent \/ (o # Absent /\ o.src = objects[k].src)
  PROVE  Desired!Next \/ UNCHANGED <<log, Placed>>
  <1>1. /\ objects' = [objects EXCEPT ![k] = o] /\ log' = log
        /\ objects[k] # Absent /\ objects \in [Keys -> Objects \cup {Absent}]
    BY DEF Touch, IndInv, TypeOK
  <1>2. CASE k \in CRs \X Locals /\ o = Absent
    <2>1. PICK c \in CRs, f \in Locals : k = <<c, f>>
      BY <1>2
    <2>2. \A j \in CRs \X Locals :
            Placed'[j] = IF j = <<c, f>> THEN 0 ELSE Placed[j]
      BY <1>1, <1>2, <2>1 DEF Placed, Keys, Locals
    <2>3. Placed' = [Placed EXCEPT ![<<c, f>>] = 0]
      BY <2>2 DEF Placed, Locals
    <2>4. Desired!Remove(c, f)
      BY <1>1, <2>3 DEF Desired!Remove
    <2>. QED
      BY <2>4 DEF Desired!Next, Locals
  <1>3. CASE ~(k \in CRs \X Locals /\ o = Absent)
    <2>1. \A j \in CRs \X Locals : Placed'[j] = Placed[j]
      BY <1>1, <1>3 DEF Placed, Keys, Locals
    <2>. QED
      BY <1>1, <2>1 DEF Placed, Locals
  <1>. QED
    BY <1>2, <1>3

\* Every step of the detailed specification is a step, or none, of the abstract.
LEMMA StepRefines ==
  ASSUME IndInv, [Next]_vars
  PROVE  Desired!Next \/ UNCHANGED <<log, Placed>>
  <1>1. ASSUME UNCHANGED <<log, objects>> PROVE UNCHANGED <<log, Placed>>
    BY <1>1 DEF Placed
  <1>2. CASE Work \/ CallFails \/ ReplyLost \/ Crash
    <2>1. (Accepted /\ Store /\ UNCHANGED log) \/ UNCHANGED <<log, objects>>
      BY <1>2 DEF Work, InjectStorage, ApplyTemplate, ApplyGet, ApplyWrite,
           ApplyRejected, CheckState, CallFails, ReplyLost, Crash
    <2>. QED
      BY <1>1, <2>1, StoreRefines
  <1>3. ASSUME NEW c \in CRs,
               StartReconcile(c) \/ Observe(c) \/ RequeueAfter(c)
        PROVE  UNCHANGED <<log, objects>>
    BY <1>3 DEF StartReconcile, Observe, RequeueAfter
  <1>4. ASSUME NEW c \in CRs
        PROVE  Latest(c) \in Versions /\ Len(log[c]) \in Nat
    <2>1. log[c] \in Seq(Versions) /\ Len(log[c]) >= 1
      BY DEF IndInv, TypeOK, CacheInHistory
    <2>. QED
      BY <2>1 DEF Latest
  <1>5. ASSUME NEW c \in CRs, DeleteCR(c) PROVE Desired!Next
    <2>1. [uid |-> Latest(c).uid, spec |-> Deleted] \in Versions
      BY <1>4 DEF Versions
    <2>. QED
      BY <1>5, <2>1, SubmitRefines DEF DeleteCR
  <1>6. ASSUME NEW c \in CRs, NEW s \in Specs, CreateCR(c, s) \/ UpdateCR(c, s)
        PROVE  Desired!Next
    <2>1. /\ [uid |-> Len(log[c]), spec |-> s] \in Versions
          /\ [uid |-> Latest(c).uid, spec |-> s] \in Versions
      BY <1>4 DEF Versions
    <2>. QED
      BY <1>6, <2>1, SubmitRefines DEF CreateCR, UpdateCR
  <1>7. ASSUME NEW i \in Injected, ChangeStorage(i) PROVE UNCHANGED <<log, objects>>
    BY <1>7 DEF ChangeStorage
  <1>8. ASSUME NEW k \in Keys,
               DeleteObject(k) \/ Drift(k) \/ Annotate(k) \/ GarbageCollect(k)
        PROVE  Desired!Next \/ UNCHANGED <<log, Placed>>
    <2>1. CASE DeleteObject(k) \/ GarbageCollect(k)
      BY <2>1, TouchRefines DEF DeleteObject, GarbageCollect
    <2>2. ASSUME NEW o, objects[k] # Absent, Touch(k, o),
                 \/ o = [objects[k] EXCEPT !.contents = Foreign,
                                           !.drifted = TRUE]
                 \/ o = [objects[k] EXCEPT !.meta = Foreign]
          PROVE  Desired!Next \/ UNCHANGED <<log, Placed>>
      <3>1. objects[k] \in Objects
        BY <2>2 DEF IndInv, TypeOK
      <3>2. o \in Objects /\ o.src = objects[k].src
        BY <2>2, <3>1 DEF Objects
      <3>. QED
        BY <2>2, <3>2, TouchRefines, AbsentAssumption
    <2>. QED
      BY <1>8, <2>1, <2>2 DEF Drift, Annotate
  <1>9. CASE UNCHANGED vars
    BY <1>1, <1>9 DEF vars
  <1>. QED
    BY <1>1, <1>2, <1>3, <1>5, <1>6, <1>7, <1>8, <1>9 DEF Next

\* The apply engine implements DesiredState: whatever the cache, the retries,
\* the crashes and the other writers do, objects are put in place one by one from
\* stored versions, never from one older than that of another object of the CR.
THEOREM Refinement == Spec => ImplementsDesiredState
  <1>1. Init => Desired!Init
    <2>. SUFFICES ASSUME Init PROVE Desired!Init
      OBVIOUS
    <2>1. Placed = [k \in CRs \X (Files \ Shared) |-> 0]
      BY DEF Init, Placed, Keys
    <2>. QED
      BY <2>1 DEF Init, Desired!Init
  <1>2. IndInv /\ [Next]_vars => [Desired!Next]_<<log, Placed>>
    BY StepRefines
  <1>. QED
    BY <1>1, <1>2, IndInvariant, PTL DEF Spec, ImplementsDesiredState, Desired!Spec
=============================================================================
