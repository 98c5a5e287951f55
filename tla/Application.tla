---------------------------- MODULE Application ----------------------------
(***************************************************************************)
(* The apply engine of the operator (pkg/kubernetes/apply.go, object.go)   *)
(* inside the Reconcile loop that the OAPServer, UI, Satellite, BanyanDB   *)
(* and Fetcher controllers share: read the custom resource (CR), render    *)
(* every manifest template in file order, create or update the object each *)
(* one describes, check the state, ask to be called again in a minute.     *)
(*                                                                         *)
(* One controller has one worker (MaxConcurrentReconciles is 1), so the    *)
(* reconciles of different CRs of a kind alternate and never overlap, but  *)
(* every API call is a step of its own: users, the garbage collector, the  *)
(* watch and crashes act between the calls.  Typed reads (the CR, Storage) *)
(* come from the informer cache, which lags; the reads of apply() are      *)
(* unstructured and therefore go to the API server.                        *)
(*                                                                         *)
(* The API server's history of a CR is a sequence of versions; the cache,  *)
(* and the CR a reconcile works with, are positions in it.  The status     *)
(* that checkState writes is the subject of module StatusReport.           *)
(***************************************************************************)
EXTENDS Naturals, Sequences

CONSTANTS
  CRs,          \* names of the CRs of one kind
  Specs,        \* the specs users submit
  Storages,     \* what a Storage CR (and its secret) may contribute to a spec
  WithoutLogin, \* what is left of it when the secret is not read
  NoStorage,    \* nothing was injected
  NumFiles,     \* the manifests of the kind, numbered in the order of ApplyAll
  Shared,       \* manifests that name a cluster-scoped object by a fixed name
  Owned,        \* manifests whose kind the controller watches (Owns)
  Contents,     \* rendered content outside metadata, kind and apiVersion
  Metas,        \* rendered labels and annotations
  Template,     \* what each manifest renders to
  Nothing,      \* the template rendered to nothing (ErrNothingLoaded)
  Failed,       \* the template did not render, or did not parse
  Absent, Deleted, Cluster, Foreign, NoCR,
  MaxEdits,     \* bound: steps taken by users and other tools
  MaxFaults     \* bound: failed calls, lost replies and crashes

Files     == 1 .. NumFiles
Keys      == (CRs \X (Files \ Shared)) \cup ({Cluster} \X Shared)
Injected  == Storages \cup {NoStorage}
Manifests == [contents : Contents, meta : Metas]

ASSUME ConstantsAssumption ==
  /\ NumFiles \in Nat \ {0}
  /\ MaxEdits \in Nat /\ MaxFaults \in Nat
  /\ Shared \subseteq Files /\ Owned \subseteq Files \ Shared
  /\ Template \in [CRs \X Files \X Specs \X Injected ->
                     Manifests \cup {Nothing, Failed}]
  /\ Nothing \notin Manifests /\ Failed \notin Manifests
  /\ Nothing # Failed
  /\ Deleted \notin Specs /\ Cluster \notin CRs /\ NoCR \notin CRs
  /\ NoStorage \notin Storages
  /\ WithoutLogin \in [Storages -> Storages]

(***************************************************************************)
(* An object of the cluster.  "src" is auxiliary: the position, in the     *)
(* history of the CR it was rendered for, of the version it was rendered   *)
(* from.  "drifted" is auxiliary too: somebody else changed the content.   *)
(***************************************************************************)
Hashes  == [fnv : Contents]
Objects == [contents : Contents \cup {Foreign}, meta : Metas \cup {Foreign},
            version : Hashes, uid : Nat, src : Nat, drifted : BOOLEAN]
ASSUME AbsentAssumption == Absent \notin Objects

VARIABLES
  log,       \* log[c]: the versions of CR c the API server has stored
  cache,     \* cache[c]: how far the informer cache has followed log[c]
  storage,   \* what the Storage CR contributes, as the informer cache shows it
  objects,   \* the objects of the cluster the manifests name
  queue,     \* CRs waiting in the controller's work queue
  timer,     \* CRs to be queued again after schedDuration
  pc, req, seen, injected, file,  \* the worker: where it is, the CR it handles,
                                  \* the version of it, the storage, the manifest
  dirty,     \* auxiliary: keys others changed during the current pass
  edits, faults

worker == <<pc, req, seen, injected, file>>
vars   == <<log, cache, storage, objects, queue, timer, worker, dirty,
            edits, faults>>

Versions == [uid : Nat, spec : Specs \cup {Deleted}]

TypeOK ==
  /\ log \in [CRs -> Seq(Versions)]
  /\ cache \in [CRs -> Nat]
  /\ storage \in Storages \cup {NoStorage}
  /\ objects \in [Keys -> Objects \cup {Absent}]
  /\ queue \subseteq CRs
  /\ timer \subseteq CRs
  /\ pc \in {"idle", "inject", "apply", "create", "update", "check"}
  /\ req \in CRs \cup {NoCR}
  /\ seen \in Nat
  /\ injected \in Injected
  /\ file \in Files
  /\ dirty \subseteq Keys
  /\ edits \in 0 .. MaxEdits
  /\ faults \in 0 .. MaxFaults

----------------------------------------------------------------------------
(* What apply.go and object.go compute *)

Latest(c) == log[c][Len(log[c])]
Exists(c) == Latest(c).spec # Deleted

\* The key an object is stored under: client.ObjectKeyFromObject.
Key(c, f) == <<IF f \in Shared THEN Cluster ELSE c, f>>

\* LoadTemplate: the manifest f of CR c at position p of its history.
Render(c, f, p, i) == Template[<<c, f, log[c][p].spec, i>>]

\* hash: a digest of everything but kind, apiVersion and metadata.
hash(manifest) == [fnv |-> manifest.contents]

\* Mutant: the annotation is looked up under a key nobody writes.
getVersion_Missing(o) == Nothing

\* getVersion: the version annotation, which an absent object lacks.
getVersion(o) == o.version

\* compose: owner reference and version annotation are set on the rendering.
compose(c, p, manifest) ==
  [contents |-> manifest.contents, meta |-> manifest.meta,
   version |-> hash(manifest), uid |-> log[c][p].uid, src |-> p,
   drifted |-> FALSE]

\* The manifest and the object the worker is at.
Current == Render(req, file, seen, injected)
Here    == Key(req, file)

\* Owns(...): the watch on an owned kind queues the owner.
Notify(c, f) == queue' = IF f \in Owned THEN queue \cup {c} ELSE queue

----------------------------------------------------------------------------
(* The worker *)

\* Mutant: each Get may be answered from any version the cache ever held.
StartReconcile_Stale(c) ==
  /\ pc = "idle" /\ c \in queue
  /\ queue' = queue \ {c}
  /\ \E p \in 1 .. cache[c] :
       IF log[c][p].spec = Deleted
         THEN UNCHANGED worker
         ELSE /\ pc' = "inject" /\ req' = c /\ seen' = p
              /\ UNCHANGED <<injected, file>>
  /\ UNCHANGED <<log, cache, storage, objects, timer, dirty, edits, faults>>

\* Reconcile, first call: Get the CR.  One that is gone ends the reconcile.
StartReconcile(c) ==
  /\ pc = "idle" /\ c \in queue
  /\ queue' = queue \ {c}
  /\ IF log[c][cache[c]].spec = Deleted
       THEN UNCHANGED worker
       ELSE /\ pc' = "inject" /\ req' = c /\ seen' = cache[c]
            /\ UNCHANGED <<injected, file>>
  /\ UNCHANGED <<log, cache, storage, objects, timer, dirty, edits, faults>>

\* InjectStorage, ConfigStorage: what the Storage CR contributes.  A failed read is
\* logged only: without the CR nothing is injected, without the user's secret the
\* storage is, with an empty user and password.
InjectStorage ==
  /\ pc = "inject"
  /\ pc' = "apply"
  /\ \/ injected' = storage /\ UNCHANGED faults
     \/ /\ faults < MaxFaults /\ faults' = faults + 1
        /\ \/ injected' = NoStorage
           \/ storage # NoStorage /\ injected' = WithoutLogin[storage]
  /\ UNCHANGED <<log, cache, storage, objects, queue, timer, req, seen, file,
                 dirty, edits>>

\* The end of a reconcile: the worker forgets everything.
Return ==
  /\ pc' = "idle" /\ req' = NoCR /\ seen' = 0
  /\ injected' = NoStorage /\ file' = 1 /\ dirty' = {}

\* Reconcile returns an error: the request is queued again.
ReconcileError == Return /\ queue' = queue \cup {req}

\* The loop of ApplyAll: on to the next manifest, or to checkState.
NextFile ==
  /\ IF file = NumFiles
       THEN pc' = "check" /\ UNCHANGED file
       ELSE pc' = "apply" /\ file' = file + 1
  /\ UNCHANGED <<req, seen, injected, dirty>>

\* Apply: the template renders to nothing, which is skipped, or to an error.
ApplyTemplate ==
  /\ pc = "apply"
  /\ \/ Current = Nothing /\ NextFile /\ UNCHANGED queue
     \/ Current = Failed /\ ReconcileError
  /\ UNCHANGED <<log, cache, storage, objects, timer, edits, faults>>

\* apply: Get the object and decide by its version annotation.
ApplyGet ==
  /\ pc = "apply" /\ Current \in Manifests
  /\ \/ /\ objects[Here] = Absent
        /\ pc' = "create" /\ UNCHANGED <<req, seen, injected, file, dirty>>
     \/ /\ objects[Here] # Absent
        /\ getVersion(objects[Here]) = hash(Current)
        /\ NextFile
     \/ /\ objects[Here] # Absent
        /\ getVersion(objects[Here]) # hash(Current)
        /\ pc' = "update" /\ UNCHANGED <<req, seen, injected, file, dirty>>
  /\ UNCHANGED <<log, cache, storage, objects, queue, timer, edits, faults>>

\* The API server carries out the Create or the Update that is being sent:
\* a Create finds the name free, an Update finds an object, whatever it holds
\* by now, since the update names no resourceVersion.
Accepted ==
  \/ pc = "create" /\ objects[Here] = Absent
  \/ pc = "update" /\ objects[Here] # Absent

\* Mutant: an existing object only gets the new version annotation and owner.
Store_AnnotationOnly ==
  LET new == compose(req, seen, Current) IN
  objects' = [objects EXCEPT ![Here] =
                IF @ = Absent
                  THEN new ELSE [new EXCEPT !.contents = objects[Here].contents]]

Store == objects' = [objects EXCEPT ![Here] = compose(req, seen, Current)]

\* apply: Create or Update succeeds.
ApplyWrite ==
  /\ Accepted /\ Store
  /\ Notify(req, file) /\ NextFile
  /\ UNCHANGED <<log, cache, storage, timer, edits, faults>>

\* apply: AlreadyExists or NotFound, the object changed since the Get.
ApplyRejected ==
  /\ pc \in {"create", "update"} /\ ~Accepted
  /\ ReconcileError
  /\ UNCHANGED <<log, cache, storage, objects, timer, edits, faults>>

\* Mutant: Reconcile returns an empty Result, so nothing is queued again.
CheckState_NoRequeue ==
  /\ pc = "check"
  /\ Return
  /\ UNCHANGED <<log, cache, storage, objects, queue, timer, edits, faults>>

\* checkState succeeds: RequeueAfter schedDuration.
CheckState ==
  /\ pc = "check"
  /\ Return /\ timer' = timer \cup {req}
  /\ UNCHANGED <<log, cache, storage, objects, queue, edits, faults>>

\* Mutant: ApplyAll logs the error of a manifest and goes on with the next.
CallFails_Swallowed ==
  /\ pc \in {"apply", "create", "update"}
  /\ faults < MaxFaults /\ faults' = faults + 1
  /\ NextFile
  /\ UNCHANGED <<log, cache, storage, objects, queue, timer, edits>>

\* A call of the reconcile fails before it has an effect.
CallFails ==
  /\ pc \in {"apply", "create", "update", "check"}
  /\ faults < MaxFaults /\ faults' = faults + 1
  /\ ReconcileError
  /\ UNCHANGED <<log, cache, storage, objects, timer, edits>>

\* A write is carried out and its answer is lost: the reconcile sees an error.
ReplyLost ==
  /\ Accepted /\ Store
  /\ faults < MaxFaults /\ faults' = faults + 1
  /\ ReconcileError
  /\ UNCHANGED <<log, cache, storage, timer, edits>>

\* Mutant: the worker starts before the list that fills the cache is up to date.
Crash_StaleList ==
  /\ faults < MaxFaults /\ faults' = faults + 1
  /\ Return
  /\ \E c \in CRs, p \in 1 .. MaxEdits + 1 :
       /\ p <= cache[c] /\ log[c][p].spec # Deleted
       /\ cache' = [cache EXCEPT ![c] = p]
  /\ queue' = {c \in CRs : Exists(c)}
  /\ timer' = {}
  /\ UNCHANGED <<log, storage, objects, edits>>

\* The operator stops and starts again: the cache is listed afresh, which
\* queues every CR there is.
Crash ==
  /\ faults < MaxFaults /\ faults' = faults + 1
  /\ Return
  /\ cache' = [c \in CRs |-> Len(log[c])]
  /\ queue' = {c \in CRs : Exists(c)}
  /\ timer' = {}
  /\ UNCHANGED <<log, storage, objects, edits>>

----------------------------------------------------------------------------
(* controller-runtime: the watch on the CR and the delayed requeue *)

Observe(c) ==
  /\ \E p \in cache[c] + 1 .. Len(log[c]) : cache' = [cache EXCEPT ![c] = p]
  /\ queue' = queue \cup {c}
  /\ UNCHANGED <<log, storage, objects, timer, worker, dirty, edits, faults>>

RequeueAfter(c) ==
  /\ c \in timer
  /\ timer' = timer \ {c} /\ queue' = queue \cup {c}
  /\ UNCHANGED <<log, cache, storage, objects, worker, dirty, edits, faults>>

----------------------------------------------------------------------------
(* The cluster around the operator *)

Edit == edits < MaxEdits /\ edits' = edits + 1

\* A user creates, changes or deletes a CR.
Submit(c, v) ==
  /\ Edit
  /\ log' = [log EXCEPT ![c] = Append(@, v)]
  /\ UNCHANGED <<cache, storage, objects, queue, timer, worker, dirty, faults>>

CreateCR(c, s) ==
  ~Exists(c) /\ Submit(c, [uid |-> Len(log[c]), spec |-> s])

UpdateCR(c, s) ==
  /\ Exists(c) /\ s # Latest(c).spec
  /\ Submit(c, [uid |-> Latest(c).uid, spec |-> s])

DeleteCR(c) == Exists(c) /\ Submit(c, [uid |-> Latest(c).uid, spec |-> Deleted])

ChangeStorage(i) ==
  /\ Edit /\ i # storage
  /\ storage' = i
  /\ UNCHANGED <<log, cache, objects, queue, timer, worker, dirty, faults>>

\* Somebody other than the worker changes the object under key k.
Touch(k, o) ==
  /\ objects[k] # Absent
  /\ objects' = [objects EXCEPT ![k] = o]
  /\ dirty' = IF pc = "idle" THEN dirty ELSE dirty \cup {k}
  /\ Notify(k[1], k[2])
  /\ UNCHANGED <<log, cache, storage, timer, worker, faults>>

DeleteObject(k) == Edit /\ Touch(k, Absent)

\* kubectl edit: the content changes and the version annotation does not.
Drift(k) ==
  /\ Edit /\ objects[k] # Absent
  /\ Touch(k, [objects[k] EXCEPT !.contents = Foreign, !.drifted = TRUE])

\* Another tool sets an annotation on the object.
Annotate(k) ==
  /\ Edit /\ objects[k] # Absent
  /\ Touch(k, [objects[k] EXCEPT !.meta = Foreign])

\* The garbage collector removes a namespaced object whose owner is gone.
Orphan(k) ==
  /\ k[1] # Cluster /\ objects[k] # Absent
  /\ ~Exists(k[1]) \/ objects[k].uid # Latest(k[1]).uid

GarbageCollect(k) == Orphan(k) /\ Touch(k, Absent) /\ UNCHANGED edits

----------------------------------------------------------------------------
Init ==
  /\ log = [c \in CRs |-> << [uid |-> 0, spec |-> Deleted] >>]
  /\ cache = [c \in CRs |-> 1]
  /\ storage = NoStorage
  /\ objects = [k \in Keys |-> Absent]
  /\ queue = {} /\ timer = {}
  /\ pc = "idle" /\ req = NoCR /\ seen = 0 /\ injected = NoStorage /\ file = 1
  /\ dirty = {} /\ edits = 0 /\ faults = 0

Work ==
  InjectStorage \/ ApplyTemplate \/ ApplyGet \/ ApplyWrite \/ ApplyRejected
    \/ CheckState

Next ==
  \/ Work \/ CallFails \/ ReplyLost \/ Crash
  \/ \E c \in CRs : \/ StartReconcile(c) \/ Observe(c) \/ RequeueAfter(c)
                    \/ DeleteCR(c)
                    \/ \E s \in Specs : CreateCR(c, s) \/ UpdateCR(c, s)
  \/ \E i \in Injected : ChangeStorage(i)
  \/ \E k \in Keys : \/ DeleteObject(k) \/ Drift(k) \/ Annotate(k)
                     \/ GarbageCollect(k)

Spec == Init /\ [][Next]_vars

(***************************************************************************)
(* The worker goes on while it can; the queue is first in, first out, so a *)
(* waiting CR is taken although the worker is busy in between; watches and *)
(* timers deliver; the garbage collector gets round to every orphan.       *)
(* Nothing is assumed of users, faults and crashes, which are bounded.     *)
(***************************************************************************)
Fairness ==
  /\ WF_vars(Work)
  /\ \A c \in CRs : /\ SF_vars(StartReconcile(c))
                    /\ WF_vars(Observe(c))
                    /\ WF_vars(RequeueAfter(c))
  /\ \A k \in Keys : WF_vars(GarbageCollect(k))

FairSpec == Spec /\ Fairness

----------------------------------------------------------------------------
(* Properties *)

\* The manifest f of the CR at position p is in place: rendered to nothing, or
\* stored with the annotation the rendering has.
InPlace(c, f, p, i) ==
  \/ Render(c, f, p, i) = Nothing
  \/ /\ Render(c, f, p, i) \in Manifests
     /\ objects[Key(c, f)] # Absent
     /\ getVersion(objects[Key(c, f)]) = hash(Render(c, f, p, i))

\* The manifests the current pass of ApplyAll has already dealt with.
Done == {f \in Files : f < file \/ pc = "check"}

\* When ApplyAll has gone past a manifest, the object it describes is in place
\* for the CR version and the storage this reconcile read, unless somebody else
\* changed that object during the pass: a pass that reaches checkState has left
\* no manifest behind, whatever was created, updated or found unchanged.
PassComplete ==
  pc # "idle" => \A f \in Done : \/ InPlace(req, f, seen, injected)
                                 \/ Key(req, f) \in dirty

\* Object o was rendered by manifest f from a version of c that was stored.
Genuine(c, f, o) ==
  /\ o.src \in 1 .. Len(log[c])
  /\ log[c][o.src].spec # Deleted
  /\ o.uid = log[c][o.src].uid
  /\ \E i \in Injected :
       /\ Render(c, f, o.src, i) \in Manifests
       /\ o.version = hash(Render(c, f, o.src, i))
       /\ o.drifted \/ o.contents = Render(c, f, o.src, i).contents

\* An object of a CR was rendered from a version of that CR that the API server
\* really stored: it carries that version's UID as owner and the annotation of
\* that rendering, and, unless somebody edited it, exactly its content.
Provenance ==
  \A c \in CRs, f \in Files \ Shared :
    objects[Key(c, f)] # Absent => Genuine(c, f, objects[Key(c, f)])

\* An object stored for a CR, by anybody but a user (whose steps count in
\* "edits"), was rendered from a version at least as new as any object's there.
StoresNewest ==
  \A c \in CRs : \A f, g \in Files \ Shared :
    LET old == objects[Key(c, g)]
        new == objects'[Key(c, f)]
    IN  (/\ edits' = edits
         /\ old # Absent /\ new # Absent
         /\ new # objects[Key(c, f)]) => new.src >= old.src

\* No reconcile takes a CR's objects back in time: what it writes was rendered
\* from a version at least as new as the one behind any object of the CR, also
\* after crashes, lost replies, with a lagging cache and although the updates
\* carry no resourceVersion.
NoRollback == [][StoresNewest]_vars

\* The specs of CR c that ask for the object of manifest f.
Wanted(c, f) ==
  {s \in Specs : \E i \in Injected : Template[<<c, f, s, i>>] \in Manifests}

\* Where the object of each manifest of each CR comes from.
Placed == [k \in CRs \X (Files \ Shared) |->
             IF objects[k] = Absent THEN 0 ELSE objects[k].src]

Desired == INSTANCE DesiredState WITH
  Slots <- Files \ Shared,
  First <- [uid |-> 0, spec |-> Deleted],
  Wants <- [k \in CRs \X (Files \ Shared) |-> Wanted(k[1], k[2])],
  versions <- log,
  placed <- Placed

\* The apply engine, with its cache, its retries and its crashes, does to the
\* objects of each CR nothing but what DesiredState allows: it puts one object at
\* a time in place, of a stored version that renders it, and no older than the
\* others of that CR.  Edits by others do not change where an object comes from.
ImplementsDesiredState == Desired!Spec

\* What a CR asks for and what there is: every manifest that ApplyAll can get to
\* is in place and owned by this incarnation of the CR; of a deleted CR nothing
\* namespaced is left.
Settled(c) ==
  IF Exists(c)
    THEN \A f \in Files \ Shared :
           (\A g \in 1 .. f : Render(c, g, Len(log[c]), storage) # Failed)
             => /\ InPlace(c, f, Len(log[c]), storage)
                /\ objects[Key(c, f)] # Absent
                     => objects[Key(c, f)].uid = Latest(c).uid
    ELSE \A f \in Files \ Shared : objects[Key(c, f)] = Absent

\* Once users and faults stop, every CR's own objects follow its last version:
\* retries after errors, the one-minute requeue (Storage is not watched) and
\* the watches together miss nothing, also for a CR deleted and created again.
Converges == <>[](\A c \in CRs : Settled(c))

\* The operator comes to rest: from some time on no reconcile finds anything to
\* write, so its own writes, which the watches report back to it, do not set off
\* writes for ever.
Quiesces == <>[](pc \in {"create", "update"} => file \in Shared)

============================================================================
