----------------------- MODULE OAPServerConfig_proofs -----------------------
(***************************************************************************)
(* Proofs, for every number of OAPServers, specs, environments and file    *)
(* sets, that the label md5-env is honest and that the OAPServerConfig     *)
(* reconciler never undoes what the OAPServer reconciler wrote.            *)
(***************************************************************************)
EXTENDS OAPServerConfig, FiniteSetTheorems, TLAPS

Configs == [env : Envs, file : FileSets]
OAPWrites == [server : Servers, spec : Specs, op : {"create", "update"}]

\* Where the worker holds a copy of a Deployment.
Holding == {"configmap", "delete", "create", "update"}

\* The worker has read the configuration, and holds a copy while it overlays one.
WorkerInv ==
  /\ pc # "idle" => want \in Configs
  /\ pc \in Holding <=> copy # None
  /\ copyFresh => copy # None

\* A cached Deployment that counts as current is the one at the API server.
CacheInv == \A s \in Servers : depFresh[s] => depCache[s] = dep[s]

\* A copy whose resourceVersion is current differs from the Deployment by the
\* overlay alone: the Deployment is there and was rendered from the same spec.
CopyInv == copyFresh => dep[at] # None /\ copy.version = dep[at].version

\* What a Deployment d, or none, says of its environment is true.
Honest(d) == d # None => d.env = d.md5

\* No honest Deployment becomes dishonest on its way through cache and worker.
HonestInv == Honest(copy) /\ \A s \in Servers : Honest(dep[s]) /\ Honest(depCache[s])

IndInv == TypeOK /\ WorkerInv /\ CacheInv /\ CopyInv /\ HonestInv

-----------------------------------------------------------------------------
(* What is written *)

\* A rendering of the OAPServer reconciler is a Deployment without an overlay.
LEMMA RenderedFacts ==
  ASSUME NEW sp \in Specs
  PROVE  Rendered(sp) \in Deployments /\ Honest(Rendered(sp)) /\ Rendered(sp) # None
  BY NoneAssumption DEF Rendered, Deployments, Honest

\* OverlayEnv keeps the rendering, and label and environment in step.
LEMMA OverlayFacts ==
  ASSUME NEW d \in Deployments, Honest(d), want \in Configs
  PROVE  /\ OverlayEnv(d) \in Deployments /\ OverlayEnv(d) # None
         /\ OverlayEnv(d).version = d.version /\ Honest(OverlayEnv(d))
  BY NoneAssumption DEF OverlayEnv, Deployments, Honest, Configs

\* The available OAPServers are at most all of them.
LEMMA ReadyBound ==
  ASSUME NEW S, S \subseteq Servers
  PROVE  Cardinality(S) \in 0 .. NumServers
  <1>1. IsFiniteSet(Servers) /\ Cardinality(Servers) = NumServers
    BY FS_Interval, ConstantsAssumption DEF Servers
  <1>2. Cardinality(S) \in Nat /\ Cardinality(S) <= NumServers
    BY <1>1, FS_Subset, FS_CardinalityType
  <1>. QED
    BY <1>2, ConstantsAssumption

\* A write of an honest Deployment, or a removal, keeps the cache's promise: the
\* cached copy of another version does not count as current any more.
LEMMA WriteFacts ==
  ASSUME IndInv, NEW s \in Servers, NEW d \in Deployments \cup {None}, Honest(d),
         WriteDeployment(s, d)
  PROVE  /\ dep' \in [Servers -> Deployments \cup {None}]
         /\ depFresh' \in [Servers -> BOOLEAN]
         /\ depCache' = depCache /\ cmCache' = cmCache
         /\ dep'[s] = d /\ \A t \in Servers \ {s} : dep'[t] = dep[t]
         /\ CacheInv'
         /\ \A t \in Servers : Honest(dep'[t]) /\ Honest(depCache'[t])
  <1>. USE DEF WriteDeployment
  <1>1. dep' \in [Servers -> Deployments \cup {None}]
    BY DEF IndInv, TypeOK
  <1>2. depFresh' \in [Servers -> BOOLEAN]
    BY DEF IndInv, TypeOK
  <1>3. dep'[s] = d /\ \A t \in Servers \ {s} : dep'[t] = dep[t]
    BY DEF IndInv, TypeOK
  <1>4. depFresh'[s] => d = dep[s] /\ depFresh[s]
    BY DEF IndInv, TypeOK
  <1>5. \A t \in Servers \ {s} : depFresh'[t] = depFresh[t]
    BY DEF IndInv, TypeOK
  <1>6. CacheInv'
    BY <1>3, <1>4, <1>5 DEF IndInv, CacheInv
  <1>7. \A t \in Servers : Honest(dep'[t]) /\ Honest(depCache'[t])
    BY <1>3 DEF IndInv, HonestInv
  <1>. QED
    BY <1>1, <1>2, <1>3, <1>6, <1>7

\* A write by somebody else: the worker's copy of that Deployment is outdated.
LEMMA OutdatesCopy ==
  ASSUME IndInv, NEW s \in Servers, NEW d \in Deployments \cup {None},
         dep'[s] = d, \A t \in Servers \ {s} : dep'[t] = dep[t],
         Outdates(s, d), UNCHANGED <<pc, at, want, copy>>
  PROVE  copyFresh' \in BOOLEAN /\ WorkerInv' /\ CopyInv'
  <1>1. copyFresh' \in BOOLEAN /\ (copyFresh' => copyFresh)
    BY DEF IndInv, TypeOK, Outdates
  <1>2. copyFresh' => dep'[at] = dep[at]
    BY DEF IndInv, TypeOK, Outdates
  <1>. QED
    BY <1>1, <1>2 DEF IndInv, WorkerInv, CopyInv

\* The end of a reconcile, and the end of the loop's body, drop the copy.
LEMMA DropCopy ==
  ASSUME ~copyFresh', copy' = None, pc' \notin Holding, pc' # "idle" => want' \in Configs
  PROVE  WorkerInv' /\ CopyInv' /\ Honest(copy')
  BY DEF WorkerInv, CopyInv, Honest

-----------------------------------------------------------------------------
(* The inductive invariant *)

\* At first there is no Deployment, and the cache knows it.
LEMMA InitInd == Init => IndInv
  <1>. SUFFICES ASSUME Init PROVE IndInv
    OBVIOUS
  <1>1. TypeOK
    <2>1. ready \in 0 .. NumServers /\ at \in Servers
      BY ConstantsAssumption DEF Init, Servers
    <2>2. edits \in 0 .. MaxEdits /\ faults \in 0 .. MaxFaults
      BY ConstantsAssumption DEF Init
    <2>3. /\ dep \in [Servers -> Deployments \cup {None}] /\ depCache = dep
          /\ depFresh \in [Servers -> BOOLEAN]
      BY DEF Init
    <2>. QED
      BY <2>1, <2>2, <2>3, Zenon DEF Init, TypeOK
  <1>2. WorkerInv /\ CacheInv /\ CopyInv /\ HonestInv
    BY DEF Init, WorkerInv, CacheInv, CopyInv, HonestInv, Honest, Holding
  <1>. QED
    BY <1>1, <1>2 DEF IndInv

\* What leaves Deployments, caches and the worker alone keeps all but the types.
LEMMA FrameInd ==
  ASSUME IndInv, UNCHANGED <<dep, depCache, depFresh, worker>>
  PROVE  WorkerInv' /\ CacheInv' /\ CopyInv' /\ HonestInv'
  BY DEF IndInv, worker, WorkerInv, CacheInv, CopyInv, HonestInv, Honest, Holding

\* The steps of the OAPServer reconciler.
LEMMA OAPServerInd ==
  ASSUME IndInv, OAPServerWrite \/ \E s \in Servers : OAPServerGet(s) \/ OAPServerStatus(s)
  PROVE  IndInv'
  <1>0. TypeOK
    BY DEF IndInv
  <1>1. ASSUME NEW s \in Servers, OAPServerGet(s) PROVE IndInv'
    <2>1. oap' \in OAPWrites
      BY <1>0, <1>1 DEF TypeOK, OAPServerGet, OAPWrites
    <2>2. TypeOK'
      BY <1>0, <1>1, <2>1 DEF TypeOK, OAPServerGet, OAPWrites, users, caches, worker
    <2>. QED
      BY <1>1, <2>2, FrameInd DEF OAPServerGet, caches, IndInv
  <1>2. ASSUME NEW s \in Servers, OAPServerStatus(s) PROVE IndInv'
    <2>1. TypeOK'
      BY <1>0, <1>2 DEF TypeOK, OAPServerStatus, users, caches, worker
    <2>. QED
      BY <1>2, <2>1, FrameInd DEF OAPServerStatus, caches, IndInv
  <1>3. CASE OAPServerWrite
    <2>1. oap \in OAPWrites
      BY <1>0, <1>3 DEF TypeOK, OAPServerWrite, OAPWrites
    <2>. DEFINE d == Rendered(oap.spec)
    <2>2. d \in Deployments /\ Honest(d) /\ oap.server \in Servers
      BY <2>1, RenderedFacts DEF OAPWrites
    <2>. HIDE DEF d
    <2>3. CASE WriteDeployment(oap.server, d) /\ Outdates(oap.server, d)
      <3>1. /\ dep' \in [Servers -> Deployments \cup {None}]
            /\ depFresh' \in [Servers -> BOOLEAN]
            /\ depCache' = depCache /\ cmCache' = cmCache
            /\ dep'[oap.server] = d
            /\ \A t \in Servers \ {oap.server} : dep'[t] = dep[t]
            /\ CacheInv'
            /\ \A t \in Servers : Honest(dep'[t]) /\ Honest(depCache'[t])
        BY <2>2, <2>3, WriteFacts
      <3>2. copyFresh' \in BOOLEAN /\ WorkerInv' /\ CopyInv'
        BY <1>3, <2>2, <2>3, <3>1, OutdatesCopy DEF OAPServerWrite
      <3>3. TypeOK'
        BY <1>0, <1>3, <3>1, <3>2 DEF TypeOK, OAPServerWrite, users
      <3>4. Honest(copy')
        BY <1>3 DEF OAPServerWrite, IndInv, HonestInv, Honest
      <3>. QED
        BY <3>1, <3>2, <3>3, <3>4 DEF IndInv, HonestInv
    <2>4. CASE UNCHANGED <<dep, caches, copyFresh>>
      <3>1. TypeOK'
        BY <1>0, <1>3, <2>4 DEF TypeOK, OAPServerWrite, users, caches
      <3>. QED
        BY <1>3, <2>4, <3>1, FrameInd DEF OAPServerWrite, caches, worker, IndInv
    <2>. QED
      BY <1>3, <2>3, <2>4 DEF OAPServerWrite, d
  <1>. QED
    BY <1>1, <1>2, <1>3

\* The end of a reconcile that writes nothing.
LEMMA ReturnInd ==
  ASSUME IndInv, Return, UNCHANGED <<users, dep, cm, available, caches, oap, edits>>,
         ready' \in 0 .. NumServers, faults' \in 0 .. MaxFaults
  PROVE  IndInv'
  <1>1. TypeOK'
    <2>1. at' \in Servers
      BY ConstantsAssumption DEF Return, Servers
    <2>. QED
      BY <2>1 DEF IndInv, TypeOK, Return, users, caches
  <1>2. WorkerInv' /\ CopyInv' /\ Honest(copy')
    BY DropCopy DEF Return, Holding
  <1>3. CacheInv' /\ HonestInv'
    BY <1>2 DEF IndInv, CacheInv, HonestInv, Honest, caches
  <1>. QED
    BY <1>1, <1>2, <1>3 DEF IndInv

\* The loop over the OAPServers stays within the list and drops the copy.
LEMMA NextServerFacts ==
  ASSUME at \in Servers, NextServer
  PROVE  /\ pc' \in {"deployment", "status"} /\ at' \in Servers /\ want' = want
         /\ copy' = None /\ copyFresh' = FALSE /\ changed' = FALSE
  <1>1. at' \in Servers
    BY ConstantsAssumption DEF NextServer, Servers
  <1>. QED
    BY <1>1, Zenon DEF NextServer

\* The update of a Deployment with the current copy, after which the copy is
\* dropped: by the next turn of the loop, or because the reply was lost.
LEMMA UpdateInd ==
  ASSUME IndInv, copyFresh, WriteDeployment(at, copy), NextServer \/ Return,
         pc = "update", UNCHANGED <<users, cm, ready, available, oap, edits>>,
         faults' \in 0 .. MaxFaults
  PROVE  IndInv'
  <1>0. TypeOK /\ WorkerInv /\ HonestInv
    BY DEF IndInv
  <1>1. copy \in Deployments \cup {None} /\ Honest(copy) /\ at \in Servers
    BY <1>0 DEF TypeOK, HonestInv
  <1>2. /\ dep' \in [Servers -> Deployments \cup {None}]
        /\ depFresh' \in [Servers -> BOOLEAN]
        /\ depCache' = depCache /\ cmCache' = cmCache
        /\ CacheInv'
        /\ \A t \in Servers : Honest(dep'[t]) /\ Honest(depCache'[t])
    BY <1>1, WriteFacts
  <1>3. /\ pc' \in {"idle", "deployment", "status"} /\ at' \in Servers
        /\ want' \in {None, want} /\ copy' = None /\ copyFresh' = FALSE
        /\ changed' = FALSE /\ (pc' # "idle" => want' = want)
    <2>1. 1 \in Servers
      BY ConstantsAssumption DEF Servers
    <2>2. CASE NextServer
      BY <1>1, <2>2, NextServerFacts
    <2>3. CASE Return
      BY <2>1, <2>3 DEF Return
    <2>. QED
      BY <2>2, <2>3
  <1>4. TypeOK'
    BY <1>0, <1>2, <1>3 DEF TypeOK, users
  <1>5. WorkerInv' /\ CopyInv' /\ Honest(copy')
    BY <1>0, <1>3, DropCopy DEF WorkerInv, Holding
  <1>. QED
    BY <1>2, <1>4, <1>5 DEF IndInv, HonestInv

\* A step of the worker that keeps the copy's rendering, label and environment.
LEMMA HoldInd ==
  ASSUME IndInv, UNCHANGED <<users, dep, ready, available, caches, oap, at, want,
                             copyFresh, edits>>,
         pc \in Holding, pc' \in Holding, cm' \in FileSets \cup {None},
         copy' \in Deployments, copy'.version = copy.version, Honest(copy'),
         changed' \in BOOLEAN, faults' \in 0 .. MaxFaults
  PROVE  IndInv'
  <1>1. TypeOK'
    BY DEF IndInv, TypeOK, users, caches, Holding
  <1>2. WorkerInv'
    BY NoneAssumption DEF IndInv, WorkerInv, Holding
  <1>3. CacheInv' /\ CopyInv' /\ HonestInv'
    BY DEF IndInv, CacheInv, CopyInv, HonestInv, Honest, caches
  <1>. QED
    BY <1>1, <1>2, <1>3 DEF IndInv

\* The steps of the OAPServerConfig reconciler.
LEMMA ConfigureInd ==
  ASSUME IndInv, Configure
  PROVE  IndInv'
  <1>0. TypeOK /\ WorkerInv /\ CacheInv /\ CopyInv /\ HonestInv
    BY DEF IndInv
  <1>1. ASSUME Fault PROVE faults' \in 0 .. MaxFaults
    BY <1>0, <1>1, ConstantsAssumption DEF Fault, TypeOK
  <1>2. pc \in Holding => copy \in Deployments /\ want \in Configs
    BY <1>0 DEF TypeOK, WorkerInv, Holding
  <1>3. CASE StartReconcile
    <2>1. pc' = "deployment" /\ at' \in Servers /\ want' \in Configs
      BY <1>0, <1>3, ConstantsAssumption DEF StartReconcile, TypeOK, Configs, Servers
    <2>2. TypeOK'
      BY <1>0, <1>3, <2>1 DEF StartReconcile, TypeOK, users, caches, Configs
    <2>3. WorkerInv' /\ ~copyFresh' /\ copy' = None
      BY <1>0, <1>3, <2>1 DEF StartReconcile, WorkerInv, Holding
    <2>. QED
      BY <1>0, <1>3, <2>2, <2>3
      DEF StartReconcile, IndInv, CacheInv, CopyInv, HonestInv, Honest, caches
  <1>4. CASE GetDeployment
    <2>1. CASE Return
      BY <1>0, <1>4, <2>1, ReturnInd DEF GetDeployment, TypeOK
    <2>2. CASE /\ depCache[at] # None
               /\ copy' = OverlayEnv(depCache[at])
               /\ changed' = (depCache[at].md5 # want.env)
               /\ copyFresh' = depFresh[at]
               /\ pc' = "configmap" /\ UNCHANGED <<at, want>>
      <3>1. depCache[at] \in Deployments /\ Honest(depCache[at]) /\ want \in Configs
        BY <1>0, <1>4, <2>2 DEF TypeOK, HonestInv, WorkerInv, GetDeployment
      <3>2. /\ copy' \in Deployments /\ copy' # None
            /\ copy'.version = depCache[at].version /\ Honest(copy')
        BY <2>2, <3>1, OverlayFacts
      <3>3. copyFresh' \in BOOLEAN /\ changed' \in BOOLEAN
        BY <1>0, <2>2 DEF TypeOK
      <3>4. TypeOK'
        BY <1>0, <1>4, <2>2, <3>2, <3>3 DEF GetDeployment, TypeOK, users, caches
      <3>5. WorkerInv'
        BY <2>2, <3>1, <3>2 DEF WorkerInv, Holding
      <3>6. CopyInv'
        BY <1>0, <1>4, <2>2, <3>2 DEF GetDeployment, CopyInv, CacheInv, TypeOK
      <3>7. CacheInv' /\ HonestInv'
        BY <1>0, <1>4, <3>2 DEF GetDeployment, CacheInv, HonestInv, Honest, caches
      <3>. QED
        BY <3>4, <3>5, <3>6, <3>7 DEF IndInv
    <2>. QED
      BY <1>4, <2>1, <2>2 DEF GetDeployment
  <1>5. CASE GetConfigMap
    BY <1>0, <1>2, <1>5, HoldInd DEF GetConfigMap, Holding, HonestInv, TypeOK
  <1>6. CASE DeleteConfigMap
    BY <1>0, <1>1, <1>2, <1>6, HoldInd DEF DeleteConfigMap, Holding, HonestInv, TypeOK
  <1>7. CASE CreateConfigMap
    <2>1. want.file \in FileSets /\ copy \in Deployments
      BY <1>2, <1>7 DEF CreateConfigMap, Holding, Configs
    <2>2. ASSUME NEW d \in {copy, [copy EXCEPT !.mounts = want.file]}
          PROVE  d \in Deployments /\ d.version = copy.version /\ Honest(d)
      BY <1>0, <2>1, NoneAssumption DEF Deployments, HonestInv, Honest
    <2>3. copy' \in {copy, [copy EXCEPT !.mounts = want.file]}
      BY <1>7 DEF CreateConfigMap
    <2>. QED
      BY <1>0, <1>1, <1>7, <2>1, <2>2, <2>3, HoldInd DEF CreateConfigMap, Holding, TypeOK
  <1>8. CASE UpdateDeployment
    <2>1. CASE changed /\ copyFresh /\ WriteDeployment(at, copy) /\ NextServer
      BY <1>0, <1>8, <2>1, UpdateInd DEF UpdateDeployment, TypeOK
    <2>2. CASE Return /\ UNCHANGED <<dep, caches>>
      BY <1>0, <1>8, <2>2, ReturnInd DEF UpdateDeployment, TypeOK
    <2>3. CASE NextServer /\ UNCHANGED <<dep, caches>>
      <3>1. /\ pc' \in {"deployment", "status"} /\ at' \in Servers /\ want' = want
            /\ copy' = None /\ copyFresh' = FALSE /\ changed' = FALSE
        BY <1>0, <2>3, NextServerFacts DEF TypeOK
      <3>2. TypeOK'
        BY <1>0, <1>8, <2>3, <3>1 DEF UpdateDeployment, TypeOK, users, caches
      <3>3. WorkerInv' /\ CopyInv' /\ Honest(copy')
        BY <1>2, <1>8, <3>1, DropCopy DEF UpdateDeployment, Holding
      <3>. QED
        BY <1>0, <2>3, <3>2, <3>3 DEF IndInv, CacheInv, HonestInv, Honest, caches
    <2>. QED
      BY <1>8, <2>1, <2>2, <2>3 DEF UpdateDeployment
  <1>9. CASE CheckState
    <2>1. ready' \in 0 .. NumServers
      BY <1>0, <1>9, ReadyBound DEF CheckState, TypeOK
    <2>. QED
      BY <1>0, <1>9, <2>1, ReturnInd DEF CheckState, TypeOK
  <1>. QED
    BY <1>3, <1>4, <1>5, <1>6, <1>7, <1>8, <1>9 DEF Configure

\* The remaining steps: faults, the caches and the users.
LEMMA OthersInd ==
  ASSUME IndInv,
         \/ CallFails \/ ReplyLost \/ Crash \/ SyncConfigMap
         \/ \E s \in Servers : \/ SyncDeployment(s) \/ DeleteDeployment(s) \/ PodsChange(s)
                               \/ \E sp \in Specs : EditOAPServer(s, sp)
         \/ \E c \in Configs : EditConfig(c)
  PROVE  IndInv'
  <1>0. TypeOK /\ WorkerInv /\ CacheInv /\ CopyInv /\ HonestInv
    BY DEF IndInv
  <1>1. ASSUME Fault PROVE faults' \in 0 .. MaxFaults
    BY <1>0, <1>1, ConstantsAssumption DEF Fault, TypeOK
  <1>2. ASSUME Edit PROVE edits' \in 0 .. MaxEdits
    BY <1>0, <1>2, ConstantsAssumption DEF Edit, TypeOK
  <1>3. CASE CallFails
    <2>1. CASE Return
      BY <1>0, <1>1, <1>3, <2>1, ReturnInd DEF CallFails, TypeOK
    <2>2. CASE /\ pc = "configmap"
               /\ pc' = "update" /\ UNCHANGED <<at, want, copy, copyFresh, changed>>
      <3>1. copy \in Deployments
        BY <1>0, <2>2 DEF TypeOK, WorkerInv, Holding
      <3>. QED
        BY <1>0, <1>1, <1>3, <2>2, <3>1, HoldInd
        DEF CallFails, Holding, HonestInv, Honest, TypeOK
    <2>. QED
      BY <1>3, <2>1, <2>2 DEF CallFails
  <1>4. CASE ReplyLost
    BY <1>1, <1>4, UpdateInd DEF ReplyLost
  <1>5. CASE Crash
    <2>1. at' \in Servers /\ depFresh' \in [Servers -> BOOLEAN] /\ faults' \in 0 .. MaxFaults
      BY <1>1, <1>5, ConstantsAssumption DEF Crash, Return, Servers
    <2>2. TypeOK'
      BY <1>0, <1>5, <2>1 DEF Crash, Return, TypeOK, users
    <2>3. WorkerInv' /\ CopyInv' /\ Honest(copy')
      BY <1>5, DropCopy DEF Crash, Return, Holding
    <2>. QED
      BY <1>0, <1>5, <2>2, <2>3 DEF Crash, IndInv, CacheInv, HonestInv, Honest
  <1>6. CASE SyncConfigMap
    <2>1. TypeOK'
      BY <1>0, <1>6 DEF SyncConfigMap, TypeOK, users, worker
    <2>. QED
      BY <1>6, <2>1, FrameInd DEF SyncConfigMap, IndInv
  <1>7. ASSUME NEW s \in Servers, SyncDeployment(s) PROVE IndInv'
    <2>1. TypeOK'
      BY <1>0, <1>7 DEF SyncDeployment, TypeOK, users, worker
    <2>2. CacheInv' /\ HonestInv'
      BY <1>0, <1>7 DEF SyncDeployment, TypeOK, CacheInv, HonestInv, Honest, worker
    <2>3. WorkerInv' /\ CopyInv'
      BY <1>0, <1>7 DEF SyncDeployment, WorkerInv, CopyInv, worker, Holding
    <2>. QED
      BY <2>1, <2>2, <2>3 DEF IndInv
  <1>8. ASSUME NEW s \in Servers, DeleteDeployment(s) PROVE IndInv'
    <2>1. Honest(None)
      BY DEF Honest
    <2>2. /\ dep' \in [Servers -> Deployments \cup {None}]
          /\ depFresh' \in [Servers -> BOOLEAN]
          /\ depCache' = depCache /\ cmCache' = cmCache
          /\ dep'[s] = None /\ \A t \in Servers \ {s} : dep'[t] = dep[t]
          /\ CacheInv'
          /\ \A t \in Servers : Honest(dep'[t]) /\ Honest(depCache'[t])
      BY <1>8, <2>1, WriteFacts DEF DeleteDeployment
    <2>3. copyFresh' \in BOOLEAN /\ WorkerInv' /\ CopyInv'
      BY <1>8, <2>2, OutdatesCopy DEF DeleteDeployment
    <2>4. TypeOK'
      BY <1>0, <1>2, <1>8, <2>2, <2>3 DEF DeleteDeployment, TypeOK, users
    <2>5. Honest(copy')
      BY <1>0, <1>8 DEF DeleteDeployment, HonestInv, Honest
    <2>. QED
      BY <2>2, <2>3, <2>4, <2>5 DEF IndInv, HonestInv
  <1>9. ASSUME NEW s \in Servers, NEW sp \in Specs, EditOAPServer(s, sp) PROVE IndInv'
    <2>1. TypeOK'
      BY <1>0, <1>2, <1>9 DEF EditOAPServer, TypeOK, caches, worker
    <2>. QED
      BY <1>9, <2>1, FrameInd DEF EditOAPServer, caches, IndInv
  <1>10. ASSUME NEW c \in Configs, EditConfig(c) PROVE IndInv'
    <2>1. TypeOK'
      BY <1>0, <1>2, <1>10 DEF EditConfig, TypeOK, caches, worker, Configs
    <2>. QED
      BY <1>10, <2>1, FrameInd DEF EditConfig, caches, IndInv
  <1>11. ASSUME NEW s \in Servers, PodsChange(s) PROVE IndInv'
    <2>1. depFresh' \in [Servers -> BOOLEAN] /\ copyFresh' \in BOOLEAN
      BY <1>0, <1>11 DEF PodsChange, TypeOK
    <2>2. TypeOK'
      BY <1>0, <1>2, <1>11, <2>1 DEF PodsChange, TypeOK, users
    <2>3. (\A t \in Servers : depFresh'[t] => depFresh[t]) /\ (copyFresh' => copyFresh)
      BY <1>0, <1>11 DEF PodsChange, TypeOK
    <2>4. WorkerInv' /\ CacheInv' /\ CopyInv'
      BY <1>0, <1>11, <2>3 DEF PodsChange, WorkerInv, CacheInv, CopyInv
    <2>5. HonestInv'
      BY <1>0, <1>11 DEF PodsChange, HonestInv, Honest
    <2>. QED
      BY <2>2, <2>4, <2>5 DEF IndInv
  <1>. QED
    BY <1>3, <1>4, <1>5, <1>6, <1>7, <1>8, <1>9, <1>10, <1>11

\* The invariant holds through all interleavings of the two reconcilers.
LEMMA IndInvariant == Spec => []IndInv
  <1>1. ASSUME IndInv, UNCHANGED vars PROVE IndInv'
    BY <1>1 DEF vars, caches, worker, IndInv, TypeOK, WorkerInv, CacheInv, CopyInv,
                HonestInv, Honest, Holding
  <1>2. IndInv /\ [Next]_vars => IndInv'
    BY <1>1, OAPServerInd, ConfigureInd, OthersInd DEF Next, Configs
  <1>. QED
    BY InitInd, <1>2, PTL DEF Spec

-----------------------------------------------------------------------------
(* The theorems *)

\* Every variable keeps its type: the loop over the OAPServers stays within the
\* list, and no overlay is made of a configuration or a Deployment that is missing.
THEOREM TypeCorrect == Spec => []TypeOK
  <1>1. IndInv => TypeOK
    BY DEF IndInv
  <1>. QED
    BY IndInvariant, <1>1, PTL

\* The label by which OverlayEnv decides that nothing is to be done is true of the
\* Deployment, whichever controller wrote last and however old its copy was.
THEOREM LabelIsAlwaysHonest == Spec => []LabelIsHonest
  <1>1. IndInv => LabelIsHonest
    BY DEF IndInv, HonestInv, Honest, LabelIsHonest
  <1>. QED
    BY IndInvariant, <1>1, PTL

\* The OAPServerConfig reconciler neither revives a Deployment nor brings back an
\* older rendering: a resourceVersion that is current means the same rendering.
THEOREM NeverReverts == Spec => NoRevert
  <1>. DEFINE Kept ==
         \A s \in Servers :
           /\ dep[s] = None => dep'[s] = None
           /\ dep[s] # None => dep'[s] # None /\ dep'[s].version = dep[s].version
  <1>1. ASSUME IndInv, UNCHANGED dep PROVE Kept
    BY <1>1
  <1>2. ASSUME IndInv, copyFresh, WriteDeployment(at, copy) PROVE Kept
    <2>1. /\ dep'[at] = copy /\ \A t \in Servers \ {at} : dep'[t] = dep[t]
          /\ at \in Servers
      BY <1>2 DEF WriteDeployment, IndInv, TypeOK
    <2>2. copy # None /\ dep[at] # None /\ copy.version = dep[at].version
      BY <1>2 DEF IndInv, WorkerInv, CopyInv
    <2>. QED
      BY <2>1, <2>2
  <1>3. ASSUME IndInv, Next, ConfigStep PROVE Kept
    <2>1. CASE UpdateDeployment
      BY <1>1, <1>2, <1>3, <2>1 DEF UpdateDeployment
    <2>2. CASE ReplyLost
      BY <1>2, <1>3, <2>2 DEF ReplyLost
    <2>3. CASE OAPServerWrite \/ \E s \in Servers : DeleteDeployment(s)
      BY <1>3, <2>3 DEF OAPServerWrite, DeleteDeployment, ConfigStep
    <2>4. CASE \/ StartReconcile \/ GetDeployment \/ GetConfigMap \/ DeleteConfigMap
               \/ CreateConfigMap \/ CheckState \/ CallFails \/ Crash \/ SyncConfigMap
      BY <1>1, <1>3, <2>4 DEF StartReconcile, GetDeployment, GetConfigMap,
           DeleteConfigMap, CreateConfigMap, CheckState, CallFails, Crash, SyncConfigMap
    <2>5. CASE \/ \E s \in Servers :
                    \/ OAPServerGet(s) \/ OAPServerStatus(s) \/ SyncDeployment(s)
                    \/ PodsChange(s) \/ \E sp \in Specs : EditOAPServer(s, sp)
               \/ \E c \in Configs : EditConfig(c)
      BY <1>1, <1>3, <2>5 DEF OAPServerGet, OAPServerStatus, SyncDeployment,
           PodsChange, EditOAPServer, EditConfig
    <2>. QED
      BY <1>3, <2>1, <2>2, <2>3, <2>4, <2>5 DEF Next, Configure, Configs
  <1>4. IndInv /\ [Next]_vars => [ConfigStep => Kept]_vars
    BY <1>3
  <1>. QED
    BY IndInvariant, <1>4, PTL DEF Spec, NoRevert
=============================================================================
