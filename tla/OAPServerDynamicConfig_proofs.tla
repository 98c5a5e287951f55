------------------- MODULE OAPServerDynamicConfig_proofs -------------------
(***************************************************************************)
(* No reconcile installs a name twice, proved for any number of CRs,       *)
(* configurations, versions and OAPServers and any number of steps.        *)
(*                                                                         *)
(* The worker looks for collisions once, and creates the ConfigMap some    *)
(* steps later: what it has seen stays true of every CR that is not edited *)
(* meanwhile (ClearInv).                                                   *)
(***************************************************************************)
EXTENDS OAPServerDynamicConfig, TLAPS

\* The worker has a CR from its start to its end, and an OAPServer to do it for.
WorkerInv ==
  /\ pc # "idle" => req \in CRs /\ want \in Specs
  /\ pc \in {"check", "delete", "create"} => left > 0

\* Between check and Create no CR but those edited meanwhile defines a name that
\* the ConfigMap is going to have.
ClearInv ==
  pc \in {"delete", "create"} =>
    \A d \in CRs \ ({req} \cup touched) :
      spec[d] # None => Names[spec[d].data] \cap Names[want.data] = {}

IndInv == TypeOK /\ WorkerInv /\ ClearInv

----------------------------------------------------------------------------
(* Types *)

\* None is neither a CR's name, nor a CR, nor a ConfigMap.
LEMMA NoneFacts ==
  /\ \A s \in Specs : s # None
  /\ \A m \in ConfigMaps : m # None
  /\ \A c \in CRs : c # None
BY NoneAssumption

\* What a user submits becomes a CR with the uid it is given.
LEMMA WithUIDType ==
  ASSUME NEW s \in Submissions, NEW u \in Nat
  PROVE  withUID(s, u) \in Specs
BY ConstantsAssumption DEF withUID, Specs

\* A CR renders a ConfigMap with its data.
LEMMA RenderedType ==
  ASSUME NEW s \in Specs
  PROVE  Rendered(s) \in ConfigMaps /\ Rendered(s).data = s.data
BY ConstantsAssumption DEF Rendered, Specs, ConfigMaps

\* checkState computes a state.
LEMMA StateOfType ==
  ASSUME NEW c, NEW s, NEW maps
  PROVE  stateOf(c, s, maps) \in {"Running", "Stopped"}
BY DEF stateOf

\* The end of a reconcile.
LEMMA ReturnKeeps ==
  ASSUME Return
  PROVE  /\ touched' \subseteq CRs /\ pc' = "idle" /\ req' \in CRs \cup {None}
         /\ want' \in Specs \cup {None}
         /\ left' \in 0 .. MaxServers
         /\ WorkerInv' /\ ClearInv'
BY ConstantsAssumption DEF Return, WorkerInv, ClearInv

\* The next OAPServer.
LEMMA NextServerKeeps ==
  ASSUME IndInv, pc \in {"check", "create"}, NextServer
  PROVE  /\ touched' = touched /\ pc' \in {"state", "check"}
         /\ req' = req /\ want' = want
         /\ left' \in 0 .. MaxServers
         /\ WorkerInv' /\ ClearInv'
<1>1. left \in 0 .. MaxServers /\ left > 0 /\ MaxServers \in Nat
  BY ConstantsAssumption DEF IndInv, TypeOK, WorkerInv
<1> QED BY <1>1 DEF IndInv, WorkerInv, ClearInv, NextServer

\* The counters of faults and of edits.
LEMMA Counters ==
  ASSUME IndInv
  PROVE  /\ Fault => faults' \in 0 .. MaxFaults
         /\ Edit => edits' \in 0 .. MaxEdits /\ edits + 1 \in Nat
<1>1. MaxFaults \in Nat /\ MaxEdits \in Nat
  BY ConstantsAssumption
<1>2. faults \in 0 .. MaxFaults /\ edits \in 0 .. MaxEdits
  BY DEF IndInv, TypeOK
<1>3. ASSUME Fault PROVE faults' \in 0 .. MaxFaults
  BY <1>1, <1>2, <1>3 DEF Fault
<1>4. ASSUME Edit PROVE edits' \in 0 .. MaxEdits /\ edits + 1 \in Nat
  BY <1>1, <1>2, <1>4 DEF Edit
<1> QED BY <1>3, <1>4

----------------------------------------------------------------------------
(* The worker's steps *)

\* StartReconcile keeps the invariant.
LEMMA StartKeeps ==
  ASSUME IndInv, NEW c \in CRs, StartReconcile(c)
  PROVE  IndInv'
<1>1. spec[c] \in Specs /\ spec[c].version \in Versions
  BY DEF StartReconcile, IndInv, TypeOK, Specs
<1>2. oaps[spec[c].version] \in 0 .. MaxServers
  BY <1>1 DEF IndInv, TypeOK
<1>3. TypeOK'
  BY <1>1, <1>2 DEF StartReconcile, IndInv, TypeOK
<1>4. WorkerInv' /\ ClearInv'
  BY <1>1, <1>2, ConstantsAssumption DEF StartReconcile, WorkerInv, ClearInv
<1> QED BY <1>3, <1>4 DEF IndInv

\* CheckConfigMap keeps the invariant: it goes on only if nothing collides.
LEMMA CheckKeeps ==
  ASSUME IndInv, CheckConfigMap
  PROVE  IndInv'
<1>0. /\ pc = "check"
      /\ UNCHANGED <<spec, state, fresh, oaps, cms, cmCache, edits, faults>>
  BY DEF CheckConfigMap
<1>1. CASE Return
  BY <1>0, <1>1, ReturnKeeps DEF IndInv, TypeOK
<1>2. CASE NextServer
  BY <1>0, <1>2, NextServerKeeps DEF IndInv, TypeOK
<1>3. CASE /\ ~Refused(req, want) /\ pc' \in {"create", "delete"}
           /\ UNCHANGED <<touched, req, want, left>>
  <2>1. TypeOK' /\ WorkerInv'
    BY <1>0, <1>3 DEF IndInv, TypeOK, WorkerInv
  <2>2. ClearInv'
    BY <1>0, <1>3 DEF Refused, Collides, ClearInv
  <2> QED BY <2>1, <2>2 DEF IndInv
<1> QED BY <1>1, <1>2, <1>3 DEF CheckConfigMap

\* DeleteConfigMap keeps the invariant.
LEMMA DeleteKeeps ==
  ASSUME IndInv, DeleteConfigMap
  PROVE  IndInv'
<1>1. TypeOK'
  BY Counters DEF DeleteConfigMap, IndInv, TypeOK
<1>2. WorkerInv' /\ ClearInv'
  BY DEF DeleteConfigMap, IndInv, WorkerInv, ClearInv
<1> QED BY <1>1, <1>2 DEF IndInv

\* CreateConfigMap keeps the invariant.
LEMMA CreateKeeps ==
  ASSUME IndInv, CreateConfigMap
  PROVE  IndInv'
<1>0. /\ pc = "create"
      /\ UNCHANGED <<spec, state, fresh, oaps, cmCache, edits, faults>>
  BY DEF CreateConfigMap
<1>1. CASE cms' = [cms EXCEPT ![req] = Rendered(want)] /\ NextServer
  <2>1. Rendered(want) \in ConfigMaps
    BY <1>0, RenderedType DEF IndInv, WorkerInv
  <2> QED BY <1>0, <1>1, <2>1, NextServerKeeps DEF IndInv, TypeOK
<1>2. CASE Return /\ UNCHANGED cms
  BY <1>0, <1>2, ReturnKeeps DEF IndInv, TypeOK
<1> QED BY <1>1, <1>2 DEF CreateConfigMap

\* The steps that end a reconcile keep the invariant.
LEMMA EndKeeps ==
  ASSUME IndInv, CheckState \/ CallFails \/ ReplyLost \/ Crash
  PROVE  IndInv'
<1>1. Return /\ UNCHANGED <<spec, oaps, edits>>
  BY DEF CheckState, CallFails, ReplyLost, Crash
<1>2. faults' \in 0 .. MaxFaults
  BY Counters DEF CheckState, CallFails, ReplyLost, Crash, IndInv, TypeOK
<1>3. state' \in [CRs -> {"", "Running", "Stopped"}] /\ fresh' \in [CRs -> BOOLEAN]
  <2>1. ASSUME NEW st \in {"Running", "Stopped"}, StoreState(st)
        PROVE  /\ state' \in [CRs -> {"", "Running", "Stopped"}]
               /\ fresh' \in [CRs -> BOOLEAN]
    BY <2>1 DEF StoreState, IndInv, TypeOK
  <2>2. CASE UNCHANGED <<state, fresh>>
    BY <2>2 DEF IndInv, TypeOK
  <2>3. CASE UNCHANGED state /\ fresh' = [c \in CRs |-> TRUE]
    BY <2>3 DEF IndInv, TypeOK
  <2> QED BY <2>1, <2>2, <2>3, StateOfType DEF CheckState, CallFails, ReplyLost, Crash
<1>4. cms' \in [CRs -> ConfigMaps \cup {None}]
      /\ cmCache' \in [CRs -> ConfigMaps \cup {None}]
  <2>1. CASE UNCHANGED cms /\ cmCache' \in {cms, cmCache}
    BY <2>1 DEF IndInv, TypeOK
  <2>2. CASE /\ pc = "create" /\ cms' = [cms EXCEPT ![req] = Rendered(want)]
             /\ UNCHANGED cmCache
    BY <2>2, RenderedType DEF IndInv, TypeOK, WorkerInv
  <2> QED BY <2>1, <2>2 DEF CheckState, CallFails, ReplyLost, Crash
<1> QED BY <1>1, <1>2, <1>3, <1>4, ReturnKeeps DEF IndInv, TypeOK

----------------------------------------------------------------------------
(* Caches and users *)

\* The steps of the caches, of the garbage collector and of those who touch no CR
\* keep the invariant.
LEMMA ClusterKeeps ==
  ASSUME IndInv,
         \/ UNCHANGED vars \/ SyncConfigMaps
         \/ \E c \in CRs : SyncCR(c) \/ DropConfigMap(c) \/ GarbageCollect(c)
         \/ \E v \in Versions, n \in 0 .. MaxServers : OAPServers(v, n)
  PROVE  IndInv'
<1>1. UNCHANGED <<spec, touched, worker>>
  BY DEF vars, SyncConfigMaps, SyncCR, DropConfigMap, GarbageCollect, RemoveConfigMap,
         OAPServers
<1>2. WorkerInv' /\ ClearInv'
  BY <1>1 DEF IndInv, WorkerInv, ClearInv, worker
<1>3. TypeOK'
  <2>1. CASE UNCHANGED vars \/ SyncConfigMaps
    BY <2>1 DEF vars, worker, SyncConfigMaps, IndInv, TypeOK
  <2>2. ASSUME NEW c \in CRs, SyncCR(c)
        PROVE  TypeOK'
    BY <2>2 DEF worker, SyncCR, IndInv, TypeOK
  <2>3. ASSUME NEW c \in CRs, DropConfigMap(c) \/ GarbageCollect(c)
        PROVE  TypeOK'
    BY <2>3, Counters DEF worker, DropConfigMap, GarbageCollect, RemoveConfigMap,
                          IndInv, TypeOK
  <2>4. ASSUME NEW v \in Versions, NEW n \in 0 .. MaxServers, OAPServers(v, n)
        PROVE  TypeOK'
    BY <2>4, Counters DEF worker, OAPServers, IndInv, TypeOK
  <2> QED BY <2>1, <2>2, <2>3, <2>4
<1> QED BY <1>2, <1>3 DEF IndInv

\* A user's step on CR c keeps the invariant: the CR counts as touched, or is gone.
LEMMA UserKeeps ==
  ASSUME IndInv, NEW c \in CRs,
         \/ DeleteCR(c)
         \/ \E s \in Submissions : CreateCR(c, s) \/ UpdateCR(c, s)
  PROVE  IndInv'
<1>1. Edit /\ UNCHANGED <<oaps, cms, cmCache, worker, faults>>
  BY DEF DeleteCR, CreateCR, UpdateCR
<1>2. PICK s \in Specs \cup {None} :
        /\ spec' = [spec EXCEPT ![c] = s]
        /\ \/ s = None /\ touched' = touched
           \/ Touch(c)
  <2>1. CASE DeleteCR(c)
    BY <2>1 DEF DeleteCR
  <2>2. ASSUME NEW s \in Submissions, CreateCR(c, s)
        PROVE  /\ withUID(s, edits + 1) \in Specs /\ Touch(c)
               /\ spec' = [spec EXCEPT ![c] = withUID(s, edits + 1)]
    BY <2>2, <1>1, Counters, WithUIDType DEF CreateCR
  <2>3. ASSUME NEW s \in Submissions, UpdateCR(c, s)
        PROVE  /\ withUID(s, spec[c].uid) \in Specs /\ Touch(c)
               /\ spec' = [spec EXCEPT ![c] = withUID(s, spec[c].uid)]
    <3>1. spec[c].uid \in Nat
      BY <2>3 DEF UpdateCR, IndInv, TypeOK, Specs
    <3> QED BY <2>3, <3>1, WithUIDType DEF UpdateCR
  <2> QED BY <2>1, <2>2, <2>3
<1>3. /\ state' \in [CRs -> {"", "Running", "Stopped"}]
      /\ fresh' \in [CRs -> BOOLEAN]
  BY DEF DeleteCR, CreateCR, UpdateCR, IndInv, TypeOK
<1>4. touched' \subseteq CRs
  BY <1>2 DEF Touch, IndInv, TypeOK
<1>5. TypeOK'
  BY <1>1, <1>2, <1>3, <1>4, Counters DEF worker, IndInv, TypeOK
<1>6. WorkerInv'
  BY <1>1 DEF worker, IndInv, WorkerInv
<1>7. ClearInv'
  <2> SUFFICES ASSUME pc \in {"delete", "create"},
                      NEW d \in CRs \ ({req} \cup touched'), spec'[d] # None
               PROVE  Names[spec'[d].data] \cap Names[want.data] = {}
    BY <1>1 DEF worker, ClearInv
  <2>1. d # c
    BY <1>2 DEF Touch, IndInv, TypeOK
  <2>2. d \notin touched /\ spec'[d] = spec[d]
    BY <1>2, <2>1 DEF Touch, IndInv, TypeOK
  <2> QED BY <2>2 DEF IndInv, ClearInv
<1> QED BY <1>5, <1>6, <1>7 DEF IndInv

----------------------------------------------------------------------------
(* Every step *)

\* The invariant holds initially.
LEMMA InitHolds == Init => IndInv
<1> SUFFICES ASSUME Init PROVE IndInv
  OBVIOUS
<1>1. \A s \in Submissions : withUID(s, 0) \in Specs
  BY WithUIDType
<1>2. spec \in [CRs -> Specs \cup {None}]
  BY <1>1 DEF Init
<1>3. MaxServers \in Nat /\ MaxEdits \in Nat /\ MaxFaults \in Nat
  BY ConstantsAssumption
<1>4. oaps \in [Versions -> 0 .. MaxServers]
  <2>1. MaxServers \in 0 .. MaxServers
    BY <1>3
  <2> QED BY <2>1 DEF Init
<1>5. /\ 0 \in 0 .. MaxServers /\ 0 \in 0 .. MaxEdits /\ 0 \in 0 .. MaxFaults
  BY <1>3
<1>6. /\ cms \in [CRs -> ConfigMaps \cup {None}] /\ cmCache = cms
      /\ state \in [CRs -> {"", "Running", "Stopped"}]
      /\ fresh \in [CRs -> BOOLEAN]
  BY DEF Init
<1>7. TypeOK
  BY <1>2, <1>4, <1>5, <1>6 DEF Init, TypeOK
<1> QED BY <1>7 DEF Init, IndInv, WorkerInv, ClearInv

\* Every step keeps the invariant.
LEMMA StepKeeps ==
  ASSUME IndInv, [Next]_vars
  PROVE  IndInv'
BY CheckKeeps, DeleteKeeps, CreateKeeps, EndKeeps, StartKeeps, ClusterKeeps, UserKeeps
   DEF Next, Work

\* The inductive invariant holds always.
LEMMA IndInvHolds == Spec => []IndInv
<1>1. IndInv /\ [Next]_vars => IndInv'
  BY StepKeeps
<1> QED BY InitHolds, <1>1, PTL DEF Spec

\* The variables of the OAPServerDynamicConfig reconciler have their types.
THEOREM TypeCorrect == Spec => []TypeOK
<1>1. IndInv => TypeOK
  BY DEF IndInv
<1> QED BY <1>1, IndInvHolds, PTL

\* A step that puts a ConfigMap in place is the Create, answered or not, of the
\* CR the worker handles.
LEMMA OnlyCreateStores ==
  ASSUME IndInv, [Next]_vars, NEW c \in CRs, cms'[c] # cms[c], cms'[c] # None
  PROVE  pc = "create" /\ c = req /\ cms'[c] = Rendered(want)
<1>0. cms \in [CRs -> ConfigMaps \cup {None}]
  BY DEF IndInv, TypeOK
<1>1. CASE CreateConfigMap \/ ReplyLost
  BY <1>0, <1>1 DEF CreateConfigMap, ReplyLost
<1>2. CASE DeleteConfigMap
  BY <1>0, <1>2 DEF DeleteConfigMap
<1>3. CASE \E d \in CRs : DropConfigMap(d) \/ GarbageCollect(d)
  BY <1>0, <1>3 DEF DropConfigMap, GarbageCollect, RemoveConfigMap
<1>4. CASE \/ UNCHANGED vars \/ CheckConfigMap \/ CheckState \/ CallFails \/ Crash
           \/ SyncConfigMaps
           \/ \E d \in CRs : StartReconcile(d) \/ SyncCR(d) \/ DeleteCR(d)
           \/ \E d \in CRs, s \in Submissions : CreateCR(d, s) \/ UpdateCR(d, s)
           \/ \E v \in Versions, n \in 0 .. MaxServers : OAPServers(v, n)
  BY <1>4 DEF vars, CheckConfigMap, CheckState, CallFails, Crash, SyncConfigMaps,
              StartReconcile, SyncCR, DeleteCR, CreateCR, UpdateCR, OAPServers
<1> QED BY <1>1, <1>2, <1>3, <1>4 DEF Next, Work

\* UpdateDynamicConfig makes no second ConfigMap define a name that another CR has
\* installed, but when that CR is edited between the check and the Create.
THEOREM NoDuplicateIsMade == Spec => NoNewDuplicate
<1>1. ASSUME IndInv, [Next]_vars, NEW c \in CRs, NEW d \in CRs,
             c # d, cms'[c] # cms[c], cms'[c] # None,
             spec[d] # None, cms[d].data = spec[d].data, d \notin touched
      PROVE  Names[cms'[c].data] \cap Names[cms[d].data] = {}
  <2>1. pc = "create" /\ c = req /\ cms'[c] = Rendered(want)
    BY <1>1, OnlyCreateStores
  <2>2. cms'[c].data = want.data
    BY <1>1, <2>1, RenderedType DEF IndInv, WorkerInv
  <2>3. Names[spec[d].data] \cap Names[want.data] = {}
    BY <1>1, <2>1 DEF IndInv, ClearInv
  <2> QED BY <1>1, <2>2, <2>3
<1>2. IndInv /\ [Next]_vars
        => [\A c, d \in CRs :
              (/\ c # d /\ cms'[c] # cms[c] /\ cms'[c] # None
               /\ spec[d] # None /\ cms[d] # None /\ cms[d].data = spec[d].data
               /\ d \notin touched)
                => Names[cms'[c].data] \cap Names[cms[d].data] = {}]_vars
  BY <1>1
<1> QED BY <1>2, IndInvHolds, PTL DEF Spec, NoNewDuplicate
=============================================================================
