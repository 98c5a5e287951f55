--------------------------- MODULE OAPServerConfig ---------------------------
(***************************************************************************)
(* Two controllers of the operator on the same Deployments.  The OAPServer *)
(* reconciler renders the Deployment of each OAPServer and overwrites it   *)
(* whenever its version annotation is not the one of the rendering (module *)
(* Application).  The OAPServerConfig reconciler overlays the environment  *)
(* and the files of one OAPServerConfig on the Deployments of all the      *)
(* OAPServers of its version, and keeps the files in a ConfigMap.          *)
(*                                                                         *)
(* The OAPServerConfig reconciler reads Deployments and the ConfigMap from *)
(* the informer cache and writes to the API server; its Deployment update  *)
(* carries the resourceVersion it has read.  A resourceVersion is only     *)
(* ever compared with the current one, so a copy is fresh or it is not.    *)
(* The CRs, which only their own reconciler reads, are as the cache shows  *)
(* them: a cache that lags is an edit that comes later.                    *)
(***************************************************************************)
EXTENDS Naturals, FiniteSets

CONSTANTS
  NumServers,  \* the OAPServers of the configuration's version, in list order
  Specs,       \* what an OAPServer's own spec may be
  Envs,        \* what spec.env may be; its MD5 is taken to be itself
  FileSets,    \* what spec.file may be; its MD5 is taken to be itself
  None,        \* rendered environment, no label, no mounts, no object
  MaxEdits,    \* bound: steps taken by users and pods
  MaxFaults    \* bound: failed calls, lost replies and crashes

Servers == 1 .. NumServers

ASSUME ConstantsAssumption ==
  /\ NumServers \in Nat \ {0}
  /\ MaxEdits \in Nat /\ MaxFaults \in Nat
  /\ None \notin Specs /\ None \notin Envs /\ None \notin FileSets

\* A Deployment: the version annotation names the OAPServer spec it was rendered
\* from; env, the label md5-env and the mounted files are the overlay.
Deployments ==
  [version : Specs, env : Envs \cup {None}, md5 : Envs \cup {None},
   mounts : FileSets \cup {None}]

ASSUME NoneAssumption == None \notin Deployments

VARIABLES
  spec,        \* spec[s]: the spec of OAPServer s
  conf,        \* the spec of the OAPServerConfig
  dep,         \* dep[s]: the Deployment of s, or None
  cm,          \* the files in the ConfigMap, or None
  ready,       \* status.ready of the OAPServerConfig
  available,   \* the OAPServers whose status reports available replicas
  depCache, depFresh,  \* the cached Deployments; is the cached one current?
  cmCache,     \* the cached ConfigMap
  oap,         \* the OAPServer worker: a write it has decided on, or None
  pc, at, want, copy, copyFresh, changed,  \* the OAPServerConfig worker
  edits, faults

caches == <<depCache, depFresh, cmCache>>
worker == <<pc, at, want, copy, copyFresh, changed>>
users  == <<spec, conf>>
vars   == <<spec, conf, dep, cm, ready, available, caches, oap, worker,
            edits, faults>>

TypeOK ==
  /\ spec \in [Servers -> Specs]
  /\ conf \in [env : Envs, file : FileSets]
  /\ dep \in [Servers -> Deployments \cup {None}]
  /\ cm \in FileSets \cup {None}
  /\ ready \in 0 .. NumServers
  /\ available \subseteq Servers
  /\ depCache \in [Servers -> Deployments \cup {None}]
  /\ depFresh \in [Servers -> BOOLEAN]
  /\ cmCache \in FileSets \cup {None}
  /\ oap \in [server : Servers, spec : Specs, op : {"create", "update"}]
               \cup {None}
  /\ pc \in {"idle", "deployment", "configmap", "delete", "create", "update",
             "status"}
  /\ at \in Servers
  /\ want \in [env : Envs, file : FileSets] \cup {None}
  /\ copy \in Deployments \cup {None}
  /\ copyFresh \in BOOLEAN
  /\ changed \in BOOLEAN
  /\ edits \in 0 .. MaxEdits
  /\ faults \in 0 .. MaxFaults

----------------------------------------------------------------------------
(* The API server *)

\* Every write makes the cached copies of the Deployment outdated.
WriteDeployment(s, d) ==
  /\ dep' = [dep EXCEPT ![s] = d]
  /\ depFresh' = [depFresh EXCEPT ![s] = (d = dep[s]) /\ @]
  /\ UNCHANGED <<depCache, cmCache>>

\* The copy of a reconcile under way is outdated too when somebody else writes.
Outdates(s, d) == copyFresh' = IF s = at /\ d # dep[s] THEN FALSE ELSE copyFresh

Fault == faults < MaxFaults /\ faults' = faults + 1

----------------------------------------------------------------------------
(* The OAPServer reconciler, reduced to its Deployment *)

\* apply: Get the Deployment; compare the version annotations.
OAPServerGet(s) ==
  /\ oap = None
  /\ dep[s] # None => dep[s].version # spec[s]
  /\ oap' = [server |-> s, spec |-> spec[s],
             op |-> IF dep[s] = None THEN "create" ELSE "update"]
  /\ UNCHANGED <<users, dep, cm, ready, available, caches, worker, edits, faults>>

Rendered(sp) == [version |-> sp, env |-> None, md5 |-> None, mounts |-> None]

\* apply: Create, or Update without a resourceVersion, whatever is there by now.
OAPServerWrite ==
  /\ oap # None
  /\ IF (oap.op = "create") = (dep[oap.server] = None)
       THEN /\ WriteDeployment(oap.server, Rendered(oap.spec))
            /\ Outdates(oap.server, Rendered(oap.spec))
       ELSE UNCHANGED <<dep, caches, copyFresh>>
  /\ oap' = None
  /\ UNCHANGED <<users, cm, ready, available, pc, at, want, copy, changed,
                 edits, faults>>

\* The Deployment has available replicas and checkState has reported it; or not.
OAPServerStatus(s) ==
  /\ available' = IF dep[s] = None THEN available \ {s} ELSE available \cup {s}
  /\ available' # available
  /\ UNCHANGED <<users, dep, cm, ready, caches, oap, worker, edits, faults>>

----------------------------------------------------------------------------
(* The OAPServerConfig reconciler *)

Return ==
  /\ pc' = "idle" /\ at' = 1 /\ want' = None /\ copy' = None
  /\ copyFresh' = FALSE /\ changed' = FALSE

\* Reconcile: Get the OAPServerConfig, List the OAPServers.
StartReconcile ==
  /\ pc = "idle"
  /\ pc' = "deployment" /\ at' = 1 /\ want' = conf
  /\ UNCHANGED <<users, dep, cm, ready, available, caches, oap, copy, copyFresh,
                 changed, edits, faults>>

\* Mutant: the label is set before the environment is compared.
OverlayEnv_LabelOnly(d) == [d EXCEPT !.md5 = want.env]

\* OverlayEnv on a Deployment that was found.
OverlayEnv(d) ==
  IF d.md5 # want.env THEN [d EXCEPT !.env = want.env, !.md5 = want.env] ELSE d

\* Mutant: a Deployment that has no label yet counts as unchanged.
GetDeployment_NoLabel ==
  /\ pc = "deployment"
  /\ \/ /\ depCache[at] = None
        /\ Return
     \/ /\ depCache[at] # None
        /\ copy' = OverlayEnv(depCache[at])
        /\ changed' = (depCache[at].md5 \notin {want.env, None})
        /\ copyFresh' = depFresh[at]
        /\ pc' = "configmap" /\ UNCHANGED <<at, want>>
  /\ UNCHANGED <<users, dep, cm, ready, available, caches, oap, edits, faults>>

\* Mutant: every Deployment counts as changed.
GetDeployment_Always ==
  /\ pc = "deployment"
  /\ \/ /\ depCache[at] = None
        /\ Return
     \/ /\ depCache[at] # None
        /\ copy' = OverlayEnv(depCache[at])
        /\ changed' = TRUE
        /\ copyFresh' = depFresh[at]
        /\ pc' = "configmap" /\ UNCHANGED <<at, want>>
  /\ UNCHANGED <<users, dep, cm, ready, available, caches, oap, edits, faults>>

\* Get the Deployment, then OverlayEnv.  The empty Deployment of a NotFound has
\* no container to index: the reconcile panics, which is recovered as an error.
GetDeployment ==
  /\ pc = "deployment"
  /\ \/ /\ depCache[at] = None
        /\ Return
     \/ /\ depCache[at] # None
        /\ copy' = OverlayEnv(depCache[at])
        /\ changed' = (depCache[at].md5 # want.env)
        /\ copyFresh' = depFresh[at]
        /\ pc' = "configmap" /\ UNCHANGED <<at, want>>
  /\ UNCHANGED <<users, dep, cm, ready, available, caches, oap, edits, faults>>

\* Mutant: a ConfigMap that exists counts as the right one.
GetConfigMap_Exists ==
  /\ pc = "configmap"
  /\ pc' = IF cmCache = None THEN "create" ELSE "update"
  /\ UNCHANGED <<users, dep, cm, ready, available, caches, oap, at, want, copy,
                 copyFresh, changed, edits, faults>>

\* OverlayStaticFile: Get the ConfigMap and compare its label md5-file.
GetConfigMap ==
  /\ pc = "configmap"
  /\ \/ /\ cmCache = want.file
        /\ pc' = "update" /\ UNCHANGED changed
     \/ /\ cmCache \notin {want.file, None}
        /\ pc' = "delete" /\ changed' = TRUE
     \/ /\ cmCache = None
        /\ pc' = "create" /\ UNCHANGED changed
  /\ UNCHANGED <<users, dep, cm, ready, available, caches, oap, at, want, copy,
                 copyFresh, edits, faults>>

\* OverlayStaticFile: Delete the ConfigMap; an error is logged and ignored.
DeleteConfigMap ==
  /\ pc = "delete"
  /\ pc' = "create"
  /\ \/ cm' = None /\ UNCHANGED faults
     \/ Fault /\ UNCHANGED cm
  /\ UNCHANGED <<users, dep, ready, available, caches, oap, at, want, copy,
                 copyFresh, changed, edits>>

\* OverlayStaticFile: Create the ConfigMap, then set mounts and volumes in the
\* copy.  An error of the Create (AlreadyExists too) skips the mounts and is
\* only logged by the caller.
CreateConfigMap ==
  /\ pc = "create"
  /\ pc' = "update"
  /\ \/ /\ cm = None
        /\ cm' = want.file /\ copy' = [copy EXCEPT !.mounts = want.file]
        /\ UNCHANGED faults
     \/ cm # None /\ UNCHANGED <<cm, copy, faults>>
     \/ Fault /\ UNCHANGED <<cm, copy>>
     \/ cm = None /\ Fault /\ cm' = want.file /\ UNCHANGED copy
  /\ UNCHANGED <<users, dep, ready, available, caches, oap, at, want, copyFresh,
                 changed, edits>>

\* The loop over the OAPServers: the next one, or checkState.
NextServer ==
  /\ IF at = NumServers THEN pc' = "status" /\ UNCHANGED at
                        ELSE pc' = "deployment" /\ at' = at + 1
  /\ copy' = None /\ copyFresh' = FALSE /\ changed' = FALSE
  /\ UNCHANGED want

\* Mutant: the Update carries no resourceVersion.
UpdateDeployment_Blind ==
  /\ pc = "update"
  /\ \/ ~changed /\ NextServer /\ UNCHANGED <<dep, caches>>
     \/ changed /\ dep[at] # None /\ WriteDeployment(at, copy) /\ NextServer
     \/ changed /\ dep[at] = None /\ Return /\ UNCHANGED <<dep, caches>>
  /\ UNCHANGED <<users, cm, ready, available, oap, edits, faults>>

\* Update the Deployment when the environment or the files changed.  A copy that
\* is not fresh, or a Deployment that is gone, is a conflict: an error.
UpdateDeployment ==
  /\ pc = "update"
  /\ \/ /\ ~changed
        /\ NextServer /\ UNCHANGED <<dep, caches>>
     \/ /\ changed /\ copyFresh
        /\ WriteDeployment(at, copy) /\ NextServer
     \/ /\ changed /\ ~copyFresh
        /\ Return /\ UNCHANGED <<dep, caches>>
  /\ UNCHANGED <<users, cm, ready, available, oap, edits, faults>>

\* checkState and updateStatus: Ready adds up the available replicas of the
\* OAPServers, of which each has one.
CheckState ==
  /\ pc = "status"
  /\ ready' = Cardinality(available)
  /\ Return
  /\ UNCHANGED <<users, dep, cm, available, caches, oap, edits, faults>>

\* A call fails and the reconcile returns its error; the Get of the ConfigMap
\* is the exception: OverlayStaticFile's error is only logged.
CallFails ==
  /\ Fault
  /\ \/ pc \in {"deployment", "update", "status"} /\ Return
     \/ /\ pc = "configmap"
        /\ pc' = "update" /\ UNCHANGED <<at, want, copy, copyFresh, changed>>
  /\ UNCHANGED <<users, dep, cm, ready, available, caches, oap, edits>>

\* The Deployment is updated and the answer is lost.
ReplyLost ==
  /\ pc = "update" /\ changed /\ copyFresh
  /\ Fault
  /\ WriteDeployment(at, copy) /\ Return
  /\ UNCHANGED <<users, cm, ready, available, oap, edits>>

\* The operator, both controllers in it, stops and starts with fresh caches.
Crash ==
  /\ Fault
  /\ Return /\ oap' = None
  /\ depCache' = dep /\ depFresh' = [s \in Servers |-> TRUE] /\ cmCache' = cm
  /\ UNCHANGED <<users, dep, cm, ready, available, edits>>

----------------------------------------------------------------------------
(* The informer caches catch up *)

SyncDeployment(s) ==
  /\ ~depFresh[s]
  /\ depCache' = [depCache EXCEPT ![s] = dep[s]]
  /\ depFresh' = [depFresh EXCEPT ![s] = TRUE]
  /\ UNCHANGED <<users, dep, cm, ready, available, cmCache, oap, worker,
                 edits, faults>>

SyncConfigMap ==
  /\ cmCache # cm
  /\ cmCache' = cm
  /\ UNCHANGED <<users, dep, cm, ready, available, depCache, depFresh, oap,
                 worker, edits, faults>>

(* Users and pods *)

Edit == edits < MaxEdits /\ edits' = edits + 1

EditOAPServer(s, sp) ==
  /\ Edit /\ sp # spec[s]
  /\ spec' = [spec EXCEPT ![s] = sp]
  /\ UNCHANGED <<conf, dep, cm, ready, available, caches, oap, worker, faults>>

EditConfig(c) ==
  /\ Edit /\ c # conf
  /\ conf' = c
  /\ UNCHANGED <<spec, dep, cm, ready, available, caches, oap, worker, faults>>

DeleteDeployment(s) ==
  /\ Edit /\ dep[s] # None
  /\ WriteDeployment(s, None) /\ Outdates(s, None)
  /\ UNCHANGED <<users, cm, ready, available, oap, pc, at, want, copy, changed,
                 faults>>

\* Pods come and go: the Deployment controller writes the status, which is part of
\* the Deployment's resourceVersion and of nothing the reconcilers overlay.
PodsChange(s) ==
  /\ Edit /\ dep[s] # None
  /\ depFresh' = [depFresh EXCEPT ![s] = FALSE]
  /\ copyFresh' = (copyFresh /\ s # at)
  /\ UNCHANGED <<users, dep, cm, ready, available, depCache, cmCache, oap, pc, at,
                 want, copy, changed, faults>>

----------------------------------------------------------------------------
Init ==
  /\ spec \in [Servers -> Specs]
  /\ conf \in [env : Envs, file : FileSets]
  /\ dep = [s \in Servers |-> None]
  /\ cm = None /\ ready = 0 /\ available = {}
  /\ depCache = dep /\ depFresh = [s \in Servers |-> TRUE] /\ cmCache = None
  /\ oap = None
  /\ pc = "idle" /\ at = 1 /\ want = None /\ copy = None
  /\ copyFresh = FALSE /\ changed = FALSE
  /\ edits = 0 /\ faults = 0

Configure ==
  StartReconcile \/ GetDeployment \/ GetConfigMap \/ DeleteConfigMap
    \/ CreateConfigMap \/ UpdateDeployment \/ CheckState

Next ==
  \/ Configure \/ OAPServerWrite \/ CallFails \/ ReplyLost \/ Crash
  \/ SyncConfigMap
  \/ \E s \in Servers :
       \/ OAPServerGet(s) \/ OAPServerStatus(s) \/ SyncDeployment(s)
       \/ DeleteDeployment(s) \/ PodsChange(s)
       \/ \E sp \in Specs : EditOAPServer(s, sp)
  \/ \E c \in [env : Envs, file : FileSets] : EditConfig(c)

Spec == Init /\ [][Next]_vars

(***************************************************************************)
(* Both reconcilers run again and again: every path of theirs ends in a    *)
(* RequeueAfter of a minute or in an error, which is retried.  An OAPServer *)
(* that waits gets its turn in the queue.  The caches follow.              *)
(***************************************************************************)
Fairness ==
  /\ WF_vars(Configure) /\ WF_vars(OAPServerWrite) /\ WF_vars(SyncConfigMap)
  /\ \A s \in Servers : /\ SF_vars(OAPServerGet(s))
                        /\ WF_vars(OAPServerStatus(s))
                        /\ WF_vars(SyncDeployment(s))

FairSpec == Spec /\ Fairness

----------------------------------------------------------------------------
(* Properties *)

\* The label md5-env, by which the reconciler decides that nothing is to be done,
\* never claims an environment the Deployment does not have, whichever of the
\* two controllers wrote last.
LabelIsHonest == \A s \in Servers : dep[s] # None => dep[s].env = dep[s].md5

\* A step of the OAPServerConfig worker.
ConfigStep == pc' # pc \/ at' # at

\* The OAPServerConfig reconciler neither brings back an older rendering of an
\* OAPServer's Deployment nor revives a deleted one, however old the Deployment
\* it read: what the OAPServer reconciler wrote in between survives.
NoRevert ==
  [][ConfigStep => \A s \in Servers :
       /\ dep[s] = None => dep'[s] = None
       /\ dep[s] # None => dep'[s] # None /\ dep'[s].version = dep[s].version
    ]_vars

\* Once users and faults stop, every Deployment has the environment asked for,
\* although each new rendering of an OAPServer wipes it out.
EnvConverges ==
  <>[](\A s \in Servers : dep[s] # None /\ dep[s].env = conf.env)

\* The ConfigMap ends up with the files asked for, although it is replaced by a
\* Delete whose error is ignored and a Create whose error is logged.
ConfigMapConverges == <>[](cm = conf.file)

\* The two controllers do not fight: each Deployment ends up with the rendering
\* of its OAPServer, and the OAPServerConfig reconciler stops updating it.
NoFight ==
  /\ <>[](\A s \in Servers : dep[s] # None /\ dep[s].version = spec[s])
  /\ <>[](pc = "update" => ~changed)

\* docs/oapserver-configuration.md: path plus name "is the real file that needs
\* to be replaced in the container image".
FilesMounted == <>[](\A s \in Servers : dep[s] # None /\ dep[s].mounts = conf.file)
============================================================================
