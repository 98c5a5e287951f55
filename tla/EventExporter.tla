---------------------------- MODULE EventExporter ----------------------------
(***************************************************************************)
(* The EventExporter reconciler: the exporter's configuration lives in an  *)
(* immutable ConfigMap whose name is a digest of the configuration; the    *)
(* Deployment mounts it by that name, and the CR's status remembers the    *)
(* name.  A new configuration is installed by creating its ConfigMap,      *)
(* deleting the one the status names, applying the manifests and writing   *)
(* the new name into the status.  Every call is a step.                    *)
(*                                                                         *)
(* The CR is read from the informer cache: its history is a sequence of    *)
(* versions, of which the cache has reached a position.  A status update   *)
(* is accepted only when the cache has reached the last one.  The status   *)
(* also repeats what the Deployment reports of its pods, as its cache      *)
(* shows it, so that pods that come and go make new versions of the CR.    *)
(***************************************************************************)
EXTENDS Naturals, Sequences

CONSTANTS
  Configs,     \* what spec.config may be; also the name of its ConfigMap
  Others,      \* the rest of the spec the Deployment renders (image, replicas)
  Reports,     \* conditions and availableReplicas in the Deployment's status
  None,
  MaxEdits,    \* bound: changes made by users and by the pods
  MaxFaults    \* bound: failed calls, lost replies and crashes

ASSUME ConstantsAssumption ==
  /\ MaxEdits \in Nat /\ MaxFaults \in Nat
  /\ None \notin Configs

\* The CR: its spec; configMapName, and the rest of its status.
Versions    == [config : Configs, other : Others,
                status : Configs \cup {None}, report : Reports \cup {None}]
Deployments == [configMap : Configs, other : Others]

ASSUME NoneAssumption == None \notin Deployments

VARIABLES
  log,      \* the versions of the EventExporter the API server has stored
  cache,    \* how far the informer cache has followed
  cms,      \* the ConfigMaps there are
  cmCache,  \* the ConfigMaps the informer cache knows
  created,  \* auxiliary: the ConfigMaps there ever were
  raced,    \* auxiliary: who has changed something before the last change was installed
  dep,      \* the Deployment, or None
  report,   \* its status in the cache; None stands for zero replicas, no conditions
  pc, cr,   \* the worker: where it is, the CR it read
  edits, faults

vars == <<log, cache, cms, cmCache, created, raced, dep, report, pc, cr, edits, faults>>

TypeOK ==
  /\ log \in Seq(Versions)
  /\ cache \in 1 .. Len(log)
  /\ cms \subseteq Configs /\ cmCache \subseteq Configs
  /\ created \subseteq Configs /\ raced \subseteq {"users", "pods"}
  /\ dep \in Deployments \cup {None} /\ report \in Reports \cup {None}
  /\ pc \in {"idle", "create", "get", "delete", "apply", "status"}
  /\ cr \in Versions \cup {None}
  /\ edits \in 0 .. MaxEdits /\ faults \in 0 .. MaxFaults

Latest == log[Len(log)]

\* configMapName: eventexporter-cm-<md5 of name and config>.
configMapName(e) == e.config

Return == pc' = "idle" /\ cr' = None

Fault == faults < MaxFaults /\ faults' = faults + 1

\* Mutant: a configuration that is installed ends the reconcile.
StartReconcile_Skips ==
  /\ pc = "idle"
  /\ log[cache].status # configMapName(log[cache])
  /\ cr' = log[cache] /\ pc' = "create"
  /\ UNCHANGED <<raced, report, log, cache, cms, cmCache, created, dep, edits, faults>>

\* Reconcile: Get the CR; overlayData returns at once when the status already
\* names the ConfigMap of this configuration.
StartReconcile ==
  /\ pc = "idle"
  /\ cr' = log[cache]
  /\ pc' = IF log[cache].status = configMapName(log[cache]) THEN "apply"
                                                            ELSE "create"
  /\ UNCHANGED <<raced, report, log, cache, cms, cmCache, created, dep, edits, faults>>

\* overlayData: Create the ConfigMap; AlreadyExists is an error like any other.
CreateConfigMap ==
  /\ pc = "create"
  /\ \/ /\ configMapName(cr) \notin cms
        /\ cms' = cms \cup {configMapName(cr)}
        /\ created' = created \cup {configMapName(cr)}
        /\ pc' = "get" /\ UNCHANGED cr
     \/ /\ configMapName(cr) \in cms
        /\ Return /\ UNCHANGED <<cms, created>>
  /\ UNCHANGED <<raced, report, log, cache, cmCache, dep, edits, faults>>

\* Mutant: the old ConfigMap is never found.
GetOldConfigMap_Never ==
  /\ pc = "get"
  /\ pc' = "apply"
  /\ UNCHANGED <<raced, report, log, cache, cms, cmCache, created, dep, cr, edits, faults>>

\* overlayData: Get the ConfigMap the status names, from the cache.
GetOldConfigMap ==
  /\ pc = "get"
  /\ pc' = IF cr.status \in cmCache THEN "delete" ELSE "apply"
  /\ UNCHANGED <<raced, report, log, cache, cms, cmCache, created, dep, cr, edits, faults>>

\* overlayData: Delete it; that it is gone already is an error.
DeleteOldConfigMap ==
  /\ pc = "delete"
  /\ \/ /\ cr.status \in cms
        /\ cms' = cms \ {cr.status} /\ pc' = "apply" /\ UNCHANGED cr
     \/ /\ cr.status \notin cms
        /\ Return /\ UNCHANGED cms
  /\ UNCHANGED <<raced, report, log, cache, cmCache, created, dep, edits, faults>>

\* Mutant: the Deployment mounts the ConfigMap the status names.
ApplyAll_OldName ==
  /\ pc = "apply"
  /\ dep' = [configMap |-> IF cr.status = None THEN configMapName(cr) ELSE cr.status,
             other |-> cr.other]
  /\ pc' = "status"
  /\ UNCHANGED <<raced, report, log, cache, cms, cmCache, created, cr, edits, faults>>

\* ApplyAll, reduced to the Deployment, which mounts configMapName.
ApplyAll ==
  /\ pc = "apply"
  /\ dep' = [configMap |-> configMapName(cr), other |-> cr.other]
  /\ pc' = "status"
  /\ UNCHANGED <<raced, report, log, cache, cms, cmCache, created, cr, edits, faults>>

\* DeepDerivative: the status would say something that the CR does not; a zero value
\* is not compared.
StatusDiffers ==
  cr.status # configMapName(cr) \/ report \notin {None, cr.report}

\* The status update is accepted: the CR, which is read again, is the last version,
\* and its spec may be newer than the one the pass has worked with.  An update that
\* changes nothing makes no version.
StoreStatus ==
  /\ cache = Len(log)
  /\ LET v == [Latest EXCEPT !.status = configMapName(cr), !.report = report]
     IN  log' = IF v = Latest THEN log ELSE Append(log, v)

\* checkState and updateStatus.  A conflict is collected into a new error, so
\* that RetryOnConflict does not know it and the reconcile fails.
CheckState ==
  /\ pc = "status"
  /\ \/ ~StatusDiffers /\ UNCHANGED log
     \/ StatusDiffers /\ StoreStatus
     \/ StatusDiffers /\ cache # Len(log) /\ UNCHANGED log
  /\ Return
  /\ UNCHANGED <<raced, report, cache, cms, cmCache, created, dep, edits, faults>>

\* A call fails before it has an effect.
CallFails ==
  /\ pc # "idle" /\ Fault /\ Return
  /\ UNCHANGED <<raced, report, log, cache, cms, cmCache, created, dep, edits>>

\* The ConfigMap is created, or the status stored, and the answer is lost.
ReplyLost ==
  /\ Fault /\ Return
  /\ \/ /\ pc = "create" /\ configMapName(cr) \notin cms
        /\ cms' = cms \cup {configMapName(cr)}
        /\ created' = created \cup {configMapName(cr)}
        /\ UNCHANGED log
     \/ /\ pc = "status" /\ StatusDiffers
        /\ StoreStatus /\ UNCHANGED <<cms, created>>
  /\ UNCHANGED <<raced, report, cache, cmCache, dep, edits>>

\* The operator stops and starts with fresh caches.
Crash ==
  /\ Fault /\ Return
  /\ cache' = Len(log) /\ cmCache' = cms
  /\ UNCHANGED <<raced, report, log, cms, created, dep, edits>>

----------------------------------------------------------------------------
(* The informer caches catch up *)

SyncCR ==
  /\ \E p \in cache + 1 .. Len(log) : cache' = p
  /\ UNCHANGED <<raced, report, log, cms, cmCache, created, dep, pc, cr, edits, faults>>

SyncConfigMaps ==
  /\ cmCache # cms /\ cmCache' = cms
  /\ UNCHANGED <<raced, report, log, cache, cms, created, dep, pc, cr, edits, faults>>

\* The last change is installed and reported and the caches have seen it.
Installed ==
  /\ pc = "idle" /\ Latest.status = configMapName(Latest)
  /\ report \in {None, Latest.report}
  /\ cache = Len(log) /\ cmCache = cms

Edit == edits < MaxEdits /\ edits' = edits + 1

\* Users change the configuration or another field; a spec change keeps the status.
EditCR(c, o) ==
  /\ Edit
  /\ raced' = IF Installed THEN raced ELSE raced \cup {"users"}
  /\ <<c, o>> # <<Latest.config, Latest.other>>
  /\ log' = Append(log, [Latest EXCEPT !.config = c, !.other = o])
  /\ UNCHANGED <<cache, cms, cmCache, created, dep, report, pc, cr, faults>>

\* A configuration that users have submitted is not in the Deployment yet.
Unrendered == dep.configMap # configMapName(Latest)

\* Pods become available or cease to be, and the cache shows it.
PodsChange(n) ==
  /\ Edit /\ dep # None /\ n # report
  /\ report' = n
  /\ raced' = IF Unrendered THEN raced \cup {"pods"} ELSE raced
  /\ UNCHANGED <<log, cache, cms, cmCache, created, dep, pc, cr, faults>>

----------------------------------------------------------------------------
Init ==
  /\ \E c \in Configs, o \in Others :
       log = << [config |-> c, other |-> o, status |-> None, report |-> None] >>
  /\ cache = 1 /\ cms = {} /\ cmCache = {} /\ created = {} /\ raced = {}
  /\ dep = None /\ report = None
  /\ pc = "idle" /\ cr = None /\ edits = 0 /\ faults = 0

Work ==
  StartReconcile \/ CreateConfigMap \/ GetOldConfigMap \/ DeleteOldConfigMap
    \/ ApplyAll \/ CheckState

Next ==
  \/ Work \/ CallFails \/ ReplyLost \/ Crash \/ SyncCR \/ SyncConfigMaps
  \/ \E c \in Configs, o \in Others : EditCR(c, o)
  \/ \E n \in Reports \cup {None} : PodsChange(n)

Spec == Init /\ [][Next]_vars

\* Every path of Reconcile is followed by another one, after an error or after
\* schedDuration; the caches follow the API server.
Fairness == WF_vars(Work) /\ WF_vars(SyncCR) /\ WF_vars(SyncConfigMaps)

FairSpec == Spec /\ Fairness

----------------------------------------------------------------------------
(* Properties *)

\* The Deployment never mounts a ConfigMap that nobody has created: the manifests
\* are applied only behind the Create, or with a name the status learnt from an
\* earlier pass, also when passes fail half-way and the cached CR is old.
MountsWhatWasCreated == dep # None => dep.configMap \in created

\* No call failed, each change was installed before the next was made, and no pod
\* came or went between the submission of a configuration and its rendering.
Undisturbed == faults = 0 /\ raced = {}

\* The Deployment mounts only what was created; and when nothing disturbs the
\* changes what it mounts exists, except between the deletion of the old ConfigMap
\* and the rendering right behind it: no pass on an old copy of the CR brings a
\* deleted one back or takes a mounted one away.
MountedExists ==
  /\ MountsWhatWasCreated
  /\ (Undisturbed /\ dep # None /\ pc # "apply") => dep.configMap \in cms

\* Under the same conditions no ConfigMap of an earlier configuration is left
\* over once the last one is installed.
OneConfigMapAtRest ==
  (Undisturbed /\ Installed) => cms = {configMapName(Latest)}

\* The Deployment has the last spec, and the ConfigMap it mounts exists.
IsConfigured ==
  /\ dep = [configMap |-> configMapName(Latest), other |-> Latest.other]
  /\ configMapName(Latest) \in cms

\* The status names the ConfigMap, so that passes do not try to create it again, and
\* repeats what the Deployment reports.
IsReported ==
  Latest.status = configMapName(Latest) /\ report \in {None, Latest.report}

\* No call failed, and users waited for each change; pods may do what they like.
Awaited == faults = 0 /\ "users" \notin raced

\* The last change is installed in the end, whatever the pods do, and reported, if
\* no pod came or went at the wrong time: creating the new ConfigMap, deleting the
\* old and updating the status for two reasons do not block each other.
ConfiguredUndisturbed ==
  <>[]((Awaited => IsConfigured) /\ (Undisturbed => IsReported))

\* docs/examples/event-exporter.md: "the EventExporter controller creates a
\* configMap for all config values and attach the configMap to the event
\* exporter container".
Configured == <>[]IsConfigured
============================================================================
