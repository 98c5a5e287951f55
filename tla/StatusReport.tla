---------------------------- MODULE StatusReport ----------------------------
(***************************************************************************)
(* checkState and updateStatus of the OAPServer, UI, Satellite and BanyanDB *)
(* reconcilers: after the manifests are applied, the status of the         *)
(* Deployment and the Service is read, compared with the status of the CR, *)
(* and written into the CR when it is not there yet.                       *)
(*                                                                         *)
(* All reads come from the informer cache.  The histories of the CR and of *)
(* the Deployment are sequences, of which the cache has reached a position. *)
(* A status update names the resourceVersion of the copy it is made from   *)
(* and is refused unless that copy is the last version.  Applying the      *)
(* manifests is module Application; here it only takes part by failing.    *)
(***************************************************************************)
EXTENDS Naturals, Sequences, SequencesExt

CONSTANTS
  Kinds,       \* which of the reconcilers below are checked
  Conds,       \* the conditions a Deployment may report
  MaxReplicas, \* bound: available replicas
  IPs,         \* the external IPs a Service may have
  MaxEdits,    \* bound: changes of the CR, the Deployment and the Service
  MaxFaults    \* bound: failed calls, lost replies and crashes

ASSUME ConstantsAssumption ==
  /\ MaxReplicas \in Nat
  /\ MaxEdits \in Nat /\ MaxFaults \in Nat

CondLists == SeqOf(Conds, 2)
IPLists   == SeqOf(IPs, 2)

\* What a Deployment and a Service report.  Both exist, or are the zero value
\* that a Get leaves behind which finds nothing.
Deployments == [exists : BOOLEAN, avail : 0 .. MaxReplicas, conds : CondLists]
Services    == [exists : BOOLEAN, ips : IPLists]
NoDeployment == [exists |-> FALSE, avail |-> 0, conds |-> << >>]
NoService    == [exists |-> FALSE, ips |-> << >>]

\* The status of a CR.  An address of an absent Service is ".", not empty.  The
\* ports of a UI are left out: like the address they are one value for a Service
\* and another, not empty, for none.
Statuses == [avail : 0 .. MaxReplicas, conds : CondLists,
             address : {"", ".", "name.namespace"}, ips : IPLists]
Empty    == [avail |-> 0, conds |-> << >>, address |-> "", ips |-> << >>]

VARIABLES
  kind,                \* the reconciler
  log, cache,          \* the statuses of the CR's versions; the cache's position
  dep, depCache,       \* the Deployment's history; the cache's position
  svc, svcCache,       \* the Service, and the cached one
  pc, seen, base,      \* the worker: the status it read, the copy it writes back,
  overlay,             \* the status it has gathered
  edits, faults

worker == <<pc, seen, base, overlay>>
world  == <<log, dep, svc>>
caches == <<cache, depCache, svcCache>>
vars   == <<kind, world, caches, worker, edits, faults>>

TypeOK ==
  /\ kind \in Kinds
  /\ log \in Seq(Statuses) /\ cache \in 1 .. Len(log)
  /\ dep \in Seq(Deployments) /\ depCache \in 1 .. Len(dep)
  /\ svc \in Services /\ svcCache \in Services
  /\ pc \in {"idle", "deployment", "service", "compare", "refresh", "update"}
  /\ seen \in Statuses /\ overlay \in Statuses
  /\ base \in 0 .. Len(log)
  /\ edits \in 0 .. MaxEdits /\ faults \in 0 .. MaxFaults

----------------------------------------------------------------------------
(* The reconcilers: is a missing object an error, is there a Service, are its *)
(* external IPs reported                                                      *)

OAPServer == [notFoundIsError |-> FALSE, service |-> TRUE,  external |-> FALSE]
UI        == [notFoundIsError |-> FALSE, service |-> TRUE,  external |-> TRUE]
Satellite == [notFoundIsError |-> TRUE,  service |-> TRUE,  external |-> FALSE]
BanyanDB  == [notFoundIsError |-> FALSE, service |-> FALSE, external |-> FALSE]

\* What a Get of the Deployment and of the Service adds to the overlay.
withDeployment(k, d, o) ==
  IF k.notFoundIsError /\ ~d.exists
    THEN o ELSE [o EXCEPT !.avail = d.avail, !.conds = d.conds]

withService(k, s, o) ==
  IF k.notFoundIsError /\ ~s.exists
    THEN o ELSE [o EXCEPT !.address = IF s.exists THEN "name.namespace" ELSE ".",
                          !.ips = IF k.external THEN s.ips ELSE << >>]

\* apiequal.Semantic.DeepDerivative: a field of o that has the zero value is not
\* compared, and a list only as far as o's goes.
DeepDerivative(o, status) ==
  /\ o.avail \in {0, status.avail}
  /\ IsPrefix(o.conds, status.conds)
  /\ o.address \in {"", status.address}
  /\ IsPrefix(o.ips, status.ips)

----------------------------------------------------------------------------
(* The worker *)

Fault == faults < MaxFaults /\ faults' = faults + 1

Return ==
  pc' = "idle" /\ seen' = Empty /\ base' = 0 /\ overlay' = Empty

\* Reconcile: Get the CR.  ApplyAll succeeds.
StartReconcile ==
  /\ pc = "idle"
  /\ pc' = "deployment" /\ seen' = log[cache] /\ base' = cache
  /\ UNCHANGED <<kind, world, caches, overlay, edits, faults>>

\* checkState: Get the Deployment.  An error is collected and the reconcile goes
\* on with what it has; it then ends in an error, and is queued again sooner.
GetDeployment ==
  /\ pc = "deployment"
  /\ \/ /\ overlay' = withDeployment(kind, dep[depCache], overlay)
        /\ UNCHANGED faults
     \/ Fault /\ UNCHANGED overlay
  /\ pc' = IF kind.service THEN "service" ELSE "compare"
  /\ UNCHANGED <<kind, world, caches, seen, base, edits>>

\* checkState: Get the Service, in the same way.
GetService ==
  /\ pc = "service"
  /\ \/ /\ overlay' = withService(kind, svcCache, overlay)
        /\ UNCHANGED faults
     \/ Fault /\ UNCHANGED overlay
  /\ pc' = "compare"
  /\ UNCHANGED <<kind, world, caches, seen, base, edits>>

\* Mutant: the arguments of DeepDerivative are swapped.
Compare_Swapped ==
  /\ pc = "compare"
  /\ IF DeepDerivative(seen, overlay)
       THEN Return
       ELSE pc' = "refresh" /\ UNCHANGED <<seen, base, overlay>>
  /\ UNCHANGED <<kind, world, caches, edits, faults>>

\* Mutant: the status is compared with the empty one.
Compare_Always ==
  /\ pc = "compare"
  /\ IF overlay = Empty
       THEN Return
       ELSE pc' = "refresh" /\ UNCHANGED <<seen, base, overlay>>
  /\ UNCHANGED <<kind, world, caches, edits, faults>>

\* checkState: nothing to write when the status read has it all already.
Compare ==
  /\ pc = "compare"
  /\ IF DeepDerivative(overlay, seen)
       THEN Return
       ELSE pc' = "refresh" /\ UNCHANGED <<seen, base, overlay>>
  /\ UNCHANGED <<kind, world, caches, edits, faults>>

\* updateStatus: Get the CR again.  When that fails the copy read first is used.
RefreshCR ==
  /\ pc = "refresh"
  /\ \/ base' = cache /\ UNCHANGED faults
     \/ Fault /\ UNCHANGED base
  /\ pc' = "update"
  /\ UNCHANGED <<kind, world, caches, seen, overlay, edits>>

\* The API server stores a status; one that changes nothing makes no version.
StoreStatus(status) ==
  /\ base = Len(log)
  /\ log' = IF status = log[base] THEN log ELSE Append(log, status)

\* Mutant: the overlay is merged into the old status and does not replace it.
UpdateStatus_Merged ==
  /\ pc = "update"
  /\ \/ StoreStatus([overlay EXCEPT
          !.avail = IF @ = 0 THEN log[base].avail ELSE @,
          !.conds = IF @ = << >> THEN log[base].conds ELSE @])
     \/ base # Len(log) /\ UNCHANGED log
  /\ Return
  /\ UNCHANGED <<kind, dep, svc, caches, edits, faults>>

\* updateStatus: the status is replaced by the overlay and sent.  A conflict goes
\* into the collected error, which RetryOnConflict does not take for a conflict:
\* there is no second attempt before the next reconcile.
UpdateStatus ==
  /\ pc = "update"
  /\ \/ StoreStatus(overlay)
     \/ base # Len(log) /\ UNCHANGED log
  /\ Return
  /\ UNCHANGED <<kind, dep, svc, caches, edits, faults>>

\* ApplyAll or the status update fails: an error, the request is queued again.
CallFails ==
  /\ pc \in {"deployment", "update"} /\ Fault
  /\ Return
  /\ UNCHANGED <<kind, world, caches, edits>>

\* The status is stored and the answer is lost.
ReplyLost ==
  /\ pc = "update" /\ Fault
  /\ StoreStatus(overlay) /\ Return
  /\ UNCHANGED <<kind, dep, svc, caches, edits>>

Crash ==
  /\ Fault /\ Return
  /\ cache' = Len(log) /\ depCache' = Len(dep) /\ svcCache' = svc
  /\ UNCHANGED <<kind, world, edits>>

----------------------------------------------------------------------------
(* The informer caches, and the cluster *)

SyncCR ==
  /\ \E p \in cache + 1 .. Len(log) : cache' = p
  /\ UNCHANGED <<kind, world, depCache, svcCache, worker, edits, faults>>

SyncDeployment ==
  /\ \E p \in depCache + 1 .. Len(dep) : depCache' = p
  /\ UNCHANGED <<kind, world, cache, svcCache, worker, edits, faults>>

SyncService ==
  /\ svcCache # svc /\ svcCache' = svc
  /\ UNCHANGED <<kind, world, cache, depCache, worker, edits, faults>>

Edit == edits < MaxEdits /\ edits' = edits + 1

\* A user changes the spec: a new version with the same status.
EditCR ==
  /\ Edit /\ log' = Append(log, Last(log))
  /\ UNCHANGED <<kind, dep, svc, caches, worker, faults>>

\* The Deployment comes, goes, is scaled, or its pods come up or fail.
DeploymentChanges(d) ==
  /\ Edit /\ d # Last(dep)
  /\ d.exists \/ d = NoDeployment
  /\ dep' = Append(dep, d)
  /\ UNCHANGED <<kind, log, svc, caches, worker, faults>>

ServiceChanges(s) ==
  /\ Edit /\ s # svc
  /\ s.exists \/ s = NoService
  /\ svc' = s
  /\ UNCHANGED <<kind, log, dep, caches, worker, faults>>

----------------------------------------------------------------------------
Init ==
  /\ kind \in Kinds
  /\ log = << Empty >> /\ cache = 1
  /\ dep = << NoDeployment >> /\ depCache = 1
  /\ svc = NoService /\ svcCache = NoService
  /\ pc = "idle" /\ seen = Empty /\ base = 0 /\ overlay = Empty
  /\ edits = 0 /\ faults = 0

Work ==
  StartReconcile \/ GetDeployment \/ GetService \/ Compare \/ RefreshCR
    \/ UpdateStatus

Next ==
  \/ Work \/ CallFails \/ ReplyLost \/ Crash
  \/ SyncCR \/ SyncDeployment \/ SyncService \/ EditCR
  \/ \E d \in Deployments : DeploymentChanges(d)
  \/ \E s \in Services : ServiceChanges(s)

Spec == Init /\ [][Next]_vars

\* Every reconcile is followed by another, after an error or after schedDuration;
\* the caches follow the API server.
Fairness ==
  WF_vars(Work) /\ WF_vars(SyncCR) /\ WF_vars(SyncDeployment)
    /\ WF_vars(SyncService)

FairSpec == Spec /\ Fairness

----------------------------------------------------------------------------
(* Properties *)

\* The replicas and conditions in a stored status were reported together by the
\* Deployment at some time (an absent one, or one that could not be read, reports
\* none): no status mixes two observations, whatever was read late, failed or
\* was written over an older status.
NeverMixed ==
  \A p \in 1 .. Len(log) :
    \/ log[p].avail = 0 /\ log[p].conds = << >>
    \/ \E q \in 1 .. Len(dep) : /\ log[p].avail = dep[q].avail
                                /\ log[p].conds = dep[q].conds

\* What checkState would gather if it read the cluster now.
Actual == LET o == withDeployment(kind, Last(dep), Empty)
          IN  IF kind.service THEN withService(kind, svc, o) ELSE o

\* Once the cluster and the faults stop, the status says everything the Deployment
\* and the Service report that is not zero: conflicts that are never retried,
\* collected errors and partly read overlays are made good by later reconciles.
Reported == <>[]DeepDerivative(Actual, Last(log))

\* Reconciles come to rest: from some time on none of them writes a status.
Quiet == <>[](pc # "update")
=============================================================================
