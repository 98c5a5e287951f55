----------------------------- MODULE JavaAgent -----------------------------
(***************************************************************************)
(* The JavaAgent reconciler, composed with the injector whose work it      *)
(* counts.  It is set off by pods that carry the annotation "succeed",     *)
(* makes one JavaAgent for all the pods with the same first label (a       *)
(* group), owned by the workload of the pod it was made for, and writes    *)
(* into its status how many pods of the group ask for the agent and how    *)
(* many have it.                                                           *)
(*                                                                         *)
(* Pods and JavaAgents are read from caches that lag; apply() reads the    *)
(* JavaAgent from the API server.  A version of a JavaAgent is only ever   *)
(* compared with the current one, so a cached copy is fresh or it is not;  *)
(* the time in the status makes every write a new version.                 *)
(***************************************************************************)
EXTENDS Injector, FiniteSets

CONSTANTS
  Groups,  \* the labels by which pods are counted together
  Owners   \* workloads (ReplicaSets and the like), each created once

\* There are finitely many pods; a pod may belong to a workload.
ASSUME JavaAgentAssumption ==
  /\ IsFiniteSet(Pods)
  /\ \A p \in Pods : \A r \in Requests[p] : /\ r.label \in BOOLEAN
                                           /\ r.owner \in Owners \cup {None}
  /\ \A r \in Relabels : r.label \in BOOLEAN

VARIABLES
  agent,      \* agent[g]: the JavaAgent of group g, or None
  gone,       \* the workloads that have been deleted
  podCache,   \* the cached pods
  agentCache, agentFresh,  \* is a JavaAgent cached; is the copy current?
  queue,      \* pods waiting in the controller's work queue
  pc, req, overlay, listed \* the worker: the pod, the counters, was List good?

caches == <<podCache, agentCache, agentFresh>>
worker == <<pc, req, overlay, listed>>
agentVars == <<agent, gone, caches, queue, worker>>
vars == <<injectorVars, agentVars>>

Counters == [expected : 0 .. Cardinality(Pods), real : 0 .. Cardinality(Pods)]
NoCounters == [expected |-> 0, real |-> 0]

TypeOK ==
  /\ PodsTypeOK
  /\ agent \in [Groups -> [owner : Owners, status : Counters] \cup {None}]
  /\ gone \subseteq Owners
  /\ DOMAIN podCache = Pods
  /\ agentCache \in [Groups -> BOOLEAN] /\ agentFresh \in [Groups -> BOOLEAN]
  /\ queue \subseteq Pods
  /\ pc \in {"idle", "apply", "create", "count", "write"}
  /\ req \in [pod : Pods, group : Groups, owner : Owners] \cup {None}
  /\ overlay \in Counters /\ listed \in BOOLEAN

----------------------------------------------------------------------------
(* The event filter and the caches *)

\* What the reconciler reads of a pod.
View(pod) ==
  IF pod = None THEN None
  ELSE [label |-> pod.label, succeed |-> pod.succeed, group |-> pod.group,
        owner |-> pod.owner, deleting |-> pod.deleting]

\* Mutant: an update counts only when it brings the annotation.
Passes_Edge(old, new) ==
  /\ new # None /\ new.succeed
  /\ old = None \/ (~old.succeed /\ ~new.deleting)

\* CreateFunc, UpdateFunc and DeleteFunc of SetupWithManager: does the step of the
\* cache from pod old to pod new call the reconciler?
Passes(old, new) ==
  /\ new # None /\ new.succeed
  /\ old # None => ~new.deleting

SyncPod(p) ==
  /\ podCache[p] # View(pods[p])
  /\ podCache' = [podCache EXCEPT ![p] = View(pods[p])]
  /\ queue' = IF Passes(podCache[p], View(pods[p])) THEN queue \cup {p} ELSE queue
  /\ UNCHANGED <<injectorVars, agent, gone, agentCache, agentFresh, worker>>

\* The informer reports every cached pod again as updated (SyncPeriod).
Resync(p) ==
  /\ podCache[p] # None /\ p \notin queue
  /\ Passes(podCache[p], podCache[p])
  /\ queue' = queue \cup {p}
  /\ UNCHANGED <<injectorVars, agent, gone, caches, worker>>

SyncAgent(g) ==
  /\ ~agentFresh[g]
  /\ agentCache' = [agentCache EXCEPT ![g] = agent[g] # None]
  /\ agentFresh' = [agentFresh EXCEPT ![g] = TRUE]
  /\ UNCHANGED <<injectorVars, agent, gone, podCache, queue, worker>>

\* The API server stores a, or nothing, for group g.
StoreAgent(g, a) ==
  /\ agent' = [agent EXCEPT ![g] = a]
  /\ agentFresh' = [agentFresh EXCEPT ![g] = FALSE]
  /\ UNCHANGED <<podCache, agentCache>>

----------------------------------------------------------------------------
(* The worker *)

Fault  == faults < MaxFaults /\ faults' = faults + 1 /\ UNCHANGED
            <<pods, swagents, edits>>
Return == pc' = "idle" /\ req' = None /\ overlay' = NoCounters /\ listed' = TRUE
Retry  == Return /\ queue' = queue \cup {req.pod}

\* Reconcile: Get the pod; a pod without workload or without a label to count it
\* by is passed over.  For a pod that is gone the NotFound is returned as an
\* error: the request stays in the queue.
StartReconcile(p) ==
  /\ pc = "idle" /\ p \in queue /\ podCache[p] # None
  /\ queue' = queue \ {p}
  /\ IF podCache[p].owner = None \/ podCache[p].group \notin Groups
       THEN UNCHANGED worker
       ELSE /\ pc' = "apply"
            /\ req' = [pod |-> p, group |-> podCache[p].group,
                       owner |-> podCache[p].owner]
            /\ UNCHANGED <<overlay, listed>>
  /\ UNCHANGED <<injectorVars, agent, gone, caches>>

\* apply without compose: Get the JavaAgent.  Neither it nor the rendering has a
\* version annotation, so one that exists is kept as it is.
ApplyGet ==
  /\ pc = "apply"
  /\ pc' = IF agent[req.group] = None THEN "create" ELSE "count"
  /\ UNCHANGED <<injectorVars, agent, gone, caches, queue, req, overlay, listed>>

\* apply: Create.
ApplyCreate ==
  /\ pc = "create"
  /\ IF agent[req.group] = None
       THEN /\ StoreAgent(req.group, [owner |-> req.owner, status |-> NoCounters])
            /\ pc' = "count" /\ UNCHANGED <<queue, req, overlay, listed>>
       ELSE Retry /\ UNCHANGED <<agent, caches>>
  /\ UNCHANGED <<injectorVars, gone>>

\* UpdateStatus: the pods of the group that are labelled, and those annotated.
Count(from, g) ==
  LET members == {p \in Pods : from[p] # None /\ from[p].group = g}
  IN  [expected |-> Cardinality({p \in members : from[p].label}),
       real |-> Cardinality({p \in members : from[p].succeed})]

\* UpdateStatus: Get the JavaAgent, which ends it if the cache has none yet, and
\* List the pods.  A List that fails is an error, but counts zero pods.
CountPods ==
  /\ pc = "count"
  /\ \/ /\ ~agentCache[req.group]
        /\ Return /\ UNCHANGED injectorVars
     \/ /\ agentCache[req.group]
        /\ overlay' = Count(podCache, req.group)
        /\ pc' = "write" /\ UNCHANGED <<injectorVars, req, listed>>
     \/ /\ agentCache[req.group]
        /\ Fault /\ listed' = FALSE
        /\ pc' = "write" /\ UNCHANGED <<req, overlay>>
  /\ UNCHANGED <<agent, gone, caches, queue>>

\* updateStatus: Get the JavaAgent again and Update its status.  A conflict is
\* not retried here, since the collected error is none; the reconcile fails.
WriteStatus ==
  /\ pc = "write"
  /\ IF agentFresh[req.group] /\ agent[req.group] # None
       THEN /\ StoreAgent(req.group, [agent[req.group] EXCEPT !.status = overlay])
            /\ IF listed THEN Return /\ UNCHANGED queue ELSE Retry
       ELSE Retry /\ UNCHANGED <<agent, caches>>
  /\ UNCHANGED <<injectorVars, gone>>

\* A call fails, or the JavaAgent is stored or its status written, and the answer
\* is lost.
CallFails ==
  /\ pc \in {"apply", "create", "write"}
  /\ Fault /\ Retry
  /\ \/ UNCHANGED <<agent, caches>>
     \/ /\ pc = "create" /\ agent[req.group] = None
        /\ StoreAgent(req.group, [owner |-> req.owner, status |-> NoCounters])
     \/ /\ pc = "write" /\ agentFresh[req.group] /\ agent[req.group] # None
        /\ StoreAgent(req.group, [agent[req.group] EXCEPT !.status = overlay])
  /\ UNCHANGED gone

\* The operator stops and starts again: the caches are listed afresh.
Crash ==
  /\ Fault /\ Return
  /\ podCache' = [p \in Pods |-> View(pods[p])]
  /\ agentCache' = [g \in Groups |-> agent[g] # None]
  /\ agentFresh' = [g \in Groups |-> TRUE]
  /\ queue' = {p \in Pods : Passes(None, View(pods[p]))}
  /\ UNCHANGED <<agent, gone>>

----------------------------------------------------------------------------
(* Workloads *)

DeleteOwner(o) ==
  /\ Edit /\ o \notin gone
  /\ gone' = gone \cup {o}
  /\ UNCHANGED <<pods, swagents, faults, agent, caches, queue,
                 worker>>

\* The garbage collector removes what belonged to a deleted workload.
CollectPod(p) ==
  /\ pods[p] # None /\ pods[p].owner \in gone /\ ~pods[p].deleting
  /\ pods' = [pods EXCEPT ![p].deleting = TRUE]
  /\ UNCHANGED <<swagents, edits, faults, agentVars>>

CollectAgent(g) ==
  /\ agent[g] # None /\ agent[g].owner \in gone
  /\ StoreAgent(g, None)
  /\ UNCHANGED <<injectorVars, gone, queue, worker>>

\* A user deletes a JavaAgent.
DeleteAgent(g) ==
  /\ Edit /\ agent[g] # None
  /\ StoreAgent(g, None)
  /\ UNCHANGED <<pods, swagents, faults, gone, queue, worker>>

----------------------------------------------------------------------------
Init ==
  /\ InjectorInit
  /\ agent = [g \in Groups |-> None] /\ gone = {}
  /\ podCache = pods
  /\ agentCache = [g \in Groups |-> FALSE]
  /\ agentFresh = [g \in Groups |-> TRUE]
  /\ queue = {}
  /\ pc = "idle" /\ req = None /\ overlay = NoCounters /\ listed = TRUE

Work == ApplyGet \/ ApplyCreate \/ CountPods \/ WriteStatus

Next ==
  \/ InjectorNext /\ UNCHANGED agentVars
  \/ Work \/ CallFails \/ Crash
  \/ \E p \in Pods : SyncPod(p) \/ Resync(p) \/ StartReconcile(p) \/ CollectPod(p)
  \/ \E g \in Groups : SyncAgent(g) \/ CollectAgent(g) \/ DeleteAgent(g)
  \/ \E o \in Owners : DeleteOwner(o)

Spec == Init /\ [][Next]_vars

(***************************************************************************)
(* The worker goes on, the queue is first in, first out, caches follow,    *)
(* the informer reports every pod again each SyncPeriod; kubelet and       *)
(* garbage collector get round to what they are asked to remove.           *)
(***************************************************************************)
Fairness ==
  /\ WF_vars(Work)
  /\ \A p \in Pods : /\ SF_vars(StartReconcile(p))
                     /\ WF_vars(SyncPod(p)) /\ WF_vars(Resync(p))
                     /\ WF_vars(CollectPod(p))
                     /\ WF_vars(RemovePod(p) /\ UNCHANGED agentVars)
  /\ \A g \in Groups : WF_vars(SyncAgent(g)) /\ WF_vars(CollectAgent(g))

FairSpec == Spec /\ Fairness

----------------------------------------------------------------------------
(* Properties *)

\* An injected pod of a workload, by which the group's JavaAgent is kept up.
Keeps(p, g) ==
  /\ pods[p] # None /\ pods[p].succeed /\ ~pods[p].deleting
  /\ pods[p].group = g /\ pods[p].owner # None

\* Once users and faults stop, every group with an injected pod of a workload has
\* a JavaAgent, with the right numbers: although deletions do not set the
\* reconciler off, a JavaAgent goes away with the workload it was made for, one
\* that was just made is not counted for, and conflicts are not retried.
CountersConverge ==
  <>[](\A g \in Groups : (\E p \in Pods : Keeps(p, g)) =>
         agent[g] # None /\ agent[g].status = Count(pods, g))
=============================================================================
