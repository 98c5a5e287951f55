------------------------------ MODULE Injector ------------------------------
(***************************************************************************)
(* The admission webhook that injects the Java agent into pods             *)
(* (pkg/operator/injector): it is called for every create and every update *)
(* of a pod of an enabled namespace, works through a chain of steps, each  *)
(* of which may end it, and answers with the pod that is to be stored.     *)
(*                                                                         *)
(* The webhook keeps no state; what it knows of earlier calls is what the  *)
(* pod carries.  Around it the API server stores pods, of which an update  *)
(* may not change the spec, and users change annotations, labels and       *)
(* SwAgents.  The list of SwAgents comes from a cache in no fixed order,   *)
(* so that "the last one that matches" is any one that matches.            *)
(*                                                                         *)
(* Annotations are a function on the keys that are present.  Of a value    *)
(* counts whether it is empty and whether the validator accepts it.        *)
(***************************************************************************)
EXTENDS Naturals, Sequences

CONSTANTS
  Pods,          \* names of pods
  SwAgents,      \* names of SwAgents
  SwSpecs,       \* what a SwAgent may be
  Requests,      \* Requests[p]: the pods that are submitted under the name p
  Relabels,      \* labels and annotations that pods are updated with
  NumContainers, \* the containers of a pod, in order
  Matches,       \* Matches[e]: the containers the regular expression e matches
  Fold,          \* Fold[n]: the name n with its case folded, if that is another
  None,          \* no pod, no SwAgent, no owner
  MaxEdits,      \* bound: steps taken by users
  MaxFaults      \* bound: failed calls and crashes

Containers == 1 .. NumContainers

Resources   == {"initcontainer.resources.limits",
                "initcontainer.resources.requests"}
Commands    == {"initcontainer.Command", "initcontainer.args.Option",
                "initcontainer.args.Command"}
SwFields    == {"initcontainer.Name", "initcontainer.Image",
                "sidecarVolume.Name"}
SidecarKeys == Resources \cup Commands \cup SwFields
                 \cup {"sidecarVolumeMount.MountPath", "env.Name", "env.Value"}
AgentKeys   == {"agent.service_name", "collector.backend_service",
                "logging.level"}
PluginKeys  == {"plugin.mount"}
OptionKeys  == {"optional", "optional-reporter", "bootstrap"}
StrategyKey == "inject.Container"

\* An empty value, one the validators refuse, the default of annotations.yaml.
Empty   == ""
Bad     == "bad"
DefaultValue == "default"

\* x is a sequence, whatever its elements.
IsList(x) == x \in Seq({x[i] : i \in DOMAIN x})

ASSUME InjectorAssumption ==
  /\ NumContainers \in Nat /\ MaxEdits \in Nat /\ MaxFaults \in Nat
  /\ \A e \in DOMAIN Matches : Matches[e] \subseteq Containers
  /\ \A s \in SwSpecs : /\ DOMAIN s.fields = SwFields \cup Commands
                        /\ DOMAIN s.plugins = OptionKeys
                        /\ IsList(s.env)
  /\ \A p \in Pods : \A r \in Requests[p] : /\ IsList(r.env)
                                           /\ r.succeed \in BOOLEAN
  /\ \A r \in Relabels : r.succeed \in BOOLEAN

VARIABLES
  pods,      \* pods[p]: the stored pod, or None
  swagents,  \* swagents[a]: the stored SwAgent, or None
  edits, faults

injectorVars == <<pods, swagents, edits, faults>>

Get(f, k, otherwise) == IF k \in DOMAIN f THEN f[k] ELSE otherwise

PodsTypeOK ==
  /\ DOMAIN pods = Pods
  /\ \A p \in Pods : pods[p] # None =>
       /\ pods[p].succeed \in BOOLEAN /\ pods[p].meddled \in BOOLEAN
       /\ pods[p].error \in BOOLEAN
       /\ pods[p].label \in BOOLEAN /\ pods[p].deleting \in BOOLEAN
  /\ swagents \in [SwAgents -> SwSpecs \cup {None}]
  /\ edits \in 0 .. MaxEdits /\ faults \in 0 .. MaxFaults

----------------------------------------------------------------------------
(* The chain of Handle, as a function of the pod and the SwAgent *)

\* Mutant: a pod that has been injected is injected again.
GetInjectStrategy_Again(pod) == pod.label

\* GetInjectStrategy: is the agent to be injected?
GetInjectStrategy(pod) == pod.label /\ ~pod.succeed

\* FindValidateFunc and the validators: is v an acceptable value of key k?
Validate(k, v) ==
  CASE k = "agent.service_name" -> v # Empty
    [] k \in Resources \cup {"collector.backend_service"} -> v \notin {Empty, Bad}
    [] OTHER -> TRUE

\* OverlaySwAgentCR: what the SwAgent sets; the mount path is fixed.
OverlaySwAgentCR(sw) ==
  [k \in SidecarKeys |->
     IF sw = None THEN Empty
     ELSE IF k = "sidecarVolumeMount.MountPath" THEN DefaultValue
     ELSE Get(sw.fields, k, Empty)]

\* The containers to inject into: OverlaySwAgentCR replaces what the annotation
\* has said.
InjectContainer(pod, sw) ==
  IF sw = None THEN Get(pod.anno, StrategyKey, Empty) ELSE sw.matcher

\* OverlaySidecar and setValue: annotation, SwAgent, default, in this order, but
\* command and arguments are emptied first.
OverlaySidecar(pod, sw) ==
  [k \in SidecarKeys |->
     LET config == IF k \in Commands THEN Empty ELSE OverlaySwAgentCR(sw)[k]
         v == Get(pod.anno, k, Empty)
     IN  IF v # Empty THEN v ELSE IF config # Empty THEN config ELSE DefaultValue]

\* OverlaySidecar or OverlayAgent meets a value its validator refuses.
OverlayFails(pod) ==
  \E k \in DOMAIN pod.anno \cap (SidecarKeys \cup AgentKeys) :
    ~Validate(k, pod.anno[k])

\* OverlayAgent and OverlayPlugins: the options of the agent, in any order.
JvmAgentConfig(pod) ==
  {<<k, pod.anno[k]>> : k \in DOMAIN pod.anno \cap (AgentKeys \cup PluginKeys)}

\* OverlayOptional: the plugins the init container copies.
OverlayOptional(pod, sw) ==
  [k \in OptionKeys |->
     Get(pod.anno, k, IF sw = None THEN Empty ELSE sw.plugins[k])]

\* findInjectContainer: all, those that match, or, if the expression is none,
\* the first.
findInjectContainer(e) ==
  CASE e = Empty -> Containers
    [] e = Bad   -> Containers \cap {1}
    [] OTHER     -> Matches[e]

\* Mutant: the SwAgent's variables are appended whatever the container has.
AddEnvs_All(own, env, envs) == own \o << env >> \o envs

\* strings.EqualFold: names that differ at most in the case of their letters.
SameName(m, n) == Get(Fold, m, m) = Get(Fold, n, n)

\* Inject: the agent's variable, then, one after the other, those of the SwAgent
\* that neither the container had nor the agent brings.
AddEnvs(own, env, envs) ==
  LET has == own \o << env >>
      exists(v) == \E i \in 1 .. Len(has) : SameName(has[i].name, v.name)
      added[n \in 0 .. Len(envs)] ==
        IF n = 0 THEN has
        ELSE IF exists(envs[n]) THEN added[n - 1]
        ELSE Append(added[n - 1], envs[n])
  IN  added[Len(envs)]

\* Mutant: the mount keeps the name OverlaySwAgentCR has given it.
VolumeMountName_Kept(pod, sw) ==
  IF sw = None THEN OverlaySidecar(pod, sw)["sidecarVolume.Name"]
               ELSE sw.fields["sidecarVolume.Name"]

\* OverlaySidecar: the mount of the targets follows the volume's final name.
VolumeMountName(pod, sw) == OverlaySidecar(pod, sw)["sidecarVolume.Name"]

\* Inject: init container, volume, and mount and environment of the targets.
Inject(pod, sw) ==
  LET overlay == OverlaySidecar(pod, sw)
      volume  == overlay["sidecarVolume.Name"]
      env     == [name |-> overlay["env.Name"],
                  value |-> <<overlay["env.Value"], JvmAgentConfig(pod)>>]
      envs    == IF sw = None THEN << >> ELSE sw.env
      targets == findInjectContainer(InjectContainer(pod, sw))
  IN [init |-> Append(pod.spec.init,
                      [overlay |-> overlay, volume |-> volume,
                       plugins |-> OverlayOptional(pod, sw)]),
      volumes |-> Append(pod.spec.volumes, volume),
      mounts |-> [c \in Containers |->
                    IF c \in targets
                      THEN Append(pod.spec.mounts[c], VolumeMountName(pod, sw))
                      ELSE pod.spec.mounts[c]],
      env |-> [c \in Containers |->
                 IF c \in targets THEN AddEnvs(pod.spec.env[c], env, envs)
                                  ELSE pod.spec.env[c]]]

\* Handle: unchanged; or with an error annotation; or injected, with the
\* annotation that says so.  An error annotation is never taken away.
Handle(pod, sw) ==
  IF ~GetInjectStrategy(pod) THEN pod
  ELSE IF OverlayFails(pod) THEN [pod EXCEPT !.error = TRUE]
  ELSE [pod EXCEPT !.spec = Inject(pod, sw), !.succeed = TRUE]

----------------------------------------------------------------------------
(* Admission of pods *)

\* findMatchedSwAgentL, and the last of the list.
LastMatched(pod) ==
  LET matched == {a \in SwAgents : /\ swagents[a] # None
                                   /\ swagents[a].selector \in {Empty, pod.group}}
  IN  IF matched = {} THEN {None} ELSE {swagents[a] : a \in matched}

\* The SwAgent that is used: a List that fails is logged and counts as empty.
Lists(pod, sw) ==
  \/ sw \in LastMatched(pod) /\ UNCHANGED faults
  \/ /\ sw = None /\ LastMatched(pod) # {None}
     /\ faults < MaxFaults /\ faults' = faults + 1

Edit == edits < MaxEdits /\ edits' = edits + 1

\* What is submitted may carry the annotation "succeed" already.
New(r) ==
  [label |-> r.label, group |-> r.group, owner |-> r.owner, anno |-> r.anno,
   own |-> r.env, succeed |-> r.succeed, meddled |-> r.succeed,
   error |-> FALSE, deleting |-> FALSE,
   spec |-> [init |-> << >>, volumes |-> << >>,
             mounts |-> [c \in Containers |-> << >>],
             env |-> [c \in Containers |-> r.env]]]

\* The API server admits a pod that does not exist.
Admit(p, pod) ==
  /\ Edit /\ pods[p] = None
  /\ \E sw \in SwSpecs \cup {None} :
       Lists(pod, sw) /\ pods' = [pods EXCEPT ![p] = Handle(pod, sw)]
  /\ UNCHANGED swagents

CreatePod(p, r) == Admit(p, New(r))

\* A pod is created from what is stored of another (kubectl debug --copy-to).
CopyPod(p, q) ==
  /\ pods[q] # None
  /\ Admit(p, [pods[q] EXCEPT !.owner = None, !.deleting = FALSE])

\* Label and annotations of a pod are updated, "succeed" among them: meddled is
\* auxiliary and says that it was not the webhook who wrote it last.  The API
\* server refuses an update that changes the spec.
UpdatePod(p, r) ==
  /\ Edit /\ pods[p] # None
  /\ LET pod == [pods[p] EXCEPT !.label = r.label, !.anno = r.anno,
                   !.succeed = r.succeed,
                   !.meddled = @ \/ r.succeed # pods[p].succeed] IN
     \E sw \in SwSpecs \cup {None} :
       /\ Lists(pod, sw)
       /\ Handle(pod, sw).spec = pods[p].spec
       /\ pods' = [pods EXCEPT ![p] = Handle(pod, sw)]
  /\ UNCHANGED swagents

\* A pod is asked to stop, and is gone once it has.
DeletePod(p) ==
  /\ Edit /\ pods[p] # None /\ ~pods[p].deleting
  /\ pods' = [pods EXCEPT ![p].deleting = TRUE]
  /\ UNCHANGED <<swagents, faults>>

RemovePod(p) ==
  /\ pods[p] # None /\ pods[p].deleting
  /\ pods' = [pods EXCEPT ![p] = None]
  /\ UNCHANGED <<swagents, edits, faults>>

ChangeSwAgent(a, s) ==
  /\ Edit /\ s # swagents[a]
  /\ swagents' = [swagents EXCEPT ![a] = s]
  /\ UNCHANGED <<pods, faults>>

InjectorInit ==
  /\ pods = [p \in Pods |-> None]
  /\ swagents \in [SwAgents -> SwSpecs \cup {None}]
  /\ edits = 0 /\ faults = 0

InjectorNext ==
  \/ \E p \in Pods : \/ DeletePod(p) \/ RemovePod(p)
                     \/ \E r \in Requests[p] : CreatePod(p, r)
                     \/ \E r \in Relabels : UpdatePod(p, r)
                     \/ \E q \in Pods : CopyPod(p, q)
  \/ \E a \in SwAgents, s \in SwSpecs \cup {None} : ChangeSwAgent(a, s)

----------------------------------------------------------------------------
(* Properties *)

\* The agent is in the pod once and completely: the volume that is there is the
\* one the init container fills, and a container mounts it, or has neither a mount
\* nor another environment than its own.
Complete(spec, own) ==
  /\ Len(spec.init) = 1
  /\ spec.volumes = << spec.init[1].volume >>
  /\ \A c \in Containers : \/ spec.mounts[c] = spec.volumes
                           \/ spec.mounts[c] = << >> /\ spec.env[c] = own

\* Nothing of the agent is in the pod.
Untouched(pod) ==
  /\ pod.spec.init = << >> /\ pod.spec.volumes = << >>
  /\ \A c \in Containers : /\ pod.spec.mounts[c] = << >>
                           /\ pod.spec.env[c] = pod.own

\* A stored pod has all of the agent, once, or nothing of it: after any number of
\* updates, copies and changes of the SwAgents, although the chain may end at any
\* step, the volume's name comes from an annotation, a SwAgent or the default, and
\* users put the annotation "succeed" on pods and take it off.  As long as they
\* leave it alone, it says which.
AllOrNothing ==
  \A p \in Pods : pods[p] # None =>
    LET pod == pods[p] IN
    /\ Complete(pod.spec, pod.own) \/ Untouched(pod)
    /\ ~pod.meddled => IF pod.succeed THEN Complete(pod.spec, pod.own) ELSE Untouched(pod)

\* The value a container sees of a variable: the last one in the list.
Effective(env, name) ==
  LET at == {i \in 1 .. Len(env) : env[i].name = name}
      last == CHOOSE i \in at : \A j \in at : j <= i
  IN  env[last].value

\* A variable that the user has set in a container, once or again and again, keeps
\* the value it had, whatever a SwAgent says, except the one that loads the agent.
UserEnvKept ==
  \A p \in Pods : pods[p] # None =>
    \A c \in Containers, i \in 1 .. Len(pods[p].own) :
      LET v == pods[p].own[i] IN
      \/ Effective(pods[p].spec.env[c], v.name) = Effective(pods[p].own, v.name)
      \/ \E k \in 1 .. Len(pods[p].spec.init) :
           v.name = pods[p].spec.init[k].overlay["env.Name"]

\* What is stored has nothing more to expect of the webhook: a pod that is sent
\* back as it is (the API server calls the webhook for every update, those of
\* controllers too) is not changed, so that its spec is not and the update is
\* accepted, whatever has become of the SwAgents, and whoever wrote or removed the
\* annotations the chain decides by.
NothingLeftToInject ==
  \A p \in Pods : pods[p] # None =>
    \A sw \in SwSpecs \cup {None} : Handle(pods[p], sw) = pods[p]
=============================================================================
