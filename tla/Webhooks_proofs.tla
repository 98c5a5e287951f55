--------------------------- MODULE Webhooks_proofs ---------------------------
(***************************************************************************)
(* What the operator's webhooks let into the cluster.                      *)
(*                                                                         *)
(* The first part is about the pods, and is proved of the composition of   *)
(* injector and JavaAgent reconciler: for any set of pods, any containers, *)
(* any SwAgents and any annotations, and any number of steps.              *)
(* The heart is that the chain writes the agent into a pod that has        *)
(* nothing of it, completely (InjectCompletes), and into no other: what is *)
(* stored has been injected, or is not to be, or has an annotation that    *)
(* ends the chain (Settled), and an update that would change that changes  *)
(* the spec and is not accepted (InjectShows).                             *)
(* What becomes of a container's environment is what a loop makes of it,   *)
(* and is proved by induction on its turns (AddEnvsGrows).                 *)
(*                                                                         *)
(* The second part is about the custom resources: defaulting is shown to   *)
(* be idempotent, kind by kind, and that is what every stored object has   *)
(* of its past.                                                            *)
(***************************************************************************)
EXTENDS JavaAgent, Admission, SequenceTheorems, FiniteSetTheorems,
        WellFoundedInduction, TLAPS

PodFields == {"label", "group", "owner", "anno", "own", "succeed", "meddled",
              "error", "deleting", "spec"}

\* pod is a record with the fields of a pod.
IsPod(pod) == pod = [f \in PodFields |-> pod[f]]

\* e is own, followed by variables that are new, or have the name m.
Grown(e, own, m) ==
  /\ DOMAIN e = 1 .. Len(e) /\ Len(e) \in Nat /\ Len(e) >= Len(own)
  /\ \A i \in 1 .. Len(own) : e[i] = own[i]
  /\ \A i \in Len(own) + 1 .. Len(e) :
       e[i].name = m \/ \A j \in 1 .. Len(own) : own[j].name # e[i].name

\* A pod has the agent or not, and what the annotation "succeed" promises of it.
Promised(pod) ==
  /\ Complete(pod.spec, pod.own) \/ Untouched(pod)
  /\ ~pod.meddled => IF pod.succeed THEN Complete(pod.spec, pod.own) ELSE Untouched(pod)

\* The list of init containers has the agent's, or none.
Listed(pod) == pod.spec.init = << >> \/ pod.spec.init = << pod.spec.init[1] >>

\* The environment of a container has grown by nothing, or by an injection.
EnvGrown(pod) ==
  /\ IsList(pod.own)
  /\ \A c \in Containers :
       \/ pod.spec.env[c] = pod.own
       \/ /\ Len(pod.spec.init) = 1
          /\ Grown(pod.spec.env[c], pod.own, pod.spec.init[1].overlay["env.Name"])

Whole(pod) == IsPod(pod) /\ Promised(pod) /\ Listed(pod) /\ EnvGrown(pod)

\* The chain ends before the injection, and what it writes then is written.
Settled(pod) == GetInjectStrategy(pod) => OverlayFails(pod) /\ pod.error = TRUE

IndInv ==
  /\ DOMAIN pods = Pods
  /\ \A p \in Pods : pods[p] # None => Whole(pods[p]) /\ Settled(pods[p])

----------------------------------------------------------------------------
(* Numbers and loops *)

\* A set of numbers that is not empty has a least one.
LEMMA Least ==
  ASSUME NEW T, T \subseteq Nat, T # {}
  PROVE  \E m \in T : \A n \in T : m <= n
<1>1. \A n, m \in Nat : n < m => <<n, m>> \in OpToRel(<, Nat)
  BY DEF OpToRel
<1>2. \E m \in T : \A n \in T : ~(<<n, m>> \in OpToRel(<, Nat))
  BY NatLessThanWellFounded, WFMin
<1>3. PICK m \in T : \A n \in T : ~(<<n, m>> \in OpToRel(<, Nat))
  BY <1>2
<1>4. ASSUME NEW n \in T PROVE ~(n < m)
  <2>1. n \in Nat /\ m \in Nat
    OBVIOUS
  <2>2. ~(<<n, m>> \in OpToRel(<, Nat))
    BY <1>3
  <2> QED BY <1>1, <2>1, <2>2, Zenon
<1> QED BY <1>4

\* Induction, for a set instead of a predicate.
LEMMA Induction ==
  ASSUME NEW S, 0 \in S, \A n \in Nat : n \in S => n + 1 \in S
  PROVE  Nat \subseteq S
<1> SUFFICES ASSUME ~(Nat \subseteq S) PROVE FALSE
  OBVIOUS
<1>1. PICK m \in Nat \ S : \A n \in Nat \ S : m <= n
  BY Least
<1>2. m # 0 /\ m - 1 \in Nat
  BY <1>1
<1>3. m - 1 \in S
  BY <1>1, <1>2
<1> QED BY <1>1, <1>2, <1>3

\* f gives the value, in S, of a loop after each number of its N turns.
IsLoop(f, N, S, base, step) ==
  /\ f \in [0 .. N -> S] /\ f[0] = base
  /\ \A n \in 1 .. N : f[n] = step[<<f[n - 1], n>>]

\* A loop has a value after each number of its turns.
LEMMA LoopIsDefined ==
  ASSUME NEW N \in Nat, NEW S, NEW base \in S, NEW step \in [S \X (1 .. N) -> S]
  PROVE  \E f : IsLoop(f, N, S, base, step)
<1> DEFINE Run(m, f) ==
             f[0] = base /\ \A n \in 1 .. m : f[n] = step[<<f[n - 1], n>>]
           Turns == {m \in Nat : m <= N => \E f \in [0 .. m -> S] : Run(m, f)}
<1>1. 0 \in Turns
  <2> DEFINE f == [n \in 0 .. 0 |-> base]
  <2>1. f \in [0 .. 0 -> S] /\ Run(0, f)
    OBVIOUS
  <2> QED BY <2>1
<1>2. ASSUME NEW m \in Nat, m \in Turns PROVE m + 1 \in Turns
  <2> SUFFICES ASSUME m + 1 <= N
               PROVE  \E f \in [0 .. m + 1 -> S] : Run(m + 1, f)
    OBVIOUS
  <2>1. PICK g \in [0 .. m -> S] : Run(m, g)
    BY <1>2
  <2> DEFINE f == [n \in 0 .. m + 1 |->
                     IF n = m + 1 THEN step[<<g[m], m + 1>>] ELSE g[n]]
  <2>2. step[<<g[m], m + 1>>] \in S
    BY <2>1
  <2>3. f \in [0 .. m + 1 -> S]
    BY <2>1, <2>2
  <2>4. f[0] = base
    BY <2>1
  <2>5. ASSUME NEW n \in 1 .. m + 1 PROVE f[n] = step[<<f[n - 1], n>>]
    <3>1. n - 1 \in 0 .. m /\ n - 1 # m + 1 /\ f[n - 1] = g[n - 1]
      OBVIOUS
    <3>2. CASE n = m + 1
      <4>1. f[n] = step[<<g[m], m + 1>>] /\ n - 1 = m
        BY <3>2
      <4>2. f[n - 1] = g[m]
        BY <3>1, <4>1
      <4> HIDE DEF f
      <4> QED BY <3>2, <4>1, <4>2
    <3>3. CASE n # m + 1
      <4>1. n \in 1 .. m /\ f[n] = g[n]
        BY <3>3
      <4> QED BY <2>1, <3>1, <4>1
    <3> QED BY <3>2, <3>3
  <2> QED BY <2>3, <2>4, <2>5
<1>3. N \in Turns
  <2> HIDE DEF Turns
  <2> QED BY <1>1, <1>2, Induction
<1> QED BY <1>3 DEF IsLoop


----------------------------------------------------------------------------
(* The environment of a container *)

\* The loop of Inject leaves the variables a container had where they were, and
\* adds none of their names, except the one it is given for the agent.
LEMMA AddEnvsGrows ==
  ASSUME NEW V, NEW own \in Seq(V), NEW env \in V, NEW envs \in Seq(V)
  PROVE  Grown(AddEnvs(own, env, envs), own, env.name)
<1> DEFINE has == own \o << env >>
           exists(v) == \E i \in 1 .. Len(has) : SameName(has[i].name, v.name)
           Step(a, n) == IF exists(envs[n]) THEN a ELSE Append(a, envs[n])
           N == Len(envs)
           added[n \in 0 .. N] == IF n = 0 THEN has ELSE Step(added[n - 1], n)
<1>1. AddEnvs(own, env, envs) = added[N]
  BY DEF AddEnvs
<1>2. N \in Nat /\ has \in Seq(V) /\ \A n \in 1 .. N : envs[n] \in V
  OBVIOUS
<1>3. added = [n \in 0 .. N |-> IF n = 0 THEN has ELSE Step(added[n - 1], n)]
  <2> DEFINE step == [p \in Seq(V) \X (1 .. N) |-> Step(p[1], p[2])]
  <2>1. step \in [Seq(V) \X (1 .. N) -> Seq(V)]
    BY <1>2
  <2>2. PICK f : IsLoop(f, N, Seq(V), has, step)
    <3> HIDE DEF N, has, step, added, Step, exists
    <3>1. N \in Nat
      BY <1>2
    <3>2. has \in Seq(V)
      BY <1>2
    <3> QED BY <3>1, <3>2, <2>1, LoopIsDefined
  <2>3. f = [n \in 0 .. N |-> IF n = 0 THEN has ELSE Step(f[n - 1], n)]
    <3>1. ASSUME NEW n \in 1 .. N
          PROVE  step[<<f[n - 1], n>>] = Step(f[n - 1], n)
      <4>1. f[n - 1] \in Seq(V)
        <5> HIDE DEF Step, N, has, step, added, exists
        <5>1. N \in Nat /\ f \in [0 .. N -> Seq(V)]
          BY <1>2, <2>2 DEF IsLoop
        <5> QED BY <5>1
      <4> HIDE DEF Step, N
      <4> QED BY <4>1
    <3> HIDE DEF Step, N, has, step, added, exists
    <3>2. f = [n \in 0 .. N |-> f[n]]
      BY <2>2 DEF IsLoop
    <3>3. ASSUME NEW n \in 0 .. N
          PROVE  f[n] = IF n = 0 THEN has ELSE Step(f[n - 1], n)
      <4>1. CASE n = 0
        BY <2>2, <4>1 DEF IsLoop
      <4>2. CASE n # 0
        <5>1. n \in 1 .. N
          BY <1>2, <4>2
        <5>2. f[n] = Step(f[n - 1], n)
          BY <2>2, <3>1, <5>1 DEF IsLoop
        <5> QED BY <4>2, <5>2
      <4> QED BY <4>1, <4>2
    <3> QED BY <3>2, <3>3, Zenon
  <2> HIDE DEF Step, N, has
  <2> QED BY <2>3
<1> HIDE DEF added
<1>4. ASSUME NEW n \in Nat, n <= N
      PROVE  added[n] \in Seq(V) /\ Grown(added[n], own, env.name)
  <2> DEFINE Turns == {m \in Nat : m <= N =>
                         added[m] \in Seq(V) /\ Grown(added[m], own, env.name)}
  <2>1. 0 \in Turns
    <3>1. added[0] = has
      BY <1>2, <1>3
    <3>2. /\ Len(has) = Len(own) + 1 /\ has[Len(own) + 1] = env
          /\ \A i \in 1 .. Len(own) : has[i] = own[i]
          /\ DOMAIN has = 1 .. Len(has) /\ Len(own) \in Nat
      OBVIOUS
    <3>3. Grown(has, own, env.name)
      <4> HIDE DEF has
      <4> QED BY <3>2 DEF Grown
    <3> HIDE DEF has
    <3> QED BY <1>2, <3>1, <3>3
  <2>2. ASSUME NEW m \in Nat, m \in Turns PROVE m + 1 \in Turns
    <3> SUFFICES ASSUME m + 1 <= N
                 PROVE  added[m + 1] \in Seq(V) /\ Grown(added[m + 1], own, env.name)
      OBVIOUS
    <3>1. added[m] \in Seq(V) /\ Grown(added[m], own, env.name)
      BY <2>2, <1>2
    <3>2. added[m + 1] = Step(added[m], m + 1)
      <4>1. m + 1 \in 0 .. N /\ m + 1 # 0 /\ (m + 1) - 1 = m
        BY <1>2
      <4> HIDE DEF Step, N, has
      <4> QED BY <1>3, <4>1
    <3>3. envs[m + 1] \in V
      BY <1>2
    <3>4. CASE exists(envs[m + 1])
      BY <3>1, <3>2, <3>4
    <3>5. CASE ~exists(envs[m + 1])
      <4>1. added[m + 1] = Append(added[m], envs[m + 1])
        BY <3>2, <3>5
      <4>2. \A j \in 1 .. Len(own) : own[j].name # envs[m + 1].name
        BY <3>5 DEF SameName
      <4> DEFINE a == added[m]
                 b == Append(a, envs[m + 1])
      <4>3. /\ b \in Seq(V) /\ Len(b) = Len(a) + 1 /\ b[Len(a) + 1] = envs[m + 1]
            /\ \A i \in 1 .. Len(a) : b[i] = a[i]
            /\ DOMAIN b = 1 .. Len(b) /\ Len(a) \in Nat /\ Len(own) \in Nat
        BY <3>1, <3>3
      <4> HIDE DEF exists, N, has, Step, a, b
      <4>4. Grown(a, own, env.name)
        BY <3>1 DEF a
      <4>5. Grown(b, own, env.name)
        <5>1. /\ DOMAIN b = 1 .. Len(b) /\ Len(b) \in Nat /\ Len(b) >= Len(own)
              /\ \A i \in 1 .. Len(own) : b[i] = own[i]
          BY <4>3, <4>4 DEF Grown
        <5>2. ASSUME NEW i \in Len(own) + 1 .. Len(b)
              PROVE  \/ b[i].name = env.name
                     \/ \A j \in 1 .. Len(own) : own[j].name # b[i].name
          <6>1. CASE i = Len(a) + 1
            BY <4>2, <4>3, <6>1
          <6>2. CASE i # Len(a) + 1
            <7>1. i \in Len(own) + 1 .. Len(a) /\ b[i] = a[i]
              BY <4>3, <4>4, <6>2 DEF Grown
            <7> QED BY <4>4, <7>1 DEF Grown
          <6> QED BY <6>1, <6>2
        <5> QED BY <5>1, <5>2 DEF Grown
      <4>6. added[m + 1] = b
        BY <4>1 DEF a, b
      <4> QED BY <4>3, <4>5, <4>6
    <3> QED BY <3>4, <3>5
  <2>3. n \in Turns
    <3> HIDE DEF Turns
    <3> QED BY <2>1, <2>2, Induction
  <2> QED BY <1>4, <2>3
<1> HIDE DEF N
<1> QED BY <1>1, <1>2, <1>4

\* A set of numbers up to n that is not empty has a greatest one.
LEMMA Greatest ==
  ASSUME NEW n \in Nat, NEW T, T \subseteq 1 .. n, T # {}
  PROVE  \E m \in T : \A k \in T : k <= m
<1> DEFINE S == {n - k : k \in T}
<1>1. S \subseteq Nat /\ S # {}
  <2>1. PICK k \in T : TRUE
    OBVIOUS
  <2>2. n - k \in S
    BY <2>1
  <2>3. \A t \in T : n - t \in Nat
    OBVIOUS
  <2> QED BY <2>2, <2>3
<1>2. PICK s \in S : \A t \in S : s <= t
  BY <1>1, Least
<1>3. PICK m \in T : s = n - m
  BY <1>2
<1>4. ASSUME NEW k \in T PROVE k <= m
  <2>1. n - k \in S
    OBVIOUS
  <2>2. n - m <= n - k
    BY <1>2, <1>3, <2>1
  <2> QED BY <2>2
<1> QED BY <1>4

\* A variable of own has in e the value it has in own, unless it is the one m names.
LEMMA GrownKeepsValues ==
  ASSUME NEW own, NEW e, NEW m, NEW name, Len(own) \in Nat, Grown(e, own, m),
         name # m, \E i \in 1 .. Len(own) : own[i].name = name
  PROVE  Effective(e, name) = Effective(own, name)
<1> DEFINE at(x) == {i \in 1 .. Len(x) : x[i].name = name}
           last(x) == CHOOSE i \in at(x) : \A j \in at(x) : j <= i
<1>1. at(e) = at(own)
  BY DEF Grown
<1>2. at(own) \subseteq 1 .. Len(own) /\ at(own) # {}
  OBVIOUS
<1>3. \E i \in at(own) : \A j \in at(own) : j <= i
  <2> HIDE DEF at
  <2> QED BY <1>2, Greatest
<1>4. last(own) \in 1 .. Len(own)
  <2> HIDE DEF at
  <2> QED BY <1>2, <1>3
<1>5. last(e) = last(own)
  <2> HIDE DEF at
  <2> QED BY <1>1
<1>6. Effective(e, name) = e[last(e)].value /\ Effective(own, name) = own[last(own)].value
  BY DEF Effective
<1> HIDE DEF last
<1> QED BY <1>4, <1>5, <1>6 DEF Grown

----------------------------------------------------------------------------
(* The chain *)

\* The mount of the target containers has the name of the volume.
LEMMA MountIsVolume ==
  ASSUME NEW pod, NEW sw
  PROVE  VolumeMountName(pod, sw) = OverlaySidecar(pod, sw)["sidecarVolume.Name"]
BY DEF VolumeMountName

\* Inject makes a pod that has nothing of the agent complete, whichever values
\* the annotations, the SwAgent and the defaults give, and whichever containers
\* are its targets.
LEMMA InjectCompletes ==
  ASSUME NEW pod, NEW sw, Untouched(pod)
  PROVE  /\ Complete(Inject(pod, sw), pod.own)
         /\ Inject(pod, sw).init = << Inject(pod, sw).init[1] >>
<1> DEFINE sidecar == OverlaySidecar(pod, sw)
           volume  == sidecar["sidecarVolume.Name"]
           plugins == OverlayOptional(pod, sw)
           targets == findInjectContainer(InjectContainer(pod, sw))
           first   == [overlay |-> sidecar, volume |-> volume,
                       plugins |-> plugins]
           spec    == Inject(pod, sw)
<1>1. \A x : Append(<< >>, x) = << x >>
  OBVIOUS
<1>2. spec.init = Append(pod.spec.init, first)
  BY DEF Inject
<1>3. spec.init = << first >>
  BY <1>1, <1>2 DEF Untouched
<1>4. spec.volumes = << volume >>
  <2>1. spec.volumes = Append(pod.spec.volumes, volume)
    BY DEF Inject
  <2> QED BY <1>1, <2>1 DEF Untouched
<1>5. Len(spec.init) = 1 /\ spec.init[1].volume = volume
  BY <1>3
<1>6. ASSUME NEW c \in Containers
      PROVE  \/ spec.mounts[c] = spec.volumes
             \/ spec.mounts[c] = << >> /\ spec.env[c] = pod.own
  <2>1. spec.mounts[c] = IF c \in targets
                           THEN Append(pod.spec.mounts[c], volume)
                           ELSE pod.spec.mounts[c]
    BY MountIsVolume DEF Inject
  <2>2. pod.spec.mounts[c] = << >> /\ pod.spec.env[c] = pod.own
    BY DEF Untouched
  <2>3. c \notin targets => spec.env[c] = pod.spec.env[c]
    BY DEF Inject
  <2> QED BY <1>1, <1>4, <2>1, <2>2, <2>3
<1> HIDE DEF first, volume, spec
<1>7. spec.init = << spec.init[1] >>
  BY <1>3
<1> QED BY <1>4, <1>5, <1>6, <1>7 DEF Complete, spec

\* Inject lets the environments of the containers grow by the agent's variable
\* and by new ones.
LEMMA InjectGrowsEnv ==
  ASSUME NEW pod, NEW sw \in SwSpecs \cup {None}, Untouched(pod), IsList(pod.own),
         NEW done, done.spec = Inject(pod, sw), done.own = pod.own
  PROVE  EnvGrown(done)
<1> DEFINE sidecar == OverlaySidecar(pod, sw)
           env     == [name |-> sidecar["env.Name"],
                       value |-> <<sidecar["env.Value"], JvmAgentConfig(pod)>>]
           envs    == IF sw = None THEN << >> ELSE sw.env
           targets == findInjectContainer(InjectContainer(pod, sw))
           first   == [overlay |-> sidecar, volume |-> sidecar["sidecarVolume.Name"],
                       plugins |-> OverlayOptional(pod, sw)]
           V       == {pod.own[i] : i \in DOMAIN pod.own} \cup {env}
                        \cup {envs[i] : i \in DOMAIN envs}
<1>1. /\ Len(Inject(pod, sw).init) = 1
      /\ Inject(pod, sw).init[1].overlay["env.Name"] = env.name
  <2>1. Inject(pod, sw).init = Append(pod.spec.init, first)
    BY DEF Inject
  <2>2. Inject(pod, sw).init = << first >>
    BY <2>1 DEF Untouched
  <2> QED BY <2>2
<1>2. pod.own \in Seq(V) /\ env \in V
  BY DEF IsList
<1>3. envs \in Seq(V)
  <2>1. CASE sw = None
    BY <2>1
  <2>2. CASE sw # None
    <3>1. envs = sw.env /\ IsList(sw.env)
      BY <2>2, InjectorAssumption
    <3>2. envs \in Seq({envs[i] : i \in DOMAIN envs})
      BY <3>1 DEF IsList
    <3> HIDE DEF envs, env
    <3> QED BY <3>2
  <2> QED BY <2>1, <2>2
<1>4. Grown(AddEnvs(pod.own, env, envs), pod.own, env.name)
  <2> HIDE DEF V, envs, env
  <2> QED BY <1>2, <1>3, AddEnvsGrows
<1>5. ASSUME NEW c \in Containers
      PROVE  \/ Inject(pod, sw).env[c] = pod.own
             \/ Inject(pod, sw).env[c] = AddEnvs(pod.own, env, envs)
  <2>1. Inject(pod, sw).env[c] = IF c \in targets
                                   THEN AddEnvs(pod.spec.env[c], env, envs)
                                   ELSE pod.spec.env[c]
    BY DEF Inject
  <2>2. pod.spec.env[c] = pod.own
    BY DEF Untouched
  <2> HIDE DEF targets, env, envs
  <2> QED BY <2>1, <2>2
<1> HIDE DEF env, envs
<1> QED BY <1>1, <1>4, <1>5 DEF EnvGrown

\* An injection shows in the list of init containers.
LEMMA InjectShows ==
  ASSUME NEW pod, NEW sw, Listed(pod)
  PROVE  Inject(pod, sw) # pod.spec
<1>1. PICK first : Inject(pod, sw).init = Append(pod.spec.init, first)
  BY DEF Inject
<1>2. ASSUME NEW x PROVE Append(<< >>, first) # << >> /\ Append(<< x >>, first) # << x >>
  OBVIOUS
<1> QED BY <1>1, <1>2 DEF Listed

\* Handle makes a whole pod one that is whole and settled, provided that it has
\* nothing of the agent if it is to be injected.
LEMMA HandleSettles ==
  ASSUME NEW pod, NEW sw \in SwSpecs \cup {None}, Whole(pod),
         GetInjectStrategy(pod) /\ ~OverlayFails(pod) => Untouched(pod)
  PROVE  Whole(Handle(pod, sw)) /\ Settled(Handle(pod, sw))
<1>1. CASE ~GetInjectStrategy(pod)
  BY <1>1 DEF Handle, Settled
<1>2. CASE GetInjectStrategy(pod) /\ OverlayFails(pod)
  <2>1. PICK failed : failed = [pod EXCEPT !.error = TRUE]
    OBVIOUS
  <2>2. Handle(pod, sw) = failed
    BY <1>2, <2>1 DEF Handle
  <2>3. /\ IsPod(failed) /\ failed.succeed = pod.succeed
        /\ failed.meddled = pod.meddled /\ failed.anno = pod.anno
        /\ failed.spec = pod.spec /\ failed.own = pod.own /\ failed.error = TRUE
    BY <2>1 DEF Whole, IsPod, PodFields
  <2>4. OverlayFails(failed)
    BY <1>2, <2>3 DEF OverlayFails
  <2> QED BY <2>2, <2>3, <2>4
          DEF Whole, Promised, Listed, EnvGrown, Untouched, Settled
<1>3. CASE GetInjectStrategy(pod) /\ ~OverlayFails(pod)
  <2>1. PICK done : done = [pod EXCEPT !.spec = Inject(pod, sw), !.succeed = TRUE]
    OBVIOUS
  <2>2. Handle(pod, sw) = done
    BY <1>3, <2>1 DEF Handle
  <2>3. /\ IsPod(done) /\ done.succeed = TRUE
        /\ done.spec = Inject(pod, sw) /\ done.own = pod.own
    BY <2>1 DEF Whole, IsPod, PodFields
  <2>4. Untouched(pod) /\ IsList(pod.own)
    BY <1>3 DEF Whole, EnvGrown
  <2>5. Promised(done) /\ Listed(done)
    BY <2>3, <2>4, InjectCompletes DEF Promised, Listed
  <2>6. EnvGrown(done)
    BY <2>3, <2>4, InjectGrowsEnv
  <2>7. ~GetInjectStrategy(done)
    BY <2>3 DEF GetInjectStrategy
  <2> QED BY <2>2, <2>3, <2>5, <2>6, <2>7 DEF Whole, Settled
<1> QED BY <1>1, <1>2, <1>3

\* A settled pod passes the chain unchanged.
LEMMA SettledPasses ==
  ASSUME NEW pod, NEW sw, IsPod(pod), Settled(pod)
  PROVE  Handle(pod, sw) = pod
<1>1. CASE ~GetInjectStrategy(pod)
  BY <1>1 DEF Handle
<1>2. CASE GetInjectStrategy(pod)
  <2>1. Handle(pod, sw) = [pod EXCEPT !.error = TRUE] /\ pod.error = TRUE
    BY <1>2 DEF Handle, Settled
  <2>2. [pod EXCEPT !.error = TRUE] = pod
    BY <2>1 DEF IsPod, PodFields
  <2> QED BY <2>1, <2>2
<1> QED BY <1>1, <1>2

----------------------------------------------------------------------------
(* The steps that store a pod *)

\* Storing a pod that is whole and settled, or none, keeps the invariant.
LEMMA StoreKeeps ==
  ASSUME IndInv, NEW p \in Pods, NEW pod, pods' = [pods EXCEPT ![p] = pod],
         pod # None => Whole(pod) /\ Settled(pod)
  PROVE  IndInv'
<1>1. DOMAIN pods' = Pods
  BY DEF IndInv
<1>2. ASSUME NEW q \in Pods, pods'[q] # None
      PROVE  Whole(pods'[q]) /\ Settled(pods'[q])
  <2>1. CASE q = p
    BY <1>2, <2>1 DEF IndInv
  <2>2. CASE q # p
    <3>1. pods'[q] = pods[q]
      BY <2>2 DEF IndInv
    <3> QED BY <1>2, <3>1 DEF IndInv
  <2> QED BY <2>1, <2>2
<1>3. ASSUME NEW q \in Pods, pods'[q] # None
      PROVE  Whole(pods[q])' /\ Settled(pods[q])'
  BY <1>2, <1>3 DEF Whole, IsPod, Promised, Listed, EnvGrown, Grown, Complete, Untouched,
                    Settled, GetInjectStrategy, OverlayFails
<1> QED BY <1>1, <1>3 DEF IndInv

\* A pod as it is submitted has nothing of the agent.
LEMMA NewIsWhole ==
  ASSUME NEW p \in Pods, NEW r \in Requests[p]
  PROVE  Whole(New(r)) /\ Untouched(New(r))
<1>1. IsPod(New(r))
  BY DEF New, IsPod, PodFields
<1>2. Untouched(New(r)) /\ New(r).meddled = New(r).succeed /\ New(r).own = r.env
  BY DEF New, Untouched
<1>3. Promised(New(r)) /\ Listed(New(r))
  BY <1>2 DEF Promised, Listed, Untouched
<1>4. EnvGrown(New(r))
  BY <1>2, InjectorAssumption DEF EnvGrown, Untouched
<1> QED BY <1>1, <1>2, <1>3, <1>4 DEF Whole

\* A pod that differs from a stored one in owner and deletion only has what the
\* stored pod has.
LEMMA CopyIsWhole ==
  ASSUME IndInv, NEW q \in Pods, pods[q] # None,
         NEW pod, NEW o, NEW d, pod = [pods[q] EXCEPT !.owner = o, !.deleting = d]
  PROVE  Whole(pod) /\ Settled(pod)
<1>1. Whole(pods[q]) /\ Settled(pods[q])
  BY DEF IndInv
<1>2. /\ IsPod(pod) /\ pod.succeed = pods[q].succeed /\ pod.label = pods[q].label
      /\ pod.meddled = pods[q].meddled /\ pod.anno = pods[q].anno
      /\ pod.spec = pods[q].spec /\ pod.own = pods[q].own
      /\ pod.error = pods[q].error
  BY <1>1 DEF Whole, IsPod, PodFields
<1> QED BY <1>1, <1>2 DEF Whole, Promised, Listed, EnvGrown, Untouched, Settled,
                          GetInjectStrategy, OverlayFails

\* Admission keeps the invariant.
LEMMA AdmitKeeps ==
  ASSUME IndInv, NEW p \in Pods, NEW pod, Whole(pod), Untouched(pod) \/ Settled(pod),
         Admit(p, pod)
  PROVE  IndInv'
<1>1. PICK sw \in SwSpecs \cup {None} : pods' = [pods EXCEPT ![p] = Handle(pod, sw)]
  BY DEF Admit
<1>2. Whole(Handle(pod, sw)) /\ Settled(Handle(pod, sw))
  BY HandleSettles DEF Settled
<1> QED BY <1>1, <1>2, StoreKeeps

\* A step that marks a pod for deletion keeps the invariant.
LEMMA MarkKeeps ==
  ASSUME IndInv, NEW p \in Pods, pods[p] # None,
         pods' = [pods EXCEPT ![p].deleting = TRUE]
  PROVE  IndInv'
<1>1. PICK pod : pod = [pods[p] EXCEPT !.owner = pods[p].owner, !.deleting = TRUE]
  OBVIOUS
<1>2. Whole(pod) /\ Settled(pod)
  BY <1>1, CopyIsWhole
<1>3. pods' = [pods EXCEPT ![p] = pod]
  <2>1. IsPod(pods[p])
    BY DEF IndInv, Whole
  <2>2. pod = [pods[p] EXCEPT !.deleting = TRUE]
    BY <1>1, <2>1 DEF IsPod, PodFields
  <2> QED BY <2>2
<1> QED BY <1>2, <1>3, StoreKeeps

\* UpdatePod keeps the invariant: had the webhook injected the pod, its spec would
\* have changed, and the update would not have been accepted.
LEMMA UpdateKeeps ==
  ASSUME IndInv, NEW p \in Pods, NEW r, UpdatePod(p, r)
  PROVE  IndInv'
<1>1. PICK pod : pod = [pods[p] EXCEPT !.label = r.label, !.anno = r.anno,
                          !.succeed = r.succeed,
                          !.meddled = @ \/ r.succeed # pods[p].succeed]
  OBVIOUS
<1>2. PICK sw \in SwSpecs \cup {None} :
        /\ Handle(pod, sw).spec = pods[p].spec
        /\ pods' = [pods EXCEPT ![p] = Handle(pod, sw)]
  BY <1>1 DEF UpdatePod
<1>3. Whole(pods[p])
  BY DEF UpdatePod, IndInv
<1>4. /\ IsPod(pod) /\ pod.spec = pods[p].spec /\ pod.own = pods[p].own
      /\ pod.succeed = r.succeed
      /\ pod.meddled = (pods[p].meddled \/ r.succeed # pods[p].succeed)
  BY <1>1, <1>3 DEF Whole, IsPod, PodFields
<1>5. Whole(pod)
  <2>1. ~pod.meddled => ~pods[p].meddled /\ pod.succeed = pods[p].succeed
    BY <1>4
  <2>2. Promised(pod)
    BY <1>3, <1>4, <2>1 DEF Whole, Promised, Untouched
  <2> QED BY <1>3, <1>4, <2>2 DEF Whole, Listed, EnvGrown
<1>6. ~(GetInjectStrategy(pod) /\ ~OverlayFails(pod))
  <2> SUFFICES ASSUME GetInjectStrategy(pod), ~OverlayFails(pod) PROVE FALSE
    OBVIOUS
  <2>1. Handle(pod, sw).spec = Inject(pod, sw)
    BY <1>4 DEF Handle, IsPod, PodFields
  <2> QED BY <1>2, <1>4, <1>5, <2>1, InjectShows DEF Whole
<1>7. Whole(Handle(pod, sw)) /\ Settled(Handle(pod, sw))
  BY <1>5, <1>6, HandleSettles
<1> QED BY <1>2, <1>7, StoreKeeps

----------------------------------------------------------------------------
(* Every step *)

\* The invariant holds initially.
LEMMA InitHolds == Init => IndInv
BY DEF Init, InjectorInit, IndInv

\* A step that stores no pod keeps the invariant.
LEMMA UnchangedKeeps ==
  ASSUME IndInv, pods' = pods
  PROVE  IndInv'
BY DEF IndInv, Whole, IsPod, Promised, Listed, EnvGrown, Grown, Complete, Untouched,
       Settled, GetInjectStrategy, OverlayFails

\* Every step keeps the invariant.
LEMMA StepKeeps ==
  ASSUME IndInv, [Next]_vars
  PROVE  IndInv'
<1>1. CASE InjectorNext
  <2>1. ASSUME NEW p \in Pods, DeletePod(p) PROVE IndInv'
    BY <2>1, MarkKeeps DEF DeletePod
  <2>2. ASSUME NEW p \in Pods, RemovePod(p) PROVE IndInv'
    BY <2>2, StoreKeeps DEF RemovePod
  <2>3. ASSUME NEW p \in Pods, NEW r \in Requests[p], CreatePod(p, r) PROVE IndInv'
    BY <2>3, NewIsWhole, AdmitKeeps DEF CreatePod
  <2>4. ASSUME NEW p \in Pods, NEW q \in Pods, CopyPod(p, q) PROVE IndInv'
    <3>1. PICK pod : pod = [pods[q] EXCEPT !.owner = None, !.deleting = FALSE]
      OBVIOUS
    <3>2. pods[q] # None /\ Admit(p, pod)
      BY <2>4, <3>1 DEF CopyPod
    <3>3. Whole(pod) /\ Settled(pod)
      BY <3>1, <3>2, CopyIsWhole
    <3> QED BY <3>2, <3>3, AdmitKeeps
  <2>5. ASSUME NEW a \in SwAgents, NEW s \in SwSpecs \cup {None},
               ChangeSwAgent(a, s)
        PROVE  IndInv'
    BY <2>5, UnchangedKeeps DEF ChangeSwAgent
  <2> QED BY <1>1, <2>1, <2>2, <2>3, <2>4, <2>5, UpdateKeeps DEF InjectorNext
<1>2. CASE Work \/ CallFails \/ Crash
  <2>1. pods' = pods
    BY <1>2 DEF Work, ApplyGet, ApplyCreate, CountPods, WriteStatus, CallFails,
                Crash, Fault, injectorVars
  <2> QED BY <2>1, UnchangedKeeps
<1>3. ASSUME NEW p \in Pods, SyncPod(p) \/ Resync(p) \/ StartReconcile(p)
      PROVE  IndInv'
  <2>1. pods' = pods
    BY <1>3 DEF SyncPod, Resync, StartReconcile, injectorVars
  <2> QED BY <2>1, UnchangedKeeps
<1>4. ASSUME NEW p \in Pods, CollectPod(p) PROVE IndInv'
  BY <1>4, MarkKeeps DEF CollectPod
<1>5. ASSUME NEW g \in Groups, SyncAgent(g) \/ CollectAgent(g) \/ DeleteAgent(g)
      PROVE  IndInv'
  <2>1. pods' = pods
    BY <1>5 DEF SyncAgent, CollectAgent, DeleteAgent, injectorVars
  <2> QED BY <2>1, UnchangedKeeps
<1>6. ASSUME NEW o \in Owners, DeleteOwner(o) PROVE IndInv'
  BY <1>6, UnchangedKeeps DEF DeleteOwner
<1>7. CASE UNCHANGED vars
  BY <1>7, UnchangedKeeps DEF vars, injectorVars
<1> QED BY <1>1, <1>2, <1>3, <1>4, <1>5, <1>6, <1>7 DEF Next

\* The inductive invariant holds always.
LEMMA IndInvHolds == Spec => []IndInv
<1>1. IndInv /\ [Next]_vars => IndInv'
  BY StepKeeps
<1> QED BY InitHolds, <1>1, PTL DEF Spec

\* A stored pod has all of the agent, once, or nothing of it, however the
\* injector's chain (Handle, Inject) was left, however often it was called for the
\* pod or a copy of it, and whoever changed the annotation "succeed"; if nobody
\* did, it says which.
THEOREM PodsAreWhole == Spec => []AllOrNothing
<1>1. IndInv => AllOrNothing
  BY DEF IndInv, Whole, Promised, AllOrNothing
<1> QED BY <1>1, IndInvHolds, PTL

\* A variable that the user has set in a container keeps its value, although the
\* loop of Inject appends the agent's variable and those of any SwAgent to the
\* list, of which a container sees the last: unless it is the variable that loads
\* the agent.
THEOREM UserEnvIsKept == Spec => []UserEnvKept
<1>1. ASSUME IndInv PROVE UserEnvKept
  <2> SUFFICES ASSUME NEW p \in Pods, pods[p] # None, NEW c \in Containers,
                      NEW i \in 1 .. Len(pods[p].own)
               PROVE  \/ Effective(pods[p].spec.env[c], pods[p].own[i].name)
                           = Effective(pods[p].own, pods[p].own[i].name)
                      \/ \E k \in 1 .. Len(pods[p].spec.init) :
                           pods[p].own[i].name = pods[p].spec.init[k].overlay["env.Name"]
    BY DEF UserEnvKept
  <2> DEFINE pod == pods[p]
             name == pod.own[i].name
             given == pod.spec.init[1].overlay["env.Name"]
  <2>1. EnvGrown(pod)
    BY <1>1 DEF IndInv, Whole
  <2>2. Len(pod.own) \in Nat
    BY <2>1 DEF EnvGrown, IsList
  <2>3. CASE pod.spec.env[c] = pod.own
    BY <2>3
  <2>4. CASE /\ Len(pod.spec.init) = 1
             /\ Grown(pod.spec.env[c], pod.own, given)
    <3>1. CASE name = given
      BY <2>4, <3>1
    <3>2. CASE name # given
      <4> HIDE DEF given
      <4>1. \E j \in 1 .. Len(pod.own) : pod.own[j].name = name
        OBVIOUS
      <4> HIDE DEF name, pod
      <4>2. Effective(pod.spec.env[c], name) = Effective(pod.own, name)
        BY <2>2, <2>4, <3>2, <4>1, GrownKeepsValues
      <4> QED BY <4>2 DEF name, pod
    <3> QED BY <3>1, <3>2
  <2> QED BY <2>1, <2>3, <2>4 DEF EnvGrown
<1> QED BY <1>1, IndInvHolds, PTL

\* A stored pod that is sent back as it is passes the webhook unchanged, so that
\* the API server has no change of the spec to refuse.
THEOREM NothingIsLeft == Spec => []NothingLeftToInject
<1>1. IndInv => NothingLeftToInject
  BY SettledPasses DEF IndInv, Whole, NothingLeftToInject
<1> QED BY <1>1, IndInvHolds, PTL

-----------------------------------------------------------------------------
(* Types *)

\* The fields of a pod that the reconciler reads.
Typed(pod) ==
  /\ pod.succeed \in BOOLEAN /\ pod.meddled \in BOOLEAN /\ pod.error \in BOOLEAN
  /\ pod.label \in BOOLEAN /\ pod.deleting \in BOOLEAN
  /\ pod.owner \in Owners \cup {None}

PodsTyped == \A p \in Pods : pods[p] # None => Typed(pods[p])

\* A JavaAgent, and what the worker takes from a pod.
Agents == [owner : Owners, status : Counters]
Tasks  == [pod : Pods, group : Groups, owner : Owners]

\* The reconciler's part: a cached pod is as typed as a stored one, and a worker
\* that is busy has a request.
ReconcilerTyped ==
  /\ agent \in [Groups -> Agents \cup {None}]
  /\ gone \subseteq Owners
  /\ DOMAIN podCache = Pods
  /\ \A p \in Pods : podCache[p] # None => podCache[p].owner \in Owners \cup {None}
  /\ agentCache \in [Groups -> BOOLEAN] /\ agentFresh \in [Groups -> BOOLEAN]
  /\ queue \subseteq Pods
  /\ pc \in {"idle", "apply", "create", "count", "write"}
  /\ req \in Tasks \cup {None} /\ (pc # "idle" => req \in Tasks)
  /\ overlay \in Counters /\ listed \in BOOLEAN

\* The users' part.
UsersTyped ==
  /\ swagents \in [SwAgents -> SwSpecs \cup {None}]
  /\ edits \in 0 .. MaxEdits /\ faults \in 0 .. MaxFaults

\* Handle keeps the types of a pod.
LEMMA HandleTyped ==
  ASSUME NEW pod, NEW sw, IsPod(pod), Typed(pod)
  PROVE  Typed(Handle(pod, sw))
<1>1. \/ Handle(pod, sw) = pod
      \/ Handle(pod, sw) = [pod EXCEPT !.error = TRUE]
      \/ Handle(pod, sw) = [pod EXCEPT !.spec = Inject(pod, sw), !.succeed = TRUE]
  BY DEF Handle
<1> QED BY <1>1 DEF Typed, IsPod, PodFields

\* Storing a typed pod, or none, keeps the pods typed.
LEMMA StoreTyped ==
  ASSUME IndInv, PodsTyped, NEW p \in Pods, NEW pod, pods' = [pods EXCEPT ![p] = pod],
         pod # None => Typed(pod)
  PROVE  PodsTyped'
BY DEF IndInv, PodsTyped

\* Every step keeps the pods typed.
LEMMA StepKeepsPodsTyped ==
  ASSUME IndInv, PodsTyped, [Next]_vars
  PROVE  PodsTyped'
<1>1. ASSUME NEW p \in Pods, NEW pod, IsPod(pod), Typed(pod), Admit(p, pod)
      PROVE  PodsTyped'
  <2>1. PICK sw \in SwSpecs \cup {None} : pods' = [pods EXCEPT ![p] = Handle(pod, sw)]
    BY <1>1 DEF Admit
  <2> QED BY <1>1, <2>1, HandleTyped, StoreTyped
<1>2. ASSUME NEW p \in Pods, pods[p] # None
      PROVE  IsPod(pods[p]) /\ Typed(pods[p])
  BY <1>2 DEF IndInv, Whole, PodsTyped
<1>3. ASSUME NEW p \in Pods, pods[p] # None, pods' = [pods EXCEPT ![p].deleting = TRUE]
      PROVE  PodsTyped'
  <2> DEFINE pod == [pods[p] EXCEPT !.deleting = TRUE]
  <2>1. Typed(pod)
    BY <1>2, <1>3 DEF Typed, IsPod, PodFields
  <2>2. pods' = [pods EXCEPT ![p] = pod]
    BY <1>3
  <2> QED BY <2>1, <2>2, StoreTyped
<1>4. ASSUME NEW p \in Pods, NEW r \in Requests[p], CreatePod(p, r) PROVE PodsTyped'
  <2>1. IsPod(New(r)) /\ Typed(New(r))
    BY InjectorAssumption, JavaAgentAssumption DEF New, IsPod, PodFields, Typed
  <2> QED BY <1>1, <1>4, <2>1 DEF CreatePod
<1>5. ASSUME NEW p \in Pods, NEW q \in Pods, CopyPod(p, q) PROVE PodsTyped'
  <2> DEFINE pod == [pods[q] EXCEPT !.owner = None, !.deleting = FALSE]
  <2>1. pods[q] # None /\ Admit(p, pod)
    BY <1>5 DEF CopyPod
  <2>2. IsPod(pod) /\ Typed(pod)
    BY <1>2, <2>1 DEF IsPod, PodFields, Typed
  <2> HIDE DEF pod
  <2> QED BY <1>1, <2>1, <2>2
<1>6. ASSUME NEW p \in Pods, NEW r \in Relabels, UpdatePod(p, r) PROVE PodsTyped'
  <2> DEFINE pod == [pods[p] EXCEPT !.label = r.label, !.anno = r.anno,
                       !.succeed = r.succeed,
                       !.meddled = @ \/ r.succeed # pods[p].succeed]
  <2>1. pods[p] # None
    BY <1>6 DEF UpdatePod
  <2>2. IsPod(pod) /\ Typed(pod)
    <3>1. IsPod(pods[p]) /\ Typed(pods[p]) /\ r.label \in BOOLEAN /\ r.succeed \in BOOLEAN
      BY <1>2, <2>1, InjectorAssumption, JavaAgentAssumption
    <3>2. PICK m \in BOOLEAN : m = (pods[p].meddled \/ r.succeed # pods[p].succeed)
      OBVIOUS
    <3>3. pod = [pods[p] EXCEPT !.label = r.label, !.anno = r.anno,
                                !.succeed = r.succeed, !.meddled = m]
      BY <3>2
    <3> HIDE DEF pod
    <3> QED BY <3>1, <3>3 DEF IsPod, PodFields, Typed
  <2>3. \E sw : pods' = [pods EXCEPT ![p] = Handle(pod, sw)]
    BY <1>6 DEF UpdatePod
  <2> HIDE DEF pod
  <2> QED BY <2>2, <2>3, HandleTyped, StoreTyped
<1>7. ASSUME NEW p \in Pods, RemovePod(p) PROVE PodsTyped'
  BY <1>7, StoreTyped DEF RemovePod
<1>8. CASE InjectorNext
  <2>1. ASSUME NEW p \in Pods, DeletePod(p) PROVE PodsTyped'
    BY <1>3, <2>1 DEF DeletePod
  <2>2. ASSUME NEW a, NEW s, ChangeSwAgent(a, s) PROVE PodsTyped'
    BY <2>2 DEF ChangeSwAgent, PodsTyped
  <2> QED BY <1>4, <1>5, <1>6, <1>7, <1>8, <2>1, <2>2 DEF InjectorNext
<1>9. ASSUME NEW p \in Pods, CollectPod(p) PROVE PodsTyped'
  BY <1>3, <1>9 DEF CollectPod
<1>10. ASSUME pods' = pods PROVE PodsTyped'
  BY <1>10 DEF PodsTyped
<1>11. CASE Work \/ CallFails \/ Crash \/ UNCHANGED vars
  BY <1>10, <1>11 DEF Work, ApplyGet, ApplyCreate, CountPods, WriteStatus, CallFails,
                      Crash, Fault, injectorVars, vars
<1>12. ASSUME NEW p \in Pods, SyncPod(p) \/ Resync(p) \/ StartReconcile(p)
       PROVE  PodsTyped'
  BY <1>10, <1>12 DEF SyncPod, Resync, StartReconcile, injectorVars
<1>13. CASE \/ \E g \in Groups : SyncAgent(g) \/ CollectAgent(g) \/ DeleteAgent(g)
            \/ \E o \in Owners : DeleteOwner(o)
  BY <1>10, <1>13 DEF SyncAgent, CollectAgent, DeleteAgent, DeleteOwner, injectorVars
<1> QED BY <1>8, <1>9, <1>11, <1>12, <1>13 DEF Next

\* Every step keeps the users' part.
LEMMA StepKeepsUsersTyped ==
  ASSUME UsersTyped, [Next]_vars
  PROVE  UsersTyped'
<1>1. \/ edits' = edits
      \/ edits < MaxEdits /\ edits' = edits + 1
  BY DEF Next, InjectorNext, DeletePod, RemovePod, CreatePod, CopyPod, UpdatePod, Admit,
         ChangeSwAgent, Edit, Work, ApplyGet, ApplyCreate, CountPods, WriteStatus,
         CallFails, Crash, Fault, SyncPod, Resync, StartReconcile, CollectPod, SyncAgent,
         CollectAgent, DeleteAgent, DeleteOwner, injectorVars, vars
<1>2. \/ faults' = faults
      \/ faults < MaxFaults /\ faults' = faults + 1
  BY DEF Next, InjectorNext, DeletePod, RemovePod, CreatePod, CopyPod, UpdatePod, Admit,
         Lists, ChangeSwAgent, Work, ApplyGet, ApplyCreate, CountPods, WriteStatus,
         CallFails, Crash, Fault, SyncPod, Resync, StartReconcile, CollectPod, SyncAgent,
         CollectAgent, DeleteAgent, DeleteOwner, injectorVars, vars
<1>3. \/ swagents' = swagents
      \/ \E a \in SwAgents, s \in SwSpecs \cup {None} :
           swagents' = [swagents EXCEPT ![a] = s]
  BY DEF Next, InjectorNext, DeletePod, RemovePod, CreatePod, CopyPod, UpdatePod, Admit,
         ChangeSwAgent, Work, ApplyGet, ApplyCreate, CountPods, WriteStatus, CallFails,
         Crash, Fault, SyncPod, Resync, StartReconcile, CollectPod, SyncAgent,
         CollectAgent, DeleteAgent, DeleteOwner, injectorVars, vars
<1>4. edits' \in 0 .. MaxEdits /\ faults' \in 0 .. MaxFaults
  BY <1>1, <1>2, InjectorAssumption DEF UsersTyped
<1> QED BY <1>3, <1>4 DEF UsersTyped

\* UpdateStatus counts no more pods than there are.
LEMMA CountIsTyped ==
  ASSUME NEW from, NEW g
  PROVE  Count(from, g) \in Counters /\ NoCounters \in Counters
<1>1. IsFiniteSet(Pods) /\ Cardinality(Pods) \in Nat
  BY JavaAgentAssumption, FS_CardinalityType
<1>2. ASSUME NEW S, S \subseteq Pods
      PROVE  Cardinality(S) \in 0 .. Cardinality(Pods)
  <2>1. IsFiniteSet(S) /\ Cardinality(S) <= Cardinality(Pods)
    BY <1>1, <1>2, FS_Subset
  <2>2. Cardinality(S) \in Nat
    BY <2>1, FS_CardinalityType
  <2> QED BY <1>1, <2>1, <2>2
<1> DEFINE members == {p \in Pods : from[p] # None /\ from[p].group = g}
           expects == {p \in members : from[p].label}
           reals   == {p \in members : from[p].succeed}
<1>3. expects \subseteq Pods /\ reals \subseteq Pods
  OBVIOUS
<1>4. Count(from, g) = [expected |-> Cardinality(expects), real |-> Cardinality(reals)]
  BY DEF Count
<1> HIDE DEF expects, reals
<1> QED BY <1>1, <1>2, <1>3, <1>4 DEF Counters, NoCounters

\* What is cached of a typed pod has its owner.
LEMMA ViewIsTyped ==
  ASSUME PodsTyped, NEW p \in Pods, View(pods[p]) # None
  PROVE  View(pods[p]).owner \in Owners \cup {None}
BY DEF PodsTyped, Typed, View

\* The steps of the worker keep the reconciler's part.
LEMMA WorkerKeepsTyped ==
  ASSUME ReconcilerTyped, PodsTyped,
         \/ Work \/ CallFails \/ Crash
         \/ \E p \in Pods : StartReconcile(p)
  PROVE  ReconcilerTyped'
<1> DEFINE Stored(g, a) == StoreAgent(g, a) /\ g \in Groups /\ a \in Agents
<1>0. NoCounters \in Counters
  BY CountIsTyped
<1>1. ASSUME NEW g, NEW a, Stored(g, a)
      PROVE  /\ agent' \in [Groups -> Agents \cup {None}]
             /\ agentCache' \in [Groups -> BOOLEAN] /\ agentFresh' \in [Groups -> BOOLEAN]
             /\ podCache' = podCache
  BY <1>1 DEF StoreAgent, ReconcilerTyped
<1>2. pc # "idle" =>
        req \in Tasks /\ req.pod \in Pods /\ req.group \in Groups /\ req.owner \in Owners
  BY DEF ReconcilerTyped, Tasks
<1>3. ASSUME pc # "idle", agent[req.group] # None
      PROVE  [agent[req.group] EXCEPT !.status = overlay] \in Agents
  BY <1>2, <1>3 DEF ReconcilerTyped, Agents
<1>4. ASSUME Return
      PROVE  /\ pc' = "idle" /\ req' = None
             /\ overlay' \in Counters /\ listed' \in BOOLEAN
  BY <1>0, <1>4 DEF Return
<1>5. ASSUME Retry, pc # "idle"
      PROVE  Return /\ queue' \subseteq Pods
  BY <1>2, <1>5 DEF Retry, ReconcilerTyped
<1>6. CASE ApplyGet
  BY <1>2, <1>6 DEF ApplyGet, ReconcilerTyped, caches
<1>7. CASE ApplyCreate
  <2>1. pc = "create" /\ gone' = gone
    BY <1>7 DEF ApplyCreate
  <2>2. CASE agent[req.group] = None
    <3>1. /\ StoreAgent(req.group, [owner |-> req.owner, status |-> NoCounters])
          /\ pc' = "count" /\ UNCHANGED <<queue, req, overlay, listed>>
      BY <1>7, <2>2 DEF ApplyCreate
    <3>2. [owner |-> req.owner, status |-> NoCounters] \in Agents
      BY <1>0, <1>2, <2>1 DEF Agents
    <3> QED BY <1>1, <1>2, <2>1, <3>1, <3>2 DEF ReconcilerTyped
  <2>3. CASE agent[req.group] # None
    <3>1. Retry /\ UNCHANGED <<agent, podCache, agentCache, agentFresh>>
      BY <1>7, <2>3 DEF ApplyCreate, caches
    <3> QED BY <1>4, <1>5, <2>1, <3>1 DEF ReconcilerTyped
  <2> QED BY <2>2, <2>3
<1>8. CASE CountPods
  <2>1. /\ pc = "count"
        /\ UNCHANGED <<agent, gone, podCache, agentCache, agentFresh, queue>>
    BY <1>8 DEF CountPods, caches
  <2>2. \/ Return
        \/ /\ overlay' = Count(podCache, req.group) /\ pc' = "write"
           /\ UNCHANGED <<req, listed>>
        \/ /\ listed' = FALSE /\ pc' = "write" /\ UNCHANGED <<req, overlay>>
    BY <1>8 DEF CountPods
  <2>3. Count(podCache, req.group) \in Counters
    BY CountIsTyped
  <2> QED BY <1>2, <1>4, <2>1, <2>2, <2>3 DEF ReconcilerTyped
<1>9. CASE WriteStatus
  <2>1. pc = "write" /\ gone' = gone
    BY <1>9 DEF WriteStatus
  <2>2. CASE agentFresh[req.group] /\ agent[req.group] # None
    <3>1. /\ StoreAgent(req.group, [agent[req.group] EXCEPT !.status = overlay])
          /\ (Return /\ UNCHANGED queue) \/ Retry
      BY <1>9, <2>2 DEF WriteStatus
    <3>2. Stored(req.group, [agent[req.group] EXCEPT !.status = overlay])
      BY <1>2, <1>3, <2>1, <2>2, <3>1
    <3>3. Return /\ queue' \subseteq Pods
      BY <1>5, <2>1, <3>1 DEF ReconcilerTyped
    <3> HIDE DEF Stored
    <3> QED BY <1>1, <1>4, <2>1, <3>2, <3>3 DEF ReconcilerTyped
  <2>3. CASE ~(agentFresh[req.group] /\ agent[req.group] # None)
    <3>1. Retry /\ UNCHANGED <<agent, podCache, agentCache, agentFresh>>
      BY <1>9, <2>3 DEF WriteStatus, caches
    <3> QED BY <1>4, <1>5, <2>1, <3>1 DEF ReconcilerTyped
  <2> QED BY <2>2, <2>3
<1>10. CASE CallFails
  <2>1. pc # "idle" /\ gone' = gone /\ Retry
    BY <1>10 DEF CallFails
  <2>2. \/ UNCHANGED <<agent, podCache, agentCache, agentFresh>>
        \/ /\ agent[req.group] # None
           /\ StoreAgent(req.group, [agent[req.group] EXCEPT !.status = overlay])
        \/ StoreAgent(req.group, [owner |-> req.owner, status |-> NoCounters])
    BY <1>10 DEF CallFails, caches
  <2>3. \/ UNCHANGED <<agent, podCache, agentCache, agentFresh>>
        \/ \E a : Stored(req.group, a)
    <3>1. [owner |-> req.owner, status |-> NoCounters] \in Agents
      BY <1>0, <1>2, <2>1 DEF Agents
    <3> QED BY <1>2, <1>3, <2>1, <2>2, <3>1
  <2>4. Return /\ queue' \subseteq Pods
    BY <1>5, <2>1
  <2> HIDE DEF Stored
  <2> QED BY <1>1, <1>4, <2>1, <2>3, <2>4 DEF ReconcilerTyped
<1>11. CASE Crash
  <2>1. /\ Return /\ UNCHANGED <<agent, gone>>
        /\ podCache' = [p \in Pods |-> View(pods[p])]
        /\ agentCache' = [g \in Groups |-> agent[g] # None]
        /\ agentFresh' = [g \in Groups |-> TRUE]
        /\ queue' \subseteq Pods
    BY <1>11 DEF Crash
  <2>2. \A p \in Pods : podCache'[p] # None => podCache'[p].owner \in Owners \cup {None}
    BY <2>1, ViewIsTyped
  <2>3. agentCache' \in [Groups -> BOOLEAN] /\ agentFresh' \in [Groups -> BOOLEAN]
    BY <2>1
  <2> QED BY <1>4, <2>1, <2>2, <2>3 DEF ReconcilerTyped
<1>12. ASSUME NEW p \in Pods, StartReconcile(p) PROVE ReconcilerTyped'
  <2>1. /\ podCache[p] # None /\ queue' = queue \ {p}
        /\ UNCHANGED <<agent, gone, podCache, agentCache, agentFresh>>
    BY <1>12 DEF StartReconcile, caches
  <2>2. \/ UNCHANGED <<pc, req, overlay, listed>>
        \/ /\ pc' = "apply" /\ UNCHANGED <<overlay, listed>>
           /\ podCache[p].owner # None /\ podCache[p].group \in Groups
           /\ req' = [pod |-> p, group |-> podCache[p].group,
                      owner |-> podCache[p].owner]
    BY <1>12 DEF StartReconcile, worker
  <2>3. podCache[p].owner \in Owners \cup {None}
    BY <2>1 DEF ReconcilerTyped
  <2>4. CASE UNCHANGED <<pc, req, overlay, listed>>
    BY <2>1, <2>4 DEF ReconcilerTyped
  <2>5. CASE pc' = "apply"
    <3>1. req' \in Tasks /\ overlay' \in Counters /\ listed' \in BOOLEAN
      BY <2>2, <2>3, <2>5 DEF Tasks, ReconcilerTyped
    <3> QED BY <2>1, <2>5, <3>1 DEF ReconcilerTyped
  <2> QED BY <2>2, <2>4, <2>5
<1> QED BY <1>6, <1>7, <1>8, <1>9, <1>10, <1>11, <1>12 DEF Work

\* Every other step keeps it, too.
LEMMA StepKeepsReconcilerTyped ==
  ASSUME ReconcilerTyped, PodsTyped, [Next]_vars
  PROVE  ReconcilerTyped'
<1>1. CASE Work \/ CallFails \/ Crash \/ \E p \in Pods : StartReconcile(p)
  BY <1>1, WorkerKeepsTyped
<1>2. CASE UNCHANGED agentVars
  BY <1>2 DEF agentVars, caches, worker, ReconcilerTyped
<1>3. ASSUME NEW p \in Pods, SyncPod(p) \/ Resync(p) PROVE ReconcilerTyped'
  <2>1. /\ queue' \subseteq queue \cup {p}
        /\ podCache' = podCache \/ podCache' = [podCache EXCEPT ![p] = View(pods[p])]
        /\ UNCHANGED <<agent, gone, agentCache, agentFresh, pc, req, overlay, listed>>
    BY <1>3 DEF SyncPod, Resync, caches, worker
  <2>2. /\ DOMAIN podCache' = Pods
        /\ \A q \in Pods : podCache'[q] # None =>
             podCache'[q].owner \in Owners \cup {None}
    BY <2>1, ViewIsTyped DEF ReconcilerTyped
  <2> QED BY <2>1, <2>2 DEF ReconcilerTyped
<1>4. ASSUME NEW g \in Groups, SyncAgent(g) \/ CollectAgent(g) \/ DeleteAgent(g)
      PROVE  ReconcilerTyped'
  <2>1. UNCHANGED <<gone, podCache, queue, pc, req, overlay, listed>>
    BY <1>4 DEF SyncAgent, CollectAgent, DeleteAgent, StoreAgent, worker
  <2>2. /\ agent' = agent \/ agent' = [agent EXCEPT ![g] = None]
        /\ \E b \in BOOLEAN : agentFresh' = [agentFresh EXCEPT ![g] = b]
        /\ \/ agentCache' = agentCache
           \/ \E b \in BOOLEAN : agentCache' = [agentCache EXCEPT ![g] = b]
    BY <1>4 DEF SyncAgent, CollectAgent, DeleteAgent, StoreAgent
  <2>3. /\ agent' \in [Groups -> Agents \cup {None}]
        /\ agentFresh' \in [Groups -> BOOLEAN] /\ agentCache' \in [Groups -> BOOLEAN]
    BY <2>2 DEF ReconcilerTyped
  <2> QED BY <2>1, <2>3 DEF ReconcilerTyped
<1>5. ASSUME NEW o \in Owners, DeleteOwner(o) PROVE ReconcilerTyped'
  BY <1>5 DEF DeleteOwner, caches, worker, ReconcilerTyped
<1> QED BY <1>1, <1>2, <1>3, <1>4, <1>5 DEF Next, vars, CollectPod

\* The variables of injector and reconciler always have the values TypeOK names:
\* among them, the counters of a JavaAgent never exceed the number of pods, and it
\* belongs to a workload.
THEOREM TypeCorrect == Spec => []TypeOK
<1>1. Init => PodsTyped /\ UsersTyped /\ ReconcilerTyped
  <2> SUFFICES ASSUME Init PROVE PodsTyped /\ UsersTyped /\ ReconcilerTyped
    OBVIOUS
  <2>1. PodsTyped /\ UsersTyped
    BY InjectorAssumption DEF Init, InjectorInit, PodsTyped, UsersTyped
  <2>2. ReconcilerTyped
    BY CountIsTyped DEF Init, InjectorInit, ReconcilerTyped
  <2> QED BY <2>1, <2>2
<1>2. IndInv /\ PodsTyped /\ UsersTyped /\ ReconcilerTyped /\ [Next]_vars
        => PodsTyped' /\ UsersTyped' /\ ReconcilerTyped'
  BY StepKeepsPodsTyped, StepKeepsUsersTyped, StepKeepsReconcilerTyped
<1>3. ASSUME IndInv, PodsTyped, UsersTyped, ReconcilerTyped PROVE TypeOK
  <2>1. PodsTypeOK
    BY <1>3 DEF IndInv, PodsTyped, Typed, UsersTyped, PodsTypeOK
  <2> QED BY <1>3, <2>1 DEF ReconcilerTyped, Agents, Tasks, TypeOK
<1> QED BY <1>1, <1>2, <1>3, IndInvHolds, PTL DEF Spec

-----------------------------------------------------------------------------
(***************************************************************************)
(* The webhooks of the custom resources, which share nothing with the one  *)
(* of the pods.                                                            *)
(***************************************************************************)

\* The fields an object of a kind has.
Fields ==
  [BanyanDB  |-> {"kind", "version", "image", "counts"},
   OAPServer |-> {"kind", "version", "image", "als", "annotations"},
   UI        |-> {"kind", "ui", "version", "image", "service", "oap", "admin",
                  "zipkin"},
   Satellite |-> {"kind", "version", "image", "oap", "annotations"},
   Fetcher   |-> {"kind", "cluster"},
   Storage   |-> {"kind", "type", "connect", "image", "instances"},
   EventExporter |-> {"kind", "version", "image", "replicas"},
   JavaAgent |-> {"kind", "config", "service", "backend"},
   SwAgent   |-> {"kind", "selector", "matcher", "args"},
   OAPServerConfig |-> {"kind", "version"},
   OAPServerDynamicConfig |-> {"kind", "version", "selector"}]

\* An object with the fields of its kind, and a UI of a kind that exists.
Shaped(o) ==
  /\ o.kind \in DOMAIN Fields /\ DOMAIN o = Fields[o.kind]
  /\ o.kind = "UI" => o.ui \in {"horizon", "booster"}

\* Filling in what is missing leaves nothing missing that would be filled in.
LEMMA FilledIn ==
  /\ \A v, d : orElse(orElse(v, d), d) = orElse(v, d)
  /\ \A a, d : orAddress(orAddress(a, d), d) = orAddress(a, d)
  /\ \A i, r, t : orImage(orImage(i, r, t), r, t) = orImage(i, r, t)
BY Zenon DEF orElse, orAddress, orImage

\* Defaulting keeps the fields and the kind.
Kept(o, d) == DOMAIN d = DOMAIN o /\ d.kind = o.kind

\* The defaults of a BanyanDB, done again, change nothing.
LEMMA DefaultBanyanDB ==
  ASSUME NEW o, DOMAIN o = Fields["BanyanDB"], NEW d, d = Default_BanyanDB(o)
  PROVE  Kept(o, d) /\ Default_BanyanDB(d) = d
<1> DEFINE version(x) == orElse(x.version, "latest")
           image(x)   == orImage(x.image, "skywalking-banyandb", version(x))
           counts(x)  == IF x.counts = 0 THEN 1 ELSE x.counts
<1>1. \A x : Default_BanyanDB(x) =
        [x EXCEPT !.version = version(x),
                  !.image = image(x),
                  !.counts = counts(x)]
  BY DEF Default_BanyanDB
<1>2. /\ Kept(o, d)
      /\ d.version = version(o)
      /\ d.image = image(o)
      /\ d.counts = counts(o)
  BY <1>1 DEF Fields, Kept
<1>3. /\ version(d) = d.version
      /\ image(d) = d.image
      /\ counts(d) = d.counts
  BY <1>2, FilledIn
<1> HIDE DEF version, image, counts
<1> QED BY <1>1, <1>2, <1>3

\* The same for an EventExporter.
LEMMA DefaultEventExporter ==
  ASSUME NEW o, DOMAIN o = Fields["EventExporter"], NEW d, d = Default_EventExporter(o)
  PROVE  Kept(o, d) /\ Default_EventExporter(d) = d
<1> DEFINE version(x)  == orElse(x.version, "latest")
           image(x)    == orImage(x.image,
                                  "skywalking-kubernetes-event-exporter", version(x))
           replicas(x) == IF x.replicas = 0 THEN 1 ELSE x.replicas
<1>1. \A x : Default_EventExporter(x) =
        [x EXCEPT !.version = version(x),
                  !.image = image(x),
                  !.replicas = replicas(x)]
  BY DEF Default_EventExporter
<1>2. /\ Kept(o, d)
      /\ d.version = version(o)
      /\ d.image = image(o)
      /\ d.replicas = replicas(o)
  BY <1>1 DEF Fields, Kept
<1>3. /\ version(d) = d.version
      /\ image(d) = d.image
      /\ replicas(d) = d.replicas
  BY <1>2, FilledIn
<1> HIDE DEF version, image, replicas
<1> QED BY <1>1, <1>2, <1>3

\* The same for a UI, whose third address is made from the first.
LEMMA DefaultUI ==
  ASSUME NEW o, DOMAIN o = Fields["UI"], NEW d, d = Default_UI(o)
  PROVE  Kept(o, d) /\ d.ui = o.ui /\ d.version = o.version /\ Default_UI(d) = d
<1> DEFINE image(x)   == orImage(x.image, x.ui, x.version)
           service(x) == orElse(x.service, "ClusterIP")
           oap(x)     == orAddress(x.oap, <<"oap:12800">>)
           admin(x)   == IF x.ui = "horizon" THEN orAddress(x.admin, <<"oap:17128">>)
                         ELSE x.admin
           zipkin(x)  == IF x.ui = "horizon"
                           THEN orAddress(x.zipkin, Append(oap(x), "zipkin"))
                           ELSE x.zipkin
<1>1. \A x : Default_UI(x) =
        [x EXCEPT !.image = image(x),
                  !.service = service(x),
                  !.oap = oap(x),
                  !.admin = admin(x),
                  !.zipkin = zipkin(x)]
  BY DEF Default_UI
<1>2. /\ Kept(o, d) /\ d.ui = o.ui /\ d.version = o.version
      /\ d.image = image(o)
      /\ d.service = service(o)
      /\ d.oap = oap(o)
      /\ d.admin = admin(o)
      /\ d.zipkin = zipkin(o)
  BY <1>1 DEF Fields, Kept
<1>3. /\ image(d) = d.image
      /\ service(d) = d.service
      /\ oap(d) = d.oap
      /\ admin(d) = d.admin
      /\ zipkin(d) = d.zipkin
  BY <1>2, FilledIn
<1> HIDE DEF image, service, oap, admin, zipkin
<1> QED BY <1>1, <1>2, <1>3

\* The same for a Fetcher.
LEMMA DefaultFetcher ==
  ASSUME NEW o, DOMAIN o = Fields["Fetcher"], NEW d, d = Default_Fetcher(o)
  PROVE  Kept(o, d) /\ Default_Fetcher(d) = d
<1> DEFINE cluster(x) == orElse(x.cluster, "self")
<1>1. \A x : Default_Fetcher(x) =
        [x EXCEPT !.cluster = cluster(x)]
  BY DEF Default_Fetcher
<1>2. /\ Kept(o, d)
      /\ d.cluster = cluster(o)
  BY <1>1 DEF Fields, Kept
<1>3. /\ cluster(d) = d.cluster
  BY <1>2, FilledIn
<1> HIDE DEF cluster
<1> QED BY <1>1, <1>2, <1>3

\* The same for a SwAgent.
LEMMA DefaultSwAgent ==
  ASSUME NEW o, DOMAIN o = Fields["SwAgent"], NEW d, d = Default_SwAgent(o)
  PROVE  Kept(o, d) /\ Default_SwAgent(d) = d
<1> DEFINE selector(x) == IF x.selector = {} THEN {"swck-java-agent-injected"} ELSE x.selector
           matcher(x)  == orElse(x.matcher, ".*")
           args(x)     == IF x.args = <<>> THEN <<"-c", "mkdir">> ELSE x.args
<1>1. \A x : Default_SwAgent(x) =
        [x EXCEPT !.selector = selector(x),
                  !.matcher = matcher(x),
                  !.args = args(x)]
  BY DEF Default_SwAgent
<1>2. /\ Kept(o, d)
      /\ d.selector = selector(o)
      /\ d.matcher = matcher(o)
      /\ d.args = args(o)
  BY <1>1 DEF Fields, Kept
<1>3. /\ selector(d) = d.selector
      /\ matcher(d) = d.matcher
      /\ args(d) = d.args
  BY <1>2, FilledIn
<1> HIDE DEF selector, matcher, args
<1> QED BY <1>1, <1>2, <1>3

\* The same for an OAPServerConfig.
LEMMA DefaultOAPServerConfig ==
  ASSUME NEW o, DOMAIN o = Fields["OAPServerConfig"], NEW d, d = Default_OAPServerConfig(o)
  PROVE  Kept(o, d) /\ Default_OAPServerConfig(d) = d
<1> DEFINE version(x) == orElse(x.version, "9.5.0")
<1>1. \A x : Default_OAPServerConfig(x) =
        [x EXCEPT !.version = version(x)]
  BY DEF Default_OAPServerConfig
<1>2. /\ Kept(o, d)
      /\ d.version = version(o)
  BY <1>1 DEF Fields, Kept
<1>3. /\ version(d) = d.version
  BY <1>2, FilledIn
<1> HIDE DEF version
<1> QED BY <1>1, <1>2, <1>3

\* The same for an OAPServerDynamicConfig.
LEMMA DefaultOAPServerDynamicConfig ==
  ASSUME NEW o, DOMAIN o = Fields["OAPServerDynamicConfig"], NEW d, d = Default_OAPServerDynamicConfig(o)
  PROVE  Kept(o, d) /\ Default_OAPServerDynamicConfig(d) = d
<1> DEFINE version(x)  == orElse(x.version, "9.5.0")
           selector(x) == orElse(x.selector, "app=collector,release=skywalking")
<1>1. \A x : Default_OAPServerDynamicConfig(x) =
        [x EXCEPT !.version = version(x),
                  !.selector = selector(x)]
  BY DEF Default_OAPServerDynamicConfig
<1>2. /\ Kept(o, d)
      /\ d.version = version(o)
      /\ d.selector = selector(o)
  BY <1>1 DEF Fields, Kept
<1>3. /\ version(d) = d.version
      /\ selector(d) = d.selector
  BY <1>2, FilledIn
<1> HIDE DEF version, selector
<1> QED BY <1>1, <1>2, <1>3

\* The same for a Storage; one that is not installed here gets no defaults.
LEMMA DefaultStorage ==
  ASSUME NEW o, DOMAIN o = Fields["Storage"], NEW d, d = Default_Storage(o)
  PROVE  Kept(o, d) /\ Default_Storage(d) = d
<1> DEFINE image(x)     == orImage(x.image, "elasticsearch", "7.5.1")
           instances(x) == IF x.instances = 0 THEN 3 ELSE x.instances
<1>1. \A x : Default_Storage(x) =
        IF x.connect = "internal"
          THEN [x EXCEPT !.image = image(x), !.instances = instances(x)] ELSE x
  BY DEF Default_Storage
<1>2. CASE o.connect = "internal"
  <2>1. /\ Kept(o, d) /\ d.connect = o.connect
        /\ d.image = image(o) /\ d.instances = instances(o)
    BY <1>1, <1>2 DEF Fields, Kept
  <2>2. image(d) = d.image /\ instances(d) = d.instances
    BY <2>1, FilledIn
  <2> HIDE DEF image, instances
  <2> QED BY <1>1, <1>2, <2>1, <2>2
<1>3. CASE o.connect # "internal"
  BY <1>1, <1>3 DEF Kept
<1> QED BY <1>2, <1>3

\* The same for a JavaAgent, whose defaults come from its configuration.
LEMMA DefaultJavaAgent ==
  ASSUME NEW o, DOMAIN o = Fields["JavaAgent"], NEW d, d = Default_JavaAgent(o)
  PROVE  Kept(o, d) /\ Default_JavaAgent(d) = d
<1> DEFINE service(x) == orElse(x.service, x.config)
           backend(x) == orElse(x.backend, x.config)
<1>1. \A x : Default_JavaAgent(x) =
        IF x.config = "nil"
          THEN x ELSE [x EXCEPT !.service = service(x), !.backend = backend(x)]
  BY DEF Default_JavaAgent
<1>2. CASE o.config # "nil"
  <2>1. /\ Kept(o, d) /\ d.config = o.config
        /\ d.service = service(o) /\ d.backend = backend(o)
    BY <1>1, <1>2 DEF Fields, Kept
  <2>2. service(d) = d.service /\ backend(d) = d.backend
    BY <2>1, FilledIn
  <2> HIDE DEF service, backend
  <2> QED BY <1>1, <1>2, <2>1, <2>2
<1>3. CASE o.config = "nil"
  BY <1>1, <1>3 DEF Kept
<1> QED BY <1>2, <1>3

\* The annotation of istio, set again, is set; an object that is not denied has it.
LEMMA IstioAgain ==
  ASSUME NEW o, "annotations" \in DOMAIN o, "kind" \in DOMAIN o,
         NEW d, d = setIstio(o), d # Denied
  PROVE  /\ d = [o EXCEPT !.annotations = "istio"]
         /\ Kept(o, d) /\ d.annotations = "istio"
         /\ setIstio(d) = d
<1>1. \A x : setIstio(x) = IF x.annotations = "nil"
                               THEN Denied
                               ELSE [x EXCEPT !.annotations = "istio"]
  BY DEF setIstio
<1>2. d = [o EXCEPT !.annotations = "istio"]
  BY <1>1
<1>3. Kept(o, d) /\ d.annotations = "istio"
  BY <1>2 DEF Kept
<1>4. setIstio(d) = [d EXCEPT !.annotations = "istio"]
  BY <1>1, <1>3
<1> QED BY <1>2, <1>3, <1>4

\* The same for an OAPServer, unless the webhook fails on it.
LEMMA DefaultOAPServer ==
  ASSUME NEW o, DOMAIN o = Fields["OAPServer"],
         NEW d, d = Default_OAPServer(o), d # Denied
  PROVE  Kept(o, d) /\ Default_OAPServer(d) = d
<1> DEFINE image(x) == orImage(x.image, "skywalking-oap-server", x.version)
           with(x)  == [x EXCEPT !.image = image(x)]
<1>1. \A x : Default_OAPServer(x) = IF x.als THEN setIstio(with(x)) ELSE with(x)
  BY DEF Default_OAPServer
<1>2. PICK w : w = with(o)
  OBVIOUS
<1>3. /\ Kept(o, w) /\ w.version = o.version /\ w.image = image(o)
      /\ w.als = o.als /\ "annotations" \in DOMAIN w /\ "kind" \in DOMAIN w
  BY <1>2 DEF Fields, Kept
<1>4. CASE ~o.als
  <2>1. d = w
    BY <1>1, <1>2, <1>4
  <2>2. image(d) = d.image
    BY <1>3, <2>1, FilledIn
  <2> HIDE DEF image
  <2>3. with(d) = d
    BY <1>2, <2>1, <2>2
  <2> QED BY <1>1, <1>3, <1>4, <2>1, <2>3
<1>5. CASE o.als
  <2>1. d = setIstio(w)
    BY <1>1, <1>2, <1>5
  <2>2. /\ d = [w EXCEPT !.annotations = "istio"] /\ Kept(w, d)
        /\ setIstio(d) = d
    BY <1>3, <2>1, IstioAgain
  <2>3. d.version = o.version /\ d.image = image(o) /\ d.als
    <3> HIDE DEF image
    <3> QED BY <1>3, <1>5, <2>2 DEF Kept, Fields
  <2>4. image(d) = d.image
    BY <2>3, FilledIn
  <2> HIDE DEF image
  <2>5. with(d) = d
    BY <2>2, <2>4
  <2> QED BY <1>1, <1>3, <2>2, <2>3, <2>5 DEF Kept
<1> QED BY <1>4, <1>5

\* The same for a Satellite, unless the webhook fails on it.
LEMMA DefaultSatellite ==
  ASSUME NEW o, DOMAIN o = Fields["Satellite"],
         NEW d, d = Default_Satellite(o), d # Denied
  PROVE  Kept(o, d) /\ Default_Satellite(d) = d
<1> DEFINE image(x) == orImage(x.image, "skywalking-satellite", x.version)
           oap(x)   == orElse(x.oap, "self")
           with(x)  == [x EXCEPT !.image = image(x), !.oap = oap(x)]
<1>1. \A x : Default_Satellite(x) = setIstio(with(x))
  BY DEF Default_Satellite
<1>2. PICK w : w = with(o)
  OBVIOUS
<1>3. /\ Kept(o, w) /\ w.version = o.version /\ w.image = image(o)
      /\ w.oap = oap(o) /\ "annotations" \in DOMAIN w /\ "kind" \in DOMAIN w
  BY <1>2 DEF Fields, Kept
<1>4. d = setIstio(w)
  BY <1>1, <1>2
<1>5. /\ d = [w EXCEPT !.annotations = "istio"] /\ Kept(w, d) /\ setIstio(d) = d
  BY <1>3, <1>4, IstioAgain
<1>6. d.version = o.version /\ d.image = image(o) /\ d.oap = oap(o)
  <2> HIDE DEF image, oap
  <2> QED BY <1>3, <1>5 DEF Kept, Fields
<1>7. image(d) = d.image /\ oap(d) = d.oap
  BY <1>6, FilledIn
<1> HIDE DEF image, oap
<1>8. with(d) = d
  BY <1>5, <1>7
<1> QED BY <1>1, <1>3, <1>5, <1>8 DEF Kept

\* Defaulting an object of any kind leaves one that defaulting leaves alone.
LEMMA DefaultAgain ==
  ASSUME NEW o, Shaped(o), NEW d, d = Default(o), d # Denied
  PROVE  Shaped(d) /\ d.kind = o.kind /\ Default(d) = d
<1>1. o.kind \in DOMAIN Fields /\ DOMAIN o = Fields[o.kind]
  BY DEF Shaped
<1>2. CASE o.kind = "BanyanDB"
  <2>1. \A x : x.kind = "BanyanDB" => Default(x) = Default_BanyanDB(x)
    BY DEF Default
  <2>2. Kept(o, d) /\ Default_BanyanDB(d) = d
    BY <1>1, <1>2, <2>1, DefaultBanyanDB
  <2> QED BY <1>1, <1>2, <2>1, <2>2 DEF Shaped, Kept
<1>3. CASE o.kind = "OAPServer"
  <2>1. \A x : x.kind = "OAPServer" => Default(x) = Default_OAPServer(x)
    BY DEF Default
  <2>2. Kept(o, d) /\ Default_OAPServer(d) = d
    BY <1>1, <1>3, <2>1, DefaultOAPServer
  <2> QED BY <1>1, <1>3, <2>1, <2>2 DEF Shaped, Kept
<1>4. CASE o.kind = "UI"
  <2>1. \A x : x.kind = "UI" => Default(x) = Default_UI(x)
    BY DEF Default
  <2>2. Kept(o, d) /\ Default_UI(d) = d /\ d.ui = o.ui
    BY <1>1, <1>4, <2>1, DefaultUI
  <2> QED BY <1>1, <1>4, <2>1, <2>2 DEF Shaped, Kept
<1>5. CASE o.kind = "Satellite"
  <2>1. \A x : x.kind = "Satellite" => Default(x) = Default_Satellite(x)
    BY DEF Default
  <2>2. Kept(o, d) /\ Default_Satellite(d) = d
    BY <1>1, <1>5, <2>1, DefaultSatellite
  <2> QED BY <1>1, <1>5, <2>1, <2>2 DEF Shaped, Kept
<1>6. CASE o.kind = "Fetcher"
  <2>1. \A x : x.kind = "Fetcher" => Default(x) = Default_Fetcher(x)
    BY DEF Default
  <2>2. Kept(o, d) /\ Default_Fetcher(d) = d
    BY <1>1, <1>6, <2>1, DefaultFetcher
  <2> QED BY <1>1, <1>6, <2>1, <2>2 DEF Shaped, Kept
<1>7. CASE o.kind = "Storage"
  <2>1. \A x : x.kind = "Storage" => Default(x) = Default_Storage(x)
    BY DEF Default
  <2>2. Kept(o, d) /\ Default_Storage(d) = d
    BY <1>1, <1>7, <2>1, DefaultStorage
  <2> QED BY <1>1, <1>7, <2>1, <2>2 DEF Shaped, Kept
<1>8. CASE o.kind = "EventExporter"
  <2>1. \A x : x.kind = "EventExporter" => Default(x) = Default_EventExporter(x)
    BY DEF Default
  <2>2. Kept(o, d) /\ Default_EventExporter(d) = d
    BY <1>1, <1>8, <2>1, DefaultEventExporter
  <2> QED BY <1>1, <1>8, <2>1, <2>2 DEF Shaped, Kept
<1>9. CASE o.kind = "JavaAgent"
  <2>1. \A x : x.kind = "JavaAgent" => Default(x) = Default_JavaAgent(x)
    BY DEF Default
  <2>2. Kept(o, d) /\ Default_JavaAgent(d) = d
    BY <1>1, <1>9, <2>1, DefaultJavaAgent
  <2> QED BY <1>1, <1>9, <2>1, <2>2 DEF Shaped, Kept
<1>10. CASE o.kind = "SwAgent"
  <2>1. \A x : x.kind = "SwAgent" => Default(x) = Default_SwAgent(x)
    BY DEF Default
  <2>2. Kept(o, d) /\ Default_SwAgent(d) = d
    BY <1>1, <1>10, <2>1, DefaultSwAgent
  <2> QED BY <1>1, <1>10, <2>1, <2>2 DEF Shaped, Kept
<1>11. CASE o.kind = "OAPServerConfig"
  <2>1. \A x : x.kind = "OAPServerConfig" => Default(x) = Default_OAPServerConfig(x)
    BY DEF Default
  <2>2. Kept(o, d) /\ Default_OAPServerConfig(d) = d
    BY <1>1, <1>11, <2>1, DefaultOAPServerConfig
  <2> QED BY <1>1, <1>11, <2>1, <2>2 DEF Shaped, Kept
<1>12. CASE o.kind = "OAPServerDynamicConfig"
  <2>1. \A x : x.kind = "OAPServerDynamicConfig" => Default(x) = Default_OAPServerDynamicConfig(x)
    BY DEF Default
  <2>2. Kept(o, d) /\ Default_OAPServerDynamicConfig(d) = d
    BY <1>1, <1>12, <2>1, DefaultOAPServerDynamicConfig
  <2> QED BY <1>1, <1>12, <2>1, <2>2 DEF Shaped, Kept
<1> QED BY <1>1, <1>2, <1>3, <1>4, <1>5, <1>6, <1>7, <1>8, <1>9, <1>10, <1>11, <1>12 DEF Fields

\* What users submit has the fields of its kind.
LEMMA SubmissionShaped ==
  ASSUME NEW k \in Kinds, NEW o \in Submissions(k)
  PROVE  Shaped(o) /\ o.kind = k
<1>1. CASE k = "BanyanDB"
  BY <1>1 DEF Submissions, Shaped, Fields
<1>2. CASE k = "OAPServer"
  BY <1>2 DEF Submissions, Shaped, Fields
<1>3. CASE k = "UI"
  BY <1>3 DEF Submissions, Shaped, Fields
<1>4. CASE k = "Satellite"
  BY <1>4 DEF Submissions, Shaped, Fields
<1>5. CASE k = "Fetcher"
  BY <1>5 DEF Submissions, Shaped, Fields
<1>6. CASE k = "Storage"
  BY <1>6 DEF Submissions, Shaped, Fields
<1>7. CASE k = "EventExporter"
  BY <1>7 DEF Submissions, Shaped, Fields
<1>8. CASE k = "JavaAgent"
  BY <1>8 DEF Submissions, Shaped, Fields
<1>9. CASE k = "SwAgent"
  BY <1>9 DEF Submissions, Shaped, Fields
<1>10. CASE k = "OAPServerConfig"
  BY <1>10 DEF Submissions, Shaped, Fields
<1>11. CASE k = "OAPServerDynamicConfig"
  BY <1>11 DEF Submissions, Shaped, Fields
<1>12. k \in DOMAIN Fields
  BY DEF Submissions, Fields
<1> QED BY <1>1, <1>2, <1>3, <1>4, <1>5, <1>6, <1>7, <1>8, <1>9, <1>10, <1>11, <1>12 DEF Fields

\* A patched object has the fields of its kind.
LEMMA PatchShaped ==
  ASSUME NEW b, Shaped(b), NEW o, Shaped(o), b.kind = o.kind,
         NEW f \in DOMAIN o \ {"kind"},
         NEW n, n = [b EXCEPT ![f] = o[f]]
  PROVE  Shaped(n)
<1>1. /\ DOMAIN b = DOMAIN o /\ DOMAIN n = DOMAIN b /\ f # "kind"
      /\ \A g \in DOMAIN n : n[g] = IF g = f THEN o[g] ELSE b[g]
  BY DEF Shaped
<1>2. "kind" \in DOMAIN b /\ (b.kind = "UI" => "ui" \in DOMAIN b)
  BY DEF Shaped, Fields
<1>3. n.kind = b.kind
  BY <1>1, <1>2
<1>4. b.kind = "UI" => n.ui \in {"horizon", "booster"}
  BY <1>1, <1>2 DEF Shaped
<1> QED BY <1>1, <1>3, <1>4 DEF Shaped

\* The stored object, if there is one, has the fields of its kind and all the
\* defaults.
AdmissionInv == obj = Nothing \/ (Shaped(obj) /\ Default(obj) = obj)

\* The steps that store an object store a shaped one, defaulted.
LEMMA StoredIsDefaulted ==
  ASSUME AdmissionInv, AdmissionNext
  PROVE  AdmissionInv'
<1>1. CASE Delete
  BY <1>1 DEF Delete, AdmissionInv, Nothing
<1>2. ASSUME NEW k \in Kinds, NEW o \in Submissions(k),
             Create(o) \/ Replace(o)
      PROVE  AdmissionInv'
  <2>1. obj' = Default(o) /\ Default(o) # Denied
    BY <1>2 DEF Create, Replace, Store
  <2>2. Shaped(o)
    BY <1>2, SubmissionShaped
  <2> QED BY <2>1, <2>2, DefaultAgain DEF AdmissionInv
<1>3. ASSUME NEW k \in Kinds, NEW o \in Submissions(k), NEW f \in DOMAIN o,
             Patch(o, f)
      PROVE  AdmissionInv'
  <2>1. Shaped(o) /\ obj.kind = o.kind /\ f \in DOMAIN o \ {"kind"}
    BY <1>3, SubmissionShaped DEF Patch
  <2>2. Shaped(obj)
    <3>1. obj # Nothing
      BY <2>1 DEF Nothing, Shaped, Fields
    <3> QED BY <3>1 DEF AdmissionInv
  <2>3. PICK n : n = [obj EXCEPT ![f] = o[f]]
    OBVIOUS
  <2>4. obj' = Default(n) /\ Default(n) # Denied
    BY <1>3, <2>3 DEF Patch, Store
  <2>5. Shaped(n)
    BY <2>1, <2>2, <2>3, PatchShaped
  <2> QED BY <2>4, <2>5, DefaultAgain DEF AdmissionInv
<1> QED BY <1>1, <1>2, <1>3 DEF AdmissionNext

\* Every stored object always has its defaults.
LEMMA AdmissionInvHolds == AdmissionSpec => []AdmissionInv
<1>1. AdmissionInit => AdmissionInv
  BY DEF AdmissionInit, AdmissionInv
<1>2. ASSUME AdmissionInv, UNCHANGED obj
      PROVE  AdmissionInv'
  BY <1>2 DEF AdmissionInv, Nothing
<1>3. AdmissionInv /\ [AdmissionNext]_obj => AdmissionInv'
  BY <1>2, StoredIsDefaulted
<1> QED BY <1>1, <1>3, PTL DEF AdmissionSpec

\* Every object that the webhooks let in is a fixed point of its kind's Default.
THEOREM DefaultedAlways == AdmissionSpec => []Defaulted
<1>1. AdmissionInv => Defaulted
  BY DEF AdmissionInv, Defaulted
<1> QED BY <1>1, AdmissionInvHolds, PTL

\* A default is not empty.
LEMMA DefaultsAreSet ==
  /\ "self" # Unset /\ "ClusterIP" # Unset /\ "9.5.0" # Unset
  /\ "horizon" # Unset /\ "booster" # Unset
  /\ "skywalking-oap-server" # Unset /\ "skywalking-satellite" # Unset
  /\ "app=collector,release=skywalking" # Unset
BY Zenon DEF Unset

\* What is filled in from something that is not empty is not empty.
LEMMA FilledIsSet ==
  /\ \A v, d : d # Unset => orElse(v, d) # Unset
  /\ \A i, r, t : r # Unset => orImage(i, r, t) # NoImage
  /\ \A a, d : d # << >> => orAddress(a, d) # << >>
<1>1. \A v, d : d # Unset => orElse(v, d) # Unset
  BY DEF orElse
<1>2. \A i, r, t : r # Unset => orImage(i, r, t) # NoImage
  BY DEF orImage, NoImage, Image
<1>3. \A a, d : d # << >> => orAddress(a, d) # << >>
  BY DEF orAddress
<1> QED BY <1>1, <1>2, <1>3

\* An object that has its defaults is valid, where the defaults suffice.
LEMMA DefaultedIsValid ==
  ASSUME NEW o, Shaped(o), Default(o) = o,
         o.kind \notin {"BanyanDB", "Storage", "JavaAgent"}
  PROVE  validate(o)
<1>1. o.kind \in DOMAIN Fields /\ DOMAIN o = Fields[o.kind]
  BY DEF Shaped
<1>2. CASE o.kind = "OAPServer"
  <2>1. Default_OAPServer(o) = o
    BY <1>2 DEF Default
  <2>2. o # Denied
    BY <1>2 DEF Denied
  <2>3. o.image = orImage(o.image, "skywalking-oap-server", o.version)
    <3>1. PICK i : i = orImage(o.image, "skywalking-oap-server", o.version)
      OBVIOUS
    <3>2. PICK w : w = [o EXCEPT !.image = i]
      OBVIOUS
    <3>3. w.image = i /\ "annotations" \in DOMAIN w /\ "image" \in DOMAIN w
          /\ "kind" \in DOMAIN w
      BY <1>1, <1>2, <3>2 DEF Fields
    <3>4. o = IF o.als THEN setIstio(w) ELSE w
      BY <2>1, <3>1, <3>2 DEF Default_OAPServer
    <3>5. CASE o.als
      <4>1. o = [w EXCEPT !.annotations = "istio"]
        BY <2>2, <3>3, <3>4, <3>5, IstioAgain
      <4>2. o.image = i
        BY <3>3, <4>1
      <4> QED BY <3>1, <4>2
    <3>6. CASE ~o.als
      BY <3>1, <3>3, <3>4, <3>6
    <3> QED BY <3>5, <3>6
  <2>4. o.image # NoImage
    BY <2>3, FilledIsSet, DefaultsAreSet
  <2> QED BY <1>2, <2>4 DEF validate, validate_OAPServer
<1>3. CASE o.kind = "Satellite"
  <2>1. Default_Satellite(o) = o
    BY <1>3 DEF Default
  <2>2. o # Denied
    BY <1>3 DEF Denied
  <2>3. o.image = orImage(o.image, "skywalking-satellite", o.version)
    <3>1. PICK i, a : /\ i = orImage(o.image, "skywalking-satellite", o.version)
                      /\ a = orElse(o.oap, "self")
      OBVIOUS
    <3>2. PICK w : w = [o EXCEPT !.image = i, !.oap = a]
      OBVIOUS
    <3>3. w.image = i /\ "annotations" \in DOMAIN w /\ "image" \in DOMAIN w
          /\ "kind" \in DOMAIN w
      BY <1>1, <1>3, <3>2 DEF Fields
    <3>4. o = setIstio(w)
      BY <2>1, <3>1, <3>2 DEF Default_Satellite
    <3>5. o = [w EXCEPT !.annotations = "istio"]
      BY <2>2, <3>3, <3>4, IstioAgain
    <3>6. o.image = i
      BY <3>3, <3>5
    <3> QED BY <3>1, <3>6
  <2>4. o.image # NoImage
    BY <2>3, FilledIsSet, DefaultsAreSet
  <2> QED BY <1>3, <2>4 DEF validate, validate_Satellite
<1>4. CASE o.kind = "UI"
  <2>1. Default_UI(o) = o
    BY <1>4 DEF Default
  <2> DEFINE image   == orImage(o.image, o.ui, o.version)
             service == orElse(o.service, "ClusterIP")
             oap     == orAddress(o.oap, <<"oap:12800">>)
             admin   == IF o.ui = "horizon" THEN orAddress(o.admin, <<"oap:17128">>)
                                            ELSE o.admin
             zipkin  == IF o.ui = "horizon"
                          THEN orAddress(o.zipkin, Append(oap, "zipkin"))
                          ELSE o.zipkin
  <2>2. o = [o EXCEPT !.image = image, !.service = service, !.oap = oap,
                      !.admin = admin, !.zipkin = zipkin]
    BY <2>1 DEF Default_UI
  <2>3. o.ui \in {"horizon", "booster"} /\ o.ui # Unset
    BY <1>4, DefaultsAreSet DEF Shaped
  <2>4. image # NoImage /\ service # Unset /\ oap # << >>
    BY <2>3, FilledIsSet, DefaultsAreSet
  <2> HIDE DEF image, service, oap, admin, zipkin
  <2>5. o.image = image /\ o.service = service /\ o.oap = oap
    <3>1. PICK w : w = [o EXCEPT !.image = image, !.service = service, !.oap = oap,
                                 !.admin = admin, !.zipkin = zipkin]
      OBVIOUS
    <3>2. w.image = image /\ w.service = service /\ w.oap = oap
      BY <1>1, <1>4, <3>1 DEF Fields
    <3> QED BY <2>2, <3>1, <3>2
  <2> QED BY <1>4, <2>3, <2>4, <2>5 DEF validate, validate_UI
<1>5. CASE o.kind = "Fetcher"
  <2>1. PICK c : c = orElse(o.cluster, "self")
    OBVIOUS
  <2>2. PICK w : w = [o EXCEPT !.cluster = c]
    OBVIOUS
  <2>3. o = w
    BY <1>5, <2>1, <2>2 DEF Default, Default_Fetcher
  <2>4. w.cluster = c
    BY <1>1, <1>5, <2>2 DEF Fields
  <2>5. c # Unset
    BY <2>1, FilledIsSet, DefaultsAreSet
  <2> QED BY <1>5, <2>3, <2>4, <2>5 DEF validate, validate_Fetcher
<1>6. CASE o.kind = "OAPServerConfig"
  <2>1. PICK v : v = orElse(o.version, "9.5.0")
    OBVIOUS
  <2>2. PICK w : w = [o EXCEPT !.version = v]
    OBVIOUS
  <2>3. o = w
    BY <1>6, <2>1, <2>2 DEF Default, Default_OAPServerConfig
  <2>4. w.version = v
    BY <1>1, <1>6, <2>2 DEF Fields
  <2>5. v # Unset
    BY <2>1, FilledIsSet, DefaultsAreSet
  <2> QED BY <1>6, <2>3, <2>4, <2>5 DEF validate, validate_OAPServerConfig
<1>7. CASE o.kind = "OAPServerDynamicConfig"
  <2>1. PICK v, l : /\ v = orElse(o.version, "9.5.0")
                    /\ l = orElse(o.selector, "app=collector,release=skywalking")
    OBVIOUS
  <2>2. PICK w : w = [o EXCEPT !.version = v, !.selector = l]
    OBVIOUS
  <2>3. o = w
    BY <1>7, <2>1, <2>2 DEF Default, Default_OAPServerDynamicConfig
  <2>4. w.version = v /\ w.selector = l
    BY <1>1, <1>7, <2>2 DEF Fields
  <2>5. v # Unset /\ l # Unset
    BY <2>1, FilledIsSet, DefaultsAreSet
  <2> QED BY <1>7, <2>3, <2>4, <2>5 DEF validate, validate_OAPServerDynamicConfig
<1>8. CASE o.kind \in {"SwAgent", "EventExporter"}
  BY <1>8 DEF validate
<1> QED BY <1>1, <1>2, <1>3, <1>4, <1>5, <1>6, <1>7, <1>8 DEF Fields

\* Although ValidateUpdate looks at the old object, no object of a kind whose
\* defaults fill in all that its validation asks for is ever stored invalid.
THEOREM DefaultsAlwaysSuffice == AdmissionSpec => []DefaultsSuffice
<1>1. AdmissionInv => DefaultsSuffice
  BY DefaultedIsValid DEF AdmissionInv, DefaultsSuffice, Nothing
<1> QED BY <1>1, AdmissionInvHolds, PTL

=============================================================================
