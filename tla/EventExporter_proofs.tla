------------------------ MODULE EventExporter_proofs ------------------------
(***************************************************************************)
(* Proofs, for every set of configurations and any number of edits, that   *)
(* the Deployment mounts only what was created; and that, while nothing    *)
(* disturbs the changes, it mounts what exists, and each change leaves     *)
(* exactly one ConfigMap behind.                                           *)
(***************************************************************************)
EXTENDS EventExporter, SequenceTheorems, TLAPS

\* The worker has read a CR as long as it is busy; it is behind the Create of the
\* ConfigMap, or its CR's status names that ConfigMap, once it goes on.
WorkerInv ==
  /\ pc # "idle" => cr \in Versions
  /\ pc = "create" => cr.status # cr.config
  /\ pc \in {"get", "delete", "apply", "status"} => cr.config \in created

\* A status names only ConfigMaps that have been created.
StatusInv ==
  \A p \in 1 .. Len(log) : log[p].status # None => log[p].status \in created

-----------------------------------------------------------------------------
(* Executions that nothing disturbs *)

\* The version v of the CR has a configuration its status does not know.
Pending(v) == v.status # v.config

\* The ConfigMap that a status names.
Named(v) == {v.status} \ {None}

\* The cache is at most one version behind: behind an edit of the configuration, which
\* left the status alone, or behind a version with the same configuration.
LagInv ==
  /\ cache \in {Len(log), Len(log) - 1}
  /\ cache # Len(log) =>
       IF Pending(Latest)
         THEN /\ ~Pending(log[cache]) /\ log[cache].status = Latest.status
              /\ log[cache].report = Latest.report
         ELSE log[cache].config = Latest.config

\* No pass is replacing ConfigMaps: there is the one the status names.
Settled ==
  /\ cms = Named(Latest)
  /\ Pending(Latest) => cmCache = cms

\* A pass that replaces the ConfigMap has read the last version, and the ConfigMap
\* of the old configuration is known to the cache until it is deleted.
PassInv ==
  /\ (pc \in {"idle", "create"} \/ ~Pending(cr)) => Settled
  /\ pc = "create" =>
       /\ cr.config = Latest.config
       /\ Pending(Latest) => cr.status = Latest.status /\ cache = Len(log)
  /\ (pc \in {"get", "delete", "apply", "status"} /\ Pending(cr)) =>
       /\ cache = Len(log) /\ Pending(Latest)
       /\ cr.config = Latest.config /\ cr.status = Latest.status
       /\ pc \in {"apply", "status"} => cms = {cr.config}
  /\ pc \in {"get", "delete"} =>
       /\ Pending(cr)
       /\ cms = Named(cr) \cup {cr.config} /\ Named(cr) \subseteq cmCache
  /\ pc = "delete" => cr.status # None

\* A pass that replaces nothing renders the configuration the status names; and if
\* that is not the last one it has nothing new to report.
OldPassInv ==
  (pc \in {"apply", "status"} /\ ~Pending(cr)) =>
    /\ cr.status = Latest.status
    /\ Pending(Latest) => cr.report = Latest.report

\* The Deployment mounts what the status names, and until the rendering of a pending
\* configuration the pods do nothing that is not in the status.
DepInv ==
  /\ pc = "status" => dep # None
  /\ ~Pending(Latest) => dep # None /\ dep.configMap = Latest.config
  /\ (Pending(Latest) /\ dep # None) =>
       dep.configMap = IF pc = "status" /\ Pending(cr) THEN Latest.config ELSE Latest.status
  /\ (Pending(Latest) /\ ~(pc = "status" /\ Pending(cr))) => report \in {None, Latest.report}

QuietInv == LagInv /\ PassInv /\ OldPassInv /\ DepInv

UndisturbedInv == Undisturbed => QuietInv

BasicInv == TypeOK /\ WorkerInv /\ StatusInv /\ MountsWhatWasCreated

IndInv == BasicInv /\ UndisturbedInv

-----------------------------------------------------------------------------
(* The history of the CR *)

\* There is a last version, and one that the cache shows.
LEMMA LogFacts ==
  ASSUME TypeOK
  PROVE  /\ Len(log) \in Nat \ {0} /\ cache \in 1 .. Len(log)
         /\ Latest \in Versions /\ log[cache] \in Versions
         /\ \A v \in Versions : /\ v.config \in Configs /\ v.config # None
                                /\ v.status \in Configs \cup {None}
  <1>1. log \in Seq(Versions) /\ cache \in 1 .. Len(log) /\ Len(log) \in Nat
    BY DEF TypeOK
  <1>2. Len(log) \in 1 .. Len(log)
    BY <1>1
  <1>3. \A v \in Versions : /\ v.config \in Configs /\ v.config # None
                            /\ v.status \in Configs \cup {None}
    BY ConstantsAssumption DEF Versions
  <1>. QED
    BY <1>1, <1>2, <1>3, ElementOfSeq DEF Latest

\* A version that is stored comes behind the others and leaves them as they are.
LEMMA AppendFacts ==
  ASSUME TypeOK, NEW v \in Versions, log' = Append(log, v)
  PROVE  /\ log' \in Seq(Versions) /\ Len(log') = Len(log) + 1
         /\ \A p \in 1 .. Len(log) : log'[p] = log[p]
         /\ Latest' = v /\ log'[Len(log) + 1] = v
         /\ cache \in 1 .. Len(log')
  <1>1. log \in Seq(Versions) /\ Len(log) \in Nat /\ cache \in 1 .. Len(log)
    BY DEF TypeOK
  <1>2. log' \in Seq(Versions) /\ Len(log') = Len(log) + 1
    BY <1>1
  <1>3. \A p \in 1 .. Len(log) : log'[p] = log[p]
    BY <1>1
  <1>4. log'[Len(log) + 1] = v
    BY <1>1
  <1>. QED
    BY <1>1, <1>2, <1>3, <1>4 DEF Latest

\* The version the status update stores.
LEMMA StoreFacts ==
  ASSUME BasicInv, pc # "idle", StoreStatus
  PROVE  \E v \in Versions :
           /\ log' = Append(log, v) \/ (v = Latest /\ log' = log)
           /\ v.config = Latest.config /\ v.status = cr.config
  <1>. DEFINE v == [Latest EXCEPT !.status = cr.config, !.report = report]
  <1>1. Latest \in Versions /\ cr.config \in Configs /\ report \in Reports \cup {None}
    BY LogFacts DEF BasicInv, WorkerInv, TypeOK
  <1>2. v \in Versions /\ v.config = Latest.config /\ v.status = cr.config
    BY <1>1 DEF Versions
  <1>3. log' = Append(log, v) \/ (v = Latest /\ log' = log)
    BY DEF StoreStatus, configMapName
  <1>. QED
    BY <1>2, <1>3

\* The version an edit stores.
LEMMA EditFacts ==
  ASSUME TypeOK, NEW c \in Configs, NEW o \in Others
  PROVE  LET v == [Latest EXCEPT !.config = c, !.other = o]
         IN  /\ v \in Versions /\ v.config = c
             /\ v.status = Latest.status /\ v.report = Latest.report
  BY LogFacts DEF Versions

-----------------------------------------------------------------------------
(* Types, and ConfigMaps that were created *)

\* The end of a reconcile that leaves history, status and Deployment as they are.
LEMMA ReturnBasic ==
  ASSUME BasicInv, Return, UNCHANGED <<raced, report, log, dep, edits>>,
         cache' \in 1 .. Len(log), cms' \subseteq Configs, cmCache' \subseteq Configs,
         created \subseteq created', created' \subseteq Configs,
         faults' \in 0 .. MaxFaults
  PROVE  BasicInv'
  <1>1. TypeOK'
    BY DEF BasicInv, TypeOK, Return
  <1>2. WorkerInv'
    BY DEF WorkerInv, Return
  <1>3. StatusInv' /\ MountsWhatWasCreated'
    BY DEF BasicInv, StatusInv, MountsWhatWasCreated
  <1>. QED
    BY <1>1, <1>2, <1>3 DEF BasicInv

\* The status learns a name: it is the one of a ConfigMap that was created.
LEMMA StoreBasic ==
  ASSUME BasicInv, pc = "status", StoreStatus, Return,
         UNCHANGED <<raced, report, cache, cms, cmCache, created, dep, edits>>,
         faults' \in 0 .. MaxFaults
  PROVE  BasicInv'
  <1>. PICK v \in Versions : /\ log' = Append(log, v) \/ (v = Latest /\ log' = log)
                             /\ v.status = cr.config
    BY StoreFacts
  <1>0. CASE log' = log
    BY <1>0, ReturnBasic DEF BasicInv, TypeOK
  <1>. SUFFICES ASSUME log' = Append(log, v) PROVE BasicInv'
    BY <1>0
  <1>2. /\ log' \in Seq(Versions) /\ Len(log') = Len(log) + 1
        /\ \A p \in 1 .. Len(log) : log'[p] = log[p]
        /\ log'[Len(log) + 1] = v /\ cache \in 1 .. Len(log') /\ Len(log) \in Nat
    BY AppendFacts, LogFacts DEF BasicInv
  <1>3. TypeOK'
    BY <1>2 DEF BasicInv, TypeOK, Return
  <1>4. WorkerInv'
    BY DEF WorkerInv, Return
  <1>5. StatusInv'
    <2>1. cr.config \in created
      BY DEF BasicInv, WorkerInv
    <2>. QED
      BY <1>2, <2>1 DEF BasicInv, StatusInv
  <1>6. MountsWhatWasCreated'
    BY DEF BasicInv, MountsWhatWasCreated
  <1>. QED
    BY <1>3, <1>4, <1>5, <1>6 DEF BasicInv

\* Every step keeps the types, and mounts or remembers only what was created.
LEMMA StepBasic ==
  ASSUME BasicInv, Next
  PROVE  BasicInv'
  <1>. USE DEF configMapName
  <1>0. TypeOK /\ WorkerInv /\ StatusInv /\ MountsWhatWasCreated
    BY DEF BasicInv
  <1>1. ASSUME Fault PROVE faults' \in 0 .. MaxFaults
    BY <1>0, <1>1, ConstantsAssumption DEF Fault, TypeOK
  <1>2. pc # "idle" => cr.config \in Configs
    BY <1>0, LogFacts DEF WorkerInv
  <1>3. CASE StartReconcile
    <2>1. log[cache] \in Versions /\ log[cache].config # None /\ cache \in 1 .. Len(log)
      BY <1>0, LogFacts
    <2>2. TypeOK'
      BY <1>0, <1>3, <2>1 DEF StartReconcile, TypeOK
    <2>3. WorkerInv'
      BY <1>0, <1>3, <2>1 DEF StartReconcile, WorkerInv, StatusInv
    <2>. QED
      BY <1>0, <1>3, <2>2, <2>3
      DEF StartReconcile, BasicInv, StatusInv, MountsWhatWasCreated
  <1>4. CASE CreateConfigMap
    <2>1. CASE Return /\ UNCHANGED <<cms, created>>
      BY <1>0, <1>4, <2>1, ReturnBasic DEF CreateConfigMap, TypeOK
    <2>2. CASE /\ cms' = cms \cup {cr.config} /\ created' = created \cup {cr.config}
               /\ pc' = "get" /\ UNCHANGED cr
      <3>1. TypeOK'
        BY <1>0, <1>2, <1>4, <2>2 DEF CreateConfigMap, TypeOK
      <3>2. WorkerInv'
        BY <1>0, <1>4, <2>2 DEF CreateConfigMap, WorkerInv
      <3>. QED
        BY <1>0, <1>4, <2>2, <3>1, <3>2
        DEF CreateConfigMap, BasicInv, StatusInv, MountsWhatWasCreated
    <2>. QED
      BY <1>4, <2>1, <2>2 DEF CreateConfigMap
  <1>5. CASE GetOldConfigMap
    BY <1>0, <1>5
    DEF GetOldConfigMap, BasicInv, TypeOK, WorkerInv, StatusInv, MountsWhatWasCreated
  <1>6. CASE DeleteOldConfigMap
    <2>1. CASE Return /\ UNCHANGED cms
      BY <1>0, <1>6, <2>1, ReturnBasic DEF DeleteOldConfigMap, TypeOK
    <2>2. CASE cms' = cms \ {cr.status} /\ pc' = "apply" /\ UNCHANGED cr
      BY <1>0, <1>6, <2>2 DEF DeleteOldConfigMap, BasicInv, TypeOK, WorkerInv,
                              StatusInv, MountsWhatWasCreated
    <2>. QED
      BY <1>6, <2>1, <2>2 DEF DeleteOldConfigMap
  <1>7. CASE ApplyAll
    <2>1. dep' \in Deployments /\ dep'.configMap = cr.config /\ cr.config \in created
      BY <1>0, <1>2, <1>7 DEF ApplyAll, WorkerInv, Versions, Deployments
    <2>2. TypeOK'
      BY <1>0, <1>7, <2>1 DEF ApplyAll, TypeOK
    <2>3. WorkerInv' /\ StatusInv' /\ MountsWhatWasCreated'
      BY <1>0, <1>7, <2>1 DEF ApplyAll, WorkerInv, StatusInv, MountsWhatWasCreated
    <2>. QED
      BY <2>2, <2>3 DEF BasicInv
  <1>8. CASE CheckState
    <2>1. CASE StoreStatus
      BY <1>0, <1>8, <2>1, StoreBasic DEF CheckState, TypeOK
    <2>2. CASE UNCHANGED log
      BY <1>0, <1>8, <2>2, ReturnBasic DEF CheckState, TypeOK
    <2>. QED
      BY <1>8, <2>1, <2>2 DEF CheckState
  <1>9. CASE CallFails
    BY <1>0, <1>1, <1>9, ReturnBasic DEF CallFails, TypeOK
  <1>10. CASE ReplyLost
    <2>1. CASE pc = "create" /\ cms' = cms \cup {cr.config}
                 /\ created' = created \cup {cr.config} /\ UNCHANGED log
      BY <1>0, <1>1, <1>2, <1>10, <2>1, ReturnBasic DEF ReplyLost, TypeOK
    <2>2. CASE pc = "status" /\ StoreStatus /\ UNCHANGED <<cms, created>>
      BY <1>1, <1>10, <2>2, StoreBasic DEF ReplyLost
    <2>. QED
      BY <1>10, <2>1, <2>2 DEF ReplyLost
  <1>11. CASE Crash
    BY <1>0, <1>1, <1>11, ReturnBasic, LogFacts DEF Crash, TypeOK
  <1>12. CASE SyncCR
    <2>1. cache' \in 1 .. Len(log)
      BY <1>0, <1>12, LogFacts DEF SyncCR
    <2>2. TypeOK'
      BY <1>0, <1>12, <2>1 DEF SyncCR, TypeOK
    <2>. QED
      BY <1>0, <1>12, <2>2 DEF SyncCR, BasicInv, WorkerInv, StatusInv, MountsWhatWasCreated
  <1>13. CASE SyncConfigMaps
    BY <1>0, <1>13
    DEF SyncConfigMaps, BasicInv, TypeOK, WorkerInv, StatusInv, MountsWhatWasCreated
  <1>15. ASSUME Edit PROVE edits' \in 0 .. MaxEdits
    BY <1>0, <1>15, ConstantsAssumption DEF Edit, TypeOK
  <1>14. ASSUME NEW c \in Configs, NEW o \in Others, EditCR(c, o) PROVE BasicInv'
    <2>. DEFINE v == [Latest EXCEPT !.config = c, !.other = o]
    <2>1. v \in Versions /\ v.status = Latest.status /\ log' = Append(log, v)
      BY <1>0, <1>14, EditFacts DEF EditCR
    <2>. HIDE DEF v
    <2>2. /\ log' \in Seq(Versions) /\ Len(log') = Len(log) + 1
          /\ \A p \in 1 .. Len(log) : log'[p] = log[p]
          /\ log'[Len(log) + 1] = v /\ cache \in 1 .. Len(log') /\ Len(log) \in Nat \ {0}
      BY <1>0, <2>1, AppendFacts, LogFacts
    <2>3. raced' \subseteq {"users", "pods"} /\ edits' \in 0 .. MaxEdits
      BY <1>0, <1>14, <1>15 DEF EditCR, TypeOK
    <2>4. TypeOK'
      BY <1>0, <1>14, <2>2, <2>3 DEF EditCR, TypeOK
    <2>5. StatusInv'
      BY <1>0, <1>14, <2>1, <2>2 DEF EditCR, StatusInv, Latest
    <2>. QED
      BY <1>0, <1>14, <2>4, <2>5 DEF EditCR, BasicInv, WorkerInv, MountsWhatWasCreated
  <1>16. ASSUME NEW n \in Reports \cup {None}, PodsChange(n) PROVE BasicInv'
    <2>1. raced' \subseteq {"users", "pods"} /\ edits' \in 0 .. MaxEdits
      BY <1>0, <1>15, <1>16 DEF PodsChange, TypeOK
    <2>2. TypeOK'
      BY <1>0, <1>16, <2>1 DEF PodsChange, TypeOK
    <2>. QED
      BY <1>0, <1>16, <2>2 DEF PodsChange, BasicInv, WorkerInv, StatusInv, MountsWhatWasCreated
  <1>. QED
    BY <1>3, <1>4, <1>5, <1>6, <1>7, <1>8, <1>9, <1>10, <1>11, <1>12, <1>13, <1>14, <1>16
    DEF Next, Work

-----------------------------------------------------------------------------
(* Undisturbed changes *)

\* A fault ends the undisturbed part of an execution.
LEMMA FaultDisturbs ==
  ASSUME BasicInv, Fault
  PROVE  UndisturbedInv'
  BY DEF BasicInv, TypeOK, Fault, UndisturbedInv, Undisturbed

\* A pass that ends while the ConfigMaps are settled changes nothing.
LEMMA ReturnSettled ==
  ASSUME QuietInv, Settled, Return, ~(pc = "status" /\ Pending(cr)),
         UNCHANGED <<log, cache, cms, cmCache, dep, report>>
  PROVE  QuietInv'
  <1>1. LagInv' /\ Settled' /\ DepInv'
    BY DEF QuietInv, LagInv, Settled, DepInv, Latest, Named, Pending, Return
  <1>. QED
    BY <1>1 DEF QuietInv, PassInv, OldPassInv, Return

\* A step within a pass keeps what only others could disturb.
LEMMA PassFrame ==
  ASSUME QuietInv, UNCHANGED <<log, cache, dep, report>>,
         ~(pc = "status" /\ Pending(cr)), pc' # "status"
  PROVE  LagInv' /\ DepInv'
  BY DEF QuietInv, LagInv, DepInv, Latest, Pending

\* Each step of an undisturbed execution keeps the bookkeeping of ConfigMaps.
LEMMA StepUndisturbed ==
  ASSUME IndInv, Next
  PROVE  UndisturbedInv'
  <1>. USE DEF configMapName
  <1>0. BasicInv /\ TypeOK /\ WorkerInv
    BY DEF IndInv, BasicInv
  <1>1. CASE CallFails \/ ReplyLost \/ Crash
    BY <1>0, <1>1, FaultDisturbs DEF CallFails, ReplyLost, Crash
  <1>2. ASSUME UNCHANGED <<faults, raced>>, QuietInv => QuietInv'
        PROVE  UndisturbedInv'
    BY <1>2 DEF IndInv, UndisturbedInv, Undisturbed
  <1>4. /\ Len(log) \in Nat \ {0} /\ cache \in 1 .. Len(log)
        /\ Latest \in Versions /\ log[cache] \in Versions
        /\ \A v \in Versions : /\ v.config \in Configs /\ v.config # None
                               /\ v.status \in Configs \cup {None}
    BY <1>0, LogFacts
  <1>5. CASE StartReconcile
    <2>. SUFFICES ASSUME QuietInv PROVE QuietInv'
      BY <1>2, <1>5 DEF StartReconcile
    <2>0. LagInv /\ PassInv /\ DepInv
      BY DEF QuietInv
    <2>1. Settled' /\ UNCHANGED <<log, cache, cms, dep, report>> /\ cr' = log[cache]
      BY <1>5, <2>0 DEF StartReconcile, PassInv, Settled, Latest, Named, Pending
    <2>2. pc' \in {"create", "apply"} /\ (pc' = "apply" <=> ~Pending(log[cache]))
      BY <1>5 DEF StartReconcile, Pending
    <2>3. LagInv' /\ DepInv'
      BY <1>5, <2>1, <2>2, PassFrame DEF StartReconcile
    <2>4. Pending(log[cache]) => /\ log[cache].config = Latest.config
                                 /\ Pending(Latest) => cache = Len(log)
      BY <2>0 DEF LagInv, Latest
    <2>5. ~Pending(log[cache]) =>
            /\ log[cache].status = Latest.status
            /\ Pending(Latest) => log[cache].report = Latest.report
      BY <2>0 DEF LagInv, Latest, Pending
    <2>6. PassInv'
      BY <2>1, <2>2, <2>4 DEF PassInv, Latest, Pending
    <2>7. OldPassInv'
      BY <2>1, <2>2, <2>5 DEF OldPassInv, Latest, Pending
    <2>. QED
      BY <2>3, <2>6, <2>7 DEF QuietInv
  <1>6. CASE CreateConfigMap
    <2>. SUFFICES ASSUME QuietInv PROVE QuietInv'
      BY <1>2, <1>6 DEF CreateConfigMap
    <2>0. /\ Settled /\ Pending(cr) /\ cr.config = Latest.config /\ pc = "create"
          /\ Pending(Latest) => cr.status = Latest.status /\ cache = Len(log)
      BY <1>0, <1>6 DEF CreateConfigMap, QuietInv, PassInv, WorkerInv, Pending
    <2>1. CASE Return /\ UNCHANGED <<cms, created>>
      BY <1>6, <2>0, <2>1, ReturnSettled DEF CreateConfigMap
    <2>2. CASE /\ cr.config \notin cms /\ cms' = cms \cup {cr.config}
               /\ pc' = "get" /\ UNCHANGED cr
      <3>1. UNCHANGED <<log, cache, cmCache, dep, report>>
        BY <1>6 DEF CreateConfigMap
      <3>2. Pending(Latest)
        BY <1>4, <2>0, <2>2 DEF Settled, Named, Pending
      <3>3. cms' = Named(cr) \cup {cr.config} /\ Named(cr) \subseteq cmCache
        BY <2>0, <2>2, <3>2 DEF Settled, Named
      <3>4. LagInv' /\ DepInv'
        BY <2>0, <2>2, <3>1, PassFrame
      <3>5. PassInv'
        BY <2>0, <2>2, <3>1, <3>2, <3>3 DEF PassInv, Latest, Named, Pending
      <3>. QED
        BY <2>2, <3>4, <3>5 DEF QuietInv, OldPassInv
    <2>. QED
      BY <1>6, <2>1, <2>2 DEF CreateConfigMap
  <1>7. CASE GetOldConfigMap
    <2>. SUFFICES ASSUME QuietInv PROVE QuietInv'
      BY <1>2, <1>7 DEF GetOldConfigMap
    <2>0. /\ Pending(cr) /\ cache = Len(log) /\ Pending(Latest) /\ pc = "get"
          /\ cr.config = Latest.config /\ cr.status = Latest.status
          /\ cms = Named(cr) \cup {cr.config} /\ Named(cr) \subseteq cmCache
      BY <1>7 DEF GetOldConfigMap, QuietInv, PassInv
    <2>1. /\ UNCHANGED <<log, cache, cms, cmCache, cr, dep, report>>
          /\ pc' \in {"delete", "apply"}
      BY <1>7 DEF GetOldConfigMap
    <2>2. LagInv' /\ DepInv' /\ OldPassInv'
      BY <2>0, <2>1, PassFrame DEF OldPassInv, Pending
    <2>3. CASE pc' = "delete" /\ cr.status \in cmCache
      <3>1. cr.status # None
        BY <1>0, <2>3, ConstantsAssumption DEF TypeOK
      <3>. QED
        BY <2>0, <2>1, <2>2, <2>3, <3>1 DEF QuietInv, PassInv, Latest, Named, Pending
    <2>4. CASE pc' = "apply" /\ cr.status \notin cmCache
      <3>1. cms = {cr.config}
        BY <2>0, <2>4 DEF Named
      <3>. QED
        BY <2>0, <2>1, <2>2, <2>4, <3>1 DEF QuietInv, PassInv, Latest, Pending
    <2>. QED
      BY <1>7, <2>3, <2>4 DEF GetOldConfigMap
  <1>8. CASE DeleteOldConfigMap
    <2>. SUFFICES ASSUME QuietInv PROVE QuietInv'
      BY <1>2, <1>8 DEF DeleteOldConfigMap
    <2>0. /\ Pending(cr) /\ cache = Len(log) /\ Pending(Latest) /\ pc = "delete"
          /\ cr.config = Latest.config /\ cr.status = Latest.status
          /\ cms = Named(cr) \cup {cr.config} /\ cr.status # None
      BY <1>8 DEF DeleteOldConfigMap, QuietInv, PassInv
    <2>1. /\ cms' = {cr.config} /\ pc' = "apply"
          /\ UNCHANGED <<log, cache, cmCache, cr, dep, report>>
      BY <1>8, <2>0 DEF DeleteOldConfigMap, Named, Pending
    <2>2. LagInv' /\ DepInv' /\ OldPassInv'
      BY <2>0, <2>1, PassFrame DEF OldPassInv, Pending
    <2>. QED
      BY <2>0, <2>1, <2>2 DEF QuietInv, PassInv, Latest, Pending
  <1>9. CASE ApplyAll
    <2>. SUFFICES ASSUME QuietInv PROVE QuietInv'
      BY <1>2, <1>9 DEF ApplyAll
    <2>1. /\ pc = "apply" /\ pc' = "status" /\ UNCHANGED <<log, cache, cms, cmCache, cr, report>>
          /\ cr \in Versions /\ dep' \in Deployments /\ dep'.configMap = cr.config
      BY <1>0, <1>9 DEF ApplyAll, WorkerInv, Versions, Deployments
    <2>2. LagInv' /\ PassInv' /\ OldPassInv'
      BY <2>1 DEF QuietInv, LagInv, PassInv, OldPassInv, Latest, Named, Pending, Settled
    <2>3. dep' # None
      BY <2>1, NoneAssumption
    <2>4. CASE Pending(cr)
      <3>1. Pending(Latest) /\ cr.config = Latest.config
        BY <2>1, <2>4 DEF QuietInv, PassInv
      <3>2. DepInv'
        BY <2>1, <2>3, <2>4, <3>1 DEF DepInv, Latest, Pending
      <3>. QED
        BY <2>2, <3>2 DEF QuietInv
    <2>5. CASE ~Pending(cr)
      <3>1. cr.config = Latest.status
        BY <2>1, <2>5 DEF QuietInv, OldPassInv, Pending
      <3>2. DepInv'
        BY <2>1, <2>3, <2>5, <3>1 DEF QuietInv, DepInv, Latest, Pending
      <3>. QED
        BY <2>2, <3>2 DEF QuietInv
    <2>. QED
      BY <2>4, <2>5
  <1>10. CASE CheckState
    <2>. SUFFICES ASSUME QuietInv PROVE QuietInv'
      BY <1>2, <1>10 DEF CheckState
    <2>0. LagInv /\ PassInv /\ OldPassInv /\ DepInv
      BY DEF QuietInv
    <2>1. UNCHANGED <<cache, cms, cmCache, dep, report>> /\ Return /\ pc = "status"
      BY <1>10 DEF CheckState
    <2>2. ASSUME NEW v \in Versions, log' = Append(log, v), cache = Len(log),
                 v.config = Latest.config, v.status = Latest.config,
                 cms = {Latest.config}, dep # None, dep.configMap = Latest.config
          PROVE  QuietInv'
      <3>1. /\ Len(log') = Len(log) + 1 /\ Latest' = v
            /\ \A p \in 1 .. Len(log) : log'[p] = log[p]
        BY <1>0, <2>2, AppendFacts
      <3>2. log'[cache] = Latest /\ ~Pending(v)
        BY <1>4, <2>2, <3>1 DEF Latest, Pending
      <3>3. LagInv'
        BY <1>4, <2>1, <2>2, <3>1, <3>2 DEF LagInv
      <3>4. Settled'
        BY <1>4, <2>1, <2>2, <3>1, <3>2 DEF Settled, Named
      <3>5. DepInv'
        BY <2>1, <2>2, <3>1, <3>2 DEF DepInv
      <3>. QED
        BY <2>1, <3>3, <3>4, <3>5 DEF QuietInv, PassInv, OldPassInv, Return
    <2>3. CASE ~Pending(cr)
      <3>1. Settled /\ cr.status = Latest.status /\ cr.config = cr.status
        BY <2>0, <2>1, <2>3 DEF PassInv, OldPassInv, Pending
      <3>2. CASE UNCHANGED log
        BY <2>1, <2>3, <3>1, <3>2, ReturnSettled
      <3>3. CASE StatusDiffers /\ StoreStatus
        <4>1. ~Pending(Latest)
          BY <2>0, <2>1, <2>3, <3>3 DEF StatusDiffers, OldPassInv, DepInv, Pending
        <4>2. Latest.config # None /\ cms = {Latest.config}
          BY <1>4, <3>1, <4>1 DEF Settled, Named, Pending
        <4>3. dep # None /\ dep.configMap = Latest.config
          BY <2>0, <4>1 DEF DepInv
        <4>4. PICK v \in Versions : /\ log' = Append(log, v) \/ (v = Latest /\ log' = log)
                                    /\ v.config = Latest.config /\ v.status = cr.config
          BY <1>0, <2>1, <3>3, StoreFacts
        <4>5. cache = Len(log) /\ v.status = Latest.config
          BY <3>1, <3>3, <4>1, <4>4 DEF StoreStatus, Pending
        <4>. QED
          BY <2>2, <3>2, <4>2, <4>3, <4>4, <4>5
      <3>. QED
        BY <1>10, <3>2, <3>3 DEF CheckState
    <2>4. CASE Pending(cr)
      <3>1. /\ cache = Len(log) /\ cms = {cr.config} /\ cr.config = Latest.config
            /\ Pending(Latest) /\ StoreStatus
        BY <1>10, <2>0, <2>1, <2>4 DEF CheckState, StatusDiffers, PassInv, Pending
      <3>2. PICK v \in Versions : /\ log' = Append(log, v) \/ (v = Latest /\ log' = log)
                                  /\ v.config = Latest.config /\ v.status = cr.config
        BY <1>0, <2>1, <3>1, StoreFacts
      <3>3. log' = Append(log, v)
        BY <3>1, <3>2 DEF Pending
      <3>4. dep # None /\ dep.configMap = Latest.config
        BY <2>0, <2>1, <2>4, <3>1 DEF DepInv
      <3>. QED
        BY <2>2, <3>1, <3>2, <3>3, <3>4
    <2>. QED
      BY <2>3, <2>4
  <1>11. CASE SyncCR
    <2>. SUFFICES ASSUME QuietInv PROVE QuietInv'
      BY <1>2, <1>11 DEF SyncCR
    <2>1. UNCHANGED <<log, cms, cmCache, dep, report, pc, cr>>
      BY <1>11 DEF SyncCR
    <2>2. cache' = Len(log) /\ cache # Len(log)
      BY <1>4, <1>11 DEF SyncCR, QuietInv, LagInv
    <2>3. LagInv' /\ DepInv' /\ OldPassInv'
      BY <2>1, <2>2 DEF QuietInv, LagInv, DepInv, OldPassInv, Latest, Pending
    <2>. QED
      BY <2>1, <2>2, <2>3 DEF QuietInv, PassInv, Settled, Latest, Named, Pending
  <1>12. CASE SyncConfigMaps
    <2>. SUFFICES ASSUME QuietInv PROVE QuietInv'
      BY <1>2, <1>12 DEF SyncConfigMaps
    <2>1. UNCHANGED <<log, cache, cms, dep, report, pc, cr>> /\ cmCache' = cms
      BY <1>12 DEF SyncConfigMaps
    <2>2. LagInv' /\ DepInv' /\ OldPassInv'
      BY <2>1 DEF QuietInv, LagInv, DepInv, OldPassInv, Latest, Pending
    <2>. QED
      BY <2>1, <2>2 DEF QuietInv, PassInv, Settled, Latest, Named, Pending
  <1>13. ASSUME NEW c \in Configs, NEW o \in Others, EditCR(c, o) PROVE UndisturbedInv'
    <2>. SUFFICES ASSUME Undisturbed' PROVE QuietInv'
      BY DEF UndisturbedInv
    <2>1. Installed /\ Undisturbed
      BY <1>0, <1>13 DEF EditCR, Undisturbed, TypeOK
    <2>2. QuietInv
      BY <2>1 DEF IndInv, UndisturbedInv
    <2>. DEFINE v == [Latest EXCEPT !.config = c, !.other = o]
    <2>3. /\ v \in Versions /\ v.status = Latest.status /\ v.report = Latest.report
          /\ log' = Append(log, v)
      BY <1>0, <1>13, EditFacts DEF EditCR
    <2>. HIDE DEF v
    <2>4. /\ Len(log') = Len(log) + 1 /\ Latest' = v
          /\ \A p \in 1 .. Len(log) : log'[p] = log[p]
      BY <1>0, <2>3, AppendFacts
    <2>5. /\ pc = "idle" /\ cache = Len(log) /\ cmCache = cms
          /\ ~Pending(Latest) /\ cms = Named(Latest) /\ report \in {None, Latest.report}
      BY <2>1, <2>2 DEF Installed, QuietInv, PassInv, Settled, Pending
    <2>6. UNCHANGED <<cache, cms, cmCache, dep, report, pc>>
      BY <1>13 DEF EditCR
    <2>7. log'[cache] = Latest /\ cache = Len(log') - 1
      BY <1>4, <2>4, <2>5 DEF Latest
    <2>8. LagInv'
      BY <1>4, <2>3, <2>4, <2>5, <2>6, <2>7 DEF LagInv, Pending
    <2>9. Settled'
      BY <2>3, <2>4, <2>5, <2>6 DEF Settled, Named
    <2>10. DepInv'
      BY <2>2, <2>3, <2>4, <2>5, <2>6 DEF QuietInv, DepInv, Pending
    <2>. QED
      BY <2>5, <2>6, <2>8, <2>9, <2>10 DEF QuietInv, PassInv, OldPassInv
  <1>14. ASSUME NEW n \in Reports \cup {None}, PodsChange(n) PROVE UndisturbedInv'
    <2>. SUFFICES ASSUME Undisturbed' PROVE QuietInv'
      BY DEF UndisturbedInv
    <2>1. ~Unrendered /\ Undisturbed /\ dep # None
      BY <1>14 DEF PodsChange, Undisturbed
    <2>2. QuietInv
      BY <2>1 DEF IndInv, UndisturbedInv
    <2>3. UNCHANGED <<log, cache, cms, cmCache, dep, pc, cr>>
      BY <1>14 DEF PodsChange
    <2>4. LagInv' /\ PassInv' /\ OldPassInv'
      BY <2>2, <2>3 DEF QuietInv, LagInv, PassInv, OldPassInv, Settled, Latest, Named, Pending
    <2>5. Pending(Latest) => pc = "status" /\ Pending(cr)
      BY <2>1, <2>2 DEF QuietInv, DepInv, Unrendered, Pending
    <2>6. DepInv'
      BY <2>2, <2>3, <2>5 DEF QuietInv, DepInv, Latest, Pending
    <2>. QED
      BY <2>4, <2>6 DEF QuietInv
  <1>. QED
    BY <1>1, <1>5, <1>6, <1>7, <1>8, <1>9, <1>10, <1>11, <1>12, <1>13, <1>14
    DEF Next, Work

-----------------------------------------------------------------------------
(* The theorems *)

\* A CR has just been submitted and nothing is installed.
LEMMA InitInd == Init => IndInv
  <1>. SUFFICES ASSUME Init PROVE IndInv
    OBVIOUS
  <1>1. PICK v \in Versions : log = << v >> /\ v.status = None
    BY DEF Init, Versions
  <1>2. log \in Seq(Versions) /\ Len(log) = 1 /\ log[1] = v
    BY <1>1
  <1>3. edits \in 0 .. MaxEdits /\ faults \in 0 .. MaxFaults /\ cache \in 1 .. Len(log)
    BY <1>2, ConstantsAssumption DEF Init
  <1>4. TypeOK
    BY <1>2, <1>3 DEF Init, TypeOK
  <1>5. WorkerInv /\ StatusInv /\ MountsWhatWasCreated
    BY <1>1, <1>2 DEF Init, WorkerInv, StatusInv, MountsWhatWasCreated
  <1>6. LagInv /\ Settled
    BY <1>1, <1>2 DEF Init, LagInv, Settled, Latest, Named
  <1>7. PassInv /\ OldPassInv
    BY <1>6 DEF Init, PassInv, OldPassInv
  <1>8. Pending(Latest) /\ DepInv
    BY <1>1, <1>2, LogFacts, <1>4 DEF Init, DepInv, Latest, Pending
  <1>. QED
    BY <1>4, <1>5, <1>6, <1>7, <1>8 DEF IndInv, BasicInv, UndisturbedInv, QuietInv

\* The invariant holds in every state, the undisturbed part as long as it applies.
LEMMA IndInvariant == Spec => []IndInv
  <1>1. ASSUME IndInv, UNCHANGED vars PROVE IndInv'
    <2>1. BasicInv'
      BY <1>1 DEF IndInv, vars, BasicInv, TypeOK, WorkerInv, StatusInv,
                  MountsWhatWasCreated
    <2>2. UndisturbedInv'
      BY <1>1 DEF IndInv, vars, UndisturbedInv, Undisturbed, QuietInv, LagInv,
                  PassInv, OldPassInv, DepInv, Settled, Latest, Named, Pending
    <2>. QED
      BY <2>1, <2>2 DEF IndInv
  <1>2. IndInv /\ [Next]_vars => IndInv'
    BY <1>1, StepBasic, StepUndisturbed DEF IndInv
  <1>. QED
    BY InitInd, <1>2, PTL DEF Spec

\* Every variable keeps its type: the cache stays within the history, and no step
\* of a pass works on a CR that has not been read.
THEOREM TypeCorrect == Spec => []TypeOK
  <1>1. IndInv => TypeOK
    BY DEF IndInv, BasicInv
  <1>. QED
    BY IndInvariant, <1>1, PTL

\* The Deployment mounts only ConfigMaps that were created, through any number of
\* failed passes, lost replies, crashes and old copies of the CR; and while no call
\* fails, users wait and pods do not get in between, it mounts one that exists,
\* except between a pass's Delete and its next call.
THEOREM MountsWhatExists == Spec => []MountedExists
  <1>1. ASSUME IndInv PROVE MountedExists
    <2>. SUFFICES ASSUME Undisturbed, dep # None, pc # "apply" PROVE dep.configMap \in cms
      BY <1>1 DEF MountedExists, IndInv, BasicInv
    <2>1. LagInv /\ PassInv /\ DepInv /\ TypeOK
      BY <1>1 DEF IndInv, UndisturbedInv, QuietInv, BasicInv
    <2>2. dep.configMap # None
      BY <2>1, ConstantsAssumption DEF TypeOK, Deployments
    <2>3. CASE pc \in {"idle", "create"} \/ ~Pending(cr)
      <3>1. cms = Named(Latest) /\ dep.configMap = Latest.status
        BY <2>1, <2>3 DEF PassInv, Settled, DepInv, Pending
      <3>. QED
        BY <2>2, <3>1 DEF Named
    <2>4. CASE pc \in {"get", "delete"} /\ Pending(cr)
      <3>1. cms = Named(cr) \cup {cr.config} /\ cr.status = Latest.status /\ Pending(Latest)
        BY <2>1, <2>4 DEF PassInv
      <3>2. dep.configMap = Latest.status
        BY <2>1, <2>4, <3>1 DEF DepInv
      <3>. QED
        BY <2>2, <3>1, <3>2 DEF Named
    <2>5. CASE pc = "status" /\ Pending(cr)
      <3>1. cms = {cr.config} /\ cr.config = Latest.config /\ Pending(Latest)
        BY <2>1, <2>5 DEF PassInv
      <3>. QED
        BY <2>1, <2>5, <3>1 DEF DepInv
    <2>. QED
      BY <2>1, <2>3, <2>4, <2>5 DEF TypeOK
  <1>. QED
    BY IndInvariant, <1>1, PTL

\* If no call has failed and users have waited for each change to be installed, then
\* a change that is installed has left no ConfigMap but its own.
THEOREM NoConfigMapLeft == Spec => []OneConfigMapAtRest
  <1>1. ASSUME IndInv PROVE OneConfigMapAtRest
    <2>. SUFFICES ASSUME Undisturbed, Installed PROVE cms = {configMapName(Latest)}
      BY DEF OneConfigMapAtRest
    <2>1. cms = Named(Latest) /\ Latest.status = Latest.config
      BY <1>1 DEF IndInv, UndisturbedInv, QuietInv, PassInv, Settled, Installed,
                  configMapName
    <2>2. Latest.config # None
      BY <1>1, LogFacts DEF IndInv, BasicInv
    <2>. QED
      BY <2>1, <2>2 DEF Named, configMapName
  <1>. QED
    BY IndInvariant, <1>1, PTL
=============================================================================
