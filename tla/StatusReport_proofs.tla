------------------------- MODULE StatusReport_proofs -------------------------
(***************************************************************************)
(* Proofs, for every set of reconcilers and conditions and any history of  *)
(* CR and Deployment, that no stored status mixes two observations; and of *)
(* the Fetcher, whose status has a module of its own, that its condition   *)
(* is an outcome that some reconcile had.                                  *)
(***************************************************************************)
EXTENDS StatusReport, FetcherStatus, SequenceTheorems, TLAPS

\* Replicas and conditions of the status o are those of nothing, or of one and the
\* same report of the Deployment.
Reports(o) ==
  \/ o.avail = 0 /\ o.conds = << >>
  \/ \E q \in 1 .. Len(dep) : o.avail = dep[q].avail /\ o.conds = dep[q].conds

\* What the worker has gathered is not mixed either, at any of its steps.
IndInv == TypeOK /\ NeverMixed /\ Reports(overlay)

-----------------------------------------------------------------------------
(* Histories *)

\* The empty status is a status that reports nothing.
LEMMA EmptyFacts == Empty \in Statuses /\ Empty.avail = 0 /\ Empty.conds = << >>
  <1>1. << >> \in CondLists /\ << >> \in IPLists
    BY DEF CondLists, IPLists, SeqOf
  <1>. QED
    BY <1>1, ConstantsAssumption DEF Empty, Statuses

\* There is a last version of the CR, a last report of the Deployment, and what the
\* caches show is among the others.
LEMMA HistoryFacts ==
  ASSUME TypeOK
  PROVE  /\ Len(log) \in Nat \ {0} /\ Len(dep) \in Nat \ {0}
         /\ \A p \in 1 .. Len(log) : log[p] \in Statuses
         /\ \A q \in 1 .. Len(dep) : dep[q] \in Deployments
         /\ log[cache] \in Statuses /\ dep[depCache] \in Deployments
         /\ Last(log) = log[Len(log)] /\ Last(log) \in Statuses
  <1>1. log \in Seq(Statuses) /\ cache \in 1 .. Len(log) /\ Len(log) \in Nat
    BY DEF TypeOK
  <1>2. dep \in Seq(Deployments) /\ depCache \in 1 .. Len(dep) /\ Len(dep) \in Nat
    BY DEF TypeOK
  <1>3. /\ \A p \in 1 .. Len(log) : log[p] \in Statuses
        /\ \A q \in 1 .. Len(dep) : dep[q] \in Deployments
    BY <1>1, <1>2, ElementOfSeq
  <1>4. Len(log) \in 1 .. Len(log)
    BY <1>1
  <1>. QED
    BY <1>1, <1>2, <1>3, <1>4 DEF Last

\* A stored status comes behind the versions there are.
LEMMA AppendLog ==
  ASSUME TypeOK, NEW o \in Statuses, log' = Append(log, o)
  PROVE  /\ log' \in Seq(Statuses) /\ Len(log') = Len(log) + 1
         /\ \A p \in 1 .. Len(log) : log'[p] = log[p]
         /\ log'[Len(log) + 1] = o
  BY DEF TypeOK

\* A report of the Deployment comes behind the reports there are.
LEMMA AppendDep ==
  ASSUME TypeOK, NEW d \in Deployments, dep' = Append(dep, d)
  PROVE  /\ dep' \in Seq(Deployments) /\ Len(dep') = Len(dep) + 1
         /\ \A q \in 1 .. Len(dep) : dep'[q] = dep[q]
  BY DEF TypeOK

\* What a Get of the Deployment adds is one report of its; a Service adds none.
LEMMA OverlayFacts ==
  ASSUME TypeOK, Reports(overlay)
  PROVE  /\ withDeployment(kind, dep[depCache], overlay) \in Statuses
         /\ Reports(withDeployment(kind, dep[depCache], overlay))
         /\ withService(kind, svcCache, overlay) \in Statuses
         /\ Reports(withService(kind, svcCache, overlay))
  <1>. DEFINE d == dep[depCache]
  <1>0. overlay \in Statuses /\ svcCache \in Services /\ depCache \in 1 .. Len(dep)
    BY DEF TypeOK
  <1>1. d \in Deployments
    BY HistoryFacts
  <1>2. LET o == [overlay EXCEPT !.avail = d.avail, !.conds = d.conds]
        IN  o \in Statuses /\ o.avail = d.avail /\ o.conds = d.conds
    BY <1>0, <1>1 DEF Statuses, Deployments
  <1>3. withDeployment(kind, d, overlay) \in Statuses
    BY <1>0, <1>2 DEF withDeployment
  <1>4. Reports(withDeployment(kind, d, overlay))
    BY <1>0, <1>2 DEF withDeployment, Reports
  <1>5. ASSUME NEW a \in {"", ".", "name.namespace"}, NEW i \in IPLists
        PROVE  LET o == [overlay EXCEPT !.address = a, !.ips = i]
               IN  o \in Statuses /\ o.avail = overlay.avail /\ o.conds = overlay.conds
    BY <1>0 DEF Statuses
  <1>6. \E a \in {"", ".", "name.namespace"}, i \in IPLists :
          withService(kind, svcCache, overlay)
            \in {overlay, [overlay EXCEPT !.address = a, !.ips = i]}
    <2>1. svcCache.ips \in IPLists /\ << >> \in IPLists
      BY <1>0 DEF Services, IPLists, SeqOf
    <2>. QED
      BY <2>1 DEF withService
  <1>7. /\ withService(kind, svcCache, overlay) \in Statuses
        /\ withService(kind, svcCache, overlay).avail = overlay.avail
        /\ withService(kind, svcCache, overlay).conds = overlay.conds
    <2>1. PICK a \in {"", ".", "name.namespace"}, i \in IPLists :
            withService(kind, svcCache, overlay)
              \in {overlay, [overlay EXCEPT !.address = a, !.ips = i]}
      BY <1>6
    <2>. DEFINE o == [overlay EXCEPT !.address = a, !.ips = i]
    <2>2. o \in Statuses /\ o.avail = overlay.avail /\ o.conds = overlay.conds
      BY <1>5
    <2>3. withService(kind, svcCache, overlay) \in {overlay, o}
      BY <2>1
    <2>. HIDE DEF o
    <2>. QED
      BY <1>0, <2>2, <2>3
  <1>8. Reports(withService(kind, svcCache, overlay))
    BY <1>7 DEF Reports
  <1>. QED
    BY <1>3, <1>4, <1>7, <1>8

-----------------------------------------------------------------------------
(* The inductive invariant *)

\* The end of a reconcile, which has stored a version o or nothing.
LEMMA ReturnInd ==
  ASSUME IndInv, Return, UNCHANGED <<kind, dep, svc, caches, edits>>,
         UNCHANGED log \/ StoreStatus(overlay), faults' \in 0 .. MaxFaults
  PROVE  IndInv'
  <1>0. TypeOK /\ NeverMixed /\ Reports(overlay)
    BY DEF IndInv
  <1>1. log' \in {log, Append(log, overlay)}
    BY DEF StoreStatus
  <1>2. /\ log' \in Seq(Statuses) /\ Len(log') \in {Len(log), Len(log) + 1}
        /\ \A p \in 1 .. Len(log') : log'[p] = IF p \in 1 .. Len(log) THEN log[p] ELSE overlay
    <2>1. CASE log' = log
      BY <1>0, <2>1 DEF TypeOK
    <2>2. CASE log' = Append(log, overlay)
      <3>1. overlay \in Statuses /\ Len(log) \in Nat
        BY <1>0, HistoryFacts DEF TypeOK
      <3>. QED
        BY <1>0, <2>2, <3>1, AppendLog
    <2>. QED
      BY <1>1, <2>1, <2>2
  <1>3. TypeOK'
    <2>1. cache \in 1 .. Len(log') /\ Len(log') \in Nat
      BY <1>0, <1>2, HistoryFacts DEF TypeOK
    <2>. QED
      BY <1>0, <1>2, <2>1, EmptyFacts DEF TypeOK, Return, caches
  <1>4. NeverMixed'
    BY <1>0, <1>2 DEF NeverMixed, Reports
  <1>5. Reports(overlay)'
    BY EmptyFacts DEF Return, Reports
  <1>. QED
    BY <1>3, <1>4, <1>5 DEF IndInv

\* A step within a reconcile: nothing is stored.
LEMMA WorkInd ==
  ASSUME IndInv, UNCHANGED <<kind, world, edits>>,
         cache' \in 1 .. Len(log), depCache' \in 1 .. Len(dep), svcCache' \in Services,
         pc' \in {"idle", "deployment", "service", "compare", "refresh", "update"},
         seen' \in Statuses, base' \in 0 .. Len(log), overlay' \in Statuses,
         Reports(overlay'), faults' \in 0 .. MaxFaults
  PROVE  IndInv'
  <1>1. TypeOK'
    BY DEF IndInv, TypeOK, world
  <1>2. NeverMixed' /\ Reports(overlay)'
    BY DEF IndInv, NeverMixed, Reports, world
  <1>. QED
    BY <1>1, <1>2 DEF IndInv

\* Nothing has been stored or gathered at first.
LEMMA InitInd == Init => IndInv
  <1>. SUFFICES ASSUME Init PROVE IndInv
    OBVIOUS
  <1>1. << >> \in CondLists /\ << >> \in IPLists
    BY DEF CondLists, IPLists, SeqOf
  <1>2. NoDeployment \in Deployments /\ NoService \in Services
    BY <1>1, ConstantsAssumption DEF NoDeployment, Deployments, NoService, Services
  <1>3. /\ log \in Seq(Statuses) /\ Len(log) = 1 /\ log[1] = Empty
        /\ dep \in Seq(Deployments) /\ Len(dep) = 1
    BY <1>2, EmptyFacts DEF Init
  <1>4. edits \in 0 .. MaxEdits /\ faults \in 0 .. MaxFaults /\ base \in 0 .. Len(log)
        /\ cache \in 1 .. Len(log) /\ depCache \in 1 .. Len(dep)
    BY <1>3, ConstantsAssumption DEF Init
  <1>5. TypeOK
    BY <1>2, <1>3, <1>4, EmptyFacts DEF Init, TypeOK
  <1>6. NeverMixed /\ Reports(overlay)
    BY <1>3, EmptyFacts DEF Init, NeverMixed, Reports
  <1>. QED
    BY <1>5, <1>6 DEF IndInv

\* Every step keeps the invariant.
LEMMA StepInd ==
  ASSUME IndInv, Next
  PROVE  IndInv'
  <1>0. TypeOK /\ NeverMixed /\ Reports(overlay)
    BY DEF IndInv
  <1>1. ASSUME Fault PROVE faults' \in 0 .. MaxFaults
    BY <1>0, <1>1, ConstantsAssumption DEF Fault, TypeOK
  <1>2. ASSUME Edit PROVE edits' \in 0 .. MaxEdits
    BY <1>0, <1>2, ConstantsAssumption DEF Edit, TypeOK
  <1>3. /\ cache \in 1 .. Len(log) /\ depCache \in 1 .. Len(dep) /\ svcCache \in Services
        /\ seen \in Statuses /\ base \in 0 .. Len(log) /\ overlay \in Statuses
        /\ Len(log) \in Nat \ {0} /\ Len(dep) \in Nat \ {0} /\ faults \in 0 .. MaxFaults
    BY <1>0, HistoryFacts DEF TypeOK
  <1>4. CASE StartReconcile
    <2>1. seen' \in Statuses /\ base' \in 0 .. Len(log)
      BY <1>0, <1>3, <1>4, HistoryFacts DEF StartReconcile
    <2>. QED
      BY <1>0, <1>3, <1>4, <2>1, WorkInd DEF StartReconcile, caches
  <1>5. CASE GetDeployment
    <2>1. overlay' \in Statuses /\ Reports(overlay')
      BY <1>0, <1>3, <1>5, OverlayFacts DEF GetDeployment
    <2>. QED
      BY <1>1, <1>3, <1>5, <2>1, WorkInd DEF GetDeployment, caches
  <1>6. CASE GetService
    <2>1. overlay' \in Statuses /\ Reports(overlay')
      BY <1>0, <1>3, <1>6, OverlayFacts DEF GetService
    <2>. QED
      BY <1>1, <1>3, <1>6, <2>1, WorkInd DEF GetService, caches
  <1>7. CASE Compare
    <2>1. CASE Return
      BY <1>3, <1>7, <2>1, ReturnInd DEF Compare, world
    <2>2. CASE pc' = "refresh" /\ UNCHANGED <<seen, base, overlay>>
      BY <1>0, <1>3, <1>7, <2>2, WorkInd DEF Compare, caches
    <2>. QED
      BY <1>7, <2>1, <2>2 DEF Compare
  <1>8. CASE RefreshCR
    <2>1. base' \in 0 .. Len(log)
      BY <1>3, <1>8 DEF RefreshCR
    <2>. QED
      BY <1>0, <1>1, <1>3, <1>8, <2>1, WorkInd DEF RefreshCR, caches
  <1>9. CASE UpdateStatus
    BY <1>3, <1>9, ReturnInd DEF UpdateStatus
  <1>10. CASE CallFails
    BY <1>1, <1>10, ReturnInd DEF CallFails, world
  <1>11. CASE ReplyLost
    BY <1>1, <1>11, ReturnInd DEF ReplyLost
  <1>12. CASE Crash
    <2>1. cache' \in 1 .. Len(log) /\ depCache' \in 1 .. Len(dep) /\ svcCache' \in Services
      BY <1>0, <1>3, <1>12 DEF Crash, TypeOK
    <2>2. /\ seen' \in Statuses /\ overlay' \in Statuses /\ Reports(overlay')
          /\ base' \in 0 .. Len(log) /\ pc' = "idle"
      BY <1>3, <1>12, EmptyFacts DEF Crash, Return, Reports
    <2>. QED
      BY <1>1, <1>12, <2>1, <2>2, WorkInd DEF Crash
  <1>13. CASE SyncCR \/ SyncDeployment \/ SyncService
    <2>1. cache' \in 1 .. Len(log) /\ depCache' \in 1 .. Len(dep) /\ svcCache' \in Services
      BY <1>0, <1>3, <1>13 DEF SyncCR, SyncDeployment, SyncService, TypeOK
    <2>2. UNCHANGED <<kind, world, worker, edits, faults>>
      BY <1>13 DEF SyncCR, SyncDeployment, SyncService
    <2>. QED
      BY <1>0, <1>3, <2>1, <2>2, WorkInd DEF worker, TypeOK
  <1>14. CASE EditCR
    <2>1. /\ Last(log) = log[Len(log)] /\ Last(log) \in Statuses
          /\ Len(log) \in 1 .. Len(log)
      BY <1>0, <1>3, HistoryFacts
    <2>2. /\ log' \in Seq(Statuses) /\ Len(log') = Len(log) + 1
          /\ \A p \in 1 .. Len(log) : log'[p] = log[p]
          /\ log'[Len(log) + 1] = log[Len(log)]
      BY <1>0, <1>14, <2>1, AppendLog DEF EditCR
    <2>3. cache \in 1 .. Len(log') /\ base \in 0 .. Len(log')
      BY <1>3, <2>2
    <2>4. TypeOK'
      BY <1>0, <1>2, <1>14, <2>2, <2>3 DEF EditCR, TypeOK, caches, worker
    <2>5. NeverMixed'
      BY <1>0, <1>3, <1>14, <2>1, <2>2 DEF EditCR, NeverMixed
    <2>6. Reports(overlay)'
      BY <1>0, <1>14 DEF EditCR, Reports, worker
    <2>. QED
      BY <2>4, <2>5, <2>6 DEF IndInv
  <1>15. ASSUME NEW d \in Deployments, DeploymentChanges(d) PROVE IndInv'
    <2>1. /\ dep' \in Seq(Deployments) /\ Len(dep') = Len(dep) + 1
          /\ \A q \in 1 .. Len(dep) : dep'[q] = dep[q]
      BY <1>0, <1>15, AppendDep DEF DeploymentChanges
    <2>2. depCache \in 1 .. Len(dep')
      BY <1>3, <2>1
    <2>3. TypeOK'
      BY <1>0, <1>2, <1>15, <2>1, <2>2 DEF DeploymentChanges, TypeOK, caches, worker
    <2>4. \A o : Reports(o) => Reports(o)'
      BY <1>3, <2>1 DEF Reports
    <2>5. NeverMixed' /\ Reports(overlay)'
      <3>1. NeverMixed = (\A p \in 1 .. Len(log) : Reports(log[p]))
        BY DEF NeverMixed, Reports
      <3>2. (\A p \in 1 .. Len(log) : Reports(log[p]))' => NeverMixed'
        BY DEF NeverMixed, Reports
      <3>. QED
        BY <1>0, <1>15, <2>4, <3>1, <3>2 DEF DeploymentChanges, worker
    <2>. QED
      BY <2>3, <2>5 DEF IndInv
  <1>16. ASSUME NEW s \in Services, ServiceChanges(s) PROVE IndInv'
    <2>1. TypeOK'
      BY <1>0, <1>2, <1>16 DEF ServiceChanges, TypeOK, caches, worker
    <2>2. NeverMixed' /\ Reports(overlay)'
      BY <1>0, <1>16 DEF ServiceChanges, NeverMixed, Reports, worker
    <2>. QED
      BY <2>1, <2>2 DEF IndInv
  <1>. QED
    BY <1>4, <1>5, <1>6, <1>7, <1>8, <1>9, <1>10, <1>11, <1>12, <1>13, <1>14, <1>15, <1>16
    DEF Next, Work

\* The invariant holds in every state.
LEMMA IndInvariant == Spec => []IndInv
  <1>1. ASSUME IndInv, UNCHANGED vars PROVE IndInv'
    BY <1>1 DEF vars, world, caches, worker, IndInv, TypeOK, NeverMixed, Reports
  <1>2. IndInv /\ [Next]_vars => IndInv'
    BY <1>1, StepInd
  <1>. QED
    BY InitInd, <1>2, PTL DEF Spec

-----------------------------------------------------------------------------
(* The theorems *)

\* Every variable keeps its type: whatever is read, fails or is written late, the
\* stored status is one that the CRD admits and the caches stay within the histories.
THEOREM TypeCorrect == Spec => []TypeOK
  <1>1. IndInv => TypeOK
    BY DEF IndInv
  <1>. QED
    BY IndInvariant, <1>1, PTL

\* No stored status of an OAPServer, UI, Satellite or BanyanDB mixes the replicas of
\* one report of the Deployment with the conditions of another.
THEOREM StatusNeverMixed == Spec => []NeverMixed
  <1>1. IndInv => NeverMixed
    BY DEF IndInv
  <1>. QED
    BY IndInvariant, <1>1, PTL

-----------------------------------------------------------------------------
(***************************************************************************)
(* The Fetcher's condition.  Its reconciler has a state of its own, which  *)
(* shares nothing with the one above.                                      *)
(***************************************************************************)

\* The conditions that are none, or that some reconcile has come to.
Outcomes == verdicts \cup {Absent}

\* Every version's condition is such an outcome, not the last one's only: a write
\* may copy any of those the cache has shown.  So is what the worker carries.
FetcherInv ==
  /\ fLog \in Seq(Outcomes) /\ Len(fLog) > 0 /\ fCache \in 1 .. Len(fLog)
  /\ fSeen \in Outcomes /\ fOverlay \in Outcomes

\* A history stays one when the outcomes become more.
LEMMA MoreOutcomes ==
  ASSUME NEW S, NEW T, S \subseteq T, NEW s \in Seq(S)
  PROVE  s \in Seq(T)
OBVIOUS

\* The last condition of a history.
LEMMA LastCondition == \A s : Last(s) = s[Len(s)]
BY DEF Last

\* The end of a reconcile.
LEMMA FetcherReturns ==
  ASSUME FetcherReturn
  PROVE  fSeen' = Absent /\ fOverlay' = Absent
BY DEF FetcherReturn

\* The invariant holds initially.
LEMMA FetcherInitially == FetcherInit => FetcherInv
BY DEF FetcherInit, FetcherInv, Outcomes

\* Every step keeps it.
LEMMA FetcherStep ==
  ASSUME FetcherInv, [FetcherNext]_fetcherVars
  PROVE  FetcherInv'
  <1>0. /\ fLog \in Seq(Outcomes) /\ Len(fLog) > 0 /\ fCache \in 1 .. Len(fLog)
        /\ fSeen \in Outcomes /\ fOverlay \in Outcomes /\ Absent \in Outcomes
        /\ Len(fLog) \in Nat /\ Last(fLog) \in Outcomes
    BY LastCondition DEF FetcherInv, Outcomes
  <1>1. CASE FetcherReconcile
    BY <1>0, <1>1 DEF FetcherReconcile, FetcherInv, Outcomes
  <1>2. CASE ApplyAll
    <2>1. PICK status \in {"True", "False"} :
            verdicts' = verdicts \cup {status} /\ FetcherUpdateStatus(status)
      BY <1>2 DEF ApplyAll
    <2>2. UNCHANGED <<fLog, fCache>>
      BY <1>2 DEF ApplyAll
    <2>3. Outcomes \subseteq Outcomes' /\ status \in Outcomes' /\ Absent \in Outcomes'
      BY <2>1 DEF Outcomes
    <2>4. fLog' \in Seq(Outcomes')
      BY <1>0, <2>2, <2>3, MoreOutcomes
    <2>5. fSeen' \in Outcomes' /\ fOverlay' \in Outcomes'
      BY <1>0, <2>1, <2>3, FetcherReturns DEF FetcherUpdateStatus
    <2>. QED
      BY <1>0, <2>2, <2>4, <2>5 DEF FetcherInv
  <1>3. CASE RefreshFetcher
    BY <1>0, <1>3 DEF RefreshFetcher, FetcherInv, Outcomes
  <1>4. CASE WriteStatus
    <2>1. /\ fLog' = fLog \/ fLog' = Append(fLog, fOverlay)
          /\ FetcherReturn /\ UNCHANGED <<fCache, verdicts>>
      BY <1>4 DEF WriteStatus
    <2>2. Outcomes' = Outcomes
      BY <2>1 DEF Outcomes
    <2>3. /\ fLog' \in Seq(Outcomes) /\ Len(fLog') \in Nat
          /\ Len(fLog') >= Len(fLog)
      BY <1>0, <2>1
    <2>. QED
      BY <1>0, <2>1, <2>2, <2>3, FetcherReturns DEF FetcherInv
  <1>5. CASE FetcherCrash
    <2>1. FetcherReturn /\ fCache' = Len(fLog) /\ UNCHANGED <<fLog, verdicts>>
      BY <1>5 DEF FetcherCrash
    <2>2. Outcomes' = Outcomes
      BY <2>1 DEF Outcomes
    <2>. QED
      BY <1>0, <2>1, <2>2, FetcherReturns DEF FetcherInv
  <1>6. CASE SyncFetcher
    <2>1. /\ \E p \in fCache + 1 .. Len(fLog) : fCache' = p
          /\ UNCHANGED <<fLog, verdicts, fSeen, fOverlay>>
      BY <1>6 DEF SyncFetcher, fetcherWorker
    <2>. QED
      BY <1>0, <2>1 DEF FetcherInv, Outcomes
  <1>7. CASE EditFetcher
    <2>1. fLog' = Append(fLog, Last(fLog)) /\ UNCHANGED <<fCache, verdicts, fSeen, fOverlay>>
      BY <1>7 DEF EditFetcher, fetcherWorker
    <2>2. Outcomes' = Outcomes
      BY <2>1 DEF Outcomes
    <2>3. fLog' \in Seq(Outcomes) /\ Len(fLog') = Len(fLog) + 1
      BY <1>0, <2>1
    <2>. QED
      BY <1>0, <2>1, <2>2, <2>3 DEF FetcherInv
  <1>8. CASE ClusterChanges \/ UNCHANGED fetcherVars
    BY <1>0, <1>8 DEF ClusterChanges, fetcherVars, fetcherWorker, FetcherInv, Outcomes
  <1>. QED
    BY <1>1, <1>2, <1>3, <1>4, <1>5, <1>6, <1>7, <1>8 DEF FetcherNext, FetcherWork

\* The condition a Fetcher has stored is one that some reconcile (ApplyAll and
\* UpdateStatus) really came to, however late, from whichever copy and over
\* however many failures it was written.
THEOREM ConditionWasAlwaysTrue == FetcherSpec => []ConditionWasTrue
  <1>1. FetcherInv /\ [FetcherNext]_fetcherVars => FetcherInv'
    BY FetcherStep
  <1>2. FetcherInv => ConditionWasTrue
    BY LastCondition DEF FetcherInv, ConditionWasTrue, Outcomes
  <1>. QED
    BY FetcherInitially, <1>1, <1>2, PTL DEF FetcherSpec

\* The variables of the Fetcher always have the values FetcherTypeOK names: the
\* cache and the copy the worker writes back are versions that exist.
THEOREM FetcherTypeCorrect == FetcherSpec => []FetcherTypeOK
  <1>1. FetcherInit => FetcherTypeOK
    BY FetcherAssumption DEF FetcherInit, FetcherTypeOK, Conditions
  <1>2. ASSUME FetcherTypeOK, [FetcherNext]_fetcherVars
        PROVE  FetcherTypeOK'
    <2>0. /\ fLog \in Seq(Conditions) /\ fCache \in 1 .. Len(fLog) /\ Len(fLog) \in Nat
          /\ fLog[fCache] \in Conditions /\ Last(fLog) \in Conditions
          /\ fSeen \in Conditions /\ fOverlay \in Conditions /\ Absent \in Conditions
          /\ fBase \in 0 .. Len(fLog)
      <3>1. fLog \in Seq(Conditions) /\ fCache \in 1 .. Len(fLog)
        BY <1>2 DEF FetcherTypeOK
      <3>2. Last(fLog) \in Conditions
        BY <3>1 DEF Last
      <3>. QED
        BY <1>2, <3>1, <3>2 DEF FetcherTypeOK, Conditions
    <2>1. /\ fEdits' \in 0 .. MaxFetcherEdits
          /\ fFaults' \in 0 .. MaxFetcherFaults
      <3>1. \/ fEdits' = fEdits
            \/ fEdits < MaxFetcherEdits /\ fEdits' = fEdits + 1
        BY <1>2 DEF FetcherNext, FetcherWork, FetcherReconcile, ApplyAll, RefreshFetcher,
             WriteStatus, FetcherCrash, SyncFetcher, EditFetcher, ClusterChanges,
             FetcherEdit, fetcherVars
      <3>2. \/ fFaults' = fFaults
            \/ fFaults < MaxFetcherFaults /\ fFaults' = fFaults + 1
        BY <1>2 DEF FetcherNext, FetcherWork, FetcherReconcile, ApplyAll, RefreshFetcher,
             WriteStatus, FetcherCrash, SyncFetcher, EditFetcher, ClusterChanges,
             FetcherFault, fetcherVars
      <3>. QED
        BY <1>2, <3>1, <3>2, FetcherAssumption DEF FetcherTypeOK
    <2>2. applicable' \in BOOLEAN
      <3>1. applicable' = applicable \/ applicable' = ~applicable
        BY <1>2 DEF FetcherNext, FetcherWork, FetcherReconcile, ApplyAll, RefreshFetcher,
             WriteStatus, FetcherCrash, SyncFetcher, EditFetcher, ClusterChanges,
             fetcherVars
      <3>. QED
        BY <1>2, <3>1 DEF FetcherTypeOK
    <2>3. verdicts' \subseteq {"True", "False"}
      <3>1. verdicts' \subseteq verdicts \cup {"True", "False"}
        BY <1>2 DEF FetcherNext, FetcherWork, FetcherReconcile, ApplyAll, RefreshFetcher,
             WriteStatus, FetcherCrash, SyncFetcher, EditFetcher, ClusterChanges,
             fetcherVars
      <3>. QED
        BY <1>2, <3>1 DEF FetcherTypeOK
    <2>4. /\ fLog' \in Seq(Conditions) /\ Len(fLog') \in Nat
          /\ Len(fLog) <= Len(fLog')
          /\ fCache' \in 1 .. Len(fLog')
      <3>1. \/ fLog' = fLog
            \/ \E c \in Conditions : fLog' = Append(fLog, c)
        BY <1>2, <2>0 DEF FetcherNext, FetcherWork, FetcherReconcile, ApplyAll,
             RefreshFetcher, WriteStatus, FetcherCrash, SyncFetcher, EditFetcher,
             ClusterChanges, fetcherVars
      <3>2. fLog' \in Seq(Conditions) /\ Len(fLog') \in Nat /\ Len(fLog) <= Len(fLog')
        BY <2>0, <3>1
      <3>3. fCache' \in 1 .. Len(fLog)
        BY <1>2, <2>0 DEF FetcherNext, FetcherWork, FetcherReconcile, ApplyAll,
             RefreshFetcher, WriteStatus, FetcherCrash, SyncFetcher, EditFetcher,
             ClusterChanges, fetcherVars
      <3>. QED
        BY <2>0, <3>2, <3>3
    <2>5. /\ fPc' \in {"idle", "apply", "refresh", "update"}
          /\ fSeen' \in Conditions /\ fOverlay' \in Conditions
          /\ fBase' \in 0 .. Len(fLog)
      <3>1. CASE FetcherReturn
        BY <2>0, <3>1 DEF FetcherReturn
      <3>2. CASE FetcherReconcile \/ RefreshFetcher
        BY <1>2, <2>0, <3>2 DEF FetcherReconcile, RefreshFetcher, FetcherTypeOK
      <3>3. CASE ApplyAll /\ ~FetcherReturn
        <4>1. PICK status \in {"True", "False"} : FetcherUpdateStatus(status)
          BY <3>3 DEF ApplyAll
        <4>2. status \in Conditions
          BY DEF Conditions
        <4>. QED
          BY <2>0, <3>3, <4>1, <4>2 DEF FetcherUpdateStatus
      <3>4. CASE UNCHANGED fetcherWorker
        BY <1>2, <2>0, <3>4 DEF fetcherWorker, FetcherTypeOK
      <3>. QED
        BY <1>2, <3>1, <3>2, <3>3, <3>4 DEF FetcherNext, FetcherWork, WriteStatus,
           FetcherCrash, SyncFetcher, EditFetcher, ClusterChanges, fetcherVars
    <2>6. fBase' \in 0 .. Len(fLog')
      BY <2>0, <2>4, <2>5
    <2>. QED
      BY <2>1, <2>2, <2>3, <2>4, <2>5, <2>6 DEF FetcherTypeOK
  <1>. QED
    BY <1>1, <1>2, PTL DEF FetcherSpec
=============================================================================
