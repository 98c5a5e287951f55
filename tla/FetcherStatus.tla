---------------------------- MODULE FetcherStatus ----------------------------
(***************************************************************************)
(* The Fetcher reconciler and the one condition, Ready, in its status: True *)
(* "Reconciled all of resources" or False "Failed to apply resources".     *)
(* Whether ApplyAll can succeed is up to the cluster (module Application). *)
(* The CR's history is a sequence of conditions, one per version, of which *)
(* the informer cache has reached a position.  Names that StatusReport has *)
(* too begin with an f here, so that one module can extend both.           *)
(***************************************************************************)
EXTENDS Naturals, Sequences, SequencesExt

CONSTANTS
  MaxFetcherEdits,   \* bound: changes of the CR and of what ApplyAll meets
  MaxFetcherFaults   \* bound: failed calls, lost replies and crashes

ASSUME FetcherAssumption == MaxFetcherEdits \in Nat /\ MaxFetcherFaults \in Nat

VARIABLES
  fLog,       \* the condition in each version of the Fetcher, Absent for none
  fCache,     \* how far the informer cache has followed
  applicable, \* does ApplyAll succeed, as things are?
  verdicts,   \* auxiliary: the outcomes reconciles have had
  fPc, fSeen, fBase, fOverlay,  \* the worker: the condition it read, the copy it
                                \* writes back, the condition it writes
  fEdits, fFaults

fetcherWorker == <<fPc, fSeen, fBase, fOverlay>>
fetcherVars   == <<fLog, fCache, applicable, verdicts, fetcherWorker, fEdits, fFaults>>

\* The Fetcher has no condition yet.
Absent == ""

Conditions == {Absent, "True", "False"}

FetcherTypeOK ==
  /\ fLog \in Seq(Conditions) /\ fCache \in 1 .. Len(fLog)
  /\ applicable \in BOOLEAN /\ verdicts \subseteq {"True", "False"}
  /\ fPc \in {"idle", "apply", "refresh", "update"}
  /\ fSeen \in Conditions /\ fOverlay \in Conditions /\ fBase \in 0 .. Len(fLog)
  /\ fEdits \in 0 .. MaxFetcherEdits /\ fFaults \in 0 .. MaxFetcherFaults

FetcherFault  == fFaults < MaxFetcherFaults /\ fFaults' = fFaults + 1
FetcherReturn == fPc' = "idle" /\ fSeen' = Absent /\ fBase' = 0 /\ fOverlay' = Absent

\* Reconcile: Get the Fetcher.
FetcherReconcile ==
  /\ fPc = "idle"
  /\ fPc' = "apply" /\ fSeen' = fLog[fCache] /\ fBase' = fCache
  /\ UNCHANGED <<fLog, fCache, applicable, verdicts, fOverlay, fEdits, fFaults>>

\* Mutant: a Fetcher without a condition is taken for unchanged.
FetcherUpdateStatus_NoFirst(status) ==
  IF fSeen \in {Absent, status}
    THEN FetcherReturn
    ELSE /\ fOverlay' = fSeen
         /\ fPc' = "refresh" /\ UNCHANGED <<fSeen, fBase>>

\* Mutant: the first condition is always True.
FetcherUpdateStatus_Optimist(status) ==
  IF fSeen = status
    THEN FetcherReturn
    ELSE /\ fOverlay' = IF fSeen = Absent THEN "True" ELSE fSeen
         /\ fPc' = "refresh" /\ UNCHANGED <<fSeen, fBase>>

\* UpdateStatus: the first condition is appended.  A condition that is there is
\* copied out of the list, the copy is changed, and the list is written back.
FetcherUpdateStatus(status) ==
  IF fSeen = status
    THEN FetcherReturn
    ELSE /\ fOverlay' = IF fSeen = Absent THEN status ELSE fSeen
         /\ fPc' = "refresh" /\ UNCHANGED <<fSeen, fBase>>

\* ApplyAll, and UpdateStatus with its outcome.
ApplyAll ==
  /\ fPc = "apply"
  /\ \E ok \in BOOLEAN :
       /\ IF ok THEN applicable /\ UNCHANGED fFaults
                ELSE IF applicable THEN FetcherFault ELSE UNCHANGED fFaults
       /\ LET status == IF ok THEN "True" ELSE "False" IN
            verdicts' = verdicts \cup {status} /\ FetcherUpdateStatus(status)
  /\ UNCHANGED <<fLog, fCache, applicable, fEdits>>

\* updateStatus: Get the Fetcher again; an error is logged.
RefreshFetcher ==
  /\ fPc = "refresh"
  /\ \/ fBase' = fCache /\ UNCHANGED fFaults
     \/ FetcherFault /\ UNCHANGED fBase
  /\ fPc' = "update"
  /\ UNCHANGED <<fLog, fCache, applicable, verdicts, fSeen, fOverlay, fEdits>>

\* updateStatus: an update that fails or conflicts is logged, never retried, and
\* reported as a success.
WriteStatus ==
  /\ fPc = "update"
  /\ \/ /\ fBase = Len(fLog)
        /\ fLog' = IF Last(fLog) = fOverlay THEN fLog ELSE Append(fLog, fOverlay)
        /\ UNCHANGED fFaults
     \/ fBase # Len(fLog) /\ UNCHANGED <<fLog, fFaults>>
     \/ FetcherFault /\ UNCHANGED fLog
  /\ FetcherReturn
  /\ UNCHANGED <<fCache, applicable, verdicts, fEdits>>

FetcherCrash ==
  /\ FetcherFault /\ FetcherReturn
  /\ fCache' = Len(fLog)
  /\ UNCHANGED <<fLog, applicable, verdicts, fEdits>>

SyncFetcher ==
  /\ \E p \in fCache + 1 .. Len(fLog) : fCache' = p
  /\ UNCHANGED <<fLog, applicable, verdicts, fetcherWorker, fEdits, fFaults>>

FetcherEdit == fEdits < MaxFetcherEdits /\ fEdits' = fEdits + 1

\* A user changes the spec: a new version with the same status.
EditFetcher ==
  /\ FetcherEdit /\ fLog' = Append(fLog, Last(fLog))
  /\ UNCHANGED <<fCache, applicable, verdicts, fetcherWorker, fFaults>>

\* The manifests stop being applicable (a quota, a permission), or start to be.
ClusterChanges ==
  /\ FetcherEdit /\ applicable' = ~applicable
  /\ UNCHANGED <<fLog, fCache, verdicts, fetcherWorker, fFaults>>

FetcherInit ==
  /\ fLog = << Absent >> /\ fCache = 1
  /\ applicable \in BOOLEAN /\ verdicts = {}
  /\ fPc = "idle" /\ fSeen = Absent /\ fBase = 0 /\ fOverlay = Absent
  /\ fEdits = 0 /\ fFaults = 0

FetcherWork == FetcherReconcile \/ ApplyAll \/ RefreshFetcher \/ WriteStatus

FetcherNext == FetcherWork \/ FetcherCrash \/ SyncFetcher \/ EditFetcher \/ ClusterChanges

FetcherSpec == FetcherInit /\ [][FetcherNext]_fetcherVars

\* A reconcile is followed by another, after an error or after schedDuration; the
\* cache follows the API server.
FetcherFairSpec ==
  FetcherSpec /\ WF_fetcherVars(FetcherWork) /\ WF_fetcherVars(SyncFetcher)

----------------------------------------------------------------------------
(* Properties *)

\* The condition stored is the outcome some reconcile really had, although it is
\* written from a copy that may be read again, or not, in between.
ConditionWasTrue == Last(fLog) \in verdicts \cup {Absent}

\* A Fetcher gets a condition, although updateStatus hides every failed update.
Recorded == <>[](Last(fLog) # Absent)
=============================================================================
