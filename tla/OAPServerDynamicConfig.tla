----------------------- MODULE OAPServerDynamicConfig -----------------------
(***************************************************************************)
(* The OAPServerDynamicConfig reconciler.  Each CR holds some of the       *)
(* dynamic configurations and is installed as a ConfigMap of its own name, *)
(* which the OAP servers find by its labels.  A CR that defines a name     *)
(* another CR defines too is refused, and so is the other.  A ConfigMap    *)
(* that is to be changed is deleted and created again.                     *)
(*                                                                         *)
(* The CRs and the OAPServers are as the informer cache shows them: a      *)
(* cache that lags is an edit that comes later.  What else the API server  *)
(* may know of a CR matters to the status update only, which is refused    *)
(* unless the cached copy is the last version ("fresh").  The times in the *)
(* status are left out but for one effect: they make every status update a *)
(* new version of the CR.                                                  *)
(*                                                                         *)
(* Reads come from the cache: consecutive ones are one step, and only      *)
(* Delete, Create and the status update are calls of the API server.       *)
(***************************************************************************)
EXTENDS Naturals

CONSTANTS
  CRs,          \* names of OAPServerDynamicConfigs in one namespace
  Contains,     \* pairs of names of which the first contains the second
  Datas,        \* what spec.data may be; its MD5 is taken to be itself
  Names,        \* Names[d]: the names of the configurations in d
  Labels,       \* the labels a selector may ask for, as "key=value"
  Selectors,    \* what spec.labelSelector may be: the labels it lists, and
                \* whether it parses and lists labels at all
  Versions,     \* versions of OAP servers
  Submissions,  \* the specs users submit
  None,
  MaxServers,   \* bound: OAPServers of a version, and how many there are at first
  MaxEdits,     \* bound: steps taken by users
  MaxFaults     \* bound: failed calls, lost replies and crashes

ASSUME ConstantsAssumption ==
  /\ MaxServers \in Nat /\ MaxEdits \in Nat /\ MaxFaults \in Nat
  /\ Contains \subseteq CRs \X CRs /\ \A c \in CRs : <<c, c>> \in Contains
  /\ Submissions \subseteq [data : Datas, selector : Selectors, version : Versions]
  /\ Selectors \subseteq [labels : SUBSET Labels, valid : BOOLEAN]

Specs      == [data : Datas, selector : Selectors, version : Versions, uid : Nat]
ConfigMaps == [data : Datas, labels : SUBSET Labels, version : Versions, uid : Nat]

ASSUME NoneAssumption == None \notin Specs \cup ConfigMaps \cup CRs

VARIABLES
  spec,        \* spec[c]: the CR, or None
  state,       \* state[c]: status.state of the CR
  fresh,       \* fresh[c]: is the cached CR the last version?
  oaps,        \* oaps[v]: how many OAPServers of version v there are
  cms,         \* cms[c]: the ConfigMap of name c, or None
  cmCache,     \* the ConfigMaps the informer cache shows
  touched,     \* auxiliary: the CRs users edited during the current pass
  pc, req, want, left,  \* the worker: the CR it handles, as it was read, and
                        \* the OAPServers still to do
  edits, faults

worker == <<pc, req, want, left>>
vars   == <<spec, state, fresh, oaps, cms, cmCache, touched, worker, edits, faults>>

TypeOK ==
  /\ spec \in [CRs -> Specs \cup {None}]
  /\ state \in [CRs -> {"", "Running", "Stopped"}]
  /\ fresh \in [CRs -> BOOLEAN]
  /\ oaps \in [Versions -> 0 .. MaxServers]
  /\ cms \in [CRs -> ConfigMaps \cup {None}]
  /\ cmCache \in [CRs -> ConfigMaps \cup {None}]
  /\ touched \subseteq CRs
  /\ pc \in {"idle", "check", "delete", "create", "state"}
  /\ req \in CRs \cup {None} /\ want \in Specs \cup {None}
  /\ left \in 0 .. MaxServers
  /\ edits \in 0 .. MaxEdits /\ faults \in 0 .. MaxFaults

----------------------------------------------------------------------------
(* What UpdateDynamicConfig and checkState compute *)

\* Mutant: only CRs of the same version are looked at.
Collides_Version(c, s) ==
  \E d \in CRs \ {c} : /\ spec[d] # None /\ spec[d].version = s.version
                       /\ Names[spec[d].data] \cap Names[s.data] # {}

\* exsitedConfiguration: another CR, of whatever version, defines one of the names.
Collides(c, s) ==
  \E d \in CRs \ {c} : spec[d] # None /\ Names[spec[d].data] \cap Names[s.data] # {}

\* The CR cannot be installed, whatever the ConfigMap is.
Refused(c, s) == Collides(c, s) \/ ~s.selector.valid

\* Mutant: the selector is not looked at.
Unchanged_Data(s, m) == m.data = s.data

\* The ConfigMap found is the one wanted: its label md5, and the selector.  The
\* version is not compared, and more labels than the selector asks for do no harm.
Unchanged(s, m) == m.data = s.data /\ s.selector.labels \subseteq m.labels

\* The ConfigMap that is created.
Rendered(s) ==
  [data |-> s.data, labels |-> s.selector.labels, version |-> s.version, uid |-> s.uid]

\* checkState: a ConfigMap of the version whose name contains the CR's is enough.
stateOf(c, s, maps) ==
  IF \E d \in CRs : /\ <<d, c>> \in Contains
                    /\ maps[d] # None /\ maps[d].version = s.version
    THEN "Running" ELSE "Stopped"

----------------------------------------------------------------------------
(* The worker *)

Fault == faults < MaxFaults /\ faults' = faults + 1

Return ==
  /\ pc' = "idle" /\ req' = None /\ want' = None /\ left' = 0
  /\ touched' = {}

\* Reconcile: Get the CR, List the OAPServers of its version.
StartReconcile(c) ==
  /\ pc = "idle" /\ spec[c] # None
  /\ req' = c /\ want' = spec[c] /\ left' = oaps[spec[c].version]
  /\ pc' = IF oaps[spec[c].version] = 0 THEN "state" ELSE "check"
  /\ UNCHANGED <<spec, state, fresh, oaps, cms, cmCache, touched, edits, faults>>

\* The loop of Reconcile: the next OAPServer, for which the same is done once
\* more, or checkState.
NextServer ==
  /\ left' = left - 1
  /\ pc' = IF left = 1 THEN "state" ELSE "check"
  /\ UNCHANGED <<touched, req, want>>

\* UpdateDynamicConfig: List the CRs, where a collision, or a selector that is
\* none, is an error, behind which the status is not written either; Get the
\* ConfigMap and compare.
CheckConfigMap ==
  /\ pc = "check"
  /\ \/ Refused(req, want) /\ Return
     \/ /\ ~Refused(req, want) /\ cmCache[req] = None
        /\ pc' = "create" /\ UNCHANGED <<touched, req, want, left>>
     \/ /\ ~Refused(req, want) /\ cmCache[req] # None
        /\ Unchanged(want, cmCache[req])
        /\ NextServer
     \/ /\ ~Refused(req, want) /\ cmCache[req] # None
        /\ ~Unchanged(want, cmCache[req])
        /\ pc' = "delete" /\ UNCHANGED <<touched, req, want, left>>
  /\ UNCHANGED <<spec, state, fresh, oaps, cms, cmCache, edits, faults>>

\* UpdateDynamicConfig: Delete the ConfigMap of that name, the one found or a
\* newer one; an error is only logged.
DeleteConfigMap ==
  /\ pc = "delete"
  /\ pc' = "create"
  /\ \/ cms' = [cms EXCEPT ![req] = None] /\ UNCHANGED faults
     \/ Fault /\ UNCHANGED cms
  /\ UNCHANGED <<spec, state, fresh, oaps, cmCache, touched, req, want, left, edits>>

\* UpdateDynamicConfig: Create it; AlreadyExists is an error.
CreateConfigMap ==
  /\ pc = "create"
  /\ \/ /\ cms[req] = None
        /\ cms' = [cms EXCEPT ![req] = Rendered(want)] /\ NextServer
     \/ cms[req] # None /\ Return /\ UNCHANGED cms
  /\ UNCHANGED <<spec, state, fresh, oaps, cmCache, edits, faults>>

\* The API server accepts the status of a copy that is the last version.  The
\* update is a new version, which the cache does not show yet.
StoreState(st) ==
  /\ spec[req] # None /\ fresh[req]
  /\ state' = [state EXCEPT ![req] = st]
  /\ fresh' = [fresh EXCEPT ![req] = FALSE]

\* Mutant: the state is written once.
CheckState_Once ==
  /\ pc = "state"
  /\ \/ state[req] = "" /\ StoreState(stateOf(req, want, cmCache))
     \/ /\ state[req] # "" \/ spec[req] = None \/ ~fresh[req]
        /\ UNCHANGED <<state, fresh>>
  /\ Return
  /\ UNCHANGED <<spec, oaps, cms, cmCache, edits, faults>>

\* checkState and updateStatus: List the ConfigMaps, Get the CR again and update
\* its status.  When the List fails the state is Stopped, which is written all the
\* same.  A conflict is collected into a new error, which RetryOnConflict does not
\* know; the reconcile fails.
CheckState ==
  /\ pc = "state"
  /\ \/ StoreState(stateOf(req, want, cmCache)) /\ UNCHANGED faults
     \/ Fault /\ StoreState("Stopped")
     \/ /\ spec[req] = None \/ ~fresh[req]
        /\ UNCHANGED <<state, fresh, faults>>
  /\ Return
  /\ UNCHANGED <<spec, oaps, cms, cmCache, edits>>

\* A call fails whose error Reconcile returns.
CallFails ==
  /\ pc \in {"check", "create", "state"} /\ Fault /\ Return
  /\ UNCHANGED <<spec, state, fresh, oaps, cms, cmCache, edits>>

\* The ConfigMap is created, or the state stored, and the answer is lost.
ReplyLost ==
  /\ Fault /\ Return
  /\ \/ /\ pc = "create" /\ cms[req] = None
        /\ cms' = [cms EXCEPT ![req] = Rendered(want)]
        /\ UNCHANGED <<state, fresh>>
     \/ /\ pc = "state" /\ StoreState(stateOf(req, want, cmCache))
        /\ UNCHANGED cms
  /\ UNCHANGED <<spec, oaps, cmCache, edits>>

\* The operator stops and starts with fresh caches.
Crash ==
  /\ Fault /\ Return
  /\ cmCache' = cms /\ fresh' = [c \in CRs |-> TRUE]
  /\ UNCHANGED <<spec, state, oaps, cms, edits>>

----------------------------------------------------------------------------
(* The informer caches catch up *)

SyncCR(c) ==
  /\ ~fresh[c] /\ fresh' = [fresh EXCEPT ![c] = TRUE]
  /\ UNCHANGED <<spec, state, oaps, cms, cmCache, touched, worker, edits, faults>>

SyncConfigMaps ==
  /\ cmCache # cms /\ cmCache' = cms
  /\ UNCHANGED <<spec, state, fresh, oaps, cms, touched, worker, edits, faults>>

(* The cluster *)

Touch(c) == touched' = IF pc = "idle" THEN {} ELSE touched \cup {c}

Edit == edits < MaxEdits /\ edits' = edits + 1

withUID(s, u) ==
  [data |-> s.data, selector |-> s.selector, version |-> s.version, uid |-> u]

\* A user creates, changes or deletes a CR, and the cache learns of it.
CreateCR(c, s) ==
  /\ Edit /\ Touch(c) /\ spec[c] = None
  /\ spec' = [spec EXCEPT ![c] = withUID(s, edits + 1)]
  /\ state' = [state EXCEPT ![c] = ""] /\ fresh' = [fresh EXCEPT ![c] = TRUE]
  /\ UNCHANGED <<oaps, cms, cmCache, worker, faults>>

UpdateCR(c, s) ==
  /\ Edit /\ Touch(c) /\ spec[c] # None
  /\ withUID(s, spec[c].uid) # spec[c]
  /\ spec' = [spec EXCEPT ![c] = withUID(s, spec[c].uid)] /\ fresh' = [fresh EXCEPT ![c] = TRUE]
  /\ UNCHANGED <<state, oaps, cms, cmCache, worker, faults>>

DeleteCR(c) ==
  /\ Edit /\ spec[c] # None
  /\ spec' = [spec EXCEPT ![c] = None] /\ state' = [state EXCEPT ![c] = ""]
  /\ UNCHANGED <<fresh, oaps, cms, cmCache, touched, worker, faults>>

\* An OAPServer is created or deleted.
OAPServers(v, n) ==
  /\ Edit /\ (n = oaps[v] + 1 \/ oaps[v] = n + 1)
  /\ oaps' = [oaps EXCEPT ![v] = n]
  /\ UNCHANGED <<spec, state, fresh, cms, cmCache, touched, worker, faults>>

\* Somebody deletes a ConfigMap; the garbage collector one whose owner is gone.
RemoveConfigMap(c) ==
  /\ cms[c] # None /\ cms' = [cms EXCEPT ![c] = None]
  /\ UNCHANGED <<spec, state, fresh, oaps, cmCache, touched, worker, faults>>

DropConfigMap(c) == Edit /\ RemoveConfigMap(c)

GarbageCollect(c) ==
  /\ cms[c] # None
  /\ spec[c] # None => spec[c].uid # cms[c].uid
  /\ RemoveConfigMap(c) /\ UNCHANGED edits

----------------------------------------------------------------------------
\* The operator is started; there may be CRs already, and there
\* are OAPServers of each version.
Init ==
  /\ spec \in [CRs -> {withUID(s, 0) : s \in Submissions} \cup {None}]
  /\ state = [c \in CRs |-> ""]
  /\ fresh = [c \in CRs |-> TRUE]
  /\ oaps = [v \in Versions |-> MaxServers]
  /\ cms = [c \in CRs |-> None] /\ cmCache = cms
  /\ touched = {}
  /\ pc = "idle" /\ req = None /\ want = None /\ left = 0
  /\ edits = 0 /\ faults = 0

Work ==
  CheckConfigMap \/ DeleteConfigMap \/ CreateConfigMap \/ CheckState

Next ==
  \/ Work \/ CallFails \/ ReplyLost \/ Crash \/ SyncConfigMaps
  \/ \E c \in CRs : \/ StartReconcile(c) \/ SyncCR(c) \/ DeleteCR(c)
                    \/ DropConfigMap(c) \/ GarbageCollect(c)
                    \/ \E s \in Submissions : CreateCR(c, s) \/ UpdateCR(c, s)
  \/ \E v \in Versions, n \in 0 .. MaxServers : OAPServers(v, n)

Spec == Init /\ [][Next]_vars

\* Every path of Reconcile is followed by another one, after an error or after
\* schedDuration, and the queue is first in, first out.  The caches follow the
\* API server, and the garbage collector gets round to every orphan.
Fairness ==
  /\ WF_vars(Work) /\ WF_vars(SyncConfigMaps)
  /\ \A c \in CRs : /\ SF_vars(StartReconcile(c))
                    /\ WF_vars(SyncCR(c)) /\ WF_vars(GarbageCollect(c))

FairSpec == Spec /\ Fairness

----------------------------------------------------------------------------
(* Properties *)

\* Something can be done for the CR: an OAPServer of its version, no refusal.
Installable(c) ==
  spec[c] # None /\ ~Refused(c, spec[c]) /\ oaps[spec[c].version] > 0

\* Once users and faults stop, every CR that nothing speaks against is installed
\* with its own data and labels, although its ConfigMap is replaced by a Delete
\* whose error is ignored, compared with a cached copy, written once for each
\* OAPServer, and other CRs refuse each other for ever; a deleted CR leaves none.
Installed ==
  <>[](\A c \in CRs :
         /\ Installable(c) => /\ cms[c] # None /\ cms[c].data = spec[c].data
                              /\ spec[c].selector.labels \subseteq cms[c].labels
         /\ spec[c] = None => cms[c] = None)

\* The state of every CR that is not refused ends up as the ConfigMaps are, although
\* each status update makes the cached copy old for the next and conflicts are not
\* retried.
StateReported ==
  <>[](\A c \in CRs :
         (spec[c] # None /\ (oaps[spec[c].version] = 0 \/ ~Refused(c, spec[c])))
           => state[c] = stateOf(c, spec[c], cms))

\* No reconcile makes a second ConfigMap define a name that another CR asks for and
\* has installed, unless that CR was edited after the reconcile looked at it: the
\* refusal works across versions and with late caches, and fails only when an
\* edit comes between the check and the Create.
NoNewDuplicate ==
  [][\A c, d \in CRs :
       (/\ c # d /\ cms'[c] # cms[c] /\ cms'[c] # None
        /\ spec[d] # None /\ cms[d] # None /\ cms[d].data = spec[d].data
        /\ d \notin touched)
         => Names[cms'[c].data] \cap Names[cms[d].data] = {}]_vars
============================================================================
