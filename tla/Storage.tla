------------------------------ MODULE Storage ------------------------------
(***************************************************************************)
(* The Storage reconciler.  Before it applies the manifests of an internal *)
(* Storage it makes sure of the secret with the key and certificate that   *)
(* Elasticsearch and the OAP servers mount (createCert): it requests a     *)
(* certificate, approves the request itself, polls until it is signed and  *)
(* replaces the secret.  Any error ends createCert, and is only logged;    *)
(* the manifests are applied whatever came of it (checkSecurity, ApplyAll, *)
(* reduced to the StatefulSet) and the status is written (checkState).     *)
(*                                                                         *)
(* createCert reads and writes at the API server.  Storages, user secrets  *)
(* and StatefulSet statuses are as the cache shows them: a cache that lags *)
(* is a change that comes later.  A status update is refused unless the    *)
(* cached copy of the CR is the last version ("fresh"); the time in the    *)
(* status makes each of them a new version.                                *)
(***************************************************************************)
EXTENDS Naturals

CONSTANTS
  CRs,          \* names of the Storages of one namespace
  Creds,        \* user names and passwords a user's secret may hold
  Submissions,  \* the specs users submit
  MaxKeys,      \* bound: RSA keys, of which at most four are in use at a time
  None,
  MaxEdits,     \* bound: steps taken by users, pods and time
  MaxFaults     \* bound: failed calls, lost replies and crashes

Keys == 1 .. MaxKeys

\* spec.connectType, security.tls and security.user.secretName: none, the name
\* "default", or that of a user's secret.
Specs == [internal : BOOLEAN, tls : BOOLEAN, user : {"none", "default", "secret"}]

\* What the environment says of the user.
Logins == Creds \cup {"none", "default", "unset"}

\* storage.p12: a key, the key its certificate is for, the password it is encoded
\* with, and whether the certificate ends within 24 hours.
Secrets == [key : Keys, cert : Keys, password : {"", "skywalking"}, expiring : BOOLEAN]
CSRs    == [key : Keys, approved : BOOLEAN, signed : BOOLEAN]

\* A StatefulSet: service name (by tls) and environment, in which the variables for
\* the user come before those for the password or after; and whether its owner is gone.
Renderings   == [tls : BOOLEAN, login : Logins, userFirst : BOOLEAN]
StatefulSets == [tls : BOOLEAN, login : Logins, userFirst : BOOLEAN, orphan : BOOLEAN]

ASSUME ConstantsAssumption ==
  /\ MaxKeys \in Nat /\ MaxKeys >= 4
  /\ MaxEdits \in Nat /\ MaxFaults \in Nat
  /\ Submissions \subseteq Specs

ASSUME NoneAssumption ==
  None \notin Specs \cup Secrets \cup CSRs \cup StatefulSets \cup Creds \cup CRs \cup Keys

VARIABLES
  spec,     \* spec[c]: the CR, or None
  ready,    \* ready[c]: is there a condition Ready in the status?
  fresh,    \* fresh[c]: is the cached CR the last version?
  login,    \* the user's secret, or None
  secret,   \* the secret skywalking-storage, or None
  csr,      \* the CertificateSigningRequest storage-csr, or None
  sets,     \* sets[c]: the StatefulSet of c, or None
  up,       \* up[c]: its ReadyReplicas equal its Replicas
  placed,   \* auxiliary: somebody put a secret there since the current pass looked
  pc, req, want,  \* the worker: the CR it handles, as it was read,
  stale,          \* has that CR been deleted since, recreated or not?
  key, cert,      \* the key it made and the key of the certificate it got,
  env,            \* and what it is about to render
  edits, faults

worker  == <<pc, req, want, stale, key, cert, env>>
cluster == <<spec, ready, fresh, login, secret, csr, sets, up>>
vars    == <<cluster, placed, worker, edits, faults>>

TypeOK ==
  /\ spec \in [CRs -> Specs \cup {None}]
  /\ ready \in [CRs -> BOOLEAN] /\ fresh \in [CRs -> BOOLEAN]
  /\ login \in Creds \cup {None}
  /\ secret \in Secrets \cup {None} /\ csr \in CSRs \cup {None}
  /\ sets \in [CRs -> StatefulSets \cup {None}] /\ up \in [CRs -> BOOLEAN]
  /\ placed \in BOOLEAN
  /\ pc \in {"idle", "secret", "deleteCSR", "createCSR", "approve", "poll",
             "deleteSecret", "createSecret", "security", "apply", "state"}
  /\ req \in CRs \cup {None} /\ want \in Specs \cup {None} /\ stale \in BOOLEAN
  /\ key \in Keys \cup {None} /\ cert \in Keys \cup {None}
  /\ env \in Renderings \cup {None}
  /\ edits \in 0 .. MaxEdits /\ faults \in 0 .. MaxFaults

Fault == faults < MaxFaults /\ faults' = faults + 1

----------------------------------------------------------------------------
(* createCert *)

\* Keys in use.  A new key differs from them; which one it is makes no difference.
Used == {key, cert} \cup (IF secret = None THEN {} ELSE {secret.key, secret.cert})
                    \cup (IF csr = None THEN {} ELSE {csr.key})

GenerateKey == CHOOSE k \in Keys : k \notin Used

\* createCert ends.
GiveUp == pc' = "security" /\ key' = None /\ cert' = None

\* The call was carried out; createCert goes on, or the reply is lost and it ends.
Then(next) ==
  \/ pc' = next /\ UNCHANGED <<key, cert, faults>>
  \/ Fault /\ GiveUp

\* A call fails.
CertCallFails ==
  /\ pc \in {"secret", "deleteCSR", "createCSR", "approve", "poll",
             "deleteSecret", "createSecret"}
  /\ Fault /\ GiveUp
  /\ UNCHANGED <<cluster, placed, req, want, stale, env, edits>>

\* pkcs12.Decode with the empty password.
Decodes(s) == s.password = ""

\* Mutant: the certificate is replaced whatever its date.
Renew_Always(s) == s # None => Decodes(s)

\* A certificate is made when there is none, or one that can be decoded and ends soon.
Renew(s) == s # None => (Decodes(s) /\ s.expiring)

\* Get of the secret, and GenerateKey.
GetSecret ==
  /\ pc = "secret"
  /\ \/ /\ Renew(secret)
        /\ pc' = "deleteCSR" /\ key' = GenerateKey /\ UNCHANGED cert
     \/ ~Renew(secret) /\ GiveUp
  /\ UNCHANGED <<cluster, placed, req, want, stale, env, edits, faults>>

\* Mutant: a request that is there already is used.
DeleteCSR_Reuse ==
  /\ pc = "deleteCSR"
  /\ Then(IF csr = None THEN "createCSR" ELSE "approve")
  /\ UNCHANGED <<cluster, placed, req, want, stale, env, edits>>

\* Mutant: the old request stays.
DeleteCSR_Never ==
  /\ pc = "deleteCSR" /\ Then("createCSR")
  /\ UNCHANGED <<cluster, placed, req, want, stale, env, edits>>

DeleteCSR ==
  /\ pc = "deleteCSR"
  /\ csr' = None /\ Then("createCSR")
  /\ UNCHANGED <<spec, ready, fresh, login, secret, sets, up, placed, req, want, stale, env,
                 edits>>

\* Create of the request; AlreadyExists ends createCert.
CreateCSR ==
  /\ pc = "createCSR"
  /\ \/ /\ csr = None
        /\ csr' = [key |-> key, approved |-> FALSE, signed |-> FALSE]
        /\ Then("approve")
     \/ csr # None /\ GiveUp /\ UNCHANGED <<csr, faults>>
  /\ UNCHANGED <<spec, ready, fresh, login, secret, sets, up, placed, req, want, stale, env,
                 edits>>

\* UpdateApproval, of the request as it was created; NotFound or a conflict ends createCert.
ApproveCSR ==
  /\ pc = "approve"
  /\ \/ csr # None /\ csr' = [csr EXCEPT !.approved = TRUE] /\ Then("poll")
     \/ csr = None /\ GiveUp /\ UNCHANGED <<csr, faults>>
  /\ UNCHANGED <<spec, ready, fresh, login, secret, sets, up, placed, req, want, stale, env,
                 edits>>

\* The loop: Get of the request until it has a certificate; NotFound ends createCert.
PollCSR ==
  /\ pc = "poll"
  /\ \/ /\ csr # None /\ csr.signed
        /\ cert' = csr.key /\ pc' = "deleteSecret" /\ UNCHANGED key
     \/ csr = None /\ GiveUp
  /\ UNCHANGED <<cluster, placed, req, want, stale, env, edits, faults>>

DeleteSecret ==
  /\ pc = "deleteSecret"
  /\ secret' = None /\ Then("createSecret")
  /\ UNCHANGED <<spec, ready, fresh, login, csr, sets, up, placed, req, want, stale, env,
                 edits>>

\* Encode, with the password "skywalking", and Create; AlreadyExists is an error.
CreateSecret ==
  /\ pc = "createSecret"
  /\ \/ /\ secret = None
        /\ secret' = [key |-> key, cert |-> cert, password |-> "skywalking", expiring |-> FALSE]
     \/ secret # None /\ UNCHANGED secret
  /\ GiveUp
  /\ UNCHANGED <<spec, ready, fresh, login, csr, sets, up, placed, req, want, stale, env,
                 edits, faults>>

----------------------------------------------------------------------------
(* The rest of Reconcile *)

Return ==
  /\ pc' = "idle" /\ req' = None /\ want' = None /\ stale' = FALSE
  /\ key' = None /\ cert' = None /\ env' = None /\ placed' = FALSE

\* Get of the CR.  Nothing is done for one that is external.
StartReconcile(c) ==
  /\ pc = "idle" /\ spec[c] # None /\ spec[c].internal
  /\ pc' = "secret" /\ req' = c /\ want' = spec[c]
  /\ UNCHANGED <<cluster, placed, stale, key, cert, env, edits, faults>>

\* What checkSecurity adds to the environment when it reads this user's secret.
LoginOf(read) ==
  CASE want.user # "secret" -> want.user
    [] want.user = "secret" /\ read = None -> "unset"
    [] want.user = "secret" /\ read # None -> read

\* checkSecurity: a user's secret that is missing or cannot be read adds nothing.  The
\* keys of one are visited in the order of a Go map, which is any.
CheckSecurity ==
  /\ pc = "security" /\ pc' = "apply"
  /\ \E read \in {login, None}, first \in BOOLEAN :
       /\ IF read = login THEN UNCHANGED faults ELSE Fault
       /\ LoginOf(read) \in {"none", "default", "unset"} => first
       /\ env' = [tls |-> want.tls, login |-> LoginOf(read), userFirst |-> first]
  /\ UNCHANGED <<cluster, placed, req, want, stale, key, cert, edits>>

WithOwner(r, o) ==
  [tls |-> r.tls, login |-> r.login, userFirst |-> r.userFirst, orphan |-> o]

\* Mutant: a StatefulSet that exists is left as it is.
Applied_Exists ==
  IF sets[req] = None THEN WithOwner(env, stale) ELSE sets[req]

\* Mutant: the owner is taken to be alive because it has been read.
Applied_Alive == WithOwner(env, FALSE)

\* apply, compose: created, or updated unless the version annotation, a hash over
\* rendering and owner, is the same; the owner is the CR that was read, by its UID.
Applied == WithOwner(env, stale)

\* The API server refuses to change the service name of a StatefulSet.
Immutable(old) == old # None /\ old.tls # env.tls

\* ApplyAll: an error ends the reconcile, before the status is looked at.
ApplyAll ==
  /\ pc = "apply"
  /\ \/ /\ ~Immutable(sets[req])
        /\ sets' = [sets EXCEPT ![req] = Applied]
        /\ \/ pc' = "state" /\ UNCHANGED <<req, want, stale, key, cert, env, placed, faults>>
           \/ Fault /\ Return
     \/ Immutable(sets[req]) /\ Return /\ UNCHANGED <<sets, faults>>
  /\ UNCHANGED <<spec, ready, fresh, login, secret, csr, up, edits>>

\* The API server accepts the status of a copy that is the last version, which the
\* cache then is no longer.
StoreReady ==
  /\ spec[req] # None /\ fresh[req]
  /\ ready' = [ready EXCEPT ![req] = TRUE]
  /\ fresh' = [fresh EXCEPT ![req] = FALSE]

\* Mutant: ready and not ready are mistaken for each other.
CheckState_Inverted ==
  /\ pc = "state"
  /\ \/ ~up[req] /\ StoreReady
     \/ /\ up[req] \/ spec[req] = None \/ ~fresh[req]
        /\ UNCHANGED <<ready, fresh>>
  /\ Return
  /\ UNCHANGED <<spec, login, secret, csr, sets, up, edits, faults>>

\* checkState, updateStatus: Ready with the present time is always news.  When the
\* StatefulSet is not ready the overlay is empty, DeepDerivative finds no difference
\* and nothing is written.  A conflict is not retried.
CheckState ==
  /\ pc = "state"
  /\ \/ up[req] /\ StoreReady
     \/ /\ ~up[req] \/ spec[req] = None \/ ~fresh[req]
        /\ UNCHANGED <<ready, fresh>>
  /\ Return
  /\ UNCHANGED <<spec, login, secret, csr, sets, up, edits, faults>>

\* A call fails whose error Reconcile returns.
CallFails ==
  /\ pc \in {"apply", "state"} /\ Fault /\ Return
  /\ UNCHANGED <<cluster, edits>>

\* The operator stops and starts with fresh caches.
Crash ==
  /\ pc # "idle" /\ Fault /\ Return
  /\ fresh' = [c \in CRs |-> TRUE]
  /\ UNCHANGED <<spec, ready, login, secret, csr, sets, up, edits>>

----------------------------------------------------------------------------
(* The cluster *)

\* The signer signs what has been approved.
Sign ==
  /\ csr # None /\ csr.approved /\ ~csr.signed
  /\ csr' = [csr EXCEPT !.signed = TRUE]
  /\ UNCHANGED <<spec, ready, fresh, login, secret, sets, up, placed, worker, edits, faults>>

SyncCR(c) ==
  /\ ~fresh[c] /\ fresh' = [fresh EXCEPT ![c] = TRUE]
  /\ UNCHANGED <<spec, ready, login, secret, csr, sets, up, placed, worker, edits, faults>>

\* The garbage collector removes a StatefulSet whose owner is gone.
GarbageCollect(c) ==
  /\ sets[c] # None /\ sets[c].orphan
  /\ sets' = [sets EXCEPT ![c] = None] /\ up' = [up EXCEPT ![c] = TRUE]
  /\ UNCHANGED <<spec, ready, fresh, login, secret, csr, placed, worker, edits, faults>>

Edit == edits < MaxEdits /\ edits' = edits + 1

\* A user creates, changes or deletes a CR, and the cache learns of it.
SubmitCR(c, s) ==
  /\ Edit /\ spec[c] # s
  /\ spec' = [spec EXCEPT ![c] = s] /\ fresh' = [fresh EXCEPT ![c] = TRUE]
  /\ UNCHANGED <<ready, login, secret, csr, sets, up, placed, worker, faults>>

DeleteCR(c) ==
  /\ Edit /\ spec[c] # None
  /\ spec' = [spec EXCEPT ![c] = None] /\ ready' = [ready EXCEPT ![c] = FALSE]
  /\ sets' = [sets EXCEPT ![c] = IF @ = None THEN None ELSE WithOwner(@, TRUE)]
  /\ stale' = (stale \/ req = c)
  /\ UNCHANGED <<fresh, login, secret, csr, up, placed, pc, req, want, key, cert, env, faults>>

\* A user changes or deletes the secret with the user name and password.
SetLogin(l) ==
  /\ Edit /\ login' = l
  /\ UNCHANGED <<spec, ready, fresh, secret, csr, sets, up, placed, worker, faults>>

\* Somebody deletes the secret skywalking-storage, or puts one there.
DropSecret ==
  /\ Edit /\ secret # None /\ secret' = None
  /\ UNCHANGED <<spec, ready, fresh, login, csr, sets, up, placed, worker, faults>>

PutSecret(p) ==
  /\ Edit
  /\ secret' = LET k == GenerateKey
               IN  [key |-> k, cert |-> k, password |-> p, expiring |-> FALSE]
  /\ placed' = (pc # "idle")
  /\ UNCHANGED <<spec, ready, fresh, login, csr, sets, up, worker, faults>>

\* Time passes, and the certificate is about to end.
Expire ==
  /\ Edit /\ secret # None /\ ~secret.expiring
  /\ secret' = [secret EXCEPT !.expiring = TRUE]
  /\ UNCHANGED <<spec, ready, fresh, login, csr, sets, up, placed, worker, faults>>

\* Somebody, or the cleaner of old requests, deletes the request.
DropCSR ==
  /\ Edit /\ csr # None /\ csr' = None
  /\ UNCHANGED <<spec, ready, fresh, login, secret, sets, up, placed, worker, faults>>

\* Pods become ready or cease to be.
PodsChange(c) ==
  /\ Edit /\ sets[c] # None /\ up' = [up EXCEPT ![c] = ~@]
  /\ UNCHANGED <<spec, ready, fresh, login, secret, csr, sets, placed, worker, faults>>

----------------------------------------------------------------------------
\* The operator is started in a cluster in which there may be Storages already.  No
\* StatefulSet has been created, and none counts as ready (0 of 0 replicas).
Init ==
  /\ spec \in [CRs -> Submissions \cup {None}]
  /\ ready = [c \in CRs |-> FALSE] /\ fresh = [c \in CRs |-> TRUE]
  /\ login \in Creds \cup {None}
  /\ secret = None /\ csr = None
  /\ sets = [c \in CRs |-> None] /\ up = [c \in CRs |-> TRUE]
  /\ placed = FALSE
  /\ pc = "idle" /\ req = None /\ want = None /\ stale = FALSE
  /\ key = None /\ cert = None /\ env = None
  /\ edits = 0 /\ faults = 0

createCert ==
  \/ GetSecret \/ DeleteCSR \/ CreateCSR \/ ApproveCSR \/ PollCSR
  \/ DeleteSecret \/ CreateSecret

Work == createCert \/ CheckSecurity \/ ApplyAll \/ CheckState

Next ==
  \/ Work \/ CertCallFails \/ CallFails \/ Crash \/ Sign
  \/ DropSecret \/ Expire \/ DropCSR
  \/ \E l \in (Creds \cup {None}) \ {login} : SetLogin(l)
  \/ \E p \in {"", "skywalking"} : PutSecret(p)
  \/ \E c \in CRs : \/ StartReconcile(c) \/ SyncCR(c) \/ GarbageCollect(c)
                    \/ DeleteCR(c) \/ PodsChange(c)
                    \/ \E s \in Submissions : SubmitCR(c, s)

Spec == Init /\ [][Next]_vars

\* Every path of Reconcile is followed by another one, after an error or after
\* schedDuration, and the queue is first in, first out.  The signer signs, caches
\* follow, the garbage collector collects.
Fairness ==
  /\ WF_vars(Work) /\ WF_vars(Sign)
  /\ \A c \in CRs : /\ SF_vars(StartReconcile(c))
                    /\ WF_vars(SyncCR(c)) /\ WF_vars(GarbageCollect(c))

FairSpec == Spec /\ Fairness

----------------------------------------------------------------------------
(* Properties *)

\* The certificate in the secret is for the key beside it, whatever requests earlier
\* passes, cut off by crashes and lost replies, have left behind.  (Encode does not
\* check, and nothing decodes what it made.)
CertFitsKey == secret # None => secret.cert = secret.key

\* No reconcile removes or replaces a certificate that is good for more than 24 hours,
\* unless somebody put it there after the pass had looked.
KeepsValid ==
  [][(secret # None /\ ~secret.expiring /\ secret' # secret) => (edits' # edits \/ placed)]_vars

Internal(c) == spec[c] # None /\ spec[c].internal

\* As long as there is an internal Storage there is a secret in the end, although
\* createCert swallows all errors, deletes the secret before it creates it and
\* leaves requests behind; one that can be decoded does not run out.
Issued ==
  <>[]((\E c \in CRs : Internal(c)) =>
         secret # None /\ (Decodes(secret) => ~secret.expiring))

\* A StatefulSet whose Storage is gone, and has not come back under its name, is
\* marked for the garbage collector, also if a pass that had read the Storage before
\* it was deleted creates or overwrites it afterwards: none is left behind for good.
GoesWithItsStorage ==
  \A c \in CRs : (sets[c] # None /\ spec[c] = None) => sets[c].orphan

ExpectedLogin(s) ==
  CASE s.user # "secret" -> s.user
    [] s.user = "secret" /\ login = None -> "unset"
    [] s.user = "secret" /\ login # None -> login

\* Every internal Storage has its StatefulSet in the end, owned by it, with the user
\* and password of the last secret, although a read that fails renders it without;
\* unless its tls was changed, which the API server refuses.
Configured ==
  <>[](\A c \in CRs : Internal(c) =>
         /\ sets[c] # None /\ ~sets[c].orphan
         /\ sets[c].tls = spec[c].tls => sets[c].login = ExpectedLogin(spec[c]))

\* A Storage whose pods stay ready is reported Ready, although each status update
\* makes the cached copy old for the next and conflicts are not retried.
ReadyReported ==
  <>[](\A c \in CRs : (Internal(c) /\ up[c] /\ sets[c] # None /\ sets[c].tls = spec[c].tls)
                        => ready[c])
============================================================================
