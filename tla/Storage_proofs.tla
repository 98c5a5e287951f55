--------------------------- MODULE Storage_proofs ---------------------------
(***************************************************************************)
(* Proofs, for every number of Storages, users and keys, that the secret's *)
(* certificate is for the key beside it, that no reconcile takes a good    *)
(* certificate away, and that no StatefulSet outlives its Storage.         *)
(***************************************************************************)
EXTENDS Storage, TLAPS

\* Where createCert is busy with a key it has made.
HasKey == {"deleteCSR", "createCSR", "approve", "poll", "deleteSecret", "createSecret"}

\* The worker has a CR as long as it is busy, a key within createCert, and a
\* rendering once checkSecurity has made one.
WorkerInv ==
  /\ pc = "idle" <=> req = None
  /\ req = None <=> want = None
  /\ pc \in {"apply", "state"} => env \in Renderings
  /\ key # None <=> pc \in HasKey
  /\ cert # None => pc \in {"deleteSecret", "createSecret"}

\* Between its Create and the end of the polling the request, if it is there, is
\* for the key of this pass, whoever else deletes requests; so is the certificate.
RequestInv ==
  /\ pc \in {"approve", "poll"} /\ csr # None => csr.key = key
  /\ pc \in {"deleteSecret", "createSecret"} => cert = key

\* Until it deletes the secret, a pass that has made a key has found none or an
\* expiring one, and what is there now is that one, or was placed later.
RenewInv ==
  pc \in HasKey \ {"createSecret"} => (secret = None \/ secret.expiring \/ placed)

\* A pass knows whether its CR was deleted: what it applies for one that is not
\* there is owned by one that is gone.
OwnerInv ==
  /\ (req # None /\ spec[req] = None) => stale
  /\ GoesWithItsStorage

IndInv == TypeOK /\ WorkerInv /\ RequestInv /\ RenewInv /\ CertFitsKey /\ OwnerInv

-----------------------------------------------------------------------------
(* Keys and values *)

\* The name None is not one of the values it stands for the absence of.
LEMMA NoneFacts ==
  /\ None \notin Specs /\ None \notin Secrets /\ None \notin CSRs
  /\ None \notin StatefulSets /\ None \notin Creds /\ None \notin CRs
  /\ None \notin Keys
  BY NoneAssumption

\* At most three keys are in use when one is made, so that there is a fourth.
LEMMA FreshKey ==
  ASSUME IndInv
  PROVE  GenerateKey \in Keys /\ GenerateKey \notin Used
  <1>1. PICK a, b, c : Used \subseteq {None, a, b, c}
    <2>1. {key, cert} \subseteq {None, key}
      BY DEF IndInv, WorkerInv, RequestInv
    <2>2. secret # None => {secret.key, secret.cert} = {secret.key}
      BY DEF IndInv, CertFitsKey
    <2>3. Used \subseteq {None, key, secret.key, csr.key}
      BY <2>1, <2>2 DEF Used
    <2>. QED
      BY <2>3
  <1>2. {1, 2, 3, 4} \subseteq Keys
    BY ConstantsAssumption DEF Keys
  <1>3. \E k \in {1, 2, 3, 4} : k \notin {a, b, c}
    OBVIOUS
  <1>4. \E k \in Keys : k \notin Used
    BY <1>1, <1>2, <1>3, NoneFacts
  <1>. QED
    BY <1>4 DEF GenerateKey

-----------------------------------------------------------------------------
(* The inductive invariant *)

\* The operator starts idle in a cluster without secret or request.
LEMMA InitInd == Init => IndInv
  <1>. SUFFICES ASSUME Init PROVE IndInv
    OBVIOUS
  <1>1. TypeOK
    <2>1. spec \in [CRs -> Specs \cup {None}]
      BY ConstantsAssumption DEF Init
    <2>2. /\ ready \in [CRs -> BOOLEAN] /\ fresh \in [CRs -> BOOLEAN]
          /\ sets \in [CRs -> StatefulSets \cup {None}] /\ up \in [CRs -> BOOLEAN]
      BY DEF Init
    <2>3. edits \in 0 .. MaxEdits /\ faults \in 0 .. MaxFaults
      BY ConstantsAssumption DEF Init
    <2>. QED
      BY <2>1, <2>2, <2>3, Zenon DEF Init, TypeOK
  <1>2. WorkerInv /\ RequestInv /\ RenewInv /\ CertFitsKey /\ OwnerInv
    BY DEF Init, WorkerInv, RequestInv, RenewInv, CertFitsKey, HasKey, OwnerInv,
           GoesWithItsStorage
  <1>. QED
    BY <1>1, <1>2 DEF IndInv

\* What checkSecurity adds to the environment is something the manifests can render.
LEMMA SecurityRenders ==
  ASSUME IndInv, CheckSecurity
  PROVE  env' \in Renderings
  <1>1. want \in Specs
    BY NoneFacts DEF TypeOK, IndInv, WorkerInv, CheckSecurity
  <1>2. ASSUME NEW read \in {login, None} PROVE LoginOf(read) \in Logins
    BY <1>1 DEF IndInv, TypeOK, LoginOf, Logins, Specs
  <1>. QED
    BY <1>1, <1>2 DEF CheckSecurity, Renderings, Specs

\* Each step keeps the types: a key is there when a request or a secret is made of
\* it, a CR and a rendering when manifests are applied.
LEMMA StepType ==
  ASSUME IndInv, Next
  PROVE  TypeOK'
  <1>. USE NoneFacts
  <1>0. TypeOK
    BY DEF IndInv
  <1>1. ASSUME Fault PROVE faults' \in 0 .. MaxFaults
    BY <1>0, <1>1, ConstantsAssumption DEF Fault, TypeOK
  <1>2. ASSUME Edit PROVE edits' \in 0 .. MaxEdits
    BY <1>0, <1>2, ConstantsAssumption DEF Edit, TypeOK
  <1>3. CASE GetSecret
    BY <1>0, <1>3, FreshKey DEF TypeOK, GetSecret, GiveUp, cluster
  <1>4. CASE DeleteCSR
    BY <1>0, <1>1, <1>4 DEF TypeOK, DeleteCSR, GiveUp, Then
  <1>5. CASE CreateCSR
    <2>1. key \in Keys
      BY <1>0, <1>5 DEF TypeOK, IndInv, WorkerInv, HasKey, CreateCSR
    <2>2. [key |-> key, approved |-> FALSE, signed |-> FALSE] \in CSRs
      BY <2>1 DEF CSRs
    <2>3. csr' \in CSRs \cup {None}
      BY <1>0, <1>5, <2>2 DEF TypeOK, CreateCSR
    <2>. QED
      BY <1>0, <1>1, <1>5, <2>3 DEF TypeOK, CreateCSR, GiveUp, Then
  <1>6. CASE ApproveCSR
    <2>1. csr' \in CSRs \cup {None}
      BY <1>0, <1>6 DEF TypeOK, ApproveCSR, CSRs
    <2>. QED
      BY <1>0, <1>1, <1>6, <2>1 DEF TypeOK, ApproveCSR, GiveUp, Then
  <1>7. CASE PollCSR
    BY <1>0, <1>7 DEF TypeOK, PollCSR, GiveUp, cluster, CSRs
  <1>8. CASE DeleteSecret
    BY <1>0, <1>1, <1>8 DEF TypeOK, DeleteSecret, GiveUp, Then
  <1>9. CASE CreateSecret
    <2>1. key \in Keys /\ cert \in Keys
      BY <1>0, <1>9 DEF TypeOK, IndInv, WorkerInv, RequestInv, HasKey, CreateSecret
    <2>2. [key |-> key, cert |-> cert, password |-> "skywalking", expiring |-> FALSE]
            \in Secrets
      BY <2>1 DEF Secrets
    <2>3. secret' \in Secrets \cup {None}
      BY <1>0, <1>9, <2>2 DEF TypeOK, CreateSecret
    <2>. QED
      BY <1>0, <1>9, <2>3 DEF TypeOK, CreateSecret, GiveUp
  <1>10. CASE CheckSecurity
    <2>1. env' \in Renderings
      BY <1>10, SecurityRenders
    <2>2. faults' \in 0 .. MaxFaults
      BY <1>0, <1>1, <1>10 DEF CheckSecurity, TypeOK
    <2>. QED
      BY <1>0, <1>10, <2>1, <2>2 DEF TypeOK, CheckSecurity, cluster
  <1>11. CASE ApplyAll
    <2>1. env \in Renderings /\ req \in CRs
      BY <1>0, <1>11 DEF TypeOK, IndInv, WorkerInv, ApplyAll
    <2>2. WithOwner(env, stale) \in StatefulSets
      BY <1>0, <2>1 DEF TypeOK, WithOwner, Renderings, StatefulSets
    <2>3. sets' \in [CRs -> StatefulSets \cup {None}]
      BY <1>0, <1>11, <2>2 DEF TypeOK, ApplyAll, Applied
    <2>. QED
      BY <1>0, <1>1, <1>11, <2>3 DEF TypeOK, ApplyAll, Return
  <1>12. CASE CheckState
    <2>1. ready' \in [CRs -> BOOLEAN] /\ fresh' \in [CRs -> BOOLEAN]
      BY <1>0, <1>12 DEF TypeOK, CheckState, StoreReady
    <2>. QED
      BY <1>0, <1>12, <2>1 DEF TypeOK, CheckState, Return
  <1>13. CASE CertCallFails
    BY <1>0, <1>1, <1>13 DEF TypeOK, CertCallFails, GiveUp, cluster
  <1>14. CASE CallFails
    BY <1>0, <1>1, <1>14 DEF TypeOK, CallFails, Return, cluster
  <1>15. CASE Crash
    <2>1. fresh' \in [CRs -> BOOLEAN]
      BY <1>15 DEF Crash
    <2>. QED
      BY <1>0, <1>1, <1>15, <2>1 DEF TypeOK, Crash, Return
  <1>16. CASE Sign
    <2>1. csr' \in CSRs \cup {None}
      BY <1>0, <1>16 DEF TypeOK, Sign, CSRs
    <2>. QED
      BY <1>0, <1>16, <2>1 DEF TypeOK, Sign, worker
  <1>17. CASE DropSecret
    BY <1>0, <1>2, <1>17 DEF TypeOK, DropSecret, worker
  <1>18. CASE Expire
    <2>1. secret' \in Secrets \cup {None}
      BY <1>0, <1>18 DEF TypeOK, Expire, Secrets
    <2>. QED
      BY <1>0, <1>2, <1>18, <2>1 DEF TypeOK, Expire, worker
  <1>19. CASE DropCSR
    BY <1>0, <1>2, <1>19 DEF TypeOK, DropCSR, worker
  <1>20. ASSUME NEW l \in (Creds \cup {None}) \ {login}, SetLogin(l) PROVE TypeOK'
    BY <1>0, <1>2, <1>20 DEF TypeOK, SetLogin, worker
  <1>21. ASSUME NEW p \in {"", "skywalking"}, PutSecret(p) PROVE TypeOK'
    <2>1. secret' \in Secrets
      BY <1>21, FreshKey DEF PutSecret, Secrets
    <2>. QED
      BY <1>0, <1>2, <1>21, <2>1, ZenonT(30) DEF TypeOK, PutSecret, worker
  <1>22. ASSUME NEW c \in CRs, StartReconcile(c) PROVE TypeOK'
    BY <1>0, <1>22 DEF TypeOK, StartReconcile, cluster
  <1>23. ASSUME NEW c \in CRs, SyncCR(c) PROVE TypeOK'
    BY <1>0, <1>23 DEF TypeOK, SyncCR, worker
  <1>24. ASSUME NEW c \in CRs, GarbageCollect(c) PROVE TypeOK'
    BY <1>0, <1>24 DEF TypeOK, GarbageCollect, worker
  <1>25. ASSUME NEW c \in CRs, DeleteCR(c) PROVE TypeOK'
    <2>1. \A o \in StatefulSets : WithOwner(o, TRUE) \in StatefulSets
      BY DEF WithOwner, StatefulSets
    <2>2. sets' \in [CRs -> StatefulSets \cup {None}]
      BY <1>0, <1>25, <2>1 DEF TypeOK, DeleteCR
    <2>3. spec' \in [CRs -> Specs \cup {None}] /\ ready' \in [CRs -> BOOLEAN]
      BY <1>0, <1>25 DEF TypeOK, DeleteCR
    <2>4. /\ UNCHANGED <<fresh, login, secret, csr, up, placed, pc, req, want, key,
                         cert, env, faults>>
          /\ Edit /\ stale' \in BOOLEAN
      BY <1>25 DEF DeleteCR
    <2>. QED
      BY <1>0, <1>2, <2>2, <2>3, <2>4 DEF TypeOK
  <1>26. ASSUME NEW c \in CRs, PodsChange(c) PROVE TypeOK'
    BY <1>0, <1>2, <1>26 DEF TypeOK, PodsChange, worker
  <1>27. ASSUME NEW c \in CRs, NEW s \in Submissions, SubmitCR(c, s) PROVE TypeOK'
    BY <1>0, <1>2, <1>27, ConstantsAssumption DEF TypeOK, SubmitCR, worker
  <1>. QED
    BY <1>3, <1>4, <1>5, <1>6, <1>7, <1>8, <1>9, <1>10, <1>11, <1>12, <1>13, <1>14,
       <1>15, <1>16, <1>17, <1>18, <1>19, <1>20, <1>21, <1>22, <1>23, <1>24, <1>25,
       <1>26, <1>27
    DEF Next, Work, createCert

\* The end of createCert, with whatever error, forgets key and certificate.
LEMMA GiveUpInd ==
  ASSUME IndInv, GiveUp, pc # "idle", UNCHANGED <<req, want>>, CertFitsKey'
  PROVE  WorkerInv' /\ RequestInv' /\ RenewInv' /\ CertFitsKey'
  BY DEF IndInv, GiveUp, WorkerInv, RequestInv, RenewInv, HasKey

\* The end of a reconcile forgets everything.
LEMMA ReturnInd ==
  ASSUME IndInv, Return, UNCHANGED secret
  PROVE  WorkerInv' /\ RequestInv' /\ RenewInv' /\ CertFitsKey'
  BY DEF IndInv, Return, WorkerInv, RequestInv, RenewInv, HasKey, CertFitsKey

\* A step of others that leaves secret and request alone.
LEMMA FrameInd ==
  ASSUME IndInv, UNCHANGED <<secret, csr, placed, pc, req, want, key, cert, env>>
  PROVE  WorkerInv' /\ RequestInv' /\ RenewInv' /\ CertFitsKey'
  BY DEF IndInv, WorkerInv, RequestInv, RenewInv, HasKey, CertFitsKey

\* Each step keeps the rest: a request is created only where none is left, and from
\* there on nobody replaces it; a certificate that somebody puts there is noted.
LEMMA StepRest ==
  ASSUME IndInv, Next
  PROVE  WorkerInv' /\ RequestInv' /\ RenewInv' /\ CertFitsKey'
  <1>. DEFINE Rest == WorkerInv /\ RequestInv /\ RenewInv /\ CertFitsKey
  <1>. USE NoneFacts
  <1>. SUFFICES Rest'
    OBVIOUS
  <1>0. TypeOK /\ Rest
    BY DEF IndInv
  <1>1. CASE GetSecret
    <2>1. CASE GiveUp
      BY <1>1, <2>1, GiveUpInd DEF GetSecret, cluster, IndInv, CertFitsKey
    <2>2. CASE Renew(secret) /\ pc' = "deleteCSR" /\ key' = GenerateKey /\ UNCHANGED cert
      <3>1. WorkerInv'
        BY <1>0, <1>1, <2>2, FreshKey DEF GetSecret, WorkerInv, HasKey
      <3>2. RequestInv' /\ CertFitsKey'
        BY <1>0, <1>1, <2>2 DEF GetSecret, cluster, RequestInv, CertFitsKey
      <3>3. RenewInv'
        BY <1>1, <2>2 DEF GetSecret, cluster, RenewInv, Renew
      <3>. QED
        BY <3>1, <3>2, <3>3
    <2>. QED
      BY <1>1, <2>1, <2>2 DEF GetSecret
  <1>2. CASE DeleteCSR
    <2>1. CASE GiveUp
      BY <1>2, <2>1, GiveUpInd DEF DeleteCSR, IndInv, CertFitsKey
    <2>2. CASE pc' = "createCSR" /\ UNCHANGED <<key, cert, faults>>
      BY <1>0, <1>2, <2>2
      DEF DeleteCSR, WorkerInv, RequestInv, RenewInv, CertFitsKey, HasKey
    <2>. QED
      BY <1>2, <2>1, <2>2 DEF DeleteCSR, Then
  <1>3. CASE CreateCSR
    <2>1. CASE GiveUp
      BY <1>3, <2>1, GiveUpInd DEF CreateCSR, IndInv, CertFitsKey
    <2>2. CASE /\ csr' = [key |-> key, approved |-> FALSE, signed |-> FALSE]
               /\ pc' = "approve" /\ UNCHANGED <<key, cert, faults>>
      BY <1>0, <1>3, <2>2
      DEF CreateCSR, WorkerInv, RequestInv, RenewInv, CertFitsKey, HasKey
    <2>. QED
      BY <1>3, <2>1, <2>2 DEF CreateCSR, Then
  <1>4. CASE ApproveCSR
    <2>1. CASE GiveUp
      BY <1>4, <2>1, GiveUpInd DEF ApproveCSR, IndInv, CertFitsKey
    <2>2. CASE /\ csr # None /\ csr' = [csr EXCEPT !.approved = TRUE]
               /\ pc' = "poll" /\ UNCHANGED <<key, cert, faults>>
      <3>1. csr'.key = csr.key
        BY <1>0, <2>2 DEF TypeOK, CSRs
      <3>. QED
        BY <1>0, <1>4, <2>2, <3>1
        DEF ApproveCSR, WorkerInv, RequestInv, RenewInv, CertFitsKey, HasKey
    <2>. QED
      BY <1>4, <2>1, <2>2 DEF ApproveCSR, Then
  <1>5. CASE PollCSR
    <2>1. CASE GiveUp
      BY <1>5, <2>1, GiveUpInd DEF PollCSR, cluster, IndInv, CertFitsKey
    <2>2. CASE csr # None /\ cert' = csr.key /\ pc' = "deleteSecret" /\ UNCHANGED key
      BY <1>0, <1>5, <2>2
      DEF PollCSR, cluster, WorkerInv, RequestInv, RenewInv, CertFitsKey, HasKey
    <2>. QED
      BY <1>5, <2>1, <2>2 DEF PollCSR
  <1>6. CASE DeleteSecret
    <2>1. CASE GiveUp
      BY <1>6, <2>1, GiveUpInd DEF DeleteSecret, CertFitsKey
    <2>2. CASE pc' = "createSecret" /\ UNCHANGED <<key, cert, faults>>
      BY <1>0, <1>6, <2>2
      DEF DeleteSecret, WorkerInv, RequestInv, RenewInv, CertFitsKey, HasKey
    <2>. QED
      BY <1>6, <2>1, <2>2 DEF DeleteSecret, Then
  <1>7. CASE CreateSecret
    <2>1. CertFitsKey'
      BY <1>0, <1>7 DEF CreateSecret, RequestInv, CertFitsKey
    <2>. QED
      BY <1>7, <2>1, GiveUpInd DEF CreateSecret
  <1>8. CASE CheckSecurity
    <2>1. env' \in Renderings
      BY <1>8, SecurityRenders
    <2>. QED
      BY <1>0, <1>8, <2>1
      DEF CheckSecurity, cluster, WorkerInv, RequestInv, RenewInv, CertFitsKey, HasKey
  <1>9. CASE ApplyAll
    <2>1. CASE Return
      BY <1>9, <2>1, ReturnInd DEF ApplyAll
    <2>2. CASE pc' = "state" /\ UNCHANGED <<req, want, stale, key, cert, env,
                                          placed, faults>>
      BY <1>0, <1>9, <2>2
      DEF ApplyAll, WorkerInv, RequestInv, RenewInv, CertFitsKey, HasKey
    <2>. QED
      BY <1>9, <2>1, <2>2 DEF ApplyAll
  <1>10. CASE CheckState
    BY <1>10, ReturnInd DEF CheckState
  <1>11. CASE CertCallFails
    BY <1>11, GiveUpInd DEF CertCallFails, cluster, IndInv, CertFitsKey
  <1>12. CASE CallFails
    BY <1>12, ReturnInd DEF CallFails, cluster
  <1>13. CASE Crash
    BY <1>13, ReturnInd DEF Crash
  <1>14. CASE Sign
    <2>1. csr'.key = csr.key
      BY <1>0, <1>14 DEF Sign, TypeOK, CSRs
    <2>. QED
      BY <1>0, <1>14, <2>1
      DEF Sign, worker, WorkerInv, RequestInv, RenewInv, CertFitsKey, HasKey
  <1>15. CASE DropSecret
    BY <1>0, <1>15
    DEF DropSecret, worker, WorkerInv, RequestInv, RenewInv, CertFitsKey, HasKey
  <1>16. CASE Expire
    <2>1. secret'.key = secret.key /\ secret'.cert = secret.cert /\ secret'.expiring
      BY <1>0, <1>16 DEF Expire, TypeOK, Secrets
    <2>. QED
      BY <1>0, <1>16, <2>1
      DEF Expire, worker, WorkerInv, RequestInv, RenewInv, CertFitsKey, HasKey
  <1>17. CASE DropCSR
    BY <1>0, <1>17
    DEF DropCSR, worker, WorkerInv, RequestInv, RenewInv, CertFitsKey, HasKey
  <1>18. ASSUME NEW p \in {"", "skywalking"}, PutSecret(p) PROVE Rest'
    <2>1. CertFitsKey'
      BY <1>18 DEF PutSecret, CertFitsKey
    <2>2. RenewInv'
      BY <1>18 DEF PutSecret, worker, RenewInv, HasKey
    <2>. QED
      BY <1>0, <1>18, <2>1, <2>2
      DEF PutSecret, worker, WorkerInv, RequestInv, HasKey
  <1>19. ASSUME NEW c \in CRs, StartReconcile(c) PROVE Rest'
    BY <1>0, <1>19
    DEF StartReconcile, cluster, WorkerInv, RequestInv, RenewInv, CertFitsKey, HasKey
  <1>20. CASE \E l \in (Creds \cup {None}) \ {login} : SetLogin(l)
    BY <1>20, FrameInd DEF SetLogin, worker
  <1>21. ASSUME NEW c \in CRs,
                SyncCR(c) \/ GarbageCollect(c) \/ DeleteCR(c) \/ PodsChange(c)
                  \/ \E s \in Submissions : SubmitCR(c, s)
         PROVE  Rest'
    BY <1>21, FrameInd
    DEF SyncCR, GarbageCollect, DeleteCR, PodsChange, SubmitCR, worker
  <1>. QED
    BY <1>1, <1>2, <1>3, <1>4, <1>5, <1>6, <1>7, <1>8, <1>9, <1>10, <1>11, <1>12,
       <1>13, <1>14, <1>15, <1>16, <1>17, <1>18, <1>19, <1>20, <1>21
    DEF Next, Work, createCert

\* Each step keeps the owners: a deletion marks the StatefulSet and warns the pass,
\* and a pass that was warned writes no living owner.
LEMMA StepOwner ==
  ASSUME IndInv, Next
  PROVE  OwnerInv'
  <1>. USE NoneFacts
  <1>0. TypeOK /\ OwnerInv /\ WorkerInv
    BY DEF IndInv
  <1>1. ASSUME UNCHANGED <<spec, sets, req, stale>> PROVE OwnerInv'
    BY <1>0, <1>1 DEF OwnerInv, GoesWithItsStorage
  <1>2. ASSUME UNCHANGED <<spec, sets>>, Return PROVE OwnerInv'
    BY <1>0, <1>2 DEF OwnerInv, GoesWithItsStorage, Return
  <1>3. CASE \/ GetSecret \/ DeleteCSR \/ CreateCSR \/ ApproveCSR \/ PollCSR
             \/ DeleteSecret \/ CreateSecret \/ CheckSecurity \/ CertCallFails
             \/ Sign \/ DropSecret \/ Expire \/ DropCSR
    BY <1>1, <1>3 DEF GetSecret, DeleteCSR, CreateCSR, ApproveCSR, PollCSR, DeleteSecret,
                      CreateSecret, CheckSecurity, CertCallFails, Sign, DropSecret,
                      Expire, DropCSR, cluster, worker
  <1>4. CASE CheckState \/ CallFails \/ Crash
    BY <1>2, <1>4 DEF CheckState, CallFails, Crash, cluster
  <1>5. CASE ApplyAll
    <2>1. CASE UNCHANGED sets
      BY <1>1, <1>2, <1>5, <2>1 DEF ApplyAll
    <2>2. CASE sets' = [sets EXCEPT ![req] = WithOwner(env, stale)]
      <3>1. req \in CRs /\ UNCHANGED spec
        BY <1>0, <1>5 DEF ApplyAll, TypeOK, WorkerInv
      <3>2. GoesWithItsStorage'
        BY <1>0, <2>2, <3>1 DEF TypeOK, OwnerInv, GoesWithItsStorage, WithOwner
      <3>3. (req' # None /\ spec'[req'] = None) => stale'
        BY <1>0, <1>5, <3>1 DEF ApplyAll, Return, OwnerInv
      <3>. QED
        BY <3>2, <3>3 DEF OwnerInv
    <2>. QED
      BY <1>5, <2>1, <2>2 DEF ApplyAll, Applied
  <1>6. CASE \/ \E l \in (Creds \cup {None}) \ {login} : SetLogin(l)
             \/ \E p \in {"", "skywalking"} : PutSecret(p)
             \/ \E c \in CRs : SyncCR(c) \/ PodsChange(c)
    BY <1>1, <1>6 DEF SetLogin, PutSecret, SyncCR, PodsChange, worker
  <1>7. ASSUME NEW c \in CRs, StartReconcile(c) PROVE OwnerInv'
    BY <1>0, <1>7 DEF StartReconcile, cluster, OwnerInv, GoesWithItsStorage
  <1>8. ASSUME NEW c \in CRs, GarbageCollect(c) PROVE OwnerInv'
    BY <1>0, <1>8 DEF GarbageCollect, worker, TypeOK, OwnerInv, GoesWithItsStorage
  <1>9. ASSUME NEW c \in CRs, DeleteCR(c) PROVE OwnerInv'
    <2>1. \A d \in CRs : (sets'[d] # None /\ spec'[d] = None) => sets'[d].orphan
      BY <1>0, <1>9 DEF DeleteCR, TypeOK, OwnerInv, GoesWithItsStorage, WithOwner
    <2>2. (req' # None /\ spec'[req'] = None) => stale'
      BY <1>0, <1>9 DEF DeleteCR, TypeOK, OwnerInv
    <2>. QED
      BY <2>1, <2>2 DEF OwnerInv, GoesWithItsStorage
  <1>10. ASSUME NEW c \in CRs, NEW s \in Submissions, SubmitCR(c, s) PROVE OwnerInv'
    BY <1>0, <1>10, ConstantsAssumption
    DEF SubmitCR, worker, TypeOK, OwnerInv, GoesWithItsStorage
  <1>. QED
    BY <1>3, <1>4, <1>5, <1>6, <1>7, <1>8, <1>9, <1>10 DEF Next, Work, createCert

\* The invariant holds of the operator from its start on, through crashes and faults.
LEMMA IndInvariant == Spec => []IndInv
  <1>1. IndInv /\ [Next]_vars => IndInv'
    <2>1. ASSUME IndInv, UNCHANGED vars PROVE IndInv'
      BY <2>1 DEF vars, cluster, worker, IndInv, TypeOK, WorkerInv, RequestInv,
                  RenewInv, CertFitsKey, OwnerInv, GoesWithItsStorage, HasKey
    <2>. QED
      BY <2>1, StepType, StepRest, StepOwner DEF IndInv
  <1>. QED
    BY InitInd, <1>1, PTL DEF Spec

\* Every variable keeps its type: createCert never runs out of keys, and no pass
\* renders or writes for a CR it has not read.
THEOREM TypeCorrect == Spec => []TypeOK
  <1>1. IndInv => TypeOK
    BY DEF IndInv
  <1>. QED
    BY IndInvariant, <1>1, PTL

\* The certificate createCert stores is always for the key it stores with it, for
\* any number of requests left behind by passes that crashed or lost a reply.
THEOREM CertificateFits == Spec => []CertFitsKey
  <1>1. IndInv => CertFitsKey
    BY DEF IndInv
  <1>. QED
    BY IndInvariant, <1>1, PTL

\* What is left of a deleted Storage is marked for the garbage collector, although a
\* pass may go on applying manifests of a Storage it read before the deletion.
THEOREM NoneIsLeftBehind == Spec => []GoesWithItsStorage
  <1>1. IndInv => GoesWithItsStorage
    BY DEF IndInv, OwnerInv
  <1>. QED
    BY IndInvariant, <1>1, PTL

\* No reconcile removes or replaces a certificate that is not about to expire,
\* unless it was put there after the reconcile had looked.
THEOREM ValidIsKept == Spec => KeepsValid
  <1>. DEFINE Keeps == (secret # None /\ ~secret.expiring /\ secret' # secret)
                          => (edits' # edits \/ placed)
  <1>1. ASSUME IndInv, Next PROVE Keeps
    <2>1. CASE DeleteSecret
      BY <1>1, <2>1 DEF IndInv, RenewInv, HasKey, DeleteSecret
    <2>2. CASE CreateSecret
      BY <2>2 DEF CreateSecret
    <2>3. ASSUME Edit PROVE edits' # edits
      BY <1>1, <2>3 DEF Edit, IndInv, TypeOK
    <2>4. CASE DropSecret \/ Expire \/ \E p \in {"", "skywalking"} : PutSecret(p)
      BY <2>3, <2>4 DEF DropSecret, Expire, PutSecret
    <2>5. CASE \/ GetSecret \/ DeleteCSR \/ CreateCSR \/ ApproveCSR \/ PollCSR
               \/ CheckSecurity \/ ApplyAll \/ CheckState
               \/ CertCallFails \/ CallFails \/ Crash \/ Sign
      BY <2>5 DEF GetSecret, DeleteCSR, CreateCSR, ApproveCSR, PollCSR, CheckSecurity,
                  ApplyAll, CheckState, CertCallFails, CallFails, Crash, Sign, cluster
    <2>6. CASE \/ DropCSR
               \/ \E l \in (Creds \cup {None}) \ {login} : SetLogin(l)
               \/ \E c \in CRs : \/ StartReconcile(c) \/ SyncCR(c) \/ GarbageCollect(c)
                                 \/ DeleteCR(c) \/ PodsChange(c)
                                 \/ \E s \in Submissions : SubmitCR(c, s)
      BY <2>6 DEF DropCSR, SetLogin, StartReconcile, SyncCR, GarbageCollect, DeleteCR,
                  PodsChange, SubmitCR, cluster
    <2>. QED
      BY <1>1, <2>1, <2>2, <2>4, <2>5, <2>6 DEF Next, Work, createCert
  <1>2. IndInv /\ [Next]_vars => [Keeps]_vars
    BY <1>1
  <1>. QED
    BY IndInvariant, <1>2, PTL DEF Spec, KeepsValid
=============================================================================
