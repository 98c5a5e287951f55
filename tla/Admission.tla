------------------------------ MODULE Admission ------------------------------
(***************************************************************************)
(* The admission webhooks of the operator's custom resources.  On a create  *)
(* or an update the API server sends the object to the defaulting webhook  *)
(* and what that returns to the validating one; the validating webhooks    *)
(* are registered for create and update, not for delete.                   *)
(*                                                                         *)
(* The operands of ValidateUpdate are, in controller-runtime, the old and  *)
(* the new object, in this order; the webhooks here validate the first.    *)
(* EventExporter has no validating webhook (its marker registers the       *)
(* defaulting one twice).                                                  *)
(*                                                                         *)
(* One object is followed through its life, of any of the kinds.  Strings  *)
(* are Unset or one of a few values; an image is a repository and a tag,  *)
(* an address a sequence of its parts.                                     *)
(***************************************************************************)
EXTENDS Naturals, Sequences

CONSTANTS
  Kinds,      \* the kinds that are checked
  Versions    \* the versions users write; Unset leaves it out

\* A string that is left out.
Unset == ""

Image(repo, tag) == [repo |-> repo, tag |-> tag]
NoImage   == Image(Unset, Unset)
UserImage == Image("user", Unset)

\* What users submit, before defaulting.  Annotations may be missing altogether,
\* present without the istio one, or with it.
Annotations == {"nil", "some", "istio"}

Submissions(kind) ==
  CASE kind = "BanyanDB" ->
         [kind : {kind}, version : Versions, image : {NoImage, UserImage},
          counts : 0 .. 2]
    [] kind = "OAPServer" ->
         [kind : {kind}, version : Versions, image : {NoImage, UserImage},
          als : BOOLEAN, annotations : Annotations]
    [] kind = "UI" ->
         [kind : {kind}, ui : {"horizon", "booster"}, version : Versions,
          image : {NoImage, UserImage}, service : {Unset, "NodePort"},
          oap : {<<>>, <<"user">>}, admin : {<<>>, <<"user">>},
          zipkin : {<<>>, <<"user">>}]
    [] kind = "Satellite" ->
         [kind : {kind}, version : Versions, image : {NoImage, UserImage},
          oap : {Unset, "user"}, annotations : Annotations]
    [] kind = "Fetcher" -> [kind : {kind}, cluster : {Unset, "user"}]
    [] kind = "Storage" ->
         [kind : {kind}, type : {"elasticsearch", "other"},
          connect : {"internal", "external", "other"},
          image : {NoImage, UserImage}, instances : 0 .. 1]
    [] kind = "EventExporter" ->
         [kind : {kind}, version : Versions, image : {NoImage, UserImage},
          replicas : 0 .. 2]
    [] kind = "JavaAgent" ->
         [kind : {kind}, config : {"nil", "empty", "set"},
          service : {Unset, "user"}, backend : {Unset, "user"}]
    [] kind = "SwAgent" ->
         [kind : {kind}, selector : {{}, {"user"}}, matcher : {Unset, "user"},
          args : {<<>>, <<"user">>}]
    [] kind = "OAPServerConfig" -> [kind : {kind}, version : Versions]
    [] kind = "OAPServerDynamicConfig" ->
         [kind : {kind}, version : Versions, selector : {Unset, "user"}]
    [] OTHER -> {}

----------------------------------------------------------------------------
(* Defaulting.  A field that is set is left alone. *)

orElse(v, default) == IF v = Unset THEN default ELSE v
orImage(i, repo, tag) == IF i = NoImage THEN Image(repo, tag) ELSE i
orAddress(a, default) == IF a = <<>> THEN default ELSE a

Default_BanyanDB(o) ==
  LET v == orElse(o.version, "latest") IN
  [o EXCEPT !.version = v,
            !.image = orImage(@, "skywalking-banyandb", v),
            !.counts = IF @ = 0 THEN 1 ELSE @]

\* Writing into annotations that are missing altogether panics.
Denied == [kind |-> "Denied"]

setIstio(o) ==
  IF o.annotations = "nil" THEN Denied ELSE [o EXCEPT !.annotations = "istio"]

Default_OAPServer(o) ==
  LET d == [o EXCEPT !.image = orImage(@, "skywalking-oap-server", o.version)] IN
  IF o.als THEN setIstio(d) ELSE d

\* Mutant: the OAP address is filled in for the horizon UI only.
Default_UI_Horizon(o) ==
  LET oap == IF o.ui = "horizon" THEN orAddress(o.oap, <<"oap:12800">>) ELSE o.oap
  IN
  [o EXCEPT
     !.image = orImage(@, o.ui, o.version),
     !.service = orElse(@, "ClusterIP"),
     !.oap = oap,
     !.admin = IF o.ui = "horizon" THEN orAddress(@, <<"oap:17128">>) ELSE @,
     !.zipkin = IF o.ui = "horizon" THEN orAddress(@, Append(oap, "zipkin")) ELSE @]

\* An empty kind does not reach the webhook: the CRD's default comes first.  The
\* repository of the image is named by the kind.
Default_UI(o) ==
  LET oap == orAddress(o.oap, <<"oap:12800">>) IN
  [o EXCEPT
     !.image = orImage(@, o.ui, o.version),
     !.service = orElse(@, "ClusterIP"),
     !.oap = oap,
     !.admin = IF o.ui = "horizon" THEN orAddress(@, <<"oap:17128">>) ELSE @,
     !.zipkin = IF o.ui = "horizon" THEN orAddress(@, Append(oap, "zipkin")) ELSE @]

Default_Satellite(o) ==
  setIstio([o EXCEPT !.image = orImage(@, "skywalking-satellite", o.version),
                     !.oap = orElse(@, "self")])

Default_Fetcher(o) == [o EXCEPT !.cluster = orElse(@, "self")]

Default_Storage(o) ==
  IF o.connect = "internal"
    THEN [o EXCEPT !.image = orImage(@, "elasticsearch", "7.5.1"),
                   !.instances = IF @ = 0 THEN 3 ELSE @]
    ELSE o

Default_EventExporter(o) ==
  LET v == orElse(o.version, "latest") IN
  [o EXCEPT !.version = v,
            !.image = orImage(@, "skywalking-kubernetes-event-exporter", v),
            !.replicas = IF @ = 0 THEN 1 ELSE @]

\* A configuration without the two entries stands for the agent's own defaults.
Default_JavaAgent(o) ==
  IF o.config = "nil"
    THEN o
    ELSE [o EXCEPT !.service = orElse(@, o.config), !.backend = orElse(@, o.config)]

\* Mutant: the arguments are appended without looking whether there are any.
Default_SwAgent_Append(o) ==
  [o EXCEPT !.selector = IF @ = {} THEN {"swck-java-agent-injected"} ELSE @,
            !.matcher = orElse(@, ".*"),
            !.args = Append(@, "-c")]

\* setDefault; the sidecar's name, image and command and the shared volume are
\* filled in like the container matcher.
Default_SwAgent(o) ==
  [o EXCEPT !.selector = IF @ = {} THEN {"swck-java-agent-injected"} ELSE @,
            !.matcher = orElse(@, ".*"),
            !.args = IF @ = <<>> THEN <<"-c", "mkdir">> ELSE @]

Default_OAPServerConfig(o) == [o EXCEPT !.version = orElse(@, "9.5.0")]

Default_OAPServerDynamicConfig(o) ==
  [o EXCEPT !.version = orElse(@, "9.5.0"),
            !.selector = orElse(@, "app=collector,release=skywalking")]

Default(o) ==
  CASE o.kind = "BanyanDB"        -> Default_BanyanDB(o)
    [] o.kind = "OAPServer"       -> Default_OAPServer(o)
    [] o.kind = "UI"              -> Default_UI(o)
    [] o.kind = "Satellite"       -> Default_Satellite(o)
    [] o.kind = "Fetcher"         -> Default_Fetcher(o)
    [] o.kind = "Storage"         -> Default_Storage(o)
    [] o.kind = "EventExporter"   -> Default_EventExporter(o)
    [] o.kind = "JavaAgent"       -> Default_JavaAgent(o)
    [] o.kind = "SwAgent"         -> Default_SwAgent(o)
    [] o.kind = "OAPServerConfig" -> Default_OAPServerConfig(o)
    [] o.kind = "OAPServerDynamicConfig" -> Default_OAPServerDynamicConfig(o)

----------------------------------------------------------------------------
(* Validation *)

validate_BanyanDB(o)  == o.image # NoImage /\ o.counts = 1
validate_OAPServer(o) == o.image # NoImage
validate_UI(o) ==
  /\ o.ui \in {Unset, "booster", "horizon"} /\ o.image # NoImage
  /\ o.service # Unset /\ o.oap # <<>>
validate_Satellite(o) == o.image # NoImage
validate_Fetcher(o)   == o.cluster # Unset
valid_Storage(o) ==
  o.type = "elasticsearch" /\ o.connect \in {"internal", "external"}
validate_JavaAgent(o) == o.service # Unset /\ o.backend # Unset
validate_OAPServerConfig(o) == o.version # Unset
validate_OAPServerDynamicConfig(o) == o.version # Unset /\ o.selector # Unset

validate(o) ==
  CASE o.kind = "BanyanDB"        -> validate_BanyanDB(o)
    [] o.kind = "OAPServer"       -> validate_OAPServer(o)
    [] o.kind = "UI"              -> validate_UI(o)
    [] o.kind = "Satellite"       -> validate_Satellite(o)
    [] o.kind = "Fetcher"         -> validate_Fetcher(o)
    [] o.kind = "Storage"         -> valid_Storage(o)
    [] o.kind = "JavaAgent"       -> validate_JavaAgent(o)
    [] o.kind = "OAPServerConfig" -> validate_OAPServerConfig(o)
    [] o.kind = "OAPServerDynamicConfig" -> validate_OAPServerDynamicConfig(o)
    [] o.kind \in {"SwAgent", "EventExporter"} -> TRUE

ValidateCreate(o) == validate(o)

\* ValidateUpdate validates its first operand.
ValidateUpdate(old, new) == validate(old)

----------------------------------------------------------------------------
(* The API server *)

VARIABLE obj     \* the stored object, or Nothing

Nothing == [kind |-> "Nothing"]

Create(o) ==
  /\ obj = Nothing
  /\ Default(o) # Denied /\ ValidateCreate(Default(o))
  /\ obj' = Default(o)

Store(o) ==
  /\ Default(o) # Denied /\ ValidateUpdate(obj, Default(o))
  /\ obj' = Default(o)

\* kubectl replace: the whole object is written anew.
Replace(o) == obj.kind = o.kind /\ Store(o)

\* kubectl apply, edit or patch: one field gets a submitted value, the others stay.
Patch(o, f) ==
  /\ obj.kind = o.kind /\ f \in DOMAIN o \ {"kind"}
  /\ Store([obj EXCEPT ![f] = o[f]])

Delete == obj # Nothing /\ obj' = Nothing

AdmissionInit == obj = Nothing

AdmissionNext ==
  \/ Delete
  \/ \E k \in Kinds : \E o \in Submissions(k) :
       Create(o) \/ Replace(o) \/ \E f \in DOMAIN o : Patch(o, f)

AdmissionSpec == AdmissionInit /\ [][AdmissionNext]_obj

----------------------------------------------------------------------------
(* Properties *)

\* Every stored object is a fixed point of its defaulting webhook: admitting it
\* once more, as each later update does, changes nothing, so that defaults never
\* pile up and no default overwrites one that was filled in before.
Defaulted == obj # Nothing => Default(obj) = obj

\* Although updates are validated by the object they replace, a kind whose
\* defaults fill in everything its validation asks for is never stored invalid.
DefaultsSuffice ==
  obj.kind \notin {"Nothing", "BanyanDB", "Storage", "JavaAgent"} => validate(obj)
=============================================================================
