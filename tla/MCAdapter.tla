----------------------------- MODULE MCAdapter -----------------------------
(* One request of each kind.  OAP's lists differ in length, in order and in  *)
(* a definition; the selectors are in the order of their labels, as parsed:  *)
(* bytes before strings, and number 10 before number 2.                      *)
EXTENDS Adapter, TLC

Def(n, t) == [name |-> n, type |-> t]
A  == Def("A", "REGULAR_VALUE")
A2 == Def("A", "LABELED_VALUE")
B  == Def("B", "HEATMAP")

Oap(l, a) == [defs |-> l, answers |-> a]
MCOaps == {Oap(l, "yes") : l \in {<< >>, <<A>>, <<A, B>>, <<B, A2>>}}
            \cup {Oap(<<A>>, a) : a \in {"error", "never"}}

Req(k, s, i, v) == [key |-> k, shape |-> s, index |-> i, value |-> v]

MCHex == <<"7c">> :> <<"|">> @@ << >> :> << >>

Spelled == << Req("service", "byte", 1, <<"7c">>), Req("service", "byte", 9, <<"7c">>),
              Req("service", "str", 0, <<"v1">>), Req("service", "str", 10, <<"demo">>),
              Req("service", "str", 2, <<"page">>) >>

Selectors ==
  {Nothing,
   << Req("label", "whole", 0, <<"2">>), Req("service", "whole", 0, <<"gw">>) >>,
   << Req("endpoint", "byte", 0, <<"abc">>), Req("service", "whole", 0, <<"gw">>) >>,
   << Req("instance", "str", -1, <<"i">>), Req("service", "whole", 0, <<"gw">>) >>,
   << Req("instance", "short", 0, <<"i">>), Req("service", "str", 127, <<"gw">>) >>,
   << Req("service", "int", 0, <<"gw">>), Req("service", "str", 128, <<"gw">>) >>,
   << Req("label", "whole", 0, None), Req("service", "str", 0, <<"gw">>) >>,
   << Req("endpoint", "whole", 0, <<"e">>), Req("service", "whole", 0, << >>) >>}

Info(m, s) == [metric |-> m, selector |-> s]
Raced   == {Info(<<"ns", "A">>, Spelled)}
MCInfos == Raced \cup {Info(<<"ns", "A">>, s) : s \in Selectors}
                 \cup {Info(m, Spelled) : m \in {<<"ns", "B">>, <<"A", "ns">>}}

MCReadings == {<<7>>, <<7, 0>>, <<-1, 7>>}

(* A request with another selector or namespace comes while nothing else    *)
(* goes on, and then nothing else moves unless OAP does not answer:          *)
(* what its labels come to does not depend on the registry.                 *)
Other(i) == i # None /\ i \notin Raced

Alone(h) ==
  /\ info'[h] # info[h] /\ Other(info'[h]) =>
       refresher = "idle" /\ restarts.stopped = 0 /\ \A l \in Listers : pc[l] = "idle"
  /\ Other(info[h]) /\ (pc[h] = "query" => oap.answers = "yes") =>
       UNCHANGED <<oap, registry, restarts>> /\ \A l \in Listers : pc'[l] = pc[l]

MCNext ==
  /\ Next /\ changes' + restarts'.stopped <= 2
  /\ \A h \in Getters : Alone(h)

MCFairSpec == Init /\ [][MCNext]_vars /\ Fairness
============================================================================
