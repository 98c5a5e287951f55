--------------------------- MODULE MCApplication ---------------------------
(* The apply engine with three manifests in the order of the templates:    *)
(* 1 a cluster_role_binding of a fixed name, whose subject is the CR's     *)
(* service account; 2 the deployment, which renders the storage's settings *)
(* and is watched; 3 the ingress, which only a spec with a host renders.   *)
EXTENDS Application

CONSTANTS c1, c2, plain, host, bad, es, bare, m

MCWithoutLogin == [s \in Storages |-> bare]

MCContents ==
  (CRs \X {1}) \cup ({2} \X Specs \X Injected) \cup ({3} \X Specs)

MCTemplate ==
  [x \in CRs \X Files \X Specs \X Injected |->
     LET obj(k) == [contents |-> k, meta |-> m] IN
     CASE x[2] = 1 -> obj(<<x[1], 1>>)
       [] x[2] = 2 -> IF x[3] = bad THEN Failed ELSE obj(<<2, x[3], x[4]>>)
       [] x[2] = 3 -> IF x[3] = host THEN obj(<<3, x[3]>>) ELSE Nothing]
============================================================================
