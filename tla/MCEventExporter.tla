-------------------------- MODULE MCEventExporter --------------------------
(* Three configurations, so that one can follow another and come back while *)
(* a third is in the status, a field that has nothing to do with them, and  *)
(* pods that are available or not.  Users, pods and faults take three steps *)
(* in all, of which two may be faults; the first spec is one of six that    *)
(* differ in nothing but their names.                                       *)
EXTENDS EventExporter
CONSTANTS k1, k2, k3, o1, o2, r1
MCFairSpec ==
  /\ Init /\ log[1].config = k1 /\ log[1].other = o1
  /\ [][Next /\ edits' + faults' <= 3]_vars /\ Fairness

\* Users make a change only when the last one is rendered and no pass is under way;
\* the status they do not look at.
MCPatient ==
  \A c \in Configs, o \in Others : EditCR(c, o) => pc = "idle" /\ IsConfigured

MCPatientSpec == Init /\ [][Next /\ MCPatient]_vars /\ Fairness
============================================================================
