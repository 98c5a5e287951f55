------------------------- MODULE MCOAPServerConfig -------------------------
(* Two OAPServers of the configuration's version, or one; two environments *)
(* and two file sets, so that a change of either alone, of both and back   *)
(* again are all reached.  Specs, environments and file sets are only ever *)
(* compared with each other, so it is no loss to say which of them comes   *)
(* first.  There are a user's step at any time and a fault at any time, or *)
(* two steps of users, the second of which finds the operator at rest, or  *)
(* a user's step and a change of the pods at any time.                     *)
EXTENDS OAPServerConfig
CONSTANTS v1, v2, e1, e2, f1, f2

MCInit == Init /\ spec = [s \in Servers |-> v1] /\ conf = [env |-> e1, file |-> f1]

\* Nothing is under way: the caches are up to date and both workers idle.
AtRest ==
  /\ pc = "idle" /\ oap = None /\ available = Servers
  /\ \A s \in Servers : depFresh[s]
  /\ cmCache = cm

MCNext ==
  /\ Next
  /\ edits' + faults' <= 2
  /\ edits = 1 /\ edits' = 2 => AtRest \/ \E s \in Servers : PodsChange(s)

MCFairSpec == MCInit /\ [][MCNext]_vars /\ Fairness
============================================================================
