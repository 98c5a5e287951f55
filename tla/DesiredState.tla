---------------------------- MODULE DesiredState ----------------------------
(***************************************************************************)
(* What the reconcilers promise about the objects of their CRs, without    *)
(* caches, queues, passes, failing calls and crashes: users store versions *)
(* of a CR; at any time one object at a time may be put in place from a    *)
(* version that was stored and wants such an object, if no object of the   *)
(* CR comes from a newer version; and objects may go away.                 *)
(***************************************************************************)
EXTENDS Naturals, Sequences

CONSTANTS
  CRs,       \* names of the CRs of one kind
  Slots,     \* the objects a CR may have
  Versions,  \* what the API server may store for a CR, records with a spec
  First,     \* the version every history starts with: there is no CR yet
  Wants      \* Wants[<<c, s>>]: the specs of CR c that ask for object s

VARIABLES
  versions,  \* versions[c]: the history of CR c
  placed     \* placed[<<c, s>>]: the position in it the object in place is
             \* from, 0 when there is none

Init ==
  /\ versions = [c \in CRs |-> << First >>]
  /\ placed = [k \in CRs \X Slots |-> 0]

\* A user creates, changes or deletes the CR.
Submit(c) ==
  /\ Len(versions'[c]) = Len(versions[c]) + 1
  /\ LET new == versions'[c][Len(versions[c]) + 1] IN
       new \in Versions /\ versions' = [versions EXCEPT ![c] = Append(@, new)]
  /\ UNCHANGED placed

\* The operator puts object s of CR c in place, as version p wants it.
Place(c, s, p) ==
  /\ versions[c][p].spec \in Wants[<<c, s>>]
  /\ \A t \in Slots : placed[<<c, t>>] <= p
  /\ placed' = [placed EXCEPT ![<<c, s>>] = p]
  /\ UNCHANGED versions

\* A user or the garbage collector removes the object.
Remove(c, s) ==
  /\ placed' = [placed EXCEPT ![<<c, s>>] = 0]
  /\ UNCHANGED versions

Next ==
  \E c \in CRs :
    \/ Submit(c)
    \/ \E s \in Slots : Remove(c, s)
    \/ \E s \in Slots : \E p \in 1 .. Len(versions[c]) : Place(c, s, p)

Spec == Init /\ [][Next]_<<versions, placed>>
=============================================================================
