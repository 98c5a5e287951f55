-------------------------- MODULE MetricRegistry --------------------------
(***************************************************************************)
(* What the adapter promises to those who list its metrics, without the    *)
(* lock, the two words of the slice, the refreshing goroutine and OAP's    *)
(* failures: there is one list at a time, it is replaced as a whole and    *)
(* never by an empty one, and a request is answered from the list there is *)
(* at one moment.  Only a restart forgets the list, and all requests.      *)
(***************************************************************************)
EXTENDS Naturals, Sequences

CONSTANTS
  Clients,    \* the requests for the list
  Known,      \* the lists of definitions the adapter may learn of
  Namespace,  \* the namespace all metrics are shown in
  None        \* no answer yet

VARIABLES
  starts,     \* changes with every start of the adapter
  list,       \* the definitions
  answer      \* answer[c]: the names a request is answered with, or None

Names == [i \in DOMAIN list |-> <<Namespace, list[i].name>>]

Init == list = << >> /\ answer = [c \in Clients |-> None]

\* The adapter learns of other definitions.
Replace(l) ==
  /\ l # << >> /\ list' = l
  /\ UNCHANGED <<starts, answer>>

\* A request is answered.
Answer(c) ==
  /\ answer[c] = None
  /\ answer' = [answer EXCEPT ![c] = Names]
  /\ UNCHANGED <<starts, list>>

\* The answer is sent.
Done(c) ==
  /\ answer' = [answer EXCEPT ![c] = None]
  /\ UNCHANGED <<starts, list>>

\* The adapter is started again.
Restart ==
  starts' # starts /\ list' = << >> /\ answer' = [c \in Clients |-> None]

Next ==
  \/ \E l \in Known : Replace(l)
  \/ \E c \in Clients : Answer(c) \/ Done(c)
  \/ Restart

Spec == Init /\ [][Next]_<<starts, list, answer>>
=============================================================================
