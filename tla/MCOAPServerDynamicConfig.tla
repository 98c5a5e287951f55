---------------------- MODULE MCOAPServerDynamicConfig ----------------------
(* Two CRs, the name of one within the name of the other; two names of     *)
(* configurations; two versions; a selector that asks for more than the    *)
(* other.  A selector that does not parse takes the way of a collision.    *)
EXTENDS OAPServerDynamicConfig, TLC
CONSTANTS a, ab, x, y, l1, l2, v1, v2
MCContains  == {<<a, a>>, <<ab, ab>>, <<ab, a>>}
MCNames     == x :> {"n"} @@ y :> {"m"}
less == [labels |-> {l1}, valid |-> TRUE]
more == [labels |-> {l1, l2}, valid |-> TRUE]
MCSelectors   == {less, more}
MCSubmissions ==
  {[data |-> x, selector |-> less, version |-> v1],
   [data |-> x, selector |-> more, version |-> v2],
   [data |-> y, selector |-> less, version |-> v1]}
=============================================================================
