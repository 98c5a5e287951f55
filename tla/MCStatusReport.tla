--------------------------- MODULE MCStatusReport ---------------------------
(* Two conditions and two external IPs, so that lists grow, shrink and     *)
(* change in place; one replica, so that the count goes up and back.       *)
EXTENDS StatusReport
CONSTANTS a, b, i, j
AllKinds == {OAPServer, UI, Satellite, BanyanDB}
=============================================================================
