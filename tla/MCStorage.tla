----------------------------- MODULE MCStorage -----------------------------
(* One Storage, of which there are three forms: with the user from a       *)
(* secret, with tls and the default user, and external.                    *)
EXTENDS Storage
CONSTANTS a, u1, u2
MCSubmissions ==
  {[internal |-> TRUE, tls |-> FALSE, user |-> "secret"],
   [internal |-> TRUE, tls |-> TRUE, user |-> "default"],
   [internal |-> FALSE, tls |-> FALSE, user |-> "none"]}
=============================================================================
