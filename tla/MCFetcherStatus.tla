-------------------------- MODULE MCFetcherStatus --------------------------
(* The cluster may turn bad and good again while the spec is edited.       *)
EXTENDS FetcherStatus
=============================================================================
