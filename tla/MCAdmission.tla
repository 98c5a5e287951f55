---------------------------- MODULE MCAdmission ----------------------------
(* Every kind, with every combination of fields that are set and not set.  *)
EXTENDS Admission
AllKinds ==
  {"BanyanDB", "OAPServer", "UI", "Satellite", "Fetcher", "Storage",
   "EventExporter", "JavaAgent", "SwAgent", "OAPServerConfig",
   "OAPServerDynamicConfig"}
=============================================================================
