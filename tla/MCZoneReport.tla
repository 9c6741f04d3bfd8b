---------------------------- MODULE MCZoneReport ----------------------------
(* Names with every record, with addresses only, with mail only, with none. *)
EXTENDS ZoneReport

MCRecordSets == {{"A", "AAAA", "MX", "TXT"}, {"A"}, {"MX"}, {}}
=============================================================================
