---------------------------- MODULE MCSerialQuery -----------------------------
(* Values for the constants of SerialQuery.                                *)
EXTENDS SerialQuery

\* get_version_info, and two polls of one getter with an alarm between them.
VersionThenPolling == <<"n", "t", "a", "t">>
==============================================================================
