---------------------------- MODULE MCTableLoad ----------------------------
(* Programs of calls on one table, for TLC. *)
EXTENDS TableLoad

PushUpdatePush == <<"create", "update", "replace">>
AllRequests == {"version", "spec", "newslot", "load", "progress", "deleteslot"}
=============================================================================
