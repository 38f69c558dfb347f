---------------------------- MODULE MCPrivileges ----------------------------
(* Small instances of Privileges for TLC.                                   *)
EXTENDS Privileges

CONSTANTS root, bob, staff, ops, home

\* bob is in staff; ops has a privilege to hand on; the app root administers.
TheMembers == {<<bob, staff>>}
TheGrants == {<<root, "*", "admin">>, <<ops, home, "list">>}
ThePolicies == {{}, {<<"*", "admin">>}}
=============================================================================
