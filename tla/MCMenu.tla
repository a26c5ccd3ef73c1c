------------------------------- MODULE MCMenu -------------------------------
(***************************************************************************)
(* The menu tree of the repository in a DEBUG_FEATURES build (the default  *)
(* of build-userspace.sh), with the entries in their order.  The debugging *)
(* menu has thirteen leaf entries and "Back"; two of the leaves are kept.  *)
(***************************************************************************)
EXTENDS Menu, Sequences

MCMenus == {"main", "features", "settings", "update", "debug"}

MCEntries ==
  [main     |-> <<"features", "leaf", "settings", "debug", "leaf", "leaf">>,
   features |-> <<"leaf", "leaf", "back">>,
   settings |-> <<"leaf", "update", "back">>,
   update   |-> <<"leaf", "leaf", "leaf", "back">>,
   debug    |-> <<"leaf", "leaf", "back">>]

MCItem == [m \in MCMenus |-> [i \in 0 .. Len(MCEntries[m]) - 1 |-> MCEntries[m][i + 1]]]
MCNumItems == [m \in MCMenus |-> Len(MCEntries[m])]
MCHasSetup == {"features"}
MCDepth == [main |-> 0, features |-> 1, settings |-> 1, debug |-> 1, update |-> 2]
=============================================================================
