---------------------------- MODULE MCBuildCache ----------------------------
(***************************************************************************)
(* Two packages; two failures suffice for a damaged file to meet another.  *)
(***************************************************************************)
EXTENDS BuildCache

TwoDebs == <<"nvidia-l4t-core", "switch-bsp">>
=============================================================================
