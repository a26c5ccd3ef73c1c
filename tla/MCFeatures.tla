----------------------------- MODULE MCFeatures -----------------------------
(***************************************************************************)
(* Features.tla with both features, from every content of the file.        *)
(***************************************************************************)
EXTENDS Features

BothFeatures == {"ramdisk", "networking"}
=============================================================================
