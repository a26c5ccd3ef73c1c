------------------------------ MODULE MCInput ------------------------------
(***************************************************************************)
(* Input.tla with up to three keyboards and a table that holds two.        *)
(***************************************************************************)
EXTENDS Input

ThreeKbds == <<"kbd0", "kbd1", "kbd2">>
OneKbd == <<"kbd0">>
PressedKeys == {"select", "down", "kenter"}
EnterOnly == {"kenter"}
OtherOnly == {"other"}
=============================================================================
