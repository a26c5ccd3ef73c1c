------------------------------ MODULE MCConfig ------------------------------
(***************************************************************************)
(* Config.tla from a missing file, a good one with something after its     *)
(* end, and ones edited by hand: a flag of 2, a brightness of 101 and one  *)
(* of 0, a file that ends after two good lines.                            *)
(***************************************************************************)
EXTENDS Config

MCInitialFiles ==
  { <<>>, <<1, 0, 1, 1, 57, 9>>, <<1, 2, 0, 0, 57>>, <<1, 1, 0, 0, 101>>,
    <<0, 1, 0, 0, 0>>, <<1, 1>> }
MCBrightness == {57}
=============================================================================
