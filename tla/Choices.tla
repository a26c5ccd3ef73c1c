------------------------------ MODULE Choices ------------------------------
(***************************************************************************)
(* What the configuration promises: a store of whole choices.              *)
(*                                                                         *)
(* A start of the program finds the choice that was saved last.  While a   *)
(* choice is being saved the store holds the default one; a power cut may  *)
(* bring back any choice saved since the kernel last wrote back, the       *)
(* default one, or one with digits missing at the end of its brightness,   *)
(* but never parts of two choices.                                         *)
(*                                                                         *)
(* Config.tla implements this with the lines of the file.                  *)
(***************************************************************************)
EXTENDS Integers

VARIABLES
  running,     \* the program runs
  inForce,     \* the choice it works with
  next,        \* the choice a start would find
  candidates   \* the choices a power cut may leave

vars == <<running, inForce, next, candidates>>

Choice == [ramdisk : {0, 1}, networking : {0, 1}, brightness : 0 .. 100]
Default == [ramdisk |-> 0, networking |-> 0, brightness |-> 100]
Blank == [ramdisk |-> 0, networking |-> 0, brightness |-> 0]

\* What a cut leaves of a printed number, if it leaves a digit.
Prefixes(b) == IF b = 0 THEN {0} ELSE {b, b \div 10, b \div 100} \ {0}

\* What a cut may leave of a choice.
Remains(c) == {Default} \cup {[c EXCEPT !.brightness = b] : b \in Prefixes(c.brightness)}
-----------------------------------------------------------------------------
Init ==
  /\ running = FALSE /\ inForce = Blank
  /\ next \in Choice /\ candidates = {next}

Load ==
  /\ ~ running /\ running' = TRUE
  /\ inForce' = next
  /\ UNCHANGED <<next, candidates>>

Alter ==
  /\ running
  /\ inForce' \in Choice
  /\ UNCHANGED <<running, next, candidates>>

BeginSave ==
  /\ running
  /\ next' = Default /\ candidates' = candidates \cup {Default}
  /\ UNCHANGED <<running, inForce>>

Save ==
  /\ running
  /\ next' = inForce
  /\ candidates \cup {inForce} \subseteq candidates'
  /\ candidates' \subseteq candidates \cup Remains(inForce)
  /\ UNCHANGED <<running, inForce>>

Stop ==
  /\ running /\ running' = FALSE
  /\ inForce' = Blank
  /\ UNCHANGED <<next, candidates>>

Settle ==
  /\ candidates' = {next}
  /\ UNCHANGED <<running, inForce, next>>

PowerCut ==
  /\ running' = FALSE /\ inForce' = Blank
  /\ next' \in candidates /\ candidates' = {next'}

Next == Load \/ Alter \/ BeginSave \/ Save \/ Stop \/ Settle \/ PowerCut

Spec == Init /\ [][Next]_vars
=============================================================================
