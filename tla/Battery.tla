------------------------------ MODULE Battery ------------------------------
(***************************************************************************)
(* The battery status in the corner of the menu: BAT_GetPercent and        *)
(* BAT_GetChargeRate of battery.c, and batStatus of menu.c.                *)
(*                                                                         *)
(* A battery is what the files of its driver say; "readable" are those     *)
(* that yield what fscanf expects.  "free" is the number of descriptors    *)
(* the process has left.  The colours follow from the numbers.             *)
(***************************************************************************)
EXTENDS Integers

Files == {"capacity", "current_now", "status"}
BatteryRecord ==
  [capacity : 0 .. 100, current : Int, status : {"Charging", "Discharging", "Full"},
   readable : SUBSET Files]

\* Division of C, which rounds towards zero.
Quotient(a, b) == IF a < 0 THEN -((-a) \div b) ELSE a \div b

\* BAT_GetPercent, and the descriptors it leaves open.
Percent(b, free) == IF free > 0 /\ "capacity" \in b.readable THEN b.capacity ELSE -1
Leak(b, free) == IF free > 0 /\ "capacity" \in b.readable THEN 1 ELSE 0

\* The sign the current gets from the status.
Signed_Charging(current, status) ==
  IF status = "Charging" /\ current > 0 THEN -current ELSE current
Signed(current, status) ==
  IF status = "Discharging" /\ current > 0 THEN -current ELSE current

\* BAT_GetChargeRate: the current is read from b, the status from later.
ChargeRate(b, later, free) ==
  IF free = 0 \/ "current_now" \notin b.readable THEN -1
  ELSE IF "status" \notin later.readable THEN b.current
  ELSE Quotient(Signed(b.current, later.status), 1000)

\* batStatus shows a small rate as none.
DrawnRate(rate) == IF rate > -25 /\ rate < 25 THEN 0 ELSE rate
=============================================================================
