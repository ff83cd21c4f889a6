------------------------------ MODULE SoftStop ------------------------------
(***************************************************************************)
(* The soft-stop controller of the FMEA system                             *)
(* (crates/openracing-fmea/src/soft_stop.rs), as operators on its state.   *)
(*                                                                         *)
(* Time is counted in updates (real-time ticks).  While a ramp to zero is  *)
(* under way current_torque is start_torque * (1 - elapsed/ramp_duration), *)
(* so it is kept as `level', its share of start_torque in units of 1/Ramp; *)
(* elapsed is Ramp - level.  start_ramp_to, cancel and reset have no       *)
(* caller in the engine and are left out.                                  *)
(***************************************************************************)
EXTENDS Integers

CONSTANT Ramp   \* ramp_duration, in ticks, at least one

Levels == 0..Ramp

SoftStopController == [active : BOOLEAN, start_torque : Int, level : Levels]

new == [active |-> FALSE, start_torque |-> 0, level |-> 0]

start_soft_stop(torque) == [active |-> TRUE, start_torque |-> torque, level |-> Ramp]

\* Mutant: the ramp ends without setting the target torque.
UpdateNoTarget(s) ==
  IF ~s.active THEN s
  ELSE IF s.level <= 1 THEN [s EXCEPT !.active = FALSE]
  ELSE [s EXCEPT !.level = s.level - 1]

\* Mutant: the finished ramp hands the start torque back.
UpdateRestores(s) ==
  IF ~s.active THEN s
  ELSE IF s.level <= 1 THEN [s EXCEPT !.active = FALSE, !.level = Ramp]
  ELSE [s EXCEPT !.level = s.level - 1]

\* One tick of the ramp; an inactive controller stays as it is.
update(s) ==
  IF ~s.active THEN s
  ELSE IF s.level <= 1 THEN [s EXCEPT !.active = FALSE, !.level = 0]
  ELSE [s EXCEPT !.level = s.level - 1]

\* The multiplier in units of 1/Ramp: |current / start|, and zero when the
\* start torque was zero.
current_multiplier(s) == IF s.start_torque = 0 THEN 0 ELSE s.level

force_stop(s) == [s EXCEPT !.active = FALSE, !.level = 0]
=============================================================================
