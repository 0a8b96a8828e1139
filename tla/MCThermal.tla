----------------------------- MODULE MCThermal -----------------------------
(***************************************************************************)
(* A small instance of Thermal: two cores, one of them always cold, the    *)
(* temperature of the surface that is estimated from them as a group, and  *)
(* a sensor whose limits do not ascend.                                    *)
(***************************************************************************)
EXTENDS Thermal

CONSTANTS core0, core1, surface, bad

MCBelow == -50

MCFirstRaw == [o \in Objects |-> IF o = core1 THEN -300 ELSE 296]

\* Lines for all limits; polled within ten seconds.
Limits(low, fatal) ==
  [i \in 1 .. 6 |-> [key |-> LevelKeys[i], minwait |-> 1, maxwait |-> 10,
                     mintemp |-> <<low, 0, 60, 70, fatal, 200>>[i]]]

Temp == [key |-> "Temp", divisor |-> 10, offs |-> 0]
Name(o) == [key |-> "Name", name |-> o]
File == [key |-> "File"]

MCLines ==
  <<File, [key |-> "Mode"], Name(core0), Temp, [key |-> "Mode"]>> \o Limits(-40, 90) \o
  <<Name(core1), Temp>> \o Limits(-40, 90) \o
  <<Name(bad), Temp>> \o Limits(50, 90) \o
  <<File, [key |-> "Mode"], Name(surface), [key |-> "Meta", match |-> {core0, core1}, group |-> TRUE,
                    offs |-> -5]>> \o Limits(-40, 80)
=============================================================================
