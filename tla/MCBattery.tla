----------------------------- MODULE MCBattery -----------------------------
EXTENDS Battery

MCQueries == {"charger", "level"}
MCValues == [q \in MCQueries |-> IF q = "level" THEN {1, 2} ELSE {"on", "off"}]

\* Nothing, or an empty battery.
MCStartValues == {Nothing, [Nothing EXCEPT !["level"] = 2, !["charger"] = "off"]}

Line(level, polling) == [values |-> 2, min_level |-> level, polling_time |-> polling]

\* Levels with another limit, and levels that do not descend.
MCConfigFiles ==
  {<<Line(50, 300), Line(20, 180), Line(10, 120), Line(2, 60), Line(0, 60)>>,
   <<Line(50, 300), Line(20, 180), Line(10, 120), Line(10, 60), Line(0, 60)>>}
=============================================================================
