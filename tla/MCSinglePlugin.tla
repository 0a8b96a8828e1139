--------------------------- MODULE MCSinglePlugin ---------------------------
(* Small instance of module SinglePlugin.                                  *)
EXTENDS SinglePlugin

\* No alarm, one that rings, two to come and a time that is none.
MCAlarmTimes == {-1, 0, 1, 5, 8}

MCDevices == [writable : BOOLEAN, hctosys : BOOLEAN, encrypted : {FALSE}]
               \union {[writable |-> FALSE, hctosys |-> TRUE, encrypted |-> TRUE]}
=============================================================================
