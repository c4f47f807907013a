--------------------------- MODULE MCStatsExport ---------------------------
(* The behaviours on which StatsExport is checked.                         *)
EXTENDS StatsExport

\* Two threads push events; the monitor comes late, and may be killed.
Collecting == [kinds |-> {"event"}, threads |-> Threads, pushes |-> 4, seconds |-> 2, kills |-> TRUE]
\* Counters are added up and polled for while events go through the same pipe.
Polling == [kinds |-> {"event", "update"}, threads |-> {Min(Threads)}, pushes |-> 3, seconds |-> 3,
            kills |-> TRUE]
\* A reader and a profiler feed the exporter, the reader with older timestamps.
Exporting == [kinds |-> {"event", "usage"}, threads |-> {Min(Threads)}, pushes |-> 4, seconds |-> 4,
              kills |-> FALSE]
\* Enough seconds for the oldest of the files to be removed.
Rotating == [kinds |-> {"usage"}, threads |-> {}, pushes |-> 8, seconds |-> 8, kills |-> FALSE]
AllMounts == {Collecting, Polling, Exporting, Rotating}
=============================================================================
