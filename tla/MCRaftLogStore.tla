--------------------------- MODULE MCRaftLogStore ---------------------------
(***************************************************************************)
(* RaftLogStore for a paged queue that keeps one body resident and rolls   *)
(* its segments after one or two, and for a group whose snapshots ride     *)
(* inline (the metadata catalog's).                                        *)
(***************************************************************************)
EXTENDS RaftLogStore

Paged == [paged |-> TRUE, resident_max |-> 1, segment_max |-> 2, max_log |-> 4,
          max_lag |-> 1, max_builds |-> 2, max_crashes |-> 1, max_votes |-> 0,
          installs |-> FALSE]
Rolling == [Paged EXCEPT !.resident_max = 0, !.segment_max = 1, !.max_log = 3,
                         !.max_crashes = 2]
Installing == [Paged EXCEPT !.max_log = 3, !.max_builds = 1, !.installs = TRUE]
Memory == [Paged EXCEPT !.paged = FALSE, !.max_log = 3, !.max_lag = 2,
                        !.max_votes = 1, !.max_builds = 1,
                        !.installs = TRUE]
SomeConfigs == {Paged, Rolling, Installing, Memory}

Enqueue == [op |-> "Enqueue", id |-> 0]
SomeCommands ==
    {Enqueue} \cup {[op |-> "Remove", id |-> i] : i \in 1 .. 2}
              \cup {[op |-> "Requeue", id |-> 2]}
=============================================================================
