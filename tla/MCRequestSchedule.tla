------------------------- MODULE MCRequestSchedule --------------------------
\* RequestSchedule for TLC: two or three requests under each kind of load, with and
\* without admission control, and two entries that validation refuses.
EXTENDS RequestSchedule

MCBase ==
  [name |-> "stage", request_count |-> 3, max_tokens |-> 2, targets |-> <<4>>,
   prefix_mode |-> "none", shared_prefix_tokens |-> None, parity_group |-> "none",
   parity_tolerance |-> None, admission_action |-> "none", admission_limit |-> None,
   load_mode |-> "open_loop", arrival_pattern |-> "steady", interval |-> 1,
   burst_size |-> None, max_in_flight |-> 1, concurrency |-> None]

MCBursty ==
  [MCBase EXCEPT !.arrival_pattern = "bursty", !.burst_size = 2,
                 !.max_in_flight = 2]

MCEntries ==
  {MCBase, MCBursty,
   [MCBase EXCEPT !.burst_size = 2, !.request_count = 2],
   [MCBase EXCEPT !.load_mode = "closed_loop", !.concurrency = 2],
   [MCBursty EXCEPT !.targets = <<4, 2>>, !.admission_action = "reject",
                    !.admission_limit = 3],
   [MCBase EXCEPT !.targets = <<2, 4>>, !.admission_action = "truncate",
                  !.admission_limit = 3, !.request_count = 2],
   [MCBase EXCEPT !.max_in_flight = 0],
   [MCBursty EXCEPT !.burst_size = 0]}

MCFailures == {<<500, {"oom"}>>}
MCBreaks == {{"network"}}
=============================================================================
