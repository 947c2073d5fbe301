---------------------------- MODULE MCOversight ----------------------------
\* An instance of Oversight: two jobs and two dispatchers, and a few loads of
\* work, so that each part is explored in depth without the product of all.
EXTENDS Oversight

Nothing == [receipts |-> 0, pages |-> 0, events |-> 0, stakes |-> 0, keys |-> 0, faults |-> 0,
            restarts |-> 0, changes |-> 0, subs |-> 0]

MCLoads ==
    {[Nothing EXCEPT !.receipts = 2, !.pages = 1],
     [Nothing EXCEPT !.receipts = 1, !.pages = 1, !.keys = 1],
     [Nothing EXCEPT !.receipts = 2, !.restarts = 1],
     [Nothing EXCEPT !.receipts = 1, !.keys = 2, !.restarts = 1],
     [Nothing EXCEPT !.receipts = 1, !.keys = 1, !.stakes = 2],
     [Nothing EXCEPT !.receipts = 2, !.keys = 1, !.faults = 1],
     [Nothing EXCEPT !.events = 1, !.faults = 1],
     [Nothing EXCEPT !.events = 1, !.subs = 1],
     [Nothing EXCEPT !.subs = 2],
     [Nothing EXCEPT !.events = 1, !.restarts = 1],
     [Nothing EXCEPT !.changes = 3]}

\* j2 reports no GPU figures, which the policy takes for an exception.
MCPolicy == [maxRuntime |-> 30, maxCpu |-> 90, maxMemory |-> 95, requireGpu |-> FALSE]
MCMetrics == [j \in Jobs |-> [runtime |-> 30, cpu |-> 10, memory |-> 10, gpuTotal |-> 0,
                              gpuUsed |-> IF j = CHOOSE i \in Jobs : TRUE THEN 0 ELSE NotReported]]

MCCalm == [alive |-> TRUE, paused |-> FALSE, queued |-> 1, aged |-> FALSE, active |-> 1, offline |-> 0,
           reachable |-> TRUE, prompt |-> TRUE, mounted |-> TRUE, space |-> 50]
MCPaused == [MCCalm EXCEPT !.paused = TRUE, !.queued = 2]
MCStruck == [MCCalm EXCEPT !.active = 0, !.offline = 1, !.aged = TRUE, !.space = 3]

MCPlants == {MCCalm, MCPaused, MCStruck}
=============================================================================
