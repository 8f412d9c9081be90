----------------------------- MODULE MCHeartbeat -----------------------------
(* One source that does whatever a source can do; half-hour ticks.           *)
EXTENDS Heartbeat

CONSTANT a

Good == [status |-> "ok", items |-> 9]
Empty == [status |-> "empty", items |-> 0]
Refused == [status |-> "degraded", items |-> 0]
Failed == [status |-> "failed", items |-> 0]
FailedLate == [status |-> "failed", items |-> 9]

MCOutcomes == [s \in {a} |-> {Good, Empty, Refused, Failed, FailedLate}]

\* A time matters by its age alone, and only while it is young: an older one
\* and none at all are stale, due and forgotten alike.  A stamp also matters by
\* whether it is what the reader heard.
Age(time, limit) ==
    IF time = Never THEN limit + 1
    ELSE IF now - time > limit THEN limit + 1 ELSE now - time

Young == Repeat * DayTicks - 1

AgesOnly ==
    <<day, slot, now % DayTicks, row, warning, saidVars, repeats, lapses, events,
      Age(lastSuccess, StaleAfter), Age(lastYield, StaleAfter), Age(lastAnswer, StaleAfter),
      [c \in Conditions |-> <<Age(seen[c], Young), Age(heard[c], Young)>>],
      seen = heard>>
=============================================================================
