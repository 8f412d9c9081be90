------------------------------- MODULE Fetch -------------------------------
(***************************************************************************)
(* The HTTP client every source is read with.  It makes one request at a   *)
(* time, each in turn: what robots.txt says, a token of the host's bucket, *)
(* for Companies House a place in the rolling window, the request itself,  *)
(* and up to MaxRetries more.  Time passes anywhere in between; the sleeps *)
(* of the code are time passing until the step is possible.  The limiter   *)
(* is the client's: what another process asks for is not counted.          *)
(***************************************************************************)
EXTENDS Integers, Sequences, FiniteSets, SequencesExt

CONSTANTS
    Sites,                \* hosts read under their robots.txt
    CompaniesHouse,       \* Companies House, which is not asked for one
    Delays,               \* crawl delays that a robots.txt names
    DefaultDelay,         \* seconds between requests to a host by default
    WindowLimit, Window,  \* Companies House: requests in seconds
    Ttl,                  \* seconds a robots.txt is cached
    MaxRetries,
    MaxClock              \* bound on the clock

ASSUME FetchAssumption ==
    CompaniesHouse \notin Sites /\ WindowLimit \in Nat /\ Window \in Nat

Hosts == Sites \cup {CompaniesHouse}

VARIABLES
    clock,
    limiter,  \* [buckets: host -> [delay, level, at], events: times]
    robots,   \* site -> [rule, delay, at]: the cached entry
    request,  \* [host, at, retries]: the request under way, "idle" for none
    seen      \* history: [sent: times Companies House was asked, said: site -> rule last read]

fetchVars == <<clock, limiter, robots, request, seen>>

NoRequest == [host |-> CompaniesHouse, at |-> "idle", retries |-> 0]

NotYet == [rule |-> "none", delay |-> 1, at |-> 0]

\* TokenBucket of capacity 1 and rate 1/delay: its level in seconds saved up.
FullBucket(delay) == [delay |-> delay, level |-> delay, at |-> clock]

FetchInit ==
    /\ clock = 0
    /\ limiter = [buckets |-> [h \in Hosts |->
                                  [delay |-> DefaultDelay, level |-> DefaultDelay, at |-> 0]],
                  events |-> <<>>]
    /\ robots = [s \in Sites |-> NotYet]
    /\ request = NoRequest
    /\ seen = [sent |-> <<>>, said |-> [s \in Sites |-> "none"]]

ClockTicks ==
    /\ clock < MaxClock
    /\ clock' = clock + 1
    /\ UNCHANGED <<limiter, robots, request, seen>>

-----------------------------------------------------------------------------
(* robots.txt.                                                             *)

Entry(rule, delay) == [rule |-> rule, delay |-> delay, at |-> clock]

Cached(s) == robots[s].rule # "none" /\ clock - robots[s].at < Ttl

\* RobotsCache._entry of a read that failed: the last policy, as if read now;
\* closed if the host has never told us anything.
Blip(s) ==
    IF robots[s].rule \in {"none", "unreachable"}
    THEN Entry("unreachable", 1)
    ELSE [robots[s] EXCEPT !.at = clock]

\* What a file that was read says; none, or an HTML page for one, restricts nothing.
RobotsPolicies == [rule : {"allow", "forbid"}, delay : Delays]

Ready(s, entry) ==
    /\ robots' = [robots EXCEPT ![s] = entry]
    /\ request' = IF entry.rule # "allow" THEN NoRequest
                  ELSE [host |-> s, at |-> "allowed", retries |-> MaxRetries]

\* HttpClient.get up to the check: a request that is denied ends here.
GetKnown(s) ==
    /\ request = NoRequest
    /\ Cached(s)
    /\ Ready(s, robots[s])
    /\ UNCHANGED <<clock, limiter, seen>>

GetRead(s) ==
    /\ request = NoRequest
    /\ ~Cached(s)
    /\ \E p \in RobotsPolicies :
          /\ Ready(s, Entry(p.rule, p.delay))
          /\ seen' = [seen EXCEPT !.said[s] = p.rule]
    /\ UNCHANGED <<clock, limiter>>

GetUnread(s) ==
    /\ request = NoRequest
    /\ ~Cached(s)
    /\ Ready(s, Blip(s))
    /\ UNCHANGED <<clock, limiter, seen>>

\* RateLimiter.set_delay: a bucket of its own for the delay, full.
SetDelay ==
    /\ request.at = "allowed"
    /\ request' = [request EXCEPT !.at = "bucket"]
    /\ limiter' = [limiter EXCEPT !.buckets[request.host] = FullBucket(robots[request.host].delay)]
    /\ UNCHANGED <<clock, robots, seen>>

\* check_robots=False.
GetUnchecked ==
    /\ request = NoRequest
    /\ request' = [host |-> CompaniesHouse, at |-> "bucket", retries |-> MaxRetries]
    /\ UNCHANGED <<clock, limiter, robots, seen>>

-----------------------------------------------------------------------------
(* The limiter.                                                            *)

Saved(b) == IF b.level + clock - b.at < b.delay THEN b.level + clock - b.at ELSE b.delay

\* The latest Limit + 1 requests are kept, which is as many as a property counts.
Latest(times) == IF Len(times) > WindowLimit + 1 THEN Tail(times) ELSE times

\* RateLimiter.acquire: TokenBucket.take, once it need not sleep.  Without a
\* window the request is sent at once.
TakeToken ==
    LET b == limiter.buckets[request.host]
    IN  /\ request.at = "bucket"
        /\ Saved(b) >= b.delay
        /\ limiter' = [limiter EXCEPT !.buckets[request.host] =
                          [delay |-> b.delay, level |-> Saved(b) - b.delay, at |-> clock]]
        /\ request' = [request EXCEPT !.at = IF request.host = CompaniesHouse
                                              THEN "window" ELSE "sent"]
        /\ UNCHANGED <<clock, robots, seen>>

\* What is left of events when the leading ones of that age are popped.
Since(events, age) ==
    LET stops == {n \in 0 .. Len(events) : n < Len(events) => clock - events[n + 1] < age}
        gone == CHOOSE n \in stops : \A m \in stops : n <= m
    IN  SubSeq(events, gone + 1, Len(events))

\* An event is forgotten a second before it has left the window.
PrunedEarly(events) == Since(events, Window - 1)

\* WindowLimiter._prune.
Pruned(events) == Since(events, Window)

\* WindowLimiter.take, and the request is sent.
TakeWindow ==
    /\ request.at = "window"
    /\ Len(Pruned(limiter.events)) < WindowLimit
    /\ limiter' = [limiter EXCEPT !.events = Append(Pruned(@), clock)]
    /\ request' = [request EXCEPT !.at = "sent"]
    /\ seen' = [seen EXCEPT !.sent = Latest(Append(@, clock))]
    /\ UNCHANGED <<clock, robots>>

\* follow_redirects: the client goes where the answer sends it, another site,
\* with no look at that one's robots.txt, no token and no new attempt.
Follow ==
    /\ request.at = "sent"
    /\ request' = [request EXCEPT !.at = "followed"]
    /\ UNCHANGED <<clock, limiter, robots, seen>>

HasAnswer == request.at \in {"sent", "followed"}

\* Any answer that is not retried, or none after the last attempt.
Answered ==
    /\ HasAnswer
    /\ request' = NoRequest
    /\ UNCHANGED <<clock, limiter, robots, seen>>

\* RETRY_STATUS or a transport failure: the loop of `get` acquires again.
Retry ==
    /\ HasAnswer
    /\ request.retries > 0
    /\ request' = [request EXCEPT !.at = "bucket", !.retries = @ - 1]
    /\ UNCHANGED <<clock, limiter, robots, seen>>

FetchNext ==
    \/ ClockTicks
    \/ \E s \in Sites : GetKnown(s)
    \/ \E s \in Sites : GetRead(s)
    \/ \E s \in Sites : GetUnread(s)
    \/ SetDelay
    \/ GetUnchecked
    \/ TakeToken
    \/ TakeWindow
    \/ Follow
    \/ Answered
    \/ Retry

FetchSpec == FetchInit /\ [][FetchNext]_fetchVars

-----------------------------------------------------------------------------
(* Properties.                                                             *)

\* Companies House bans an application that asks more than Limit times in a
\* window: no window, wherever it begins, holds more requests, retries counted.
WindowIsKept ==
    \A t \in 0 .. clock :
        Cardinality({i \in DOMAIN seen.sent : seen.sent[i] \in t .. t + Window - 1})
            <= WindowLimit

\* A page is asked for only of a site whose robots.txt, as last read, allows it:
\* a read that fails, or an entry that expires, opens nothing.  Of the site it is
\* asked of: where that one redirects to is not asked about (Follow).
RobotsAreObeyed ==
    request # NoRequest /\ request.host \in Sites => seen.said[request.host] = "allow"

=============================================================================
