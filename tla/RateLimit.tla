------------------------------ MODULE RateLimit ------------------------------
(* enforce_rate_limit: one Redis counter per operation, API key and window   *)
(* of the clock. A call reads the clock, increments the counter, gives it a  *)
(* time to live if it is the first to do so, and is admitted or refused. A   *)
(* time is a window and a second of it, so that the integer division of the  *)
(* code is the first component and its remainder the second.                 *)
EXTENDS Naturals

CONSTANTS
    Operations,    \* "chat", "search": one rate_limiter(...) each
    KeyIds,        \* ids of API keys
    Calls,         \* slots for calls in progress
    NoCall,
    NoCounter,     \* no such key in Redis
    Never,         \* it is there, without a time to live
    WindowSeconds, \* rate_limit_window_seconds
    Limit,         \* rate_limit_requests
    MaxWindow, MaxFailures

VARIABLES
    clock,     \* time.time(), and Redis' own clock
    counters,  \* the counters in Redis
    calls,     \* calls[c]: the call in slot c, or NoCall
    tally,     \* what has happened, per operation, key and window
    failures   \* how many calls may still die

limitVars == <<clock, counters, calls, tally, failures>>

Window == 0 .. MaxWindow
Second == 0 .. WindowSeconds - 1
Client == Operations \X KeyIds
Counted == Client \X Window
Counter == [count : Nat, expires : [window : Nat, second : Second] \union {Never}]
Stage == {"incr", "expire", "admitted", "refused"}
Call == [at : Stage, client : Client, window : Window, count : Nat, prompt : BOOLEAN]

ASSUME LimitAssumption ==
    /\ WindowSeconds \in Nat \ {0} /\ Limit \in Nat \ {0}
    /\ MaxWindow \in Nat /\ MaxFailures \in Nat
    /\ NoCall \notin Call /\ NoCounter \notin Counter
    /\ Never \notin [window : Nat, second : Second]

LimitTypeOK ==
    /\ clock \in [window : Window, second : Second]
    /\ counters \in [Counted -> Counter \union {NoCounter}]
    /\ calls \in [Calls -> Call \union {NoCall}]
    /\ tally \in [Counted -> [asked : Nat, served : Nat]]
    /\ failures \in 0 .. MaxFailures

LimitInit ==
    /\ clock = [window |-> 0, second |-> 0]
    /\ counters = [k \in Counted |-> NoCounter]
    /\ calls = [c \in Calls |-> NoCall]
    /\ tally = [k \in Counted |-> [asked |-> 0, served |-> 0]]
    /\ failures = MaxFailures

-----------------------------------------------------------------------------
CallAt(c, stage) == calls[c] # NoCall /\ calls[c].at = stage

\* "ratelimit:{operation}:{api_key.id}:{window_index}"
\* Mutant of RedisKey: the operations share a counter.
RedisKeyShared(client, window) == <<<<CHOOSE o \in Operations : TRUE, client[2]>>, window>>

RedisKey(client, window) == <<client, window>>

KeyOf(call) == RedisKey(call.client, call.window)

\* Mutant of Verdict: the comparison is one off.
VerdictOneOff(count) == IF count > Limit + 1 THEN "refused" ELSE "admitted"

Verdict(count) == IF count > Limit THEN "refused" ELSE "admitted"

\* The bookkeeping of a verdict: who was admitted by a counter of the running window.
Served(k, call, verdict) ==
    IF verdict = "admitted" /\ call.prompt
    THEN [tally EXCEPT ![k].served = @ + 1] ELSE tally

\* now = time.time(), and the name of the counter.
ReadClock(c, client) ==
    /\ calls[c] = NoCall
    /\ calls' = [calls EXCEPT ![c] = [at |-> "incr", client |-> client,
                    window |-> clock.window, count |-> 0, prompt |-> FALSE]]
    /\ UNCHANGED <<clock, counters, tally, failures>>

\* INCR makes a counter without a time to live, or leaves the one it has.
Incremented(counter) ==
    IF counter = NoCounter THEN [count |-> 1, expires |-> Never]
    ELSE [counter EXCEPT !.count = @ + 1]

\* The first call of a counter goes on to EXPIRE, any other to the comparison.
Incr(c) ==
    /\ CallAt(c, "incr")
    /\ LET k == KeyOf(calls[c])
           asked == <<calls[c].client, calls[c].window>>
           counter == Incremented(counters[k])
           call == [calls[c] EXCEPT !.at = IF counter.count = 1 THEN "expire"
                                           ELSE Verdict(counter.count),
                                    !.count = counter.count,
                                    !.prompt = clock.window = calls[c].window]
       IN /\ counters' = [counters EXCEPT ![k] = counter]
          /\ calls' = [calls EXCEPT ![c] = call]
          /\ tally' = [Served(asked, call, call.at) EXCEPT ![asked].asked = @ + 1]
    /\ UNCHANGED <<clock, failures>>

OneWindowLater == [window |-> clock.window + 1, second |-> clock.second]

\* Mutant of Expire: the counter gets no time to live.
ExpireSkipped(c) ==
    /\ CallAt(c, "expire")
    /\ calls' = [calls EXCEPT ![c].at = Verdict(calls[c].count)]
    /\ tally' = Served(<<calls[c].client, calls[c].window>>, calls[c],
                       Verdict(calls[c].count))
    /\ UNCHANGED <<clock, counters, failures>>

\* EXPIRE of a counter that is not there does nothing.
Expire(c) ==
    /\ CallAt(c, "expire")
    /\ LET k == KeyOf(calls[c]) IN
         counters' = IF counters[k] = NoCounter THEN counters
                     ELSE [counters EXCEPT ![k].expires = OneWindowLater]
    /\ calls' = [calls EXCEPT ![c].at = Verdict(calls[c].count)]
    /\ tally' = Served(<<calls[c].client, calls[c].window>>, calls[c],
                       Verdict(calls[c].count))
    /\ UNCHANGED <<clock, failures>>

\* The 429 is sent, or the dependency returns and the handler goes on.
Return(c) ==
    /\ CallAt(c, "admitted") \/ CallAt(c, "refused")
    /\ calls' = [calls EXCEPT ![c] = NoCall]
    /\ UNCHANGED <<clock, counters, tally, failures>>

\* Redis does not answer, the client goes away or the process dies.
Die(c) ==
    /\ CallAt(c, "incr") \/ CallAt(c, "expire")
    /\ failures > 0
    /\ failures' = failures - 1
    /\ calls' = [calls EXCEPT ![c] = NoCall]
    /\ UNCHANGED <<clock, counters, tally>>

\* A second passes; what has reached its time to live is gone.
Tick ==
    /\ \/ /\ clock.second + 1 < WindowSeconds
          /\ clock' = [clock EXCEPT !.second = @ + 1]
       \/ /\ clock.second + 1 = WindowSeconds
          /\ clock.window < MaxWindow
          /\ clock' = [window |-> clock.window + 1, second |-> 0]
    /\ counters' = [k \in Counted |->
                      IF counters[k] # NoCounter /\ counters[k].expires = clock'
                      THEN NoCounter ELSE counters[k]]
    /\ UNCHANGED <<calls, tally, failures>>

LimitNext ==
    \/ \E c \in Calls :
         \/ \E client \in Client : ReadClock(c, client)
         \/ Incr(c) \/ Expire(c) \/ Return(c) \/ Die(c)
    \/ Tick

LimitSpec == LimitInit /\ [][LimitNext]_limitVars
-----------------------------------------------------------------------------
(* Properties                                                                *)

\* Of the requests of one client and window that are counted before the window
\* is over, however many run at once, at most Limit are admitted
\* (enforce_rate_limit: "Fixed-window counter"). Two windows that touch admit
\* twice as many, which its docstring accepts.
WindowLimit == \A k \in Counted : tally[k].served <= Limit

\* A request is refused only if more than Limit requests of its own operation
\* and key asked in its window (rate_limiter: "/chat and /search don't share a
\* counter").
RefusedOverQuota == \A c \in Calls : CallAt(c, "refused") =>
    tally[<<calls[c].client, calls[c].window>>].asked > Limit

\* As long as no call died, every counter will expire: one without a time to
\* live has its first call between INCR and EXPIRE.
CountersExpire == \A k \in Counted :
    failures = MaxFailures /\ counters[k] # NoCounter /\ counters[k].expires = Never
        => \E c \in Calls : CallAt(c, "expire") /\ KeyOf(calls[c]) = k
=============================================================================
