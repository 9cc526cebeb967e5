--------------------------- MODULE RateLimitProofs ---------------------------
(* WindowLimit, RefusedOverQuota and CountersExpire for any limit, length of *)
(* the window, number of clients and of calls in progress. The counter of a  *)
(* window cannot expire while the window runs, since its time to live is set *)
(* in the window or later and is as long as a window: so the counter has     *)
(* counted every prompt call, and no more than Limit of them were told a     *)
(* count within the limit.                                                   *)
EXTENDS RateLimit, TLAPS

\* Call c was the first of counter k, in its window, and has yet to be admitted.
Pending(c, k) == CallAt(c, "expire") /\ calls[c].prompt /\ KeyOf(calls[c]) = k

\* Of key k at most `most` calls are admitted or about to be.
AtMost(k, most) ==
    /\ tally[k].served <= most
    /\ (\E c \in Calls : Pending(c, k)) => tally[k].served + 1 <= most

CallsSound == \A c \in Calls : calls[c] # NoCall =>
    /\ calls[c].window <= clock.window
    /\ calls[c].at = "expire" => calls[c].count = 1

CountersSound == \A k \in Counted : counters[k] # NoCounter =>
    /\ 1 <= counters[k].count
    /\ counters[k].count <= tally[k].asked
    /\ counters[k].expires # Never => k[2] < counters[k].expires.window

OnePending == \A k \in Counted : \A c, d \in Calls : Pending(c, k) /\ Pending(d, k) => c = d

CountedInWindow == \A k \in Counted :
    /\ AtMost(k, Limit)
    /\ clock.window <= k[2] =>
         /\ counters[k] = NoCounter => AtMost(k, 0)
         /\ counters[k] # NoCounter => AtMost(k, counters[k].count)

LimitInv ==
    LimitTypeOK /\ CallsSound /\ CountersSound /\ OnePending /\ CountedInWindow
        /\ RefusedOverQuota

-----------------------------------------------------------------------------
LEMMA KeyCounted ==
    ASSUME NEW call \in Call
    PROVE  /\ KeyOf(call) \in Counted
           /\ KeyOf(call) = <<call.client, call.window>>
           /\ KeyOf(call)[2] = call.window
           /\ call.window \in Nat
  BY LimitAssumption, SMT DEF Call, KeyOf, RedisKey, Counted, Window

LEMMA NoCallIsNone == ASSUME NEW call \in Call PROVE call # NoCall
  BY LimitAssumption

LEMMA NoCounterIsNone == ASSUME NEW counter \in Counter PROVE counter # NoCounter
  BY LimitAssumption

LEMMA KeyWindow == ASSUME NEW k \in Counted PROVE k[2] \in Nat /\ k[2] \in Window
  BY LimitAssumption DEF Counted, Window

\* What an admission adds to the tally.
LEMMA ServedTally ==
    ASSUME tally \in [Counted -> [asked : Nat, served : Nat]],
           NEW k \in Counted, NEW call, NEW verdict
    PROVE  /\ Served(k, call, verdict) \in [Counted -> [asked : Nat, served : Nat]]
           /\ \A j \in Counted :
                Served(k, call, verdict)[j] =
                  [asked |-> tally[j].asked,
                   served |-> tally[j].served
                     + (IF j = k /\ verdict = "admitted" /\ call.prompt THEN 1 ELSE 0)]
<1>1. CASE verdict = "admitted" /\ call.prompt
  <2>1. Served(k, call, verdict) = [tally EXCEPT ![k].served = @ + 1]
    BY <1>1 DEF Served
  <2> QED
    BY <1>1, <2>1
<1>2. CASE ~(verdict = "admitted" /\ call.prompt)
  <2>1. Served(k, call, verdict) = tally
    BY <1>2 DEF Served
  <2> QED
    BY <1>2, <2>1
<1> QED
  BY <1>1, <1>2

\* The initial state satisfies the invariant.
LEMMA LimitInitInv == LimitInit => LimitInv
<1> SUFFICES ASSUME LimitInit PROVE LimitInv
  OBVIOUS
<1>1. LimitTypeOK
  BY LimitAssumption, SMT DEF LimitInit, LimitTypeOK, Window, Second
<1>2. \A c \in Calls : calls[c] = NoCall
  BY DEF LimitInit
<1>3. \A k \in Counted : counters[k] = NoCounter /\ tally[k].served = 0
  BY DEF LimitInit
<1>4. \A c \in Calls, k \in Counted : ~Pending(c, k)
  BY <1>2 DEF Pending, CallAt
<1>5. \A k \in Counted : AtMost(k, 0) /\ AtMost(k, Limit)
  BY <1>3, <1>4, LimitAssumption DEF AtMost
<1> QED
  BY <1>1, <1>2, <1>3, <1>4, <1>5
  DEF LimitInv, CallsSound, CountersSound, OnePending, CountedInWindow,
      RefusedOverQuota, CallAt

-----------------------------------------------------------------------------
(* Steps that only change what a call is at                                  *)

LEMMA OnlyCalls ==
    ASSUME LimitInv, LimitTypeOK', CallsSound', RefusedOverQuota',
           UNCHANGED <<clock, counters, tally>>,
           \A c \in Calls, k \in Counted : Pending(c, k)' => Pending(c, k)
    PROVE  LimitInv'
<1>1. CountersSound'
  BY DEF LimitInv, CountersSound
<1>2. OnePending'
  BY DEF LimitInv, OnePending
<1>3. \A k \in Counted, most \in Nat : AtMost(k, most) => AtMost(k, most)'
  BY DEF AtMost
<1>4. CountedInWindow'
  <2> SUFFICES ASSUME NEW k \in Counted
               PROVE  /\ AtMost(k, Limit)'
                      /\ clock.window <= k[2] =>
                           /\ counters[k] = NoCounter => AtMost(k, 0)'
                           /\ counters[k] # NoCounter => AtMost(k, counters[k].count)'
    BY DEF CountedInWindow
  <2>1. counters[k] # NoCounter => counters[k].count \in Nat
    BY DEF LimitInv, LimitTypeOK, Counter
  <2> QED
    BY <1>3, <2>1, LimitAssumption DEF LimitInv, CountedInWindow
<1> QED
  BY <1>1, <1>2, <1>4 DEF LimitInv

LEMMA ReadClockKeeps ==
    ASSUME LimitInv, NEW c \in Calls, NEW client \in Client, ReadClock(c, client)
    PROVE  LimitInv'
<1>1. clock.window \in Window /\ clock.window \in Nat
  BY LimitAssumption DEF LimitInv, LimitTypeOK, Window
<1> DEFINE call == [at |-> "incr", client |-> client, window |-> clock.window,
                    count |-> 0, prompt |-> FALSE]
<1>2. call \in Call /\ call.at = "incr" /\ call.window = clock.window
  BY <1>1 DEF Call, Stage
<1> HIDE DEF call
<1>3. calls' = [calls EXCEPT ![c] = call] /\ UNCHANGED <<clock, counters, tally, failures>>
  BY DEF ReadClock, call
<1>4. LimitTypeOK'
  BY <1>2, <1>3 DEF LimitInv, LimitTypeOK
<1>5. \A d \in Calls : calls'[d] = IF d = c THEN call ELSE calls[d]
  BY <1>3 DEF LimitInv, LimitTypeOK
<1>6. CallsSound'
  BY <1>1, <1>2, <1>3, <1>5 DEF LimitInv, CallsSound
<1>7. RefusedOverQuota'
  BY <1>2, <1>3, <1>5 DEF LimitInv, RefusedOverQuota, CallAt
<1>8. \A d \in Calls, k \in Counted : Pending(d, k)' => Pending(d, k)
  BY <1>2, <1>5 DEF Pending, CallAt
<1> QED
  BY <1>3, <1>4, <1>6, <1>7, <1>8, OnlyCalls

LEMMA EndKeeps ==
    ASSUME LimitInv, NEW c \in Calls, Return(c) \/ Die(c)
    PROVE  LimitInv'
<1>1. /\ calls' = [calls EXCEPT ![c] = NoCall]
      /\ UNCHANGED <<clock, counters, tally>> /\ failures' \in {failures, failures - 1}
      /\ failures' # failures => failures > 0
  BY DEF Return, Die
<1>2. failures' \in 0 .. MaxFailures
  BY <1>1, LimitAssumption DEF LimitInv, LimitTypeOK
<1>3. LimitTypeOK'
  BY <1>1, <1>2 DEF LimitInv, LimitTypeOK
<1>4. \A d \in Calls : calls'[d] = IF d = c THEN NoCall ELSE calls[d]
  BY <1>1 DEF LimitInv, LimitTypeOK
<1>5. CallsSound' /\ RefusedOverQuota'
  BY <1>1, <1>4 DEF LimitInv, CallsSound, RefusedOverQuota, CallAt
<1>6. \A d \in Calls, k \in Counted : Pending(d, k)' => Pending(d, k)
  BY <1>4 DEF Pending, CallAt
<1> QED
  BY <1>1, <1>3, <1>5, <1>6, OnlyCalls

-----------------------------------------------------------------------------
(* A second passes: only counters of windows that are over expire            *)

LEMMA TickKeeps ==
    ASSUME LimitInv, Tick
    PROVE  LimitInv'
<1>1. /\ clock' \in [window : Window, second : Second]
      /\ clock.window <= clock'.window
  <2>1. CASE clock.second + 1 < WindowSeconds /\ clock' = [clock EXCEPT !.second = @ + 1]
    BY <2>1, LimitAssumption DEF LimitInv, LimitTypeOK, Window, Second
  <2>2. CASE /\ clock.second + 1 = WindowSeconds /\ clock.window < MaxWindow
             /\ clock' = [window |-> clock.window + 1, second |-> 0]
    BY <2>2, LimitAssumption DEF LimitInv, LimitTypeOK, Window, Second
  <2> QED
    BY <2>1, <2>2 DEF Tick
<1>2. clock.window \in Nat /\ clock'.window \in Nat
  BY <1>1, LimitAssumption DEF LimitInv, LimitTypeOK, Window
<1>3. UNCHANGED <<calls, tally, failures>>
  BY DEF Tick
<1>4. \A k \in Counted : counters'[k] = IF counters[k] # NoCounter
                                          /\ counters[k].expires = clock'
                                        THEN NoCounter ELSE counters[k]
  BY DEF Tick
<1>5. LimitTypeOK'
  BY <1>1, <1>3, <1>4 DEF LimitInv, LimitTypeOK, Tick
<1>6. CallsSound'
  <2> SUFFICES ASSUME NEW c \in Calls, calls[c] # NoCall
               PROVE  /\ calls[c].window <= clock'.window
                      /\ calls[c].at = "expire" => calls[c].count = 1
    BY <1>3 DEF CallsSound
  <2>1. calls[c].window \in Nat
    BY KeyCounted DEF LimitInv, LimitTypeOK
  <2> QED
    BY <1>1, <1>2, <2>1 DEF LimitInv, CallsSound
<1>7. CountersSound'
  BY <1>3, <1>4 DEF LimitInv, CountersSound
<1>8. RefusedOverQuota' /\ OnePending'
  BY <1>3 DEF LimitInv, RefusedOverQuota, OnePending, Pending, CallAt
<1>9. \A k \in Counted, most \in Nat : AtMost(k, most) => AtMost(k, most)'
  BY <1>3 DEF AtMost, Pending, CallAt
<1>10. CountedInWindow'
  <2> SUFFICES ASSUME NEW k \in Counted
               PROVE  /\ AtMost(k, Limit)'
                      /\ clock'.window <= k[2] =>
                           /\ counters'[k] = NoCounter => AtMost(k, 0)'
                           /\ counters'[k] # NoCounter => AtMost(k, counters[k].count)'
    BY DEF CountedInWindow
  <2>1. AtMost(k, Limit)'
    BY <1>9, LimitAssumption DEF LimitInv, CountedInWindow
  <2>2. ASSUME clock'.window <= k[2] PROVE counters'[k] = counters[k]
    <3>1. SUFFICES ASSUME counters[k] # NoCounter, counters[k].expires = clock'
                   PROVE FALSE
      BY <1>4
    <3>2. counters[k].expires # Never
      BY <3>1, <1>1, LimitAssumption DEF Window
    <3>3. k[2] < clock'.window
      BY <3>1, <3>2 DEF LimitInv, CountersSound
    <3> QED
      BY <2>2, <3>3, <1>2, KeyWindow
  <2>3. clock'.window <= k[2] => clock.window <= k[2]
    BY <1>1, <1>2, KeyWindow
  <2>4. ASSUME clock'.window <= k[2], counters'[k] = NoCounter PROVE AtMost(k, 0)'
    BY <1>9, <2>2, <2>3, <2>4 DEF LimitInv, CountedInWindow
  <2>5. ASSUME clock'.window <= k[2], counters'[k] # NoCounter
        PROVE  AtMost(k, counters[k].count)'
    <3>1. counters'[k] = counters[k] /\ AtMost(k, counters[k].count)
      BY <2>2, <2>3, <2>5 DEF LimitInv, CountedInWindow
    <3> QED
      BY <1>3, <3>1 DEF AtMost, Pending, CallAt
  <2> QED
    BY <2>1, <2>4, <2>5
<1> QED
  BY <1>5, <1>6, <1>7, <1>8, <1>10 DEF LimitInv

-----------------------------------------------------------------------------
(* INCR: the first call of a counter goes on to EXPIRE, any other is judged  *)

LEMMA IncrKeeps ==
    ASSUME LimitInv, NEW c \in Calls, Incr(c)
    PROVE  LimitInv'
<1>1. calls[c] \in Call /\ calls[c].at = "incr"
  BY DEF Incr, CallAt, LimitInv, LimitTypeOK
<1>2. PICK k \in Counted :
        /\ k = KeyOf(calls[c]) /\ k = <<calls[c].client, calls[c].window>>
        /\ k[2] = calls[c].window /\ k[2] \in Nat
  BY <1>1, KeyCounted
<1> DEFINE counter == Incremented(counters[k])
           prompt == clock.window = calls[c].window
           stage == IF counter.count = 1 THEN "expire" ELSE Verdict(counter.count)
           call == [calls[c] EXCEPT !.at = stage, !.count = counter.count, !.prompt = prompt]
           more == IF stage = "admitted" /\ prompt THEN 1 ELSE 0
<1>3. /\ clock \in [window : Window, second : Second] /\ clock.window \in Nat
      /\ k[2] <= clock.window
  BY <1>1, <1>2, NoCallIsNone, LimitAssumption
  DEF LimitInv, LimitTypeOK, CallsSound, Window
<1>4. /\ counter \in Counter /\ counter.count \in Nat /\ counter.count >= 1
      /\ counters[k] = NoCounter => counter.count = 1 /\ counter.expires = Never
      /\ counters[k] # NoCounter => /\ counter.count = counters[k].count + 1
                                    /\ counter.count > 1
                                    /\ counter.expires = counters[k].expires
  <2>1. CASE counters[k] = NoCounter
    BY <2>1 DEF Incremented, Counter
  <2>2. CASE counters[k] # NoCounter
    <3>1. /\ counters[k] \in Counter /\ 1 <= counters[k].count
      BY <1>2, <2>2 DEF LimitInv, LimitTypeOK, CountersSound
    <3>2. counter = [counters[k] EXCEPT !.count = @ + 1]
      BY <2>2 DEF Incremented
    <3> QED
      BY <2>2, <3>1, <3>2 DEF Counter
  <2> QED
    BY <2>1, <2>2
<1>5. /\ stage \in Stage /\ stage \in {"expire", "admitted", "refused"}
      /\ stage = "expire" <=> counter.count = 1
      /\ stage = "admitted" => counter.count <= Limit
      /\ stage = "refused" => counter.count > Limit
  BY <1>4, LimitAssumption DEF Verdict, Stage
<1>6. /\ call \in Call /\ call # NoCall /\ call.at = stage /\ call.count = counter.count
      /\ call.prompt = prompt /\ call.client = calls[c].client
      /\ call.window = calls[c].window
  BY <1>1, <1>4, <1>5, NoCallIsNone DEF Call
<1>7. more \in {0, 1}
  OBVIOUS
<1> HIDE DEF counter, stage
<1>8. /\ counters' = [counters EXCEPT ![k] = counter]
      /\ calls' = [calls EXCEPT ![c] = call]
      /\ tally' = [Served(k, call, stage) EXCEPT ![k].asked = @ + 1]
      /\ UNCHANGED <<clock, failures>>
  BY <1>2, <1>6, Zenon DEF Incr, counter, stage
<1> HIDE DEF call, prompt, more
<1>9. /\ \A d \in Calls : calls'[d] = IF d = c THEN call ELSE calls[d]
      /\ \A j \in Counted : counters'[j] = IF j = k THEN counter ELSE counters[j]
  BY <1>2, <1>8 DEF LimitInv, LimitTypeOK
<1>10. tally \in [Counted -> [asked : Nat, served : Nat]]
  BY DEF LimitInv, LimitTypeOK
<1>11. \A j \in Counted :
         tally'[j] = IF j = k THEN [asked |-> tally[k].asked + 1, served |-> tally[k].served + more]
                     ELSE tally[j]
  <2> DEFINE served == Served(k, call, stage)
  <2>1. /\ served \in [Counted -> [asked : Nat, served : Nat]]
        /\ \A j \in Counted :
             served[j] = [asked |-> tally[j].asked,
                          served |-> tally[j].served + (IF j = k THEN more ELSE 0)]
    BY <1>6, <1>10, ServedTally DEF more
  <2> HIDE DEF served
  <2>2. tally' = [served EXCEPT ![k].asked = @ + 1]
    BY <1>8 DEF served
  <2>3. ASSUME NEW j \in Counted, j # k PROVE tally'[j] = tally[j]
    <3>1. tally'[j] = [asked |-> tally[j].asked, served |-> tally[j].served + 0]
      BY <2>1, <2>2, <2>3
    <3>2. tally[j] \in [asked : Nat, served : Nat]
      BY <1>10
    <3> QED
      BY <3>1, <3>2
  <2>4. tally'[k] = [asked |-> tally[k].asked + 1, served |-> tally[k].served + more]
    BY <2>1, <2>2
  <2> QED
    BY <2>3, <2>4
<1>12. tally' \in [Counted -> [asked : Nat, served : Nat]]
  <2>1. tally' = [j \in Counted |-> tally'[j]]
    BY <1>6, <1>8, <1>10, ServedTally
  <2>2. \A j \in Counted : tally'[j] \in [asked : Nat, served : Nat]
    BY <1>7, <1>10, <1>11
  <2> QED
    BY <2>1, <2>2
<1>13. LimitTypeOK'
  BY <1>4, <1>6, <1>8, <1>12 DEF LimitInv, LimitTypeOK
<1>14. CallsSound'
  BY <1>2, <1>3, <1>5, <1>6, <1>8, <1>9 DEF LimitInv, CallsSound
<1>15. CountersSound'
  <2> SUFFICES ASSUME NEW j \in Counted, counters'[j] # NoCounter
               PROVE  /\ 1 <= counters'[j].count /\ counters'[j].count <= tally'[j].asked
                      /\ counters'[j].expires # Never => j[2] < counters'[j].expires.window
    BY DEF CountersSound
  <2>1. CASE j # k
    BY <2>1, <1>9, <1>11 DEF LimitInv, CountersSound
  <2>2. CASE j = k /\ counters[k] = NoCounter
    BY <2>2, <1>2, <1>4, <1>9, <1>11, <1>10
  <2>3. CASE j = k /\ counters[k] # NoCounter
    <3>1. /\ counters[k].count <= tally[k].asked /\ counters[k].count \in Nat
          /\ counters[k].expires # Never => k[2] < counters[k].expires.window
      BY <2>3, <1>2 DEF LimitInv, LimitTypeOK, CountersSound, Counter
    <3> QED
      BY <2>3, <3>1, <1>2, <1>4, <1>9, <1>11, <1>10
  <2> QED
    BY <2>1, <2>2, <2>3
<1>16. RefusedOverQuota'
  <2> SUFFICES ASSUME NEW d \in Calls, calls'[d] # NoCall, calls'[d].at = "refused"
               PROVE  tally'[<<calls'[d].client, calls'[d].window>>].asked > Limit
    BY DEF RefusedOverQuota, CallAt
  <2>1. CASE d = c
    <3>1. counter.count <= tally'[k].asked
      BY <1>2, <1>4, <1>9, <1>15, NoCounterIsNone DEF CountersSound
    <3>2. tally'[k].asked \in Nat
      BY <1>2, <1>12
    <3> QED
      BY <2>1, <3>1, <3>2, <1>2, <1>4, <1>5, <1>6, <1>9, LimitAssumption
  <2>2. CASE d # c
    <3> DEFINE j == <<calls[d].client, calls[d].window>>
    <3>1. calls[d] \in Call /\ j \in Counted
      BY <2>2, <1>9, KeyCounted DEF LimitInv, LimitTypeOK
    <3>2. tally[j].asked > Limit
      BY <2>2, <1>9 DEF LimitInv, RefusedOverQuota, CallAt
    <3>3. tally'[j].asked >= tally[j].asked /\ tally[j].asked \in Nat /\ tally'[j].asked \in Nat
      BY <3>1, <1>11, <1>10, <1>12
    <3> QED
      BY <2>2, <3>2, <3>3, <1>9, LimitAssumption
  <2> QED
    BY <2>1, <2>2
<1>17. \A d \in Calls, j \in Counted :
         Pending(d, j)' <=> IF d = c THEN j = k /\ stage = "expire" /\ prompt
                            ELSE Pending(d, j)
  <2> SUFFICES ASSUME NEW d \in Calls, NEW j \in Counted
               PROVE  Pending(d, j)' <=> IF d = c THEN j = k /\ stage = "expire" /\ prompt
                                         ELSE Pending(d, j)
    OBVIOUS
  <2>1. CASE d = c
    <3>1. KeyOf(call) = k
      BY <1>2, <1>6 DEF KeyOf, RedisKey
    <3> QED
      BY <2>1, <3>1, <1>6, <1>9 DEF Pending, CallAt
  <2>2. CASE d # c
    BY <2>2, <1>9 DEF Pending, CallAt
  <2> QED
    BY <2>1, <2>2
<1>18. stage = "expire" => counters[k] = NoCounter
  BY <1>4, <1>5
\* A prompt first call finds nobody admitted or pending.
<1>19. stage = "expire" /\ prompt =>
         tally[k].served = 0 /\ \A d \in Calls : ~Pending(d, k)
  <2> SUFFICES ASSUME stage = "expire", prompt
               PROVE  tally[k].served = 0 /\ \A d \in Calls : ~Pending(d, k)
    OBVIOUS
  <2>1. AtMost(k, 0)
    BY <1>2, <1>3, <1>18 DEF LimitInv, CountedInWindow, prompt
  <2> QED
    BY <2>1, <1>2, <1>10 DEF AtMost
<1>20. OnePending'
  BY <1>17, <1>19 DEF LimitInv, OnePending
<1>21. CountedInWindow'
  <2> SUFFICES ASSUME NEW j \in Counted
               PROVE  /\ AtMost(j, Limit)'
                      /\ clock.window <= j[2] =>
                           /\ counters'[j] = NoCounter => AtMost(j, 0)'
                           /\ counters'[j] # NoCounter => AtMost(j, counters[j].count)'
    BY <1>8 DEF CountedInWindow
  <2>1. CASE j # k
    BY <2>1, <1>9, <1>11, <1>17 DEF LimitInv, CountedInWindow, AtMost
  <2>2. CASE j = k
    <3>1. counters'[k] = counter /\ counter # NoCounter
      BY <1>2, <1>4, <1>9, NoCounterIsNone
    <3>2. /\ tally'[k].served = tally[k].served + more /\ tally[k].served \in Nat
          /\ AtMost(k, Limit)
      BY <1>2, <1>11, <1>10 DEF LimitInv, CountedInWindow
    <3>3. CASE stage = "expire" /\ prompt
      <4>1. more = 0 /\ tally[k].served = 0
        BY <3>3, <1>19 DEF more
      <4> QED
        BY <2>2, <3>1, <3>2, <4>1, <1>4, LimitAssumption DEF AtMost
    <3>4. CASE stage # "expire" /\ prompt
      <4>1. counters[k] # NoCounter /\ AtMost(k, counters[k].count)
        BY <3>4, <1>2, <1>3, <1>4, <1>5 DEF LimitInv, CountedInWindow, prompt
      <4>2. (\E d \in Calls : Pending(d, k)') => \E d \in Calls : Pending(d, k)
        BY <3>4, <1>2, <1>17
      <4>3. counters[k].count \in Nat /\ counter.count = counters[k].count + 1
        BY <4>1, <1>2, <1>4 DEF LimitInv, LimitTypeOK, Counter
      <4>4. AtMost(k, counters[k].count)'
        BY <3>1, <3>2, <4>1, <4>2, <4>3, <1>7 DEF AtMost
      <4>5. AtMost(k, Limit)'
        BY <3>2, <4>1, <4>2, <4>3, <1>5, LimitAssumption DEF AtMost, more
      <4> QED
        BY <2>2, <3>1, <4>4, <4>5
    <3>5. CASE ~prompt
      <4>1. more = 0 /\ clock.window > k[2]
        BY <3>5, <1>2, <1>3 DEF more, prompt
      <4>2. (\E d \in Calls : Pending(d, k)') => \E d \in Calls : Pending(d, k)
        BY <3>5, <1>2, <1>17
      <4>3. AtMost(k, Limit)'
        BY <3>2, <4>1, <4>2 DEF AtMost
      <4> QED
        BY <2>2, <4>1, <4>3, <1>2, <1>3
    <3> QED
      BY <3>3, <3>4, <3>5
  <2> QED
    BY <2>1, <2>2
<1> QED
  BY <1>13, <1>14, <1>15, <1>16, <1>20, <1>21 DEF LimitInv

-----------------------------------------------------------------------------
(* EXPIRE: the first call of a counter is admitted                           *)

LEMMA ExpireKeeps ==
    ASSUME LimitInv, NEW c \in Calls, Expire(c)
    PROVE  LimitInv'
<1>1. calls[c] \in Call /\ calls[c].at = "expire" /\ calls[c].count = 1
  BY NoCallIsNone DEF Expire, CallAt, LimitInv, LimitTypeOK, CallsSound
<1>2. PICK k \in Counted :
        /\ k = KeyOf(calls[c]) /\ k = <<calls[c].client, calls[c].window>>
        /\ k[2] = calls[c].window /\ k[2] \in Nat
  BY <1>1, KeyCounted
<1> DEFINE call == [calls[c] EXCEPT !.at = "admitted"]
           more == IF calls[c].prompt THEN 1 ELSE 0
<1>3. Verdict(calls[c].count) = "admitted"
  BY <1>1, LimitAssumption DEF Verdict
<1>4. call \in Call /\ call.at = "admitted" /\ call.window = calls[c].window /\ call # NoCall
  BY <1>1, NoCallIsNone DEF Call, Stage
<1>5. /\ calls' = [calls EXCEPT ![c] = call]
      /\ tally' = Served(k, calls[c], "admitted")
      /\ counters' = IF counters[k] = NoCounter THEN counters
                     ELSE [counters EXCEPT ![k].expires = OneWindowLater]
      /\ UNCHANGED <<clock, failures>>
  BY <1>2, <1>3 DEF Expire
<1>6. more \in {0, 1}
  OBVIOUS
<1>7. tally \in [Counted -> [asked : Nat, served : Nat]]
  BY DEF LimitInv, LimitTypeOK
<1>8. /\ tally' \in [Counted -> [asked : Nat, served : Nat]]
      /\ \A j \in Counted : tally'[j].asked = tally[j].asked
      /\ \A j \in Counted : j # k => tally'[j].served = tally[j].served
      /\ tally'[k].served = tally[k].served + more
  <2> DEFINE add(j) == IF j = k /\ calls[c].prompt THEN 1 ELSE 0
  <2>1. \A j \in Counted :
          tally'[j] = [asked |-> tally[j].asked, served |-> tally[j].served + add(j)]
    BY <1>5, <1>7, ServedTally
  <2>2. add(k) = more /\ \A j \in Counted : j # k => add(j) = 0
    OBVIOUS
  <2> HIDE DEF add
  <2>3. \A j \in Counted : tally[j].served \in Nat
    BY <1>7
  <2>4. tally' \in [Counted -> [asked : Nat, served : Nat]]
    BY <1>5, <1>7, ServedTally
  <2>5. \A j \in Counted : tally'[j].asked = tally[j].asked
    BY <1>7, <2>1, <2>4
  <2>6. ASSUME NEW j \in Counted, j # k PROVE tally'[j].served = tally[j].served
    <3>1. tally'[j].served = tally[j].served + 0
      BY <1>7, <2>2, <2>1, <2>4, <2>6
    <3> QED
      BY <2>3, <3>1
  <2>7. tally'[k].served = tally[k].served + more
    BY <1>7, <2>2, <2>1, <2>4
  <2> QED
    BY <2>4, <2>5, <2>6, <2>7
<1> HIDE DEF call, more
<1>9. \A d \in Calls : calls'[d] = IF d = c THEN call ELSE calls[d]
  BY <1>5 DEF LimitInv, LimitTypeOK
<1>10. /\ clock.window \in Nat /\ k[2] <= clock.window
       /\ OneWindowLater \in [window : Nat, second : Second]
       /\ OneWindowLater.window = clock.window + 1
  <2>1. clock.window \in Nat /\ clock.second \in Second
    BY LimitAssumption DEF LimitInv, LimitTypeOK, Window
  <2>2. k[2] <= clock.window
    BY <1>1, <1>2, NoCallIsNone DEF LimitInv, CallsSound
  <2> QED
    BY <2>1, <2>2 DEF OneWindowLater
<1>11. /\ counters' \in [Counted -> Counter \union {NoCounter}]
       /\ \A j \in Counted : j # k => counters'[j] = counters[j]
       /\ counters'[k] = NoCounter <=> counters[k] = NoCounter
       /\ counters[k] # NoCounter => /\ counters'[k].count = counters[k].count
                                     /\ counters'[k].expires = OneWindowLater
  <2>1. CASE counters[k] = NoCounter
    BY <1>5, <2>1 DEF LimitInv, LimitTypeOK
  <2>2. CASE counters[k] # NoCounter
    <3>1. counters[k] \in Counter
      BY <2>2 DEF LimitInv, LimitTypeOK
    <3>2. [counters[k] EXCEPT !.expires = OneWindowLater] \in Counter
      BY <3>1, <1>10 DEF Counter
    <3> DEFINE counter == [counters[k] EXCEPT !.expires = OneWindowLater]
    <3>3. counters' = [counters EXCEPT ![k] = counter]
      BY <1>5, <2>2
    <3>4. counter.count = counters[k].count /\ counter.expires = OneWindowLater
      BY <3>1 DEF Counter
    <3> HIDE DEF counter
    <3>5. counter \in Counter /\ counter # NoCounter
      BY <3>2, NoCounterIsNone DEF counter
    <3> QED
      BY <2>2, <3>3, <3>4, <3>5 DEF LimitInv, LimitTypeOK
  <2> QED
    BY <2>1, <2>2
<1>12. LimitTypeOK'
  BY <1>4, <1>5, <1>8, <1>11 DEF LimitInv, LimitTypeOK
<1>13. CallsSound'
  BY <1>1, <1>4, <1>5, <1>9, NoCallIsNone DEF LimitInv, CallsSound
<1>14. CountersSound'
  <2> SUFFICES ASSUME NEW j \in Counted, counters'[j] # NoCounter
               PROVE  /\ 1 <= counters'[j].count /\ counters'[j].count <= tally'[j].asked
                      /\ counters'[j].expires # Never => j[2] < counters'[j].expires.window
    BY DEF CountersSound
  <2>1. CASE j # k
    BY <2>1, <1>8, <1>11 DEF LimitInv, CountersSound
  <2>2. CASE j = k
    <3>1. 1 <= counters[k].count /\ counters[k].count <= tally[k].asked
      BY <2>2, <1>11 DEF LimitInv, CountersSound
    <3> QED
      BY <2>2, <3>1, <1>2, <1>8, <1>10, <1>11
  <2> QED
    BY <2>1, <2>2
<1>15. RefusedOverQuota'
  <2> SUFFICES ASSUME NEW d \in Calls, calls'[d] # NoCall, calls'[d].at = "refused"
               PROVE  tally'[<<calls'[d].client, calls'[d].window>>].asked > Limit
    BY DEF RefusedOverQuota, CallAt
  <2>1. d # c /\ calls'[d] = calls[d]
    BY <1>4, <1>9
  <2>2. tally[<<calls[d].client, calls[d].window>>].asked > Limit
    BY <2>1 DEF LimitInv, RefusedOverQuota, CallAt
  <2>3. <<calls[d].client, calls[d].window>> \in Counted
    BY <2>1, KeyCounted DEF LimitInv, LimitTypeOK
  <2> QED
    BY <2>1, <2>2, <2>3, <1>8
<1>16. \A d \in Calls, j \in Counted : Pending(d, j)' <=> d # c /\ Pending(d, j)
  BY <1>4, <1>9 DEF Pending, CallAt
<1>17. OnePending'
  BY <1>16 DEF LimitInv, OnePending
\* The call itself was the one pending, if it was prompt.
<1>18. \A most \in Nat : AtMost(k, most) => AtMost(k, most)'
  <2> SUFFICES ASSUME NEW most \in Nat, AtMost(k, most) PROVE AtMost(k, most)'
    OBVIOUS
  <2>1. tally[k].served \in Nat
    BY <1>7
  <2>2. CASE calls[c].prompt
    <3>1. Pending(c, k)
      BY <2>2, <1>1, <1>2, NoCallIsNone DEF Pending, CallAt
    <3>2. \A d \in Calls : ~Pending(d, k)'
      BY <3>1, <1>16 DEF LimitInv, OnePending
    <3>3. tally[k].served + 1 <= most
      BY <3>1 DEF AtMost
    <3> QED
      BY <2>1, <2>2, <3>2, <3>3, <1>8 DEF AtMost, more
  <2>3. CASE ~calls[c].prompt
    BY <2>1, <2>3, <1>8, <1>16 DEF AtMost, more
  <2> QED
    BY <2>2, <2>3
<1>19. \A j \in Counted, most \in Nat : AtMost(j, most) => AtMost(j, most)'
  <2> SUFFICES ASSUME NEW j \in Counted, NEW most \in Nat, AtMost(j, most)
               PROVE  AtMost(j, most)'
    OBVIOUS
  <2>1. CASE j = k
    BY <2>1, <1>18
  <2>2. CASE j # k
    BY <2>2, <1>8, <1>16 DEF AtMost
  <2> QED
    BY <2>1, <2>2
<1>20. CountedInWindow'
  <2> SUFFICES ASSUME NEW j \in Counted
               PROVE  /\ AtMost(j, Limit)'
                      /\ clock.window <= j[2] =>
                           /\ counters'[j] = NoCounter => AtMost(j, 0)'
                           /\ counters'[j] # NoCounter => AtMost(j, counters[j].count)'
    BY <1>5 DEF CountedInWindow
  <2>1. AtMost(j, Limit)'
    BY <1>19, LimitAssumption DEF LimitInv, CountedInWindow
  <2>2. counters'[j] = NoCounter <=> counters[j] = NoCounter
    BY <1>11
  <2>3. ASSUME clock.window <= j[2], counters'[j] = NoCounter PROVE AtMost(j, 0)'
    BY <1>19, <2>2, <2>3 DEF LimitInv, CountedInWindow
  <2>4. ASSUME clock.window <= j[2], counters'[j] # NoCounter
        PROVE  AtMost(j, counters[j].count)'
    <3>1. PICK most \in Nat : most = counters[j].count
      BY <2>2, <2>4 DEF LimitInv, LimitTypeOK, Counter
    <3>2. AtMost(j, most)
      BY <2>2, <2>4, <3>1 DEF LimitInv, CountedInWindow
    <3>3. most = counters'[j].count
      BY <2>2, <2>4, <3>1, <1>11
    <3> QED
      BY <3>2, <3>3, <1>19 DEF AtMost
  <2> QED
    BY <2>1, <2>3, <2>4
<1> QED
  BY <1>12, <1>13, <1>14, <1>15, <1>17, <1>20 DEF LimitInv

-----------------------------------------------------------------------------
LEMMA LimitInvStep == LimitInv /\ [LimitNext]_limitVars => LimitInv'
<1> SUFFICES ASSUME LimitInv, [LimitNext]_limitVars PROVE LimitInv'
  OBVIOUS
<1>1. CASE \E c \in Calls, client \in Client : ReadClock(c, client)
  BY <1>1, ReadClockKeeps
<1>2. CASE \E c \in Calls : Incr(c)
  BY <1>2, IncrKeeps
<1>3. CASE \E c \in Calls : Expire(c)
  BY <1>3, ExpireKeeps
<1>4. CASE \E c \in Calls : Return(c) \/ Die(c)
  BY <1>4, EndKeeps
<1>5. CASE Tick
  BY <1>5, TickKeeps
<1>6. CASE UNCHANGED limitVars
  BY <1>6
  DEF limitVars, LimitInv, LimitTypeOK, CallsSound, CountersSound, OnePending,
      CountedInWindow, AtMost, Pending, RefusedOverQuota, CallAt
<1> QED
  BY <1>1, <1>2, <1>3, <1>4, <1>5, <1>6 DEF LimitNext

\* The invariant of the rate limiter, its types among it.
THEOREM LimitInvariant == LimitSpec => []LimitInv
<1> QED
  BY LimitInitInv, LimitInvStep, PTL DEF LimitSpec

\* enforce_rate_limit admits at most Limit of the calls that a client has
\* counted while their window runs.
THEOREM WindowLimitHolds == LimitSpec => []WindowLimit
<1>1. LimitInv => WindowLimit
  BY DEF LimitInv, CountedInWindow, AtMost, WindowLimit
<1> QED
  BY <1>1, LimitInvariant, PTL

\* enforce_rate_limit refuses a call only when more than Limit calls of its own
\* operation and key have asked in its window.
THEOREM RefusedOverQuotaHolds == LimitSpec => []RefusedOverQuota
<1>1. LimitInv => RefusedOverQuota
  BY DEF LimitInv
<1> QED
  BY <1>1, LimitInvariant, PTL

-----------------------------------------------------------------------------
LEMMA CountersExpireStep ==
    LimitInv /\ LimitInv' /\ CountersExpire /\ [LimitNext]_limitVars => CountersExpire'
<1> SUFFICES ASSUME LimitInv, LimitInv', CountersExpire, [LimitNext]_limitVars,
                    NEW k \in Counted, failures' = MaxFailures,
                    counters'[k] # NoCounter, counters'[k].expires = Never
             PROVE  \E c \in Calls : (CallAt(c, "expire") /\ KeyOf(calls[c]) = k)'
  BY DEF CountersExpire
<1> DEFINE First(c) == CallAt(c, "expire") /\ KeyOf(calls[c]) = k
<1>1. ASSUME NEW c \in Calls, NEW client \in Client, ReadClock(c, client)
      PROVE  \E d \in Calls : First(d)'
  <2>1. PICK d \in Calls : First(d)
    BY <1>1 DEF ReadClock, CountersExpire
  <2>2. d # c
    BY <1>1, <2>1 DEF ReadClock, CallAt
  <2> QED
    BY <1>1, <2>1, <2>2 DEF ReadClock, CallAt, LimitInv, LimitTypeOK
<1>2. ASSUME NEW c \in Calls, Incr(c)
      PROVE  \E d \in Calls : First(d)'
  <2>1. calls[c] \in Call
    BY <1>2 DEF Incr, CallAt, LimitInv, LimitTypeOK
  <2>2. CASE counters[k] # NoCounter /\ counters[k].expires = Never
    <3>1. PICK d \in Calls : First(d)
      BY <1>2, <2>2 DEF Incr, CountersExpire
    <3>2. d # c
      BY <1>2, <3>1 DEF Incr, CallAt
    <3>3. calls'[d] = calls[d]
      BY <1>2, <3>2 DEF Incr, LimitInv, LimitTypeOK
    <3> QED
      BY <3>1, <3>3 DEF CallAt
  <2>3. CASE counters[k] = NoCounter
    <3>1. KeyOf(calls[c]) = k
      BY <1>2, <2>3 DEF Incr, LimitInv, LimitTypeOK
    <3>2. Incremented(counters[k]).count = 1
      BY <2>3 DEF Incremented
    <3> DEFINE prompt == clock.window = calls[c].window
               call == [calls[c] EXCEPT !.at = "expire", !.count = 1, !.prompt = prompt]
    <3>3. calls' = [calls EXCEPT ![c] = call]
      BY <1>2, <3>1, <3>2, Zenon DEF Incr
    <3>4. /\ call \in Call /\ call.at = "expire" /\ call.client = calls[c].client
          /\ call.window = calls[c].window
      BY <2>1 DEF Call, Stage
    <3> HIDE DEF call, prompt
    <3>5. calls'[c] = call
      BY <3>3 DEF LimitInv, LimitTypeOK
    <3> QED
      BY <3>1, <3>4, <3>5, NoCallIsNone DEF CallAt, KeyOf
  <2>4. CASE counters[k] # NoCounter /\ counters[k].expires # Never
    <3>1. counters[k] \in Counter
      BY <2>4 DEF LimitInv, LimitTypeOK
    <3>2. Incremented(counters[k]).expires = counters[k].expires
      BY <2>4, <3>1 DEF Incremented, Counter
    <3>3. counters'[k].expires = counters[k].expires
      BY <1>2, <3>2 DEF Incr, LimitInv, LimitTypeOK
    <3> QED
      BY <2>4, <3>3
  <2> QED
    BY <2>2, <2>3, <2>4
<1>3. ASSUME NEW c \in Calls, Expire(c)
      PROVE  \E d \in Calls : First(d)'
  <2>1. calls[c] \in Call
    BY <1>3 DEF Expire, CallAt, LimitInv, LimitTypeOK
  <2>2. KeyOf(calls[c]) # k
    <3>1. SUFFICES ASSUME KeyOf(calls[c]) = k PROVE FALSE
      OBVIOUS
    <3>2. counters[k] # NoCounter /\ counters[k] \in Counter
      BY <1>3, <3>1 DEF Expire, LimitInv, LimitTypeOK
    <3>3. counters'[k].expires = OneWindowLater
      BY <1>3, <3>1, <3>2 DEF Expire, LimitInv, LimitTypeOK, Counter
    <3>4. OneWindowLater \in [window : Nat, second : Second]
      BY LimitAssumption DEF OneWindowLater, LimitInv, LimitTypeOK, Window
    <3> QED
      BY <3>3, <3>4, LimitAssumption
  <2>3. counters'[k] = counters[k]
    BY <1>3, <2>1, <2>2, KeyCounted DEF Expire, LimitInv, LimitTypeOK
  <2>4. PICK d \in Calls : First(d)
    BY <1>3, <2>3 DEF Expire, CountersExpire
  <2>5. calls'[d] = calls[d]
    BY <1>3, <2>2, <2>4 DEF Expire, LimitInv, LimitTypeOK
  <2> QED
    BY <2>4, <2>5 DEF CallAt
<1>4. ASSUME NEW c \in Calls, Return(c)
      PROVE  \E d \in Calls : First(d)'
  <2>1. PICK d \in Calls : First(d)
    BY <1>4 DEF Return, CountersExpire
  <2>2. d # c
    BY <1>4, <2>1 DEF Return, CallAt
  <2> QED
    BY <1>4, <2>1, <2>2 DEF Return, CallAt, LimitInv, LimitTypeOK
<1>5. ASSUME NEW c \in Calls, Die(c)
      PROVE  \E d \in Calls : First(d)'
  BY <1>5, LimitAssumption DEF Die, LimitInv, LimitTypeOK
<1>6. CASE Tick
  <2>1. counters[k] # NoCounter /\ counters[k].expires = Never
    BY <1>6 DEF Tick
  <2> QED
    BY <1>6, <2>1 DEF Tick, CountersExpire, CallAt
<1>7. CASE UNCHANGED limitVars
  BY <1>7 DEF limitVars, CountersExpire, CallAt
<1> QED
  BY <1>1, <1>2, <1>3, <1>4, <1>5, <1>6, <1>7 DEF LimitNext

\* While no call has died between INCR and EXPIRE, every counter will expire.
THEOREM CountersExpireHolds == LimitSpec => []CountersExpire
<1>1. LimitInit => CountersExpire
  BY DEF LimitInit, CountersExpire
<1>2. LimitSpec => [](LimitInv /\ CountersExpire)
  BY <1>1, LimitInitInv, LimitInvStep, CountersExpireStep, PTL DEF LimitSpec
<1> QED
  BY <1>2, PTL
=============================================================================
