--------------------------- MODULE ProviderAccess ---------------------------
(***************************************************************************)
(* The door of the Provider API, app/core/provider_auth.py: a request      *)
(* shows a key, which MySQL knows, and is counted in Redis against the     *)
(* limit of its consumer.  Counters are per key and minute, and expire.    *)
(*                                                                         *)
(* A request is a process.  It waits for MySQL and for Redis, and between  *)
(* the waits other requests run, keys are revoked and time passes.         *)
(* last_used_at, which is only reported, and the headers are left out.     *)
(*                                                                         *)
(* Operators named X_<slip> are variants of X that no specification uses.  *)
(***************************************************************************)
EXTENDS Integers, FiniteSets

CONSTANTS
    Keys,           \* the keys one consumer ever has
    Issued,         \* those it has at first
    Requests,
    None,
    ExpiresAt,      \* per key, the last time it is valid at, or None
    Limit,          \* requests per key and window (consumer.rate_limit)
    WindowLength,   \* 60 s
    CounterTTL,     \* how long a counter lives (65 s)
    MaxClock,       \* bound on time
    Volatile        \* keys whose counters Redis may evict

Times == 0 .. MaxClock

ASSUME LimitAssumption == Limit \in Nat \ {0}
ASSUME WindowAssumption == WindowLength \in Nat \ {0} /\ MaxClock \in Nat
ASSUME TTLAssumption == CounterTTL \in Nat \ {0}
ASSUME NoneAssumption == None \notin Requests
ASSUME KeysAssumption ==
    /\ ExpiresAt \in [Keys -> Times \cup {None}] /\ None \notin Nat
    /\ Issued \subseteq Keys /\ Volatile \subseteq Keys

VARIABLES
    clock,
    key,        \* the status of each key in the database
    counter,    \* provider_api_rate:<key>:<window>
    req         \* the requests

vars == <<clock, key, counter, req>>

WindowAt(time) == time \div WindowLength
Start(window) == window * WindowLength
Windows == {WindowAt(time) : time \in Times}
Slots == Keys \X Windows

\* A counter, and as history the request whose INCR made it.
NoCounter == [count |-> 0, ttl |-> None, maker |-> None]

Waiting == {"find", "expiring", "incr", "expire", "passed"}
\* "refused" is any answer but 429: 401, 403, and 500 when the database fails.
Answered == {"admitted", "refused", "429"}

\* Of a request: its key, its window, the count Redis answered, and as history
\* the maker of the counter its INCR was counted in, whether by then a counter
\* as old as the window would have expired, whether Redis failed it, and whether
\* its key was good for anything when it came.
Fresh == [pc |-> "idle", key |-> None, window |-> 0, count |-> None,
          maker |-> None, late |-> FALSE, failed |-> FALSE, barred |-> FALSE]

Status == {"unissued", "active", "expired", "revoked"}

Counter == [count : Nat, ttl : 1 .. CounterTTL \cup {None}, maker : Requests \cup {None}]

Request == [pc : {"idle"} \cup Waiting \cup Answered, key : Keys \cup {None},
            window : Windows, count : Nat \cup {None},
            maker : Requests \cup {None}, late : BOOLEAN,
            failed : BOOLEAN, barred : BOOLEAN]

TypeOK ==
    /\ clock \in Times
    /\ key \in [Keys -> Status]
    /\ counter \in [Slots -> Counter]
    /\ req \in [Requests -> Request]
    /\ \A r \in Requests : req[r].pc # "idle" => req[r].key \in Keys

Init ==
    /\ clock = 0
    /\ key = [k \in Keys |-> IF k \in Issued THEN "active" ELSE "unissued"]
    /\ counter = [s \in Slots |-> NoCounter]
    /\ req = [r \in Requests |-> Fresh]

-----------------------------------------------------------------------------

Slot_OfKey(r) == <<req[r].key, 0>>
Slot(r) == <<req[r].key, req[r].window>>

Overdue(k) == ExpiresAt[k] # None /\ ExpiresAt[k] < clock
Over(count) == count > Limit
NeedsExpiry_AtSecond(count) == count = 2
NeedsExpiry(count) == count = 1

Goes(r, pc) == req' = [req EXCEPT ![r].pc = pc]

Receive_WithoutKey(r, k) ==
    /\ req[r].pc = "idle"
    /\ req' = [req EXCEPT ![r] = [Fresh EXCEPT !.pc = "find"]]
    /\ UNCHANGED <<clock, key, counter>>

Receive(r, k) ==
    /\ req[r].pc = "idle" /\ key[k] # "unissued"
    /\ req' = [req EXCEPT ![r] = [Fresh EXCEPT !.pc = "find", !.key = k,
                 !.barred = key[k] # "active" \/ Overdue(k)]]
    /\ UNCHANGED <<clock, key, counter>>

\* find_by_plaintext: key and consumer, as the transaction sees them at once.
\* Laravel suspends the consumer and lifts the suspension as it likes, so a key
\* that is good may find it suspended or not.  The window is that of the moment
\* the database has answered.
Find(r) ==
    /\ req[r].pc = "find"
    /\ LET k == req[r].key IN
       IF key[k] = "active"
       THEN IF Overdue(k)
            THEN Goes(r, "expiring")
            ELSE \/ Goes(r, "refused")
                 \/ req' = [req EXCEPT ![r].pc = "incr", ![r].window = WindowAt(clock)]
       ELSE Goes(r, "refused")
    /\ UNCHANGED <<clock, key, counter>>

\* The status is written over whatever it has become since it was read.
MarkExpired(r) ==
    /\ req[r].pc = "expiring"
    /\ key' = [key EXCEPT ![req[r].key] = "expired"]
    /\ Goes(r, "refused")
    /\ UNCHANGED <<clock, counter>>

\* What INCR makes of the counter: it makes it, if there is none (any more).
Raised(r) ==
    LET c == counter[Slot(r)] IN
    [c EXCEPT !.count = @ + 1, !.maker = IF c.count = 0 THEN r ELSE @]
TooLate(r) == clock >= Start(req[r].window) + CounterTTL

\* _enforce_rate_limit: INCR, then EXPIRE by whoever made the counter.  Nothing
\* bounds the wait for Redis: the window may be long over by then.
Incr(r) ==
    /\ req[r].pc = "incr"
    /\ LET raised == Raised(r) IN
       /\ counter' = [counter EXCEPT ![Slot(r)] = raised]
       /\ req' = [req EXCEPT ![r].maker = raised.maker, ![r].late = TooLate(r),
                    ![r].count = raised.count,
                    ![r].pc = IF NeedsExpiry(raised.count) THEN "expire"
                              ELSE IF Over(raised.count) THEN "429" ELSE "passed"]
    /\ UNCHANGED <<clock, key>>

\* A counter that is gone by then stays gone.
WithTTL(s, ttl) ==
    IF counter[s].count = 0 THEN counter ELSE [counter EXCEPT ![s].ttl = ttl]

Expire_TooSoon(r) ==
    /\ req[r].pc = "expire"
    /\ counter' = WithTTL(Slot(r), 1)
    /\ Goes(r, IF Over(req[r].count) THEN "429" ELSE "passed")
    /\ UNCHANGED <<clock, key>>

Expire(r) ==
    /\ req[r].pc = "expire"
    /\ counter' = WithTTL(Slot(r), CounterTTL)
    /\ Goes(r, IF Over(req[r].count) THEN "429" ELSE "passed")
    /\ UNCHANGED <<clock, key>>

\* Redis fails, before or after it did as told; the request is let through.
Failed(r) == req' = [req EXCEPT ![r].pc = "passed", ![r].failed = TRUE, ![r].count = None]

IncrFails(r) ==
    /\ req[r].pc = "incr"
    /\ \/ counter' = counter /\ Failed(r)
       \/ /\ counter' = [counter EXCEPT ![Slot(r)] = Raised(r)]
          /\ req' = [req EXCEPT ![r].pc = "passed", ![r].failed = TRUE,
                       ![r].maker = Raised(r).maker, ![r].late = TooLate(r)]
    /\ UNCHANGED <<clock, key>>

ExpireFails(r) ==
    /\ req[r].pc = "expire"
    /\ counter' = counter \/ counter' = WithTTL(Slot(r), CounterTTL)
    /\ Failed(r)
    /\ UNCHANGED <<clock, key>>

\* last_used_at is written, or the database fails; the key has the scope or not.
Finish(r) ==
    /\ req[r].pc = "passed"
    /\ Goes(r, "admitted") \/ Goes(r, "refused")
    /\ UNCHANGED <<clock, key, counter>>

DatabaseFails(r) ==
    /\ req[r].pc \in {"find", "expiring"}
    /\ Goes(r, "refused")
    /\ UNCHANGED <<clock, key, counter>>

Step(r) ==
    \/ \E k \in Keys : Receive(r, k)
    \/ Find(r) \/ MarkExpired(r) \/ Incr(r) \/ IncrFails(r)
    \/ Expire(r) \/ ExpireFails(r) \/ Finish(r) \/ DatabaseFails(r)

\* The operator's side: generate_key, rotate_key, revoke_key, whatever the old
\* key is by then.
Generate(k) ==
    /\ key[k] = "unissued"
    /\ key' = [key EXCEPT ![k] = "active"]
    /\ UNCHANGED <<clock, counter, req>>

Rotate(k, new) ==
    /\ key[k] # "unissued" /\ key[new] = "unissued"
    /\ key' = [key EXCEPT ![k] = "revoked", ![new] = "active"]
    /\ UNCHANGED <<clock, counter, req>>

Revoke(k) ==
    /\ key[k] \notin {"unissued", "revoked"}
    /\ key' = [key EXCEPT ![k] = "revoked"]
    /\ UNCHANGED <<clock, counter, req>>

Evict(s) ==
    /\ s[1] \in Volatile /\ counter[s].count > 0
    /\ counter' = [counter EXCEPT ![s] = NoCounter]
    /\ UNCHANGED <<clock, key, req>>

Aged(c) ==
    CASE c.ttl = None -> c
      [] c.ttl = 1 -> NoCounter
      [] OTHER -> [c EXCEPT !.ttl = @ - 1]

Tick ==
    /\ clock < MaxClock
    /\ clock' = clock + 1
    /\ counter' = [s \in Slots |-> Aged(counter[s])]
    /\ UNCHANGED <<key, req>>

Next ==
    \/ \E r \in Requests : Step(r)
    \/ \E k \in Keys : Generate(k) \/ Revoke(k)
    \/ \E k, new \in Keys : Rotate(k, new)
    \/ \E s \in Slots : Evict(s)
    \/ Tick

Spec == Init /\ [][Next]_vars

-----------------------------------------------------------------------------
(* Properties.                                                             *)

Took(r) == req[r].maker # None
Admitted(s) == {r \in Requests : req[r].pc = "admitted" /\ ~req[r].failed /\ Slot(r) = s}
Makers(s) == {r \in Requests : req[r].maker = r /\ Slot(r) = s}

\* A key opens the door at most Limit times per window, not counting requests let
\* through because Redis failed: no counter dies while its window may still be
\* counted in, and no two requests get the same count.  Whoever comes to Redis so
\* late that the window's counter has expired is not within this limit, nor are
\* keys whose counters are evicted; but they too get in only Limit at a time,
\* each time the counter starts again.  (Each key of a consumer has a counter of
\* its own, but the limit is the consumer's.)
LimitHolds ==
    \A s \in Slots :
        /\ s[1] \notin Volatile =>
              Cardinality({r \in Admitted(s) : ~req[r].late}) <= Limit
        /\ Cardinality(Admitted(s)) <= Limit * Cardinality(Makers(s))

\* A request is refused for its number only if more than Limit requests, it
\* among them, asked in that very window with a key that was good when they
\* came.  (An INCR whose answer was lost does count.)
RefusedIsOverLimit ==
    \A r \in Requests : req[r].pc = "429" =>
        Cardinality({q \in Requests :
            /\ Took(q) /\ ~req[q].barred
            /\ req[q].key = req[r].key /\ req[q].window = req[r].window}) > Limit

\* INCR makes a counter that lives for ever and EXPIRE, another command, makes
\* it mortal.  One without expiry has a request that is about to send EXPIRE,
\* or was made by one that Redis failed.
CountersExpire ==
    \A s \in Slots : counter[s].count > 0 /\ counter[s].ttl = None =>
        \E r \in Requests :
            Took(r) /\ Slot(r) = s /\ (req[r].pc = "expire" \/ req[r].failed)

=============================================================================
