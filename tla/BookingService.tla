--------------------------- MODULE BookingService ---------------------------
(***************************************************************************)
(* POST /api/v1/bookings: create_booking of app/services/booking_service.py*)
(* as Laravel's requests, the gateway, Redis and a supplier run it.        *)
(*                                                                         *)
(* A booking is a Laravel booking id; Laravel may send several requests    *)
(* for it (retries, double submits).  The gateway keeps two Redis keys per *)
(* booking: the confirmed result, read before anything else, and a lock    *)
(* (SET NX EX 90) around the supplier call.  The lock has no owner: its    *)
(* value is "1" and whoever set it deletes it, whosever it is by then.     *)
(* Requests without laravel_booking_id (Keyless) have neither key.         *)
(*                                                                         *)
(* A step is what the code does between two awaits: it ends with the       *)
(* command to Redis or the supplier.  The vehicle entry in Redis may have  *)
(* expired at any time, and the vehicle_context is the caller's choice, so *)
(* looking up the vehicle is a choice of its outcome.                      *)
(*                                                                         *)
(* The supplier is not under src/: it gets the reservation request, makes  *)
(* the reservation or declines, at a time of its own, even after the       *)
(* gateway has given up or crashed.                                        *)
(*                                                                         *)
(* Operators named X_<slip> are variants of X that no specification uses.  *)
(***************************************************************************)
EXTENDS Integers, FiniteSets

CONSTANTS
    Bookings,   \* Laravel booking ids
    Keyless,    \* those whose requests do not carry the id
    Requests,   \* calls of the endpoint; each is made at most once
    Nobody,     \* no request: the result of a booking that has none
    LockTTL,    \* expiry of the lock (90 s in the code)
    Faults      \* what may go wrong, out of AllFaults

\* lock:      SET NX or DEL raises, with or without effect on Redis, or the key
\*            is evicted (Redis runs with allkeys-lru)
\* result:    the result cannot be read, cannot be stored, or is evicted
\* crash:     the gateway process dies and restarts
\* transport: the connection to the supplier breaks after the request is sent
\* noref:     the adapter reports a status other than CONFIRMED although the
\*            supplier reserved or may yet do so: an answer without a
\*            reference (PENDING in emr, favrica and xdrive), or a timeout
\*            it catches itself (recordgo, internal)
\* unfounded: the adapter reports CONFIRMED with a reference although the
\*            supplier has not reserved, or not under that reference: str(None)
\*            for a missing one, or the reference of a first request whose
\*            commit is not awaited (sicily_by_car, renteon); see AdapterCalls
AllFaults == {"lock", "result", "crash", "transport", "noref", "unfounded"}

ASSUME KeylessAssumption == Keyless \subseteq Bookings
ASSUME NobodyAssumption == Nobody \notin Requests
ASSUME TimeAssumption == LockTTL \in Nat \ {0}
ASSUME FaultsAssumption == Faults \subseteq AllFaults

VARIABLES
    pc,         \* where each request is
    booking,    \* the booking a request is for
    reply,      \* the answer a request will give or has given
    named,      \* the request whose reservation a confirmed reply names
    lock,       \* per booking: seconds the lock key has left, 0 when absent
    result,     \* per booking: the request whose confirmed response is stored
    supplier,   \* per request: what became of it at the supplier
    seen,       \* history: requests already answered when this one came
    intact,     \* history: no "result" fault has hit the booking
    lost,       \* history: bookings whose lock went away under a request holding it
    unfounded   \* history: requests confirmed by an "unfounded" report

redis == <<lock, result>>
history == <<seen, intact, lost, unfounded>>
vars == <<pc, booking, reply, named, redis, supplier, history>>

Replies == {"confirmed", "failed", "timeout_unknown", "bad_request", "bad_gateway"}
PCs == {"new", "locking", "waiting", "lookup", "calling", "storing", "releasing",
        "done", "dead"}

Keyed == Bookings \ Keyless
Underway(r) == pc[r] \notin {"new", "done", "dead"}

\* Between SET NX and DEL: the try block of a request that has taken its lock.
Holding(r) == pc[r] \in {"lookup", "calling", "storing", "releasing"} /\ booking[r] \in Keyed
Held(b) == \E r \in Requests : Holding(r) /\ booking[r] = b

TypeOK ==
    /\ pc \in [Requests -> PCs]
    /\ booking \in [Requests -> Bookings]
    /\ reply \in [Requests -> Replies \cup {"none"}]
    /\ named \in [Requests -> Requests \cup {Nobody}]
    /\ lock \in [Bookings -> 0 .. LockTTL]
    /\ result \in [Bookings -> Requests \cup {Nobody}]
    /\ supplier \in [Requests -> {"none", "sent", "reserved", "declined", "cancelled"}]
    /\ seen \in [Requests -> SUBSET Requests]
    /\ intact \in [Bookings -> BOOLEAN]
    /\ lost \subseteq Bookings
    /\ unfounded \subseteq Requests

Init ==
    /\ pc = [r \in Requests |-> "new"]
    /\ booking \in [Requests -> Bookings]
    /\ reply = [r \in Requests |-> "none"]
    /\ named = [r \in Requests |-> Nobody]
    /\ lock = [b \in Bookings |-> 0]
    /\ result = [b \in Bookings |-> Nobody]
    /\ supplier = [r \in Requests |-> "none"]
    /\ seen = [r \in Requests |-> {}]
    /\ intact = [b \in Bookings |-> TRUE]
    /\ lost = {}
    /\ unfounded = {}

-----------------------------------------------------------------------------
(* The handler.                                                            *)

Goto(r, where) == pc' = [pc EXCEPT ![r] = where]
Answer(r, what) == reply' = [reply EXCEPT ![r] = what]
Hit(b, fault) == fault \in Faults /\ intact' = [intact EXCEPT ![b] = FALSE]

\* After the try block: a request that holds its lock releases it first.
LeaveTry(r) == Goto(r, IF booking[r] \in Keyed THEN "releasing" ELSE "done")

\* History: the earlier requests of r's booking that were answered before r came.
Note(r) ==
    seen' = [seen EXCEPT ![r] = {s \in Requests : pc[s] = "done" /\ booking[s] = booking[r]}]

\* The request comes and a confirmed result is stored: the stored response is the reply.
Replay(r) ==
    /\ pc[r] = "new"
    /\ booking[r] \in Keyed /\ result[booking[r]] # Nobody
    /\ Goto(r, "done")
    /\ Answer(r, "confirmed")
    /\ named' = [named EXCEPT ![r] = result[booking[r]]]
    /\ Note(r)
    /\ UNCHANGED <<booking, redis, supplier, intact, lost, unfounded>>

\* The request comes and finds no result, or cache.get swallows a Redis error.
Receive(r) ==
    LET b == booking[r] IN
    /\ pc[r] = "new"
    /\ \/ (b \in Keyless \/ result[b] = Nobody) /\ UNCHANGED intact
       \/ b \in Keyed /\ result[b] # Nobody /\ Hit(b, "result")
    /\ Goto(r, IF b \in Keyed THEN "locking" ELSE "lookup")
    /\ Note(r)
    /\ UNCHANGED <<booking, reply, named, redis, supplier, lost, unfounded>>

AcquireLock_Milliseconds(r) ==
    /\ pc[r] = "locking"
    /\ lock[booking[r]] = 0
    /\ lock' = [lock EXCEPT ![booking[r]] = 1000 * LockTTL]
    /\ Goto(r, "lookup")
    /\ UNCHANGED <<booking, reply, named, result, supplier, history>>

AcquireLock_Always(r) ==
    /\ pc[r] = "locking"
    /\ lock' = [lock EXCEPT ![booking[r]] = LockTTL]
    /\ Goto(r, "lookup")
    /\ UNCHANGED <<booking, reply, named, result, supplier, history>>

\* SET lock NX EX: the key is free.  The result is not read again.
AcquireLock(r) ==
    /\ pc[r] = "locking"
    /\ lock[booking[r]] = 0
    /\ lock' = [lock EXCEPT ![booking[r]] = LockTTL]
    /\ Goto(r, "lookup")
    /\ UNCHANGED <<booking, reply, named, result, supplier, history>>

\* The key is taken: ten sleeps of half a second follow.
LockTaken(r) ==
    /\ pc[r] = "locking"
    /\ lock[booking[r]] # 0
    /\ Goto(r, "waiting")
    /\ UNCHANGED <<booking, reply, named, redis, supplier, history>>

\* SET raises: the endpoint answers 502.  Redis may have set the key all the same.
LockFails(r) ==
    LET b == booking[r] IN
    /\ "lock" \in Faults
    /\ pc[r] = "locking"
    /\ lock' \in {lock, [lock EXCEPT ![b] = IF @ = 0 THEN LockTTL ELSE @]}
    /\ Goto(r, "done")
    /\ Answer(r, "bad_gateway")
    /\ UNCHANGED <<booking, named, result, supplier, history>>

\* "Booking is already being confirmed": the lock and the result are not looked at again.
GiveUp(r) ==
    /\ pc[r] = "waiting"
    /\ Goto(r, "done")
    /\ Answer(r, "bad_request")
    /\ UNCHANGED <<booking, named, redis, supplier, history>>

\* No vehicle and no valid context, another search's vehicle, or no adapter.
RejectVehicle(r) ==
    /\ pc[r] = "lookup"
    /\ LeaveTry(r)
    /\ Answer(r, "bad_request")
    /\ UNCHANGED <<booking, named, redis, supplier, history>>

\* The vehicle is in the cache or in the context: the adapter sends the reservation.
CallSupplier(r) ==
    /\ pc[r] = "lookup"
    /\ Goto(r, "calling")
    /\ supplier' = [supplier EXCEPT ![r] = "sent"]
    /\ UNCHANGED <<booking, reply, named, redis, history>>

Confirm_WithoutStoring(r) ==
    /\ pc[r] = "calling" /\ supplier[r] = "reserved"
    /\ Answer(r, "confirmed")
    /\ named' = [named EXCEPT ![r] = r]
    /\ LeaveTry(r)
    /\ UNCHANGED <<booking, redis, supplier, history>>

Confirm_WithoutReference(r) ==
    /\ pc[r] = "calling" /\ supplier[r] \in {"reserved", "declined"}
    /\ Answer(r, "confirmed")
    /\ named' = [named EXCEPT ![r] = r]
    /\ Goto(r, IF booking[r] \in Keyed THEN "storing" ELSE "done")
    /\ UNCHANGED <<booking, redis, supplier, history>>

\* CONFIRMED with a nonempty reference is believed, whoever invented it.  The
\* storing comes next, if there is a key.
Confirm(r) ==
    /\ pc[r] = "calling"
    /\ \/ supplier[r] = "reserved" /\ UNCHANGED unfounded
       \/ "unfounded" \in Faults /\ unfounded' = unfounded \cup {r}
    /\ Answer(r, "confirmed")
    /\ named' = [named EXCEPT ![r] = r]
    /\ Goto(r, IF booking[r] \in Keyed THEN "storing" ELSE "done")
    /\ UNCHANGED <<booking, redis, supplier, seen, intact, lost>>

\* Not CONFIRMED: the supplier declined; its connection broke, which
\* provider_failure_response calls "failed" too; or there was no reference to
\* confirm with, for the adapter or for normalize_booking_response.
Refusal(r) ==
    \/ supplier[r] = "declined"
    \/ "transport" \in Faults
    \/ "noref" \in Faults

CallFails(r) ==
    /\ pc[r] = "calling" /\ Refusal(r)
    /\ Answer(r, "failed")
    /\ LeaveTry(r)
    /\ UNCHANGED <<booking, named, redis, supplier, history>>

CallTimesOut_Never(r) ==
    /\ pc[r] = "calling" /\ FALSE
    /\ UNCHANGED vars

\* httpx.TimeoutException: the reservation may exist or come to exist.
CallTimesOut(r) ==
    /\ pc[r] = "calling"
    /\ Answer(r, "timeout_unknown")
    /\ LeaveTry(r)
    /\ UNCHANGED <<booking, named, redis, supplier, history>>

\* The confirmed response goes to Redis for 30 days; cache.set swallows an error.
StoreResult(r) ==
    LET b == booking[r] IN
    /\ pc[r] = "storing"
    /\ \/ result' = [result EXCEPT ![b] = r] /\ UNCHANGED intact
       \/ Hit(b, "result") /\ UNCHANGED result
    /\ Goto(r, "releasing")
    /\ UNCHANGED <<booking, reply, named, lock, supplier, seen, lost, unfounded>>

ReleaseLock_Raises(r) ==
    LET b == booking[r] IN
    /\ pc[r] = "releasing"
    /\ \/ lock' = [lock EXCEPT ![b] = 0] /\ UNCHANGED reply
       \/ "lock" \in Faults /\ Answer(r, "bad_gateway") /\ UNCHANGED lock
    /\ Goto(r, "done")
    /\ UNCHANGED <<booking, named, result, supplier, history>>

\* finally: DEL the key, whoever set it; an error is swallowed.  Then the reply goes out.
ReleaseLock(r) ==
    LET b == booking[r] IN
    /\ pc[r] = "releasing"
    /\ \/ lock' = [lock EXCEPT ![b] = 0]
       \/ "lock" \in Faults /\ UNCHANGED lock
    /\ Goto(r, "done")
    /\ UNCHANGED <<booking, reply, named, result, supplier, history>>

\* The steps the gateway takes whether or not the supplier answers.
Gateway(r) ==
    \/ Replay(r) \/ Receive(r) \/ AcquireLock(r) \/ LockTaken(r) \/ LockFails(r)
    \/ GiveUp(r) \/ RejectVehicle(r) \/ CallSupplier(r) \/ CallTimesOut(r)
    \/ StoreResult(r) \/ ReleaseLock(r)

Step(r) == Gateway(r) \/ Confirm(r) \/ CallFails(r)

-----------------------------------------------------------------------------
(* Everything else: the supplier, time, Redis and the process.             *)

SupplierDecides(r) ==
    /\ supplier[r] = "sent"
    /\ \E d \in {"reserved", "declined"} : supplier' = [supplier EXCEPT ![r] = d]
    /\ UNCHANGED <<pc, booking, reply, named, redis, history>>

\* DELETE /api/v1/bookings: cancel_booking names a reservation Laravel was
\* given, and the adapter cancels it, if the reference is the supplier's.  The
\* stored result stays where it is.
CancelBooking(r) ==
    /\ \E s \in Requests : pc[s] = "done" /\ reply[s] = "confirmed" /\ named[s] = r
    /\ supplier[r] = "reserved"
    /\ supplier' = [supplier EXCEPT ![r] = "cancelled"]
    /\ UNCHANGED <<pc, booking, reply, named, redis, history>>

Tick_NoExpiry ==
    /\ \E b \in Bookings : lock[b] > 0
    /\ UNCHANGED vars

\* One second.  Nothing bounds how long a request holds its lock: the timeouts of
\* the HTTP clients are per phase of a request, and adapters send several.
Tick ==
    /\ \E b \in Bookings : lock[b] > 0
    /\ lock' = [b \in Bookings |-> IF lock[b] > 0 THEN lock[b] - 1 ELSE 0]
    /\ lost' = lost \cup {b \in Bookings : lock[b] = 1 /\ Held(b)}
    /\ UNCHANGED <<pc, booking, reply, named, result, supplier, seen, intact, unfounded>>

EvictResult(b) ==
    /\ result[b] # Nobody
    /\ Hit(b, "result")
    /\ result' = [result EXCEPT ![b] = Nobody]
    /\ UNCHANGED <<pc, booking, reply, named, lock, supplier, seen, lost, unfounded>>

EvictLock(b) ==
    /\ "lock" \in Faults /\ lock[b] > 0
    /\ lock' = [lock EXCEPT ![b] = 0]
    /\ lost' = IF Held(b) THEN lost \cup {b} ELSE lost
    /\ UNCHANGED <<pc, booking, reply, named, result, supplier, seen, intact, unfounded>>

\* The process dies: its requests are never answered, Redis keeps its keys.
Crash ==
    /\ "crash" \in Faults
    /\ \E r \in Requests : Underway(r)
    /\ pc' = [r \in Requests |-> IF Underway(r) THEN "dead" ELSE pc[r]]
    /\ UNCHANGED <<booking, reply, named, redis, supplier, history>>

Next ==
    \/ \E r \in Requests : Step(r) \/ SupplierDecides(r) \/ CancelBooking(r)
    \/ \E b \in Bookings : EvictResult(b) \/ EvictLock(b)
    \/ Tick
    \/ Crash

Spec == Init /\ [][Next]_vars

\* The event loop and the clock run, Redis answers or fails, and the HTTP client
\* times out.  The supplier need not answer.
Fairness == WF_vars(Tick) /\ \A r \in Requests : WF_vars(Gateway(r))

FairSpec == Spec /\ Fairness

-----------------------------------------------------------------------------
(* Properties.                                                             *)

\* The lock does its work as long as it lasts: two requests of one booking are
\* never between SET and DEL at once, though DEL does not ask whose lock it
\* deletes, unless the booking's lock expired or was evicted under its holder.
Guarded(r) == Holding(r) /\ booking[r] \notin lost
OneCallAtATime ==
    \A r, s \in Requests :
        Guarded(r) /\ Guarded(s) /\ booking[r] = booking[s] => r = s

\* q is one the supplier made a reservation for, since cancelled or not
\* (cancel_booking leaves the stored result alone), or one that an adapter only
\* claims to be confirmed.
Backing(q) == supplier[q] \in {"reserved", "cancelled"} \/ q \in unfounded

\* A confirmed reply, and the stored result it may come from, names a
\* reservation the supplier made for the same booking, whatever crashes, is lost
\* or overlaps: only an adapter's unfounded report makes the service name
\* another, and that of the same booking too.
ConfirmedIsReserved ==
    /\ \A r \in Requests : reply[r] = "confirmed" =>
          named[r] \in Requests /\ Backing(named[r]) /\ booking[named[r]] = booking[r]
    /\ \A b \in Keyed : result[b] # Nobody =>
          Backing(result[b]) /\ booking[result[b]] = b

\* The promise of booking_service.py:118: once a confirmed reply is out, a
\* request that comes later never reaches the supplier, as long as Redis keeps
\* the stored result.  It gets the first reservation again, whatever other
\* requests of the booking do meanwhile.
RetryIsReplayed ==
    \A r \in Requests : \A s \in seen[r] :
        reply[s] = "confirmed" /\ booking[r] \in Keyed /\ intact[booking[r]]
            => supplier[r] = "none"

\* A 400 or a 502 ("Please retry") is given only for a request that has asked
\* the supplier for nothing, so that repeating it is harmless.
ErrorMeansUntouched ==
    \A r \in Requests : reply[r] \in {"bad_request", "bad_gateway"} => supplier[r] = "none"

\* Every request ends: no supplier, lock or Redis error holds it for ever.
RequestsEnd == \A r \in Requests : Underway(r) ~> ~Underway(r)

\* No lock stays for ever, not even that of a request that died holding it: a
\* booking can always be tried again.
LocksEnd == \A b \in Bookings : lock[b] > 0 ~> lock[b] = 0

\* What booking_service.py:118-121 stores the result for: a retry "returns the
\* same supplier reservation instead of creating a second one".  All confirmed
\* replies for a booking name the same reservation.
SameReservation ==
    \A r, s \in Requests :
        /\ reply[r] = "confirmed" /\ reply[s] = "confirmed"
        /\ booking[r] = booking[s] /\ booking[r] \in Keyed
        => named[r] = named[s]

\* provider_failure_response (booking_service.py:332-335): when the supplier
\* was contacted and did not answer, the reply is timeout_unknown, so "failed"
\* means that there is no reservation and Laravel may try again.
FailedMeansNone ==
    \A r \in Requests : reply[r] = "failed" => supplier[r] # "reserved"

=============================================================================
