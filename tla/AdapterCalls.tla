---------------------------- MODULE AdapterCalls ----------------------------
(***************************************************************************)
(* One adapter at work for one of its three users: the search service, the *)
(* booking service (for one booking, which Laravel repeats as long as it   *)
(* is told that nothing was reserved), or the refresher of the locations.  *)
(* The users share nothing an adapter keeps, so each behaviour has one.    *)
(*                                                                         *)
(* A step is one request of the adapter with the reply to it, up to the    *)
(* next request or the end of the method; what the user does with the end  *)
(* belongs to it.  The supplier does what a reply says it did, what a reply*)
(* leaves open it may have done, and what the gateway stopped waiting for  *)
(* it may still do later.                                                  *)
(*                                                                         *)
(* Operators named X_<slip> are variants of X that no specification uses.  *)
(***************************************************************************)
EXTENDS Adapters, CircuitBreaker, FiniteSets

CONSTANTS
    Suppliers,      \* the adapters looked at
    MaxCalls        \* bound on calls of create_booking for the booking

ASSUME SuppliersAssumption == Suppliers \subseteq DOMAIN Adapters
ASSUME MaxCallsAssumption == MaxCalls \in Nat
ASSUME TablesAssumption ==
    \A s \in DOMAIN Adapters : LET adapter == Adapters[s] IN
        /\ \A i \in DOMAIN adapter.search : \A r \in Replies :
              adapter.search[i].on[r] \subseteq SearchOutcomes \cup {"again"}
        /\ \A i \in DOMAIN adapter.locations : \A r \in Replies :
              adapter.locations[i].on[r] \subseteq SearchOutcomes \cup {"again"}
        /\ \A i \in DOMAIN adapter.create : \A r \in Replies :
              adapter.create[i].on[r] \subseteq CreateOutcomes
        /\ \A i \in DOMAIN adapter.cancel : \A r \in Replies :
              adapter.cancel[i].on[r] \subseteq CancelOutcomes
        /\ \A e \in Entries : adapter.reading[e] \subseteq Verdicts

VARIABLES
    supplier,   \* whose adapter it is
    user,       \* who uses it
    method,     \* the method that runs, or ran last
    at,         \* the request it is at; 0 when it does not run
    again,      \* whether that is the repetition after a new login
    seen,       \* history: the replies to the method so far
    answered,   \* history: the entries in the answers to a search
    offers,     \* what the search made of them, with the price kept or 0.00
    breaker,    \* the supplier's circuit breaker
    silent,     \* history: searches in a row in which every request was lost
    listed,     \* whether the locations file has the supplier's locations
    desk,       \* the supplier's side of the booking
    calls,      \* history: calls of create_booking
    told,       \* what Laravel was told of the last of them
    cancelTold  \* what Laravel was told of the last cancellation

searching == <<answered, offers, breaker, silent>>
booking == <<desk, calls, told, cancelTold>>
vars == <<supplier, user, method, at, again, seen, searching, listed, booking>>

Users == {"search_service", "booking_service", "refresher"}
Methods == {"none", "search", "locations", "create", "cancel"}
Told == {"nothing", "confirmed", "pending", "failed", "unknown"}
CancelTold == {"nothing", "cancelled", "failed", "error"}

\* Reservations made, those the supplier may still make for requests nobody
\* waits for, and whether the booking was or may yet be cancelled.
Desk == [made : Nat, coming : Nat, gone : BOOLEAN, going : BOOLEAN]

TypeOK ==
    /\ supplier \in Suppliers
    /\ user \in Users
    /\ method \in Methods
    /\ at \in Nat /\ (at > 0 => at \in DOMAIN Adapters[supplier][method])
    /\ again \in BOOLEAN /\ (again => at > 0)
    /\ seen \subseteq Replies
    /\ answered \subseteq Entries
    /\ offers \subseteq Entries \X {"offer", "free"}
    /\ breaker \in Breaker
    /\ silent \in 0 .. FailureCap
    /\ listed \in BOOLEAN
    /\ desk \in Desk /\ desk.made + desk.coming <= 2 * calls
    /\ calls \in 0 .. MaxCalls
    /\ told \in Told
    /\ cancelTold \in CancelTold

Init ==
    /\ supplier \in Suppliers
    /\ user \in Users
    /\ method = "none" /\ at = 0 /\ again = FALSE /\ seen = {}
    /\ answered = {} /\ offers = {}
    /\ breaker = NewBreaker /\ silent = 0
    /\ listed = TRUE
    /\ desk = [made |-> 0, coming |-> 0, gone |-> FALSE, going |-> FALSE]
    /\ calls = 0 /\ told = "nothing" /\ cancelTold = "nothing"

Requests == Adapters[supplier][method]
Runs == at > 0

-----------------------------------------------------------------------------
(* One request and the reply to it.                                        *)

\* Only these two adapters use a session, and only in a reservation's place
\* a null goes unnoticed.
Answerable ==
    Replies \ ((IF supplier \in {"adobe_car", "click2rent"} THEN {} ELSE {"expired"})
               \cup (IF method = "create" /\ Requests[at].acts THEN {} ELSE {"nulled"}))

\* What the adapter makes of a reply.  It logs in again once; a second 401 is
\* read like any other answer that says no.
MadeOf(reply) == Requests[at].on[IF again /\ reply = "expired" THEN "refused" ELSE reply]

\* The method m gets a reply, and makes an outcome of it.
Receives(m, reply, outcome) ==
    /\ Runs /\ method = m
    /\ reply \in Answerable
    /\ outcome \in MadeOf(reply)
    /\ seen' = seen \cup {reply}

\* Another request follows.
Continues(outcome) ==
    outcome = "again" \/ (outcome \in {"next", "more"} /\ at < Len(Requests))

Proceed_KeepsLogin(outcome) ==
    IF Continues(outcome)
    THEN /\ at' = IF outcome = "again" THEN at ELSE at + 1
         /\ again' = (again \/ outcome = "again")
    ELSE at' = 0 /\ again' = again

Proceed(outcome) ==
    IF Continues(outcome)
    THEN /\ at' = IF outcome = "again" THEN at ELSE at + 1
         /\ again' = (outcome = "again")
    ELSE at' = 0 /\ again' = FALSE

Start(m) ==
    /\ ~Runs
    /\ method' = m /\ seen' = {} /\ answered' = {} /\ offers' = {}
    /\ at' = IF Adapters[supplier][m] = <<>> THEN 0 ELSE 1
    /\ UNCHANGED <<supplier, user, again>>

-----------------------------------------------------------------------------
(* Searching: _search_single_supplier of search_service.py.                *)

\* The hosts' own cars are left out (search_service.py:204).
Search ==
    /\ user = "search_service" /\ supplier # "internal" /\ IsAvailable(breaker)
    /\ Start("search")
    /\ breaker' = Checked(breaker)
    /\ UNCHANGED <<silent, listed, booking>>

\* A list is a success, whatever is in it; an exception is a failure.
SearchEnds(good) ==
    /\ breaker' = IF good THEN RecordSuccess(breaker) ELSE RecordFailure(breaker)
    /\ silent' = IF seen' \subseteq Lost THEN OneMore(silent) ELSE 0

\* An answer has one vehicle, or two of which one may spoil the other.
Answers == {<<e>> : e \in Entries} \cup {<<"whole", e>> : e \in Entries}
           \cup {<<e, "whole">> : e \in Entries}

Readings(answer) ==
    {v \in [DOMAIN answer -> Verdicts] :
        \A i \in DOMAIN answer : v[i] \in Adapters[supplier].reading[answer[i]]}

\* The offers made of an answer: those before the entry that stops it.
Kept(answer, verdict) ==
    {<<answer[i], verdict[i]>> :
        i \in {i \in DOMAIN answer : verdict[i] \in {"offer", "free"}
                                     /\ \A j \in 1 .. i : verdict[j] # "stop"}}

SearchFinds(reply, outcome) ==
    /\ Receives("search", reply, outcome)
    /\ outcome \in {"found", "more"}
    /\ \E answer \in Answers : \E verdict \in Readings(answer) :
          /\ answered' = answered \cup {answer[i] : i \in DOMAIN answer}
          /\ IF \E i \in DOMAIN answer : verdict[i] = "raise"
             THEN offers' = {} /\ Proceed("raise") /\ SearchEnds(FALSE)
             ELSE /\ offers' = offers \cup Kept(answer, verdict)
                  /\ Proceed(outcome)
                  /\ IF Continues(outcome) THEN UNCHANGED <<breaker, silent>> ELSE SearchEnds(TRUE)
    /\ UNCHANGED <<supplier, user, method, listed, booking>>

SearchMisses(reply, outcome) ==
    /\ Receives("search", reply, outcome)
    /\ outcome \notin {"found", "more"}
    /\ Proceed(outcome)
    /\ offers' = IF outcome \in {"empty", "raise"} THEN {} ELSE offers
    /\ IF Continues(outcome) THEN UNCHANGED <<breaker, silent>> ELSE SearchEnds(outcome # "raise")
    /\ UNCHANGED <<supplier, user, method, answered, listed, booking>>

Tick ==
    /\ user = "search_service" /\ Aged(breaker) # breaker
    /\ breaker' = Aged(breaker)
    /\ UNCHANGED <<supplier, user, method, at, again, seen, answered, offers, silent, listed, booking>>

-----------------------------------------------------------------------------
(* Locations: refresh() of location_json_refresh_service.py.               *)

GetLocations ==
    /\ user = "refresher"
    /\ Start("locations")
    /\ UNCHANGED <<breaker, silent, listed, booking>>

\* [] is a supplier without locations; after an exception the file keeps those
\* it has.
LocationsReply(reply, outcome) ==
    /\ Receives("locations", reply, outcome)
    /\ answered' = IF outcome \in {"found", "more"} THEN {"whole"} ELSE answered
    /\ Proceed(outcome)
    /\ listed' = IF Continues(outcome) \/ outcome = "raise" THEN listed ELSE answered' # {}
    /\ UNCHANGED <<supplier, user, method, offers, breaker, silent, booking>>

-----------------------------------------------------------------------------
(* Booking: create_booking and cancel_booking of booking_service.py.       *)

\* Laravel tries again only when it is told that there is no reservation.
CreateBooking ==
    /\ user = "booking_service"
    /\ told \in {"nothing", "failed"} /\ calls < MaxCalls
    /\ Start("create")
    /\ calls' = calls + 1
    /\ told' = IF Adapters[supplier].create = Unsupported THEN "failed" ELSE told
    /\ UNCHANGED <<breaker, silent, listed, desk, cancelTold>>

CancelBooking ==
    /\ user = "booking_service"
    /\ told = "confirmed" /\ cancelTold # "cancelled"
    /\ Start("cancel")
    /\ UNCHANGED <<breaker, silent, listed, booking>>

\* What the supplier has done, when this is its reply to a request that acts;
\* "later": it may still do it.
Deeds(reply) ==
    IF ~Requests[at].acts \/ reply \in Denied \cup {"unreached"} THEN {"not"}
    ELSE IF reply \in Fruitful THEN {"done"}
    ELSE IF reply \in {"timeout", "broken"} THEN {"done", "not", "later"}
    ELSE {"done", "not"}

CreateEnds_TimeoutFails(outcome, reply) ==
    IF outcome \in {"next", "raise"} THEN "failed" ELSE outcome

\* What Laravel is told: provider_failure_response keeps apart only a timeout.
CreateEnds(outcome, reply) ==
    IF outcome = "raise" /\ reply = "timeout" THEN "unknown"
    ELSE IF outcome \in {"next", "raise"} THEN "failed" ELSE outcome

CreateReply(reply, outcome) ==
    /\ Receives("create", reply, outcome)
    /\ \E deed \in Deeds(reply) :
          desk' = [desk EXCEPT !.made = IF deed = "done" THEN @ + 1 ELSE @,
                               !.coming = IF deed = "later" THEN @ + 1 ELSE @]
    /\ Proceed(outcome)
    /\ told' = IF Continues(outcome) THEN told ELSE CreateEnds(outcome, reply)
    /\ UNCHANGED <<supplier, user, method, searching, listed, calls, cancelTold>>

\* An exception becomes a 400 or a 500.
CancelEnds(outcome) ==
    CASE outcome = "next" -> "failed" [] outcome = "raise" -> "error" [] OTHER -> outcome

CancelReply(reply, outcome) ==
    /\ Receives("cancel", reply, outcome)
    /\ \E deed \in Deeds(reply) :
          desk' = [desk EXCEPT !.gone = @ \/ deed = "done", !.going = @ \/ deed = "later"]
    /\ Proceed(outcome)
    /\ cancelTold' = IF Continues(outcome) THEN cancelTold ELSE CancelEnds(outcome)
    /\ UNCHANGED <<supplier, user, method, searching, listed, calls, told>>

\* A request nobody waits for any more is carried out, or dropped.
SupplierDecides ==
    /\ \/ desk.coming > 0
          /\ \E n \in {0, 1} : desk' = [desk EXCEPT !.coming = @ - 1, !.made = @ + n]
       \/ desk.going
          /\ \E carriedOut \in BOOLEAN :
                desk' = [desk EXCEPT !.going = FALSE, !.gone = @ \/ carriedOut]
    /\ UNCHANGED <<supplier, user, method, at, again, seen, searching, listed,
                   calls, told, cancelTold>>

-----------------------------------------------------------------------------
Reply ==
    \E reply \in Replies, outcome \in SearchOutcomes \cup CreateOutcomes \cup CancelOutcomes :
        \/ SearchFinds(reply, outcome) \/ SearchMisses(reply, outcome)
        \/ LocationsReply(reply, outcome)
        \/ CreateReply(reply, outcome) \/ CancelReply(reply, outcome)

Next ==
    \/ Search \/ GetLocations \/ CreateBooking \/ CancelBooking
    \/ Reply
    \/ SupplierDecides
    \/ Tick

Spec == Init /\ [][Next]_vars

-----------------------------------------------------------------------------
(* Properties.  An adapter named in one is an exception to it, found in    *)
(* the code; README.md says what each of them does.                        *)

Ended(m) == method = m /\ ~Runs
Ambiguous == Lacking \cup Unreadable \cup {"error"}

\* One call of create_booking makes one reservation, whatever happens to its
\* requests.  Only OK Mobility's _soap_request (ok_mobility.py:284-300) sends a
\* reservation again when the first request may have been carried out.
OneReservationPerCall ==
    supplier # "ok_mobility" => desk.made + desk.coming <= calls

CatchesTimeouts == {"internal", "recordgo", "ok_mobility"}
DropsMixed == {"wheelsys", "yesaway"}

\* "failed" invites Laravel to try again (booking_service.py:332-335).  After a
\* plain refusal, an unreachable supplier or a timeout there is then nothing at
\* the supplier, now or later; where there may be, the answer was ambiguous, the
\* connection broke, or the adapter turned a timeout, or a reservation with a
\* remark, into FAILED itself.
FailedIsRetriable ==
    Ended("create") /\ calls = 1 /\ told = "failed" /\ desk.made + desk.coming > 0 =>
        \/ seen \cap (Ambiguous \cup {"broken"}) # {}
        \/ supplier \in CatchesTimeouts /\ "timeout" \in seen
        \/ supplier \in DropsMixed /\ "mixed" \in seen

ReadsNullAsReference ==
    {"adobe_car", "wheelsys", "internal", "favrica", "emr", "xdrive"}
TrustsTheCommit == {"sicily_by_car", "renteon"}

\* A confirmed reply has a reservation behind it and names it.  The exceptions
\* take str(None) for a reference, or confirm with the reference of the first
\* request whatever else than a refusal the second one answers.
ConfirmedIsReserved ==
    Ended("create") /\ told = "confirmed" =>
        \/ desk.made > 0 /\ "nulled" \notin seen
        \/ supplier \in ReadsNullAsReference /\ "nulled" \in seen
        \/ supplier \in TrustsTheCommit /\ seen \cap Ambiguous # {}

CancelsBlindly == {"adobe_car", "xdrive", "favrica", "emr", "recordgo", "ok_mobility"}

\* A booking reported as cancelled is cancelled, unless the answer was ambiguous
\* or the adapter does not look at it; and when the supplier plainly cancelled,
\* the reply says so, but for click2rent.py:548, which cannot build its reply.
CancelReplyIsTrue ==
    Ended("cancel") =>
        /\ cancelTold = "cancelled" /\ ~desk.gone =>
              seen \cap Ambiguous # {} \/ supplier \in CancelsBlindly
        /\ seen = {"good"} => cancelTold = "cancelled" \/ supplier = "click2rent"

HidesLosses == {"yesaway", "ok_mobility", "surprice", "renteon"}

\* The breaker opens for a supplier that cannot be reached: FailureThreshold
\* searches in a row without any answer trip it, if the adapter lets the
\* exceptions out as search_service.py:102-111 expects.
LostSearchesTripBreaker ==
    supplier \notin HidesLosses /\ silent >= FailureThreshold => Tripped(breaker)

ReadsCarefully == {"green_motion", "usave", "locauto_rent", "ok_mobility", "surprice"}
\* Vehicles that, but for a null, an adapter ought to get past.
Readable == {"whole", "null"} \cup Incomplete
RaisesOnNull == {"adobe_car", "recordgo", "sicily_by_car", "click2rent", "favrica", "emr", "xdrive"}
NeedsEveryAnswer == {"easirent", "click2rent"}

\* A vehicle there is nothing wrong with is offered, also beside one without a
\* name or a price.  Beside one whose name, number or price is null, seven
\* adapters lose it to None.split() (click2rent.py:318), float(None) (:269),
\* None.upper() (sicily_by_car.py:94) or a str that is None in
\* schemas/vehicle.py:90-99.  With other malformed entries beside it, it is safe
\* with the adapters that catch what one entry raises; and two adapters lose it
\* when a later request of the search fails.
SoundVehiclesAreOffered ==
    Ended("search") /\ "whole" \in answered =>
        \/ <<"whole", "offer">> \in offers
        \/ supplier \in RaisesOnNull /\ "null" \in answered
        \/ supplier \notin ReadsCarefully /\ answered \ Readable # {}
        \/ supplier \in NeedsEveryAnswer /\ seen \cap (Unreadable \cup Lost \cup {"expired"}) # {}

DefaultsToZero == {"green_motion", "usave", "yesaway", "adobe_car", "recordgo", "sicily_by_car",
                   "wheelsys", "renteon", "favrica", "emr", "xdrive"}

\* No vehicle is offered for 0.00, but by the adapters whose _safe_float makes
\* 0.0 of a missing price.
NothingIsFree ==
    supplier \notin DefaultsToZero => \A offer \in offers : offer[2] # "free"

ReadsErrorsAsNone ==
    {"green_motion", "usave", "adobe_car", "surprice", "sicily_by_car", "click2rent",
     "wheelsys", "renteon", "favrica", "emr", "xdrive"}

\* A supplier's locations leave the file only when it answers that it has none
\* (location_json_refresh_service.py:86-90), not because it could not be asked.
\* Most adapters take an error in JSON or XML for an empty list, and OK Mobility
\* any failure.
LocationsSurvive ==
    [][listed /\ ~listed' =>
          \/ seen' \cap Lacking # {}
          \/ supplier \in ReadsErrorsAsNone /\ seen' \cap (Denied \cup {"error"}) # {}
          \/ supplier = "ok_mobility"]_vars

=============================================================================
