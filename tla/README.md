# Vrooem gateway: specification and verification

The gateway stands between Laravel and some twenty car rental suppliers. It
searches them in parallel, books and cancels with one of them, keeps a file of
all their locations, and offers part of that to external companies. It is one
asyncio process, with Redis, a second container that refreshes the locations,
and suppliers that may be slow, down, or silent about what they did.

This directory models the parts of it where order, failure and time matter, in
TLA+; checks them with TLC on small instances; and proves the main results with
TLAPS for all instances. Every definition is translated from the code;
`PROJECT.json` lists for each one the lines it stands for, for each run what it
shows, for each property a slip in the code that would break it, and the
theorems.

## The system

| component | state | operations | modelled by |
|---|---|---|---|
| Circuit breaker (`circuit_breaker.py`) | per supplier: state, failure count, time of last failure | `is_available`, `record_success`, `record_failure` | `CircuitBreaker`, `SupplierCalls`, `SupplierGate` |
| Search (`search_service.py`, `api/v1/search.py`) | per search: its tasks; in Redis: the response under the parameters, each vehicle under its id | cache lookup, dispatch, a task per provider entry, 55 s timeout, merge, store | `SearchService` |
| Booking (`booking_service.py`, `api/v1/bookings.py`) | in Redis per Laravel booking: a lock (90 s) and the confirmed result (30 days); at the supplier: the reservation | `create_booking`, `cancel_booking` | `BookingService` |
| Cache (`cache_service.py`) | Redis keys with expiry | `get`, `set`; errors are swallowed | inside the two above |
| Supplier adapters (`adapters/*.py`), 17 of them | HTTP client, some sessions | `search_vehicles`, `get_locations`, `create_booking`, `cancel_booking` | `XmlAdapters`, `JsonAdapters`, `TurevAdapters`, `Adapters`, `AdapterCalls` |
| Location refresh (`location_json_refresh_service.py`, `/locations/sync`, the `location-sync` container) | `unified_locations.json` and its `.tmp` | fetch from all, keep what failed, write, rename | `LocationRefresh` |
| Location repository (`json_location_repository.py`) | the file's content in memory and its signature | load, reload, lookups | `LocationRefresh` |
| Location unification and normalisation | none: functions on the list of locations | `build_unified_locations`, `search_locations` | `Unification`, `LocationUnification` |
| Provider API access (`core/provider_auth.py`, `provider_key_service.py`) | keys in MySQL, a counter per key and minute in Redis | verify, rate limit, generate, rotate, revoke | `ProviderAccess` |
| Payload builder | none: pure | `build_search_vehicle_response` | not modelled |
| Adapter registry (`adapters/registry.py`) | classes, instances, configurations | `get_adapter`, `load_supplier_configs` | not modelled |
| Provider API, supplier and health API, host bootstrap, configuration | none of their own | forward, report, set up | not modelled |

How they interact. Laravel calls the search endpoint; the search calls the
adapters, each call guarded by the breaker of its supplier, which all searches
share; it stores its vehicles and then its response in Redis. Laravel then
books: the booking service finds the vehicle a search has stored, takes the
booking's lock in Redis, calls one adapter and stores the confirmed result.
Which adapters a search calls comes from the locations file. Two processes
refresh it, from what the adapters answer and, for those that fail, from the
file itself, unified anew each time; the repository loads it whenever it has
changed. External companies come through the Provider API, which checks a key
and counts the request before it hands it on.

What makes each part right, and what makes that hard:

* **Breaker.** A supplier that keeps failing is left alone and then tried
  again. Outcomes arrive late, in any order, or not at all: a search's timeout
  cancels its tasks and records nothing.
* **Search.** An answer accounts for every supplier asked; every vehicle in it
  can be booked under the answer's search id; every search ends in time. Tasks
  end in any order, two entries may share a breaker, answers come from the cache
  of another search.
* **Booking.** One reservation per booking, and a reply that is true of the
  supplier. Requests repeat and overlap, the supplier decides late, Redis fails
  between two commands, the process dies after the reservation and before the
  result is stored.
* **Adapters.** What an adapter reports is what its supplier did. A supplier may
  refuse, answer with an error in another form, with nothing or with something
  that does not parse, time out, or break off after it has done what it was asked;
  each adapter has its own way of telling these apart, or does not.
* **Locations.** A provider's locations vanish only when it has none. Fetches
  fail, processes die with files half written, two processes write at once.
* **Unification.** A location has one row and keeps its id. What a failed
  supplier had goes through the unification again, in the form the last one
  gave it, so whatever is not idempotent shows.
* **Provider access.** A key gets through at most so often a minute and nobody is
  refused without cause. A counter is made by one Redis command and made mortal by
  another, and a request may wait between them, or before them, across the end
  of its minute.

`PROJECT.json` lists these hazards at the lines where they bite, with the
properties that catch each.

## The modules

| module | |
|---|---|
| `CircuitBreaker` | the breaker's methods as operators on a record; no behaviour of its own |
| `SupplierGate` | what a breaker promises, without its three states |
| `SupplierCalls` | any number of concurrent callers of one breaker; implements `SupplierGate` |
| `SearchService` | searches with one cache key, their tasks, the breakers (it extends `CircuitBreaker`, and each supplier's breaker implements `SupplierCalls`), Redis and time |
| `BookingService` | requests for bookings, the lock and the result in Redis, the supplier, time and crashes |
| `SupplierReplies` | what a supplier may answer, and the form of an adapter's tables |
| `XmlAdapters`, `JsonAdapters`, `TurevAdapters` | each adapter's methods, as sequences of requests with a table of what it makes of each reply |
| `Adapters` | the tables by supplier id |
| `AdapterCalls` | one adapter with its user (search service with a breaker, booking service with Laravel's retries, or refresher) and its supplier; extends `CircuitBreaker` |
| `LocationRefresh` | refreshers, the files behind the two names, the repository |
| `Unification` | the functions of the unification service on a list of locations |
| `LocationUnification` | refreshes in a row, with failures, as steps that unify |
| `ProviderAccess` | requests to the Provider API, keys, counters in Redis, time |
| `*_proofs` | theorems about the module of that name |
| `MC*` | model values, small inputs and symmetry for TLC |

An action is what the code does between two awaits, so the commands to Redis
and the suppliers are where other requests come in between. Data is reduced to
what the properties tell apart: a request, booking, supplier or provider is a
model value; a supplier's answer to one task is one bundle of vehicles; the
content of the locations file is the set of providers in it. Operators named
`X_slip` next to an `X` are variants no specification uses: each is a slip one
could make in the code behind `X`, and breaks the property PROJECT.json pairs it
with.

**`CircuitBreaker`.** `Checked(b)` is what reading `is_available` does to a
breaker, `IsAvailable(b)` what it answers. The time of the last failure is kept
as the time since (`quiet`), up to the recovery timeout.

**`SupplierCalls`.** `call[c]` remembers the breaker state that let a task of
`_search_single_supplier` through. `Admit` and `Refuse` are its first half,
`Succeed`, `Fail` and `Cancel` its end. `Cancel` leaves the breaker alone,
because `except Exception` does not catch `CancelledError`.

**`SearchService`.** `pc[q]` follows `_do_search` and `search_vehicles`:
`Reject`, `Hit` or `Dispatch` start it; `Start`, `Succeed`, `Fail`, `Cancel` are
its tasks; `Merge`, or `TimeOut` and `MergeNothing`, build the response;
`StoreVehicles` and `StoreResponse` write to Redis. Which entries become tasks,
are reported as unmapped or are skipped is a choice, as it depends only on the
request and the configuration. The variable `lost` remembers what Redis lost, so
that properties can except it.

**`BookingService`.** `pc[r]` follows `create_booking`. `supplier[r]` is the
supplier's side of the request: sent, and then reserved or declined at a time of
the supplier's own. Looking up the vehicle and the rest before the adapter call
is a choice of its outcome (`RejectVehicle` or `CallSupplier`): the entry in
Redis may have expired and the context is the caller's. Time passes whatever a
request is doing, so a lock may expire under its holder (`lost` remembers the
bookings it happened to). Six faults can be switched on by the constant `Faults`:

| fault | in the code |
|---|---|
| `lock` | `SET NX` or `DEL` raises, with or without effect, or the lock is evicted (`allkeys-lru`) |
| `result` | the stored result is not read (error swallowed), not stored (error swallowed) or evicted (`allkeys-lru`) |
| `crash` | the container restarts |
| `transport` | the connection breaks after the request reached the supplier |
| `noref` | the adapter reports something other than CONFIRMED although there may be a reservation: PENDING without a reference (emr, favrica, xdrive), a timeout caught inside (recordgo, internal) |
| `unfounded` | the adapter reports CONFIRMED with a reference although the supplier has not reserved, or not under it: `str(None)` for a missing reference, the reference of a first request whose commit was not confirmed (sicily_by_car, renteon). `booking_service` believes and stores it (`unfounded` remembers the request) |

`AdapterCalls` shows which adapters have the last three.

**`SupplierReplies` and the adapters.** There are twelve replies to a request,
from `good` to `broken` (the connection breaks after the request was sent). A
method of an adapter is a sequence of requests. The table of a request lists, by
outcome, the replies that lead to it; a reply in no list leaves the method with
an exception, one in two lists may do either. `Act` is a request that does what
the method is for, `Ask` one that prepares it. Vehicles in an answer are reduced
to what is wrong with them (`Entries`), and `Reading` says what an adapter makes
of each. `click2rent` renews its session on a 401 and repeats the request once
(`again`); ok_mobility's `_soap_request` repeats on its second port.

**`AdapterCalls`.** A step is one request with its reply and what the user does
when the method ends: the search service tells the breaker, the refresher keeps or
drops the supplier's locations, the booking service tells Laravel, which retries
after `failed` only. `desk` is the supplier's side: `Deeds(reply)` says what it
may have done when it answered so, and what nobody waits for any more it may
still do later (`SupplierDecides`). The three users share nothing of an adapter,
so each behaviour has one user. `internal` is never searched (`search_service.py:204`).

The properties hold for all adapters but those named in sets next to them, each
found in the code:

| set | what they do |
|---|---|
| `"ok_mobility"` in `OneReservationPerCall` | sends `createReservation` again on the second port after any exception, a timeout included |
| `CatchesTimeouts` (internal, recordgo, ok_mobility) | report a timeout as FAILED, so Laravel retries, where the others let it out and `booking_service` answers `timeout_unknown` |
| `DropsMixed` (wheelsys, yesaway) | take errors beside a reservation for a failure |
| `ReadsNullAsReference` (adobe_car, wheelsys, internal, favrica, emr, xdrive) | `str()` of a reference that is null: a confirmed booking named `None` |
| `TrustsTheCommit` (sicily_by_car, renteon) | confirm with the reference of the first request although the second answered neither yes nor no |
| `CancelsBlindly` (adobe_car, xdrive, favrica, emr, recordgo, ok_mobility) | report CANCELLED without looking at the answer, or at less than all of it; adobe_car has no request to cancel at all |
| `"click2rent"` in `CancelReplyIsTrue` | cannot build its response: `id` and `status` are required |
| `HidesLosses` (yesaway, ok_mobility, surprice, renteon) | return `[]` when the supplier cannot be reached, so the breaker counts a success |
| `RaisesOnNull` (adobe_car, recordgo, sicily_by_car, click2rent, favrica, emr, xdrive) | one null name, number or price raises out of the loop and loses the other vehicles: `None.split()` and `float(None)` in click2rent, `None.upper()` in sicily_by_car, a null where the vehicle's schema wants a string in the others |
| everyone but `ReadsCarefully` | one entry malformed in another way does (`misprice`, `negative`, `odd`) |
| `NeedsEveryAnswer` (easirent, click2rent) | lose what was found when a later request of the search fails |
| `DefaultsToZero` | offer a vehicle without a price for 0.00 |
| `ReadsErrorsAsNone`, and ok_mobility for any failure | read an error as a supplier without locations, which the refresh then drops, although `location_json_refresh_service.py:86-87` wants them kept after a failed fetch |

**`LocationRefresh`.** A name points to an inode, and a writer writes to the
inode it opened: that is what makes the rename atomic for one refresher and
unsafe for two. `Keep` looks at the file once per failed provider, as the code
does; where `ReadFails`, that read may raise, which the code takes for a file that has
nothing of the provider (`misread`), and so may a reload. `Abort` is an exception or
the end of the process, at any point before the rename. A
provider's locations are one unit here; what unifying does to them is the
business of the next module.

**`Unification` and `LocationUnification`.** The functions keep the code's names
where they can: `canonicalize_location_type`, `Canonical`, `Assigned`
(`_assign_nearby_airport_iata`), `Key`, `Row`, `Kept`
(`_dedupe_by_our_location_id`), `search_locations`. Names and cities are opaque,
and constants say what normalising finds in them; places lie on a line of
kilometres, with 0 for the 0.0/0.0 that stands for no coordinates. A step of
`LocationUnification` is a refresh in which any suppliers may fail; what the file
has of those comes back through `Preserved`, with the city, the type and the code of
the row it was in. Checking showed which of the expected properties hold only with
an exception, and those exceptions are part of them:

* a location may be lost, but only to another row with the same id of our own
  (`LostOnlyToOurs`). All suppliers' entries in the losing row go, also those
  the refresh had kept because their supplier failed;
* an airport code travels: each refresh with a failure may carry it 15 km
  further, as a preserved airport counts as having the code it was given
  (`IataStaysNear` bounds it by the number of such refreshes in a row);
* a failed supplier's location keeps its id, except an airport without a code, a
  train station that only its type says is one (`train_station` is not an alias
  of itself once `normalize_string` has made it `train station`), and a city with
  a second suffix to lose (`FailedKeepsIds`).

**`ProviderAccess`.** `req[r]` follows `verify_provider_api_key`: `Find` is the
lookup of key and consumer, one snapshot of a transaction, and the window is taken
then; `Incr` and `Expire` are the two Redis commands, each of which may raise with
or without effect, and then lets the request through. `MarkExpired` writes its
status over whatever the key has become since. `Generate`, `Rotate` and `Revoke` are
the operator's side; suspending a consumer and lifting that is Laravel's, so that each
lookup may find a consumer suspended or not. Clock and counters tick together. Nothing
bounds how long a request waits between taking its window and its `INCR` (the Redis
client has no timeout), so the counter may have expired by then and start again at 1.
`late` marks the requests counted at a time when a counter as old as their window is
gone, and `maker` names the request whose `INCR` started the counter they were counted in.

## The runs

| run | bounds | states | shows |
|---|---|---|---|
| `supplier_calls` | 3 tasks, threshold 3, timeout 2, count up to 4 | 952 | the breaker's invariants, `ImplementsGate`, and that a refused supplier is always tried again |
| `one_test` | the same | | fails: more than one test call in half-open |
| `booking` | 2 requests, each for one of 2 bookings: one with an id, one without; lock 2 ticks, all faults | 53 k | the lock excludes while it stands, replies are true up to what an adapter invents, a later request replays, every request ends, no lock stays |
| `booking_race` | 2 requests, no fault | | fails: overlapping requests reserve twice |
| `booking_transport` | 2 requests, `transport` | | fails: `failed` with a reservation |
| `search` | 2 searches over 2 entries of one supplier, threshold 1, TTLs 2 and 3, Redis may lose anything | 402 k | answers are complete and bookable, breakers work, searches end |
| `search_silent` | 1 search | | fails: a failed supplier is in no list |
| `adapters` | all 17 adapters, any number of searches and refreshes, 2 calls for a booking, 1 or 2 vehicles in an answer, threshold 2 | 62 k | what an adapter reports of bookings, cancellations, searches and locations is true, up to the named exceptions |
| `location_refresh` | 1 refresher, 2 providers, any read of the file may fail | 23 k | only an empty answer, or a failed fetch together with a failed read, removes a provider; readers see whole files; a refresh is one step |
| `two_refreshers` | 2 refreshers, 1 provider | | fails: a failed provider's locations are wiped |
| `unification` | 4 suppliers with 1 to 3 lists of locations each, 2 refreshes with failures after one without | 4.3 k | where locations go, which get lost, how far a code travels, what a search shows |
| `access` | 3 requests, 2 keys, 2 windows of 2 ticks, limit 1, counters live 3 ticks | 2.7 M | the limit holds, for latecomers at each start of the counter, nobody is refused without cause, counters expire |

Why these bounds are enough to be interesting. Three tasks: one that fails late
from before an outage, one that tests, one that is refused. Threshold 3 with a
count to 4 lets failures come after the breaker has opened. Two requests for a
booking overlap in any way, or the second comes after the first; each chooses its
booking. In the booking run a tick stands for some tens of seconds; what counts is that
locks expire under requests that wait, crash or go on, the second request's too after the
first one's. In the search run the vehicles live
longer than the response, as 900 s and 60 s do; the breaker's timeout and the
global timeout are one tick each, so that they can strike before, between and after
answers. Both entries ask one supplier, so that four tasks of two
searches share a breaker; that nothing done for one supplier touches the breaker of
another needs two and is part of the theorem `BreakersAreSound`. The longer histories of a breaker are the matter of `supplier_calls`, which
`BreakersWork` ties the search to (for any bounds: it is proved). A search with `bypass_cache` does what any search
may do when Redis fails it twice, so `Bypass` is empty where `RedisFails` is true. In
`adapters` the breaker needs two failures, so that a success in between matters,
and two calls let a retry meet what the first one left. In `location_refresh`
refreshes repeat without bound. The locations of `unification` are placed for its
cases: one airport with a code and others at steps of 12 to 14 km, so that a code may
travel; one with no coordinates and one at 0.0/0.0; two branches of our own with one
id; a train station by type and one by name. In `access` a counter outlives its
window by one tick, requests fall before, in and after a change of window, and one may
reach Redis when the counter of its window is gone.

Deadlock is checked in `supplier_calls`, `one_test` and the runs of `LocationRefresh`.
In the others each request is made once, or calls and refreshes are bounded, and a
behaviour may end.

**Fairness.** Clock ticks are fair (time passes). In `BookingService` and
`SearchService` the gateway's own steps are fair, and no step of a supplier is: Redis
commands return or raise, the loop of sleeps is bounded, and the supplier's HTTP
client has timeouts, so `CallTimesOut` is always possible, and `SearchesEnd` rests on
the global timeout alone. In `SupplierCalls` a call ends by some means (the timeout
of its search at the latest); new searches are not fair, which is why
`RefusedIsRetried` is about suppliers that go on being refused. `AdapterCalls`,
`LocationRefresh`, `LocationUnification` and `ProviderAccess` have no liveness
properties.

**What fails.** Five runs state what the code's own comments say and find it
otherwise; PROJECT.json quotes them under `findings`.

1. *Half-open lets everybody through* (`one_test`). "One test request allowed",
   says `circuit_breaker.py:21`; nothing counts them.
2. *Two overlapping requests book twice* (`booking_race`). The stored result is
   read before the lock is taken (`booking_service.py:32`, `:44`) and not again. A
   retry that read nothing just before the first request stored its result, and
   asks for the lock just after that one's `finally`, reserves again. What does
   hold is `RetryIsReplayed`: a request that *comes* after the reply is out.
3. *A broken connection is a plain failure* (`booking_transport`). Only
   `TimeoutException` counts as an unknown outcome.
4. *A failure without text is no failure* (`search_silent`). `str(exc)` is empty
   for several httpx timeouts, and `if not result.error` takes that for success in
   building `provider_status`. `OnlyMuteIsSilent` shows it is the only gap.
5. *Two refreshers wipe locations* (`two_refreshers`). They share the name of the
   temporary file, and the lock is inside one process.

More observations, without a run of their own. The exceptions of `AdapterCalls` and
`LocationUnification` above. The lock of a booking expires after 90 s, while an
adapter that sends several requests one after the other can take longer, as httpx counts
its timeouts per phase of a request; another request then takes the lock and reserves,
and the first one's `DEL` frees it for a third. `OneCallAtATime` holds for the bookings
this has not happened to (those not in `lost`); `RetryIsReplayed` and
`ConfirmedIsReserved` hold for all. A file that cannot be read when a refresh looks up a
failed provider costs that provider its locations
(`location_json_refresh_service.py:122-129`), against the comment at line 86;
`LossHasCause` names it as the one cause besides an empty answer. A request that reaches
Redis more than five seconds after the end of its minute starts that minute's counter
again, and `Limit` more get in. A search whose global timeout strikes
drops what the other suppliers had answered and caches the empty response for a
minute. And the Provider API's limit belongs to the consumer but is counted per key.

## The theorems

| module | theorem | assumptions |
|---|---|---|
| `SupplierCalls_proofs` | `TypeCorrect`, `StateAgreesWithCount`, `HalfOpenRests` | those of the constants |
| | `Refinement`: `Spec => ImplementsGate` | |
| `BookingService_proofs` | `TypeCorrect`, `ConfirmedIsReal`, `ErrorsAreHarmless`, `RetriesAreReplayed` | those of the constants; any set of faults |
| | `MutualExclusion` | the same |
| `LocationRefresh_proofs` | `TypeCorrect` | any number of refreshers |
| | `Whole`, `Atomic`, `Losses` | at most one refresher |
| `ProviderAccess_proofs` | `TypeCorrect`, `CountersAreMortal` | those of the constants |
| | `LimitIsKept`, `RefusalsAreDue` | finitely many requests |
| `SearchService_proofs` | `TypeCorrect`, `OnlyMuteAreSilent`, `Bookable` | those of the constants; any number of searches, entries and suppliers |
| | `BreakersAreSound`: `Spec => BreakersWork` | the same |
| `AdapterCalls_proofs` | `TypesStay`, `OneReservation`, `Retriable`, `Confirmed`, `Cancelled`, `LossesTrip`, `Offered`, `Priced`, `LocationsStay` | those of the constants: any of the 17 adapters, any threshold and number of calls |
| `LocationUnification_proofs` | `Typed`, `OnlyOursIsLost`, `Shown`, `CodesStayNear` | those of the constants: any suppliers, names, cities and catalogs, any number of refreshes |
| | `OneRow`, `IdsSurvive` | `IdsAreUnique`: no supplier gives two locations with one id |
| `Unification_proofs` | lemmas only, about the functions of `Unification` | |

What the constants are assumed to satisfy is what the code or its settings give
them. `CatalogsAssumption` says that a supplier's answer is a finite list whose
entries name that supplier, since the refresher sets the name itself, and that
`None` is not a coordinate. `TablesAssumption` is about no parameter: it says
that every entry of an adapter's table is an outcome the method can have, and
TLC evaluates it; no proof uses it. `IdsAreUnique` is a hypothesis of two
theorems and no assumption of the module, because nothing in the code looks for
it: a supplier that repeats an id gives a location two rows.

*Breaker.* That the state agrees with the count is inductive only together with
half-open being rested: a success resets both, a failure at or over the threshold
opens, and a half-open breaker has a count at the threshold, so that its first
failure opens it again. With that, each step of `SupplierCalls` is a step of
`SupplierGate` under the mapping that forgets the state.

*Booking.* Each property has a strengthening of its own. `MutualExclusion`: who
is between `SET` and `DEL` for a booking not in `lost` has its key in Redis (`Lease`),
since the step that takes the key away, by expiry or eviction, puts the booking into
`lost`; so nobody else can have taken the lock, and `DEL` hits one's own key.
`ConfirmedIsReal`: the request a result names was reserved, or confirmed by an adapter
without that, and is of the same booking, from `Confirm` on (`Backed`). `ErrorsAreHarmless`: before `CallSupplier` nothing was sent (`Stages`).
`RetriesAreReplayed`: a confirmed reply is out only after its result was stored or
Redis lost it (`Stored`), so a request that starts later and has lost nothing is
replayed (`Replayed`).

*Locations.* `CleanFiles` says where the two names point and what is in the inodes,
`KeptIsThere` that a refresh under way holds exactly what the file still has of
the providers it looked up and could read about, and `ServedOrGone` that the repository
lags only by providers that are gone: whose last written answer was empty, or failed
together with the read. Together they make every rename an atomic step; without
`Alone`, another rename can come between `Keep` and `Rename` and all three fail.

*Provider access.* `LimitIsKept` counts. A counter answers each count once
(`CountsDiffer`, since the counts it has answered are at most what it shows), so the
admitted of a slot are at most as many as pairs of a counter, named by its maker, and a
count up to `Limit`. And before a counter as old as the window may expire, a counter that
has been made is alive (`StillAlive`: its life began no earlier than the window), so all
requests counted on time have one maker (`OneOnTime`), and their counts an injection into
`1 .. Limit`. Nothing is assumed of how long a request waits.
`CountersAreMortal`: the request that made a counter is at `Expire`, has set its life,
or has failed, and no other step makes a counter without one.
`RefusalsAreDue`: no counter, and no count Redis has answered, is above the number of
requests with a good key that were counted in the slot (`CountersAreTaken`,
`AnswersAreTaken`). That number never falls, an `INCR` raises both, and what expires
or is evicted only lowers the counter. A key that was no good when the request came
never becomes good again (`Ages`), so such a request does not reach Redis.

*Search.* `OnlyMuteAreSilent`: every response, the cached one too, is that of a search
whose tasks have ended and stay as they are, and its lists are read off those tasks
(`Sound`); tasks are cancelled only on the way to a response that says it timed out
(`NotYetCancelled`). `Bookable`: while a search stores its vehicles no time passes, so
each of them is absent or has its whole life (`Shelved`), and all have when the
response is stored; from then on response and vehicles age together, so that the
vehicles of a cached response outlive it by `VehicleTTL - SearchTTL` (`StayFor`).

`BreakersAreSound` shows that each supplier's breaker, with the tasks that ask it
as its callers, takes steps of `SupplierCalls` only. A task is a call that is let
through from `Start` to its end, whichever that is; a cancelled one tells the
breaker nothing, which is `Cancel` there. `Untouched`, that a search that has not
begun has no task, is all this needs besides the types, so that `Dispatch`
forgets no call.

*Adapters.* First the tables: for each of the 17 adapters, what holds of every
request and every reply (`CreateTable`, `CancelTable`, `SearchTable`,
`ReadingTable`, `LocationsTable`). The rest speaks of an adapter only through
these, so an adapter with another table needs only its case of these lemmas. The
invariant is `IInv`: the types, `BookingInv` and `SearchInv`. `Reserved` bounds
what the supplier has made or may still make: one for each call, none for a call
that still runs (for ok_mobility one for each request sent, hence its exception);
`LostOnTheWay` says that a first call that still runs has a reservation only after
its answer was lost; `NullEnds` that a null reference ends the call, so that the
reply can be blamed on it. Which entries an adapter may fail at is `Harms`, and
`Spoiled` that one of them was in an answer. For searches, `CountsLosses` ties the failures of the
breaker to the searches lost in a row, `MoreIsLast` says that only the last
request of a search brings vehicles, so nothing can be lost after it except as
`NeedsEveryAnswer` says, and `OfferedSoFar` that those found are offered. TLC
checked `IInv` as the invariant of the run `adapters` first.

*Unification.* `Unification_proofs` says what each function returns. That a
nonempty set of numbers has a least element comes from the library's theorem
about minimal elements, and gives the choices of the service (the first location
of a group, the nearest airport, the best of several rows) and induction on
numbers, which is how the facts about concatenated lists are proved. The
invariant is `FileOfList`: the file is what `Unified` makes of a list of
well-formed locations. For `OneRow` that list is `Distinct`: suppliers' parts do not
meet because each names its supplier, and what is kept of a failed one was in
one row each, so `OneRow` is an induction of its own. `OnlyOursIsLost` holds for every
such file, and `Shown` for any set of rows. `CodesStayNear` follows a code back: an airport either
has its own or takes it from one that came with it at most 15 km away, and that one's
is, if its supplier had failed, a code the previous file bounds by its `hops`.
`IdsSurvive` computes both keys from the row a kept location was in, and finds
them equal outside the exceptions.

The proofs found two errors that TLC could not. `IataOf`, `Deeds` and
`CreateEnds` were written as CASE with overlapping guards, of which TLC takes the
first and TLA+ any: they had said less than the code, which tests in order, and are
IF/ELSE now.

Only model-checked: the liveness properties (`RefusedIsRetried`, `RequestsEnd`,
`LocksEnd`, `SearchesEnd`), which need fairness and `ENABLED` and are out of the
prover's reach. Every other property of a passing run is the statement of a
theorem.

## Not modelled

* The content of requests, vehicles, prices and supplier documents: data without
  control. Of vehicles there is what is wrong with them.
* Restoring a vehicle into the cache from Laravel's context: it changes only
  whether a later lookup succeeds, which is a choice anyway.
* A TTL of 0 in the configuration, which Redis would keep for ever
  (`cache_service.py:69`).
* Requests of adapters whose failure is swallowed and which only add detail (Surprice's
  second rate, Sicily by Car's release of a reservation whose commit was refused).
* The adapter registry: a dictionary filled at start-up. That an instance outlives a
  configuration reloaded by a sync is listed as a hazard.
* The search payload builder: it rearranges the fields of one response.
* The Provider API's endpoints, the supplier and health API: they keep no state, and
  forward or report. Host bootstrap edits `/etc/hosts` once at start-up.
* Display names, aliases and medians of coordinates in the unification, and the order
  and number of search results.
* Countries in the unification: every group key, and every comparison for an airport's
  code, is within one country, so the model is of one country's locations. Locations
  without a pickup id, which are not preserved after a failure
  (`location_json_refresh_service.py:147`): those of the model have one.
* Why a consumer is suspended, and for how long: Laravel does that.
* The debounce of `last_used_at`, and the rate limit's headers.

## Plan

Done: every module above, and a theorem for every safety property of the passing
runs. What is left, in this order:

1. An abstract booking service (one reservation, or an unknown outcome, per
   booking) that `BookingService` implements when requests do not overlap, and the
   refinement proved.
2. An abstract search: its answer as one step, which `SearchService` implements.
3. The composition of `AdapterCalls` with `BookingService`: the faults `noref` and
   `transport` as steps of a named adapter.
4. That `SupplierCalls`' invariants hold of each breaker of `SearchService`, as a
   corollary of `BreakersAreSound`.
5. A TTL of 0 as a value of the constants of `SearchService`.
