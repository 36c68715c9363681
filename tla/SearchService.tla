---------------------------- MODULE SearchService ----------------------------
(***************************************************************************)
(* Vehicle searches: _do_search of app/api/v1/search.py and                *)
(* search_vehicles of app/services/search_service.py, with the circuit     *)
(* breakers of all suppliers and the two kinds of entries in Redis.        *)
(*                                                                         *)
(* Several searches with the same parameters, hence the same cache key,    *)
(* run at once.  A search makes one task per provider entry of the         *)
(* location; two entries may belong to the same supplier, and then share a *)
(* breaker within one search.  The tasks run in parallel under a global    *)
(* timeout that cancels them one by one.  What a supplier answers is its   *)
(* vehicles, one bundle per task: <<q, e>> stands for the vehicles search  *)
(* q got from entry e, each with an id and the search_id of its own.       *)
(*                                                                         *)
(* A step is what the code does between two awaits.  Redis answers within  *)
(* a tick (a second), so no time passes while a search stores.             *)
(*                                                                         *)
(* Operators named X_<slip> are variants of X that no specification uses.  *)
(***************************************************************************)
EXTENDS CircuitBreaker, FiniteSets

CONSTANTS
    Searches,       \* calls of the endpoint
    Bypass,         \* those with bypass_cache
    Entries,        \* provider entries of the location
    Suppliers,      \* adapters
    Supplier,       \* the supplier each entry belongs to
    GlobalTimeout,  \* of a search (55 s)
    SearchTTL,      \* life of a cached response (60 s)
    VehicleTTL,     \* life of a cached vehicle (900 s)
    RedisFails      \* whether Redis may lose a write or evict an entry

ASSUME BypassAssumption == Bypass \subseteq Searches
ASSUME SupplierAssumption == Supplier \in [Entries -> Suppliers]
ASSUME TTLAssumption ==
    /\ GlobalTimeout \in Nat \ {0} /\ SearchTTL \in Nat \ {0}
    /\ VehicleTTL \in Nat /\ VehicleTTL >= SearchTTL
ASSUME RedisFailsAssumption == RedisFails \in BOOLEAN

VARIABLES
    breakers,   \* the CircuitBreakerRegistry
    pc,         \* where each search is
    task,       \* what became of each search's entries
    age,        \* time since a search dispatched its tasks, while it gathers
    response,   \* what a search answers
    cached,     \* the response under the searches' key in Redis
    vehicles,   \* per bundle: the time its entries in Redis have left
    lost        \* history: bundles Redis has lost

redis == <<cached, vehicles>>
vars == <<breakers, pc, task, age, response, cached, vehicles, lost>>

Bundles == Searches \X Entries
LetThrough == {"closed", "half_open"}

\* A task is pending until the event loop first runs it; while it awaits its
\* supplier it is named by the breaker state that let it through.  A failed
\* task is "mute" when the exception has an empty text, as timeouts of httpx do.
Running == {"pending"} \cup LetThrough
TaskStates == {"none", "unmapped", "ok", "failed", "mute", "refused", "cancelled"} \cup Running

\* A response: the search_id, the entries whose vehicles it carries, those
\* reported in provider_status, and whether the search timed out.
Response == [search : Searches, ok : SUBSET Entries, status : SUBSET Entries,
             timedOut : BOOLEAN]
NoResponse == [ok |-> {}]

TypeOK ==
    /\ breakers \in [Suppliers -> Breaker]
    /\ pc \in [Searches -> {"new", "gather", "cancelling", "store", "done"}]
    /\ task \in [Searches -> [Entries -> TaskStates]]
    /\ age \in [Searches -> 0 .. GlobalTimeout]
    /\ response \in [Searches -> Response \cup {NoResponse}]
    /\ cached \in [ttl : 0 .. SearchTTL, body : Response \cup {NoResponse}]
    /\ vehicles \in [Bundles -> 0 .. VehicleTTL]
    /\ lost \subseteq Bundles

Init ==
    /\ breakers = [s \in Suppliers |-> NewBreaker]
    /\ pc = [q \in Searches |-> "new"]
    /\ task = [q \in Searches |-> [e \in Entries |-> "none"]]
    /\ age = [q \in Searches |-> 0]
    /\ response = [q \in Searches |-> NoResponse]
    /\ cached = [ttl |-> 0, body |-> NoResponse]
    /\ vehicles = [v \in Bundles |-> 0]
    /\ lost = {}

-----------------------------------------------------------------------------
(* Coming in.                                                              *)

Goto(q, where) == pc' = [pc EXCEPT ![q] = where]
In(q, states) == {e \in Entries : task[q][e] \in states}

\* 503, 400 or 404: the request never becomes a search.
Reject(q) ==
    /\ pc[q] = "new"
    /\ Goto(q, "done")
    /\ UNCHANGED <<breakers, task, age, response, redis, lost>>

Hit_NewSearchId(q) ==
    /\ pc[q] = "new" /\ q \notin Bypass
    /\ cached.ttl > 0
    /\ response' = [response EXCEPT ![q] = [cached.body EXCEPT !.search = q]]
    /\ Goto(q, "done")
    /\ UNCHANGED <<breakers, task, age, redis, lost>>

\* A response is in the cache: it is the answer, under its own search_id.
Hit(q) ==
    /\ pc[q] = "new" /\ q \notin Bypass
    /\ cached.ttl > 0
    /\ response' = [response EXCEPT ![q] = cached.body]
    /\ Goto(q, "done")
    /\ UNCHANGED <<breakers, task, age, redis, lost>>

\* No response in the cache, or Redis does not answer.  The entries that pass
\* the filters become tasks; one-way entries without a usable dropoff mapping
\* are reported; the others are left out in silence.  Without a task the
\* answer comes at once and is not cached.
Dispatch(q) ==
    /\ pc[q] = "new"
    /\ q \in Bypass \/ cached.ttl = 0 \/ RedisFails
    /\ \E queried, unmapped \in SUBSET Entries :
          /\ queried \cap unmapped = {}
          /\ task' = [task EXCEPT ![q] = [e \in Entries |->
                IF e \in queried THEN "pending" ELSE IF e \in unmapped THEN "unmapped" ELSE "none"]]
          /\ IF queried # {}
             THEN Goto(q, "gather") /\ UNCHANGED response
             ELSE /\ Goto(q, "done")
                  /\ response' = [response EXCEPT ![q] =
                        [search |-> q, ok |-> {}, status |-> unmapped, timedOut |-> FALSE]]
    /\ UNCHANGED <<breakers, age, redis, lost>>

-----------------------------------------------------------------------------
(* The tasks: _search_single_supplier.                                     *)

Becomes(q, e, state) == task' = [task EXCEPT ![q][e] = state]
SetBreaker(e, b) == breakers' = [breakers EXCEPT ![Supplier[e]] = b]

Start_StaysOpen(q, e) ==
    LET b == breakers[Supplier[e]] IN
    /\ pc[q] = "gather" /\ task[q][e] = "pending"
    /\ Becomes(q, e, IF IsAvailable(b) THEN Checked(b).state ELSE "refused")
    /\ UNCHANGED <<breakers, pc, age, response, redis, lost>>

\* The task runs for the first time and asks the breaker.
Start(q, e) ==
    LET b == breakers[Supplier[e]] IN
    /\ pc[q] = "gather" /\ task[q][e] = "pending"
    /\ SetBreaker(e, Checked(b))
    /\ Becomes(q, e, IF IsAvailable(b) THEN Checked(b).state ELSE "refused")
    /\ UNCHANGED <<pc, age, response, redis, lost>>

Succeed(q, e) ==
    /\ pc[q] = "gather" /\ task[q][e] \in LetThrough
    /\ SetBreaker(e, RecordSuccess(breakers[Supplier[e]]))
    /\ Becomes(q, e, "ok")
    /\ UNCHANGED <<pc, age, response, redis, lost>>

\* error=str(exc) keeps only the text of the exception.
Fail(q, e) ==
    /\ pc[q] = "gather" /\ task[q][e] \in LetThrough
    /\ SetBreaker(e, RecordFailure(breakers[Supplier[e]]))
    /\ Becomes(q, e, "failed") \/ Becomes(q, e, "mute")
    /\ UNCHANGED <<pc, age, response, redis, lost>>

\* CancelledError goes past `except Exception`: no outcome is recorded.
Cancel(q, e) ==
    /\ pc[q] = "cancelling" /\ task[q][e] \in Running
    /\ Becomes(q, e, "cancelled")
    /\ UNCHANGED <<breakers, pc, age, response, redis, lost>>

-----------------------------------------------------------------------------
(* Gathering, storing, answering.                                          *)

TimeOut_Never(q) == pc[q] = "gather" /\ FALSE /\ UNCHANGED vars

\* asyncio.wait_for gives up: every task that still runs is to be cancelled.
TimeOut(q) ==
    /\ pc[q] = "gather" /\ age[q] = GlobalTimeout
    /\ In(q, Running) # {}
    /\ age' = [age EXCEPT ![q] = 0]
    /\ Goto(q, "cancelling")
    /\ UNCHANGED <<breakers, task, response, redis, lost>>

Merge_ForgetsRefused(q) ==
    /\ pc[q] = "gather" /\ In(q, Running) = {}
    /\ age' = [age EXCEPT ![q] = 0]
    /\ Goto(q, "store")
    /\ response' = [response EXCEPT ![q] =
          [search |-> q, ok |-> In(q, {"ok"}), status |-> In(q, {"unmapped", "failed"}),
           timedOut |-> FALSE]]
    /\ UNCHANGED <<breakers, task, redis, lost>>

\* gather has all results: vehicles of the suppliers that answered, and a
\* provider_status for the others, except that _build_provider_failure takes
\* an empty error text for no error.
Merge(q) ==
    /\ pc[q] = "gather" /\ In(q, Running) = {}
    /\ age' = [age EXCEPT ![q] = 0]
    /\ Goto(q, "store")
    /\ response' = [response EXCEPT ![q] =
          [search |-> q, ok |-> In(q, {"ok"}), status |-> In(q, {"unmapped", "failed", "refused"}),
           timedOut |-> FALSE]]
    /\ UNCHANGED <<breakers, task, redis, lost>>

\* After the timeout raw_results is empty, whatever the other suppliers answered.
MergeNothing(q) ==
    /\ pc[q] = "cancelling" /\ In(q, Running) = {}
    /\ Goto(q, "store")
    /\ response' = [response EXCEPT ![q] =
          [search |-> q, ok |-> {}, status |-> In(q, {"unmapped"}), timedOut |-> TRUE]]
    /\ UNCHANGED <<breakers, task, age, redis, lost>>

Unstored(q) == {e \in response[q].ok : vehicles[<<q, e>>] = 0 /\ <<q, e>> \notin lost}

\* cache.set_vehicle for the vehicles of one entry, under their search_id.
StoreVehicles(q, e) ==
    /\ pc[q] = "store" /\ e \in Unstored(q)
    /\ \/ vehicles' = [vehicles EXCEPT ![<<q, e>>] = VehicleTTL] /\ UNCHANGED lost
       \/ RedisFails /\ lost' = lost \cup {<<q, e>>} /\ UNCHANGED vehicles
    /\ UNCHANGED <<breakers, pc, task, age, response, cached>>

\* cache.set_search, unless the search bypasses the cache; then the answer goes
\* out.  An empty or timed-out response is cached like any other.
StoreResponse(q) ==
    /\ pc[q] = "store" /\ Unstored(q) = {}
    /\ IF q \in Bypass THEN UNCHANGED cached
       ELSE \/ cached' = [ttl |-> SearchTTL, body |-> response[q]]
            \/ RedisFails /\ UNCHANGED cached
    /\ Goto(q, "done")
    /\ UNCHANGED <<breakers, task, age, response, vehicles, lost>>

-----------------------------------------------------------------------------
(* Time and Redis.                                                         *)

Down(n) == IF n > 0 THEN n - 1 ELSE 0

Tick_NoTimeout ==
    /\ \A q \in Searches : pc[q] \notin {"cancelling", "store"}
    /\ age' = [q \in Searches |-> IF pc[q] = "gather" THEN age[q] + 1 ELSE age[q]]
    /\ UNCHANGED <<breakers, pc, task, response, redis, lost>>

\* One second passes for the breakers, the timeouts and the entries in Redis.
Tick ==
    /\ \A q \in Searches :
          pc[q] \notin {"cancelling", "store"} /\ (pc[q] = "gather" => age[q] < GlobalTimeout)
    /\ breakers' = [s \in Suppliers |-> Aged(breakers[s])]
    /\ age' = [q \in Searches |-> IF pc[q] = "gather" THEN age[q] + 1 ELSE age[q]]
    /\ cached' = [ttl |-> Down(cached.ttl),
                  body |-> IF cached.ttl > 1 THEN cached.body ELSE NoResponse]
    /\ vehicles' = [v \in Bundles |-> Down(vehicles[v])]
    /\ <<breakers, age, cached, vehicles>>' # <<breakers, age, cached, vehicles>>
    /\ UNCHANGED <<pc, task, response, lost>>

Evict ==
    /\ RedisFails
    /\ \/ cached.ttl > 0
          /\ cached' = [ttl |-> 0, body |-> NoResponse]
          /\ UNCHANGED <<vehicles, lost>>
       \/ \E v \in Bundles :
             /\ vehicles[v] > 0
             /\ vehicles' = [vehicles EXCEPT ![v] = 0]
             /\ lost' = lost \cup {v}
             /\ UNCHANGED cached
    /\ UNCHANGED <<breakers, pc, task, age, response>>

\* What the gateway itself does for a search; a supplier's answer is not its doing.
Gateway(q) ==
    \/ Reject(q) \/ Hit(q) \/ Dispatch(q)
    \/ TimeOut(q) \/ Merge(q) \/ MergeNothing(q) \/ StoreResponse(q)
    \/ \E e \in Entries : Start(q, e) \/ Cancel(q, e) \/ StoreVehicles(q, e)

Next ==
    \/ \E q \in Searches : Gateway(q)
    \/ \E q \in Searches, e \in Entries : Succeed(q, e) \/ Fail(q, e)
    \/ Tick
    \/ Evict

Spec == Init /\ [][Next]_vars

\* The event loop and the clock run.  Suppliers need not answer.
FairSpec == Spec /\ WF_vars(Tick) /\ \A q \in Searches : WF_vars(Gateway(q))

-----------------------------------------------------------------------------
(* Properties.                                                             *)

\* Whenever a search is answered, from the suppliers or from the cache, every
\* vehicle in the answer is in Redis under the answer's search_id and will be
\* for VehicleTTL - SearchTTL more, unless Redis loses it: create_booking will
\* find it (search_service.py:185-190 and 309-331, booking_service.py:52-77).
AnswersAreBookable ==
    [][\A q \in Searches : pc[q] # "done" /\ pc'[q] = "done" =>
          \A e \in response'[q].ok :
              LET v == <<response'[q].search, e>> IN
              v \notin lost' => vehicles'[v] > VehicleTTL - SearchTTL]_vars

Looked(r) == {e \in Entries : task[r.search][e] # "none"}
Answered(q) == pc[q] = "done" /\ response[q] # NoResponse /\ ~response[q].timedOut

\* An answer that has not timed out accounts for every entry its search looked
\* at, whether it comes from the suppliers or from the cache: its vehicles are
\* there or its provider is in provider_status.  Only a supplier whose failure
\* has no text is left out, and none is in both.
OnlyMuteIsSilent ==
    \A q \in Searches : LET r == response[q] IN Answered(q) =>
        /\ Looked(r) \ (r.ok \cup r.status) = In(r.search, {"mute"})
        /\ r.ok \cap r.status = {}

\* What ProviderFailure (schemas/search.py:48) is for: "Structured provider
\* failure surfaced to API consumers", of type "timeout" too.  Every entry
\* looked at is in the answer or in provider_status.
NobodyIsSilent ==
    \A q \in Searches : LET r == response[q] IN
        Answered(q) => r.ok \cup r.status = Looked(r)

\* The tasks of all searches for one supplier, seen as the callers of its breaker.
TasksOf(s) == {v \in Bundles : Supplier[v[2]] = s}
CallState(t) == IF t \in {"refused"} \cup LetThrough THEN t ELSE "none"
BreakerOf(s) == INSTANCE SupplierCalls WITH
    Calls <- TasksOf(s),
    breaker <- breakers[s],
    call <- [v \in TasksOf(s) |-> CallState(task[v[1]][v[2]])]

\* Every supplier's breaker works as SupplierCalls says, with the tasks of all
\* searches as its callers: nothing a search does for one supplier, nor its
\* timeout, disturbs the breaker of another.
BreakersWork ==
    /\ \A s \in Suppliers : BreakerOf(s)!Init
    /\ [][\A s \in Suppliers : BreakerOf(s)!Next \/ UNCHANGED BreakerOf(s)!vars]_vars

\* Every search is answered, even if no supplier ever is.
SearchesEnd == \A q \in Searches : pc[q] # "new" ~> pc[q] = "done"

=============================================================================
