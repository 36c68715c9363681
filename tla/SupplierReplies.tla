--------------------------- MODULE SupplierReplies ---------------------------
(***************************************************************************)
(* What a supplier may answer to one HTTP request of an adapter, and the   *)
(* form in which the adapter modules say what an adapter makes of it.      *)
(*                                                                         *)
(* An operation of an adapter is a sequence of requests.  A request says   *)
(* for every reply how the operation goes on, as a table from outcomes to  *)
(* the replies that have them.  A reply under no outcome leaves the method *)
(* with an exception; one under two may have either, by parts of it that   *)
(* are not told apart here.  Requests whose failure the adapter swallows,  *)
(* and which only add detail to what it has, are left out.                 *)
(***************************************************************************)
EXTENDS Integers, Sequences

\* The replies.  The last three are exceptions of httpx; BaseAdapter._request
\* logs them and raises them again.
Replies == {
    "good",         \* what was asked for
    "empty",        \* the right form, without what was asked for
    "nulled",       \* the same, with a reference that is null (JSON, bookings)
    "refused",      \* the interface's own way to say no
    "expired",      \* 401: the session the request was sent under is over
    "mixed",        \* what was asked for, and errors beside it
    "error",        \* 4xx or 5xx with a body that parses, of another form
    "garbage",      \* 200 with a body that does not parse
    "errorpage",    \* 4xx or 5xx with a body that does not parse
    "timeout",      \* httpx.TimeoutException
    "unreached",    \* httpx.ConnectError: the supplier never saw the request
    "broken"}       \* another transport error, after the request was sent

Fruitful == {"good", "mixed"}
Lacking == {"empty", "nulled"}
Denied == {"refused", "expired"}
Fruitless == Lacking \cup Denied \cup {"error"}
Parsed == Fruitful \cup Fruitless
Unreadable == {"garbage", "errorpage"}
Lost == {"timeout", "unreached", "broken"}

\* What an adapter makes of a reply, given its table.
Outcomes(table) ==
    [reply \in Replies |->
        LET given == {o \in DOMAIN table : reply \in table[o]} IN
        IF given = {} THEN {"raise"} ELSE given]

\* A request that does what the operation is for, and one that prepares it.
Act(table) == [acts |-> TRUE, on |-> Outcomes(table)]
Ask(table) == [acts |-> FALSE, on |-> Outcomes(table)]

\* Outcomes of a request of search_vehicles and get_locations: what was found
\* is all there is, or there may be more to come; nothing was found, here or
\* at all.
SearchOutcomes == {"found", "more", "next", "empty", "raise"}
\* Those of create_booking and cancel_booking; "again" repeats the request under
\* a new session, the last four end the method.
CreateOutcomes == {"next", "again", "confirmed", "pending", "failed", "raise"}
CancelOutcomes == {"next", "again", "cancelled", "failed", "raise"}

\* The vehicles of an answer, by what is wrong with them.
Entries == {
    "whole",        \* nothing
    "unnamed",      \* no name or no number of its own
    "unpriced",     \* no price
    "null",         \* a name, a number or a price that is null; in XML, empty
    "misprice",     \* a price that is not a number
    "negative",     \* a price below zero, which schemas/vehicle.py rejects
    "odd"}          \* a field of another type than the adapter expects
Incomplete == {"unnamed", "unpriced"}

\* What becomes of one: an offer, an offer for 0.00, nothing; "stop" loses the
\* rest of the answer too, and "raise" the whole search.
Verdicts == {"offer", "free", "skip", "stop", "raise"}

\* How an adapter reads entries, given its table from verdicts to entries.
Reading(table) ==
    [entry \in Entries |->
        LET given == {v \in DOMAIN table : entry \in table[v]} IN
        IF given = {} THEN {"raise"} ELSE given]

\* A list the adapter carries with it, and an operation it does not support.
Static == <<>>
Unsupported == <<>>

=============================================================================
