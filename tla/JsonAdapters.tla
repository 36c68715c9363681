---------------------------- MODULE JsonAdapters ----------------------------
(***************************************************************************)
(* The adapters of suppliers that speak JSON, and of the hosts' own cars   *)
(* (internal).  Those with a form of their own are in TurevAdapters.       *)
(*                                                                         *)
(* Operators named X_<slip> are variants of X that no specification uses.  *)
(***************************************************************************)
EXTENDS SupplierReplies

-----------------------------------------------------------------------------
(* adobe_car.py.  Every operation logs in first; a session that is over in *)
(* between is not renewed.                                                 *)

AdobeCar_get_token == Ask([next |-> Fruitful])

AdobeCar_search_vehicles ==
    <<AdobeCar_get_token, Ask([found |-> Fruitful, empty |-> Fruitless])>>

AdobeCar_parse_vehicle ==
    Reading([offer |-> {"whole", "unnamed"}, free |-> {"unpriced", "misprice", "null"},
             skip |-> {"unnamed", "null"}, raise |-> {"null"}])

AdobeCar_get_locations ==
    <<AdobeCar_get_token, Ask([found |-> Fruitful, empty |-> Fruitless])>>

\* str() of a bookingNumber that is null is a reference too.
AdobeCar_create_booking ==
    <<AdobeCar_get_token,
      Act([confirmed |-> Fruitful \cup {"nulled"}, failed |-> Fruitless \ {"nulled"}])>>

\* Looks the booking up, and not even at the answer.
AdobeCar_cancel_booking ==
    <<AdobeCar_get_token, Ask([cancelled |-> Parsed \cup Unreadable])>>

-----------------------------------------------------------------------------
(* surprice.py.                                                            *)

\* _fetch_availability takes every failure for no availability, except a
\* refused one-way rental.
Surprice_search_vehicles ==
    <<Ask([found |-> Fruitful, empty |-> Replies \ Fruitful, raise |-> {"refused"}])>>

Surprice_parse_vehicle_Defaults ==
    Reading([offer |-> {"whole", "unnamed", "null"}, free |-> {"unpriced"},
             skip |-> Entries \ {"whole", "unnamed", "unpriced"}])

Surprice_parse_vehicle ==
    Reading([offer |-> {"whole", "unnamed", "null"}, skip |-> Entries \ {"whole", "unnamed"}])

Surprice_get_locations == <<Ask([found |-> Fruitful, empty |-> Fruitless])>>

Surprice_create_booking_Resends ==
    LET attempt == Act([confirmed |-> Fruitful, failed |-> Fruitless, next |-> Lost])
    IN  <<attempt, attempt>>

Surprice_create_booking == <<Act([confirmed |-> Fruitful, failed |-> Fruitless])>>

Surprice_cancel_booking ==
    <<Act([cancelled |-> Fruitful \cup Lacking, failed |-> {"refused", "error", "errorpage"}])>>

-----------------------------------------------------------------------------
(* recordgo.py.  Booking and cancelling catch every exception.             *)

RecordGo_search_vehicles == <<Ask([found |-> Fruitful, empty |-> Fruitless])>>

RecordGo_parse_acriss_vehicles ==
    Reading([offer |-> {"whole", "unnamed", "null"}, free |-> {"unpriced", "misprice", "null"},
             raise |-> {"negative", "null", "odd"}])

RecordGo_get_locations == Static

RecordGo_create_booking ==
    <<Act([confirmed |-> Fruitful, pending |-> Lacking \cup {"error"},
           failed |-> {"refused"} \cup Unreadable \cup Lost])>>

\* The status in the body, which booking looks at, is not looked at here.
RecordGo_cancel_booking ==
    <<Act([cancelled |-> {"good", "refused"} \cup Lacking,
           failed |-> {"refused", "mixed", "error"} \cup Unreadable \cup Lost])>>

-----------------------------------------------------------------------------
(* easirent.py.  Booking is not supported.                                 *)

\* Cars, then vans.
Easirent_search_vehicles ==
    LET kind == Ask([more |-> Fruitful, next |-> Fruitless]) IN <<kind, kind>>

Easirent_parse_vehicle ==
    Reading([offer |-> {"whole", "unnamed", "null"},
             skip |-> {"unpriced", "misprice", "negative", "null"}])

Easirent_get_locations == Static
Easirent_create_booking == Unsupported
Easirent_cancel_booking == Unsupported

-----------------------------------------------------------------------------
(* sicily_by_car.py.  Only "ok": false is a refusal.                       *)

SicilyByCar_search_vehicles == <<Ask([found |-> Fruitful, empty |-> Fruitless])>>

\* The rate is part of the number, and one that is null raises.
SicilyByCar_parse_offer ==
    Reading([offer |-> {"whole", "unnamed", "null"}, free |-> {"unpriced", "misprice", "null"},
             skip |-> {"unnamed", "null"}, raise |-> {"null", "negative", "odd"}])

SicilyByCar_get_locations == <<Ask([found |-> Fruitful, empty |-> Fruitless])>>

\* The reservation is held, then committed.
SicilyByCar_create_booking ==
    <<Ask([next |-> Fruitful, failed |-> Fruitless]),
      Act([confirmed |-> Parsed \ Denied, failed |-> Denied])>>

SicilyByCar_cancel_booking == <<Act([cancelled |-> Parsed \ Denied, failed |-> Denied])>>

-----------------------------------------------------------------------------
(* click2rent.py.                                                          *)

\* _api_request: on a 401 it logs in again and repeats the request, whatever
\* that answers.  The login may raise.
Click2Rent_api_request(request) == [request EXCEPT !.on["expired"] = {"again", "raise"}]

\* _get_bearer_token: an answer without a token is an empty token.
Click2Rent_get_bearer_token == Ask([next |-> Parsed])

\* Hire points and cars are asked for once and kept.
Click2Rent_ensure_hire_points ==
    Click2Rent_api_request(Ask([next |-> Fruitful, empty |-> Fruitless]))
Click2Rent_ensure_car_details == Click2Rent_api_request(Ask([next |-> Parsed]))

\* The cars found are only read once their extras are there.
Click2Rent_search_vehicles ==
    <<Click2Rent_get_bearer_token,
      Click2Rent_ensure_hire_points,
      Click2Rent_ensure_car_details,
      Click2Rent_api_request(Ask([more |-> Fruitful, next |-> Fruitless])),
      Click2Rent_api_request(Ask([next |-> Parsed]))>>

\* float() of a price, and split() of a name, that is null raise.
Click2Rent_build_vehicle ==
    Reading([offer |-> {"whole", "unnamed"}, skip |-> {"unnamed", "unpriced", "negative", "null"},
             raise |-> {"null", "misprice", "odd"}])

Click2Rent_get_locations ==
    <<Click2Rent_get_bearer_token,
      Click2Rent_api_request(Ask([found |-> Fruitful, empty |-> Fruitless]))>>

\* The customer is made first.
Click2Rent_create_booking ==
    <<Click2Rent_get_bearer_token,
      Click2Rent_api_request(Ask([next |-> Fruitful, failed |-> Fruitless])),
      Click2Rent_api_request(Act([confirmed |-> Fruitful, failed |-> Fruitless]))>>

\* CancelBookingResponse lacks its id and status: no answer can be given.
Click2Rent_cancel_booking ==
    <<Click2Rent_get_bearer_token, Click2Rent_api_request(Act([raise |-> Replies]))>>

-----------------------------------------------------------------------------
(* wheelsys.py.  Errors beside what was asked for are errors.              *)

Wheelsys_search_vehicles_Swallows ==
    <<Ask([found |-> {"good"}, empty |-> Replies \ {"good"}])>>

Wheelsys_search_vehicles == <<Ask([found |-> {"good"}, empty |-> Parsed \ {"good"}])>>

Wheelsys_parse_vehicle_Raises ==
    Reading([offer |-> {"whole"}, free |-> {"unpriced", "misprice"}])

Wheelsys_parse_vehicle ==
    Reading([offer |-> {"whole", "unnamed", "null"}, free |-> {"unpriced", "misprice", "null"},
             skip |-> {"unnamed", "null"}])

Wheelsys_get_locations == <<Ask([found |-> Fruitful, empty |-> Fruitless])>>

\* str() of an irn that is null is a reference too.
Wheelsys_create_booking ==
    <<Act([confirmed |-> {"good", "nulled"}, failed |-> Parsed \ {"good", "nulled"}])>>

Wheelsys_cancel_booking ==
    <<Act([cancelled |-> {"good"} \cup Lacking, failed |-> Parsed \ ({"good"} \cup Lacking)])>>

-----------------------------------------------------------------------------
(* renteon.py.                                                             *)

\* For each provider code; a request that fails is passed over.
Renteon_search_vehicles ==
    LET code == Ask([more |-> Fruitful, next |-> Replies \ Fruitful]) IN <<code, code>>

Renteon_parse_vehicle ==
    Reading([offer |-> {"whole", "unnamed", "null"}, free |-> {"unpriced", "misprice", "null"},
             skip |-> {"unnamed", "null"}, stop |-> {"negative", "odd"}])

Renteon_get_locations_Swallows ==
    <<Ask([found |-> Fruitful, empty |-> Replies \ Fruitful])>>

Renteon_get_locations == <<Ask([found |-> Fruitful, empty |-> Fruitless])>>

\* Create, then save.  Nothing checks what create answered, and when save
\* answers with nothing the reference is taken from create.
Renteon_create_booking ==
    <<Ask([next |-> Parsed]),
      Act([confirmed |-> Fruitful \cup Lacking, failed |-> Fruitless])>>

Renteon_cancel_booking_Blind == <<Act([cancelled |-> Parsed \cup Unreadable])>>

Renteon_cancel_booking ==
    <<Act([cancelled |-> Fruitful \cup Lacking \cup {"garbage"},
           failed |-> {"refused", "error", "errorpage"}])>>

-----------------------------------------------------------------------------
(* internal.py: the application's own cars, over its API.                  *)

Internal_search_vehicles ==
    <<Ask([found |-> Fruitful, empty |-> Fruitless \cup {"errorpage", "timeout", "unreached"}])>>

Internal_parse_vehicle ==
    Reading([offer |-> {"whole", "unnamed", "null"},
             free |-> {"unpriced", "misprice", "negative", "null"},
             skip |-> {"unnamed", "null"}, raise |-> {"negative", "odd"}])

Internal_get_locations == <<Ask([found |-> Fruitful, empty |-> Lacking])>>

\* str() of an id that is null is a reference too.
Internal_create_booking ==
    <<Act([confirmed |-> Fruitful \cup {"nulled"},
           failed |-> {"empty", "refused", "error", "errorpage", "timeout", "unreached"}])>>

Internal_cancel_booking ==
    <<Act([cancelled |-> Fruitful \cup Lacking \cup {"garbage"},
           failed |-> {"refused", "error", "errorpage", "timeout", "unreached"}])>>

=============================================================================
