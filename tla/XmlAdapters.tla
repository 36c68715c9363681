---------------------------- MODULE XmlAdapters ----------------------------
(***************************************************************************)
(* The adapters of suppliers that speak XML or SOAP.  USave is a           *)
(* GreenMotion with another address.                                       *)
(*                                                                         *)
(* Operators named X_<slip> are variants of X that no specification uses.  *)
(***************************************************************************)
EXTENDS SupplierReplies

-----------------------------------------------------------------------------
(* green_motion.py.  The HTTP status is never looked at; what does not     *)
(* parse is an empty search.                                               *)

GreenMotion_search_vehicles ==
    <<Ask([found |-> Fruitful, empty |-> Fruitless \cup Unreadable])>>

GreenMotion_parse_single_vehicle ==
    Reading([offer |-> {"whole", "unnamed", "null"}, free |-> {"unpriced", "misprice", "null"},
             skip |-> {"unnamed", "negative", "null", "odd"}])

\* GetCountryList, and GetServiceAreas for each country.
GreenMotion_get_locations ==
    <<Ask([next |-> Fruitful, empty |-> Fruitless]),
      Ask([more |-> Fruitful, next |-> Fruitless])>>

GreenMotion_create_booking ==
    <<Act([confirmed |-> Fruitful, failed |-> Fruitless])>>

\* CancelReservation, and again under the other name of the element.  Neither
\* an exception nor a refusal ends it before both are through.
GreenMotion_cancel_booking ==
    LET attempt == Act([cancelled |-> Fruitful \cup Lacking,
                        next |-> Denied \cup {"error"} \cup Unreadable \cup Lost])
    IN  <<attempt, attempt>>

-----------------------------------------------------------------------------
(* locauto_rent.py.  Its locations come with it in a file.                 *)

Locauto_search_vehicles ==
    <<Ask([found |-> Fruitful, empty |-> Fruitless \cup Unreadable])>>

\* Without a name it is an "Unknown Vehicle".
Locauto_parse_single_vehicle ==
    Reading([offer |-> {"whole", "unnamed", "null"}, skip |-> Entries \ {"whole"}])

Locauto_get_locations == Static

Locauto_create_booking_Trusts ==
    <<Act([confirmed |-> Fruitful \cup Denied, failed |-> Lacking \cup {"error"} \cup Unreadable])>>

Locauto_create_booking ==
    <<Act([confirmed |-> Fruitful, failed |-> Fruitless \cup Unreadable])>>

\* Whatever has neither an Errors element nor an HTTP error is a cancellation.
Locauto_cancel_booking ==
    <<Act([cancelled |-> {"good", "error"} \cup Lacking,
           failed |-> {"refused", "mixed"} \cup Unreadable])>>

-----------------------------------------------------------------------------
(* yesaway.py.  _post_xml raises for every answer that is not a plain      *)
(* success; a search passes over a rate plan whose request raised.         *)

Yesaway_search_vehicles ==
    LET plan == Ask([more |-> {"good"}, next |-> Replies \ {"good"}]) IN <<plan, plan>>

Yesaway_parse_vehicle ==
    Reading([offer |-> {"whole", "unnamed", "null", "odd"},
             free |-> {"unpriced", "misprice", "null"},
             skip |-> {"unnamed", "unpriced", "null"}])

Yesaway_get_locations == <<Ask([found |-> {"good"}, empty |-> Lacking])>>

Yesaway_create_booking == <<Act([confirmed |-> {"good"}])>>

Yesaway_cancel_booking == <<Act([cancelled |-> {"good"}])>>

-----------------------------------------------------------------------------
(* ok_mobility.py.                                                         *)

\* _soap_request: whatever the first address answers is the answer; after an
\* exception, of any kind, the request is sent again to the other port.
OkMobility_soap_request(request, last) ==
    <<[request EXCEPT !.on = [reply \in Replies |-> IF reply \in Lost THEN {"next"} ELSE @[reply]]],
      [request EXCEPT !.on = [reply \in Replies |-> IF reply \in Lost THEN {last} ELSE @[reply]]]>>

\* SOAP 1.2; then SOAP 1.1, on both ports.
OkMobility_search_vehicles ==
    <<Ask([found |-> Fruitful, next |-> Replies \ Fruitful])>>
    \o OkMobility_soap_request(
          Ask([found |-> Fruitful, empty |-> Fruitless \cup Unreadable]), "empty")

\* Without a name it goes by its number.
OkMobility_parse_single_vehicle ==
    Reading([offer |-> {"whole", "unnamed", "null"}, skip |-> Entries \ {"whole"}])

OkMobility_get_locations ==
    OkMobility_soap_request(
        Ask([found |-> Fruitful, empty |-> Fruitless \cup Unreadable]), "empty")

OkMobility_create_booking ==
    OkMobility_soap_request(
        Act([confirmed |-> Fruitful, failed |-> Fruitless \cup Unreadable]), "failed")

OkMobility_cancel_booking ==
    OkMobility_soap_request(
        Act([cancelled |-> {"good", "error"} \cup Lacking \cup Unreadable,
             failed |-> {"refused", "mixed"}]), "cancelled")

=============================================================================
