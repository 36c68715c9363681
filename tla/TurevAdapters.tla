--------------------------- MODULE TurevAdapters ---------------------------
(***************************************************************************)
(* The adapters favrica.py, emr.py and xdrive.py, for three suppliers with *)
(* the same JSON interface: parameters in the address of a GET, and a list *)
(* whose first entry says whether it worked.                               *)
(***************************************************************************)
EXTENDS SupplierReplies

-----------------------------------------------------------------------------
(* favrica.py.                                                             *)

\* Asked again in dollars when there is nothing in the currency asked for.
Favrica_search_vehicles ==
    <<Ask([found |-> Fruitful, empty |-> Denied, next |-> Lacking \cup {"error"}]),
      Ask([found |-> Fruitful, empty |-> Fruitless])>>

Favrica_parse_vehicle ==
    Reading([offer |-> {"whole", "unnamed", "null"}, free |-> {"unpriced", "misprice", "null"},
             skip |-> {"unnamed", "null"}, raise |-> {"null", "negative", "odd"}])

Favrica_get_locations == <<Ask([found |-> Fruitful, empty |-> Fruitless])>>

\* A refusal is not told from an answer without a reference; str() of one that
\* is null is a reference too.
Favrica_create_booking ==
    <<Act([confirmed |-> Fruitful \cup {"nulled"}, pending |-> Fruitless \ {"nulled"}])>>

Favrica_cancel_booking ==
    <<Act([cancelled |-> Fruitful \cup Lacking \cup {"refused", "garbage"},
           failed |-> {"error", "errorpage"}])>>

-----------------------------------------------------------------------------
(* emr.py.                                                                 *)

Emr_search_vehicles == Favrica_search_vehicles
Emr_parse_vehicle == Favrica_parse_vehicle
Emr_get_locations == Favrica_get_locations
Emr_create_booking == Favrica_create_booking
Emr_cancel_booking == Favrica_cancel_booking

-----------------------------------------------------------------------------
(* xdrive.py.                                                              *)

XDrive_search_vehicles == Favrica_search_vehicles
XDrive_parse_vehicle == Favrica_parse_vehicle
XDrive_get_locations == Favrica_get_locations
XDrive_create_booking == Favrica_create_booking

\* Does not look at the answer.
XDrive_cancel_booking == <<Act([cancelled |-> Parsed \cup Unreadable])>>

=============================================================================
