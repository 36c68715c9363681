------------------------ MODULE AdapterCalls_proofs ------------------------
(***************************************************************************)
(* Theorems about AdapterCalls, for any of the adapters, any number of     *)
(* calls and any threshold of the circuit breaker.                         *)
(*                                                                         *)
(* What the adapters make of replies is read off their tables first, one   *)
(* adapter at a time: the table lemmas say what holds for every request of *)
(* every adapter, and the rest of the module uses nothing else about them. *)
(***************************************************************************)
EXTENDS AdapterCalls, SequenceTheorems, TLAPS

-----------------------------------------------------------------------------
(* The tables.                                                             *)

LEMMA AdapterNames ==
  DOMAIN Adapters =
      {"green_motion", "usave", "locauto_rent", "yesaway", "ok_mobility", "adobe_car", "surprice",
       "recordgo", "easirent", "sicily_by_car", "click2rent", "wheelsys", "renteon", "internal",
       "favrica", "emr", "xdrive"}
  BY DEF Adapters

\* Two requests of one form.
LEMMA YesawayPlans ==
  /\ Len(Yesaway_search_vehicles) = 2 /\ DOMAIN Yesaway_search_vehicles = 1 .. 2
  /\ \A i \in 1 .. 2 : Yesaway_search_vehicles[i].on =
        Outcomes([more |-> {"good"}, next |-> Replies \ {"good"}])
  BY DEF Yesaway_search_vehicles, Ask

LEMMA RenteonCodes ==
  /\ Len(Renteon_search_vehicles) = 2 /\ DOMAIN Renteon_search_vehicles = 1 .. 2
  /\ \A i \in 1 .. 2 : Renteon_search_vehicles[i].on =
        Outcomes([more |-> Fruitful, next |-> Replies \ Fruitful])
  BY DEF Renteon_search_vehicles, Ask

LEMMA EasirentKinds ==
  /\ Len(Easirent_search_vehicles) = 2 /\ DOMAIN Easirent_search_vehicles = 1 .. 2
  /\ \A i \in 1 .. 2 : Easirent_search_vehicles[i].on =
        Outcomes([more |-> Fruitful, next |-> Fruitless])
  BY DEF Easirent_search_vehicles, Ask

\* Click2Rent's requests are made again after a 401.
LEMMA Renewed ==
  ASSUME NEW table, NEW r \in Replies
  PROVE  /\ Click2Rent_api_request(Ask(table)).on[r] =
               IF r = "expired" THEN {"again", "raise"} ELSE Outcomes(table)[r]
         /\ Click2Rent_api_request(Act(table)).on[r] =
               IF r = "expired" THEN {"again", "raise"} ELSE Outcomes(table)[r]
         /\ Click2Rent_api_request(Ask(table)).acts = FALSE
         /\ Click2Rent_api_request(Act(table)).acts = TRUE
  BY DEF Click2Rent_api_request, Outcomes, Ask, Act

RenewedOn(r, table) == IF r = "expired" THEN {"again", "raise"} ELSE Outcomes(table)[r]

LEMMA Click2RentSearch ==
  LET m == Click2Rent_search_vehicles IN
  /\ Len(m) = 5 /\ DOMAIN m = 1 .. 5
  /\ m[1].on = Outcomes([next |-> Parsed])
  /\ \A r \in Replies :
        /\ m[2].on[r] = RenewedOn(r, [next |-> Fruitful, empty |-> Fruitless])
        /\ m[3].on[r] = RenewedOn(r, [next |-> Parsed])
        /\ m[4].on[r] = RenewedOn(r, [more |-> Fruitful, next |-> Fruitless])
        /\ m[5].on[r] = RenewedOn(r, [next |-> Parsed])
<1> DEFINE m == Click2Rent_search_vehicles
           points == [next |-> Fruitful, empty |-> Fruitless]
           details == [next |-> Parsed]
           cars == [more |-> Fruitful, next |-> Fruitless]
<1>1. /\ Len(m) = 5 /\ DOMAIN m = 1 .. 5 /\ m[1].on = Outcomes(details)
      /\ m[2] = Click2Rent_api_request(Ask(points))
      /\ m[3] = Click2Rent_api_request(Ask(details))
      /\ m[4] = Click2Rent_api_request(Ask(cars))
      /\ m[5] = Click2Rent_api_request(Ask(details))
  BY DEF Click2Rent_search_vehicles, Click2Rent_get_bearer_token, Click2Rent_ensure_hire_points,
         Click2Rent_ensure_car_details, Ask
<1> HIDE DEF m, points, details, cars
<1>2. \A r \in Replies : m[2].on[r] = RenewedOn(r, points)  BY <1>1, Renewed DEF RenewedOn
<1>3. \A r \in Replies : m[3].on[r] = RenewedOn(r, details)  BY <1>1, Renewed DEF RenewedOn
<1>4. \A r \in Replies : m[4].on[r] = RenewedOn(r, cars)  BY <1>1, Renewed DEF RenewedOn
<1>5. \A r \in Replies : m[5].on[r] = RenewedOn(r, details)  BY <1>1, Renewed DEF RenewedOn
<1> QED  BY <1>1, <1>2, <1>3, <1>4, <1>5 DEF m, points, details, cars

LEMMA Click2RentLocations ==
  LET m == Click2Rent_get_locations IN
  /\ Len(m) = 2 /\ DOMAIN m = 1 .. 2
  /\ m[1].on = Outcomes([next |-> Parsed])
  /\ \A r \in Replies : m[2].on[r] = RenewedOn(r, [found |-> Fruitful, empty |-> Fruitless])
<1> DEFINE m == Click2Rent_get_locations
           points == [found |-> Fruitful, empty |-> Fruitless]
<1>1. /\ Len(m) = 2 /\ DOMAIN m = 1 .. 2 /\ m[1].on = Outcomes([next |-> Parsed])
      /\ m[2] = Click2Rent_api_request(Ask(points))
  BY DEF Click2Rent_get_locations, Click2Rent_get_bearer_token, Ask
<1> HIDE DEF m, points
<1>2. \A r \in Replies : m[2].on[r] = RenewedOn(r, points)  BY <1>1, Renewed DEF RenewedOn
<1> QED  BY <1>1, <1>2 DEF m, points

LEMMA Click2RentCreate ==
  LET m == Click2Rent_create_booking IN
  /\ Len(m) = 3 /\ DOMAIN m = 1 .. 3
  /\ m[1].acts = FALSE /\ m[2].acts = FALSE /\ m[3].acts = TRUE
  /\ m[1].on = Outcomes([next |-> Parsed])
  /\ \A r \in Replies :
        /\ m[2].on[r] = RenewedOn(r, [next |-> Fruitful, failed |-> Fruitless])
        /\ m[3].on[r] = RenewedOn(r, [confirmed |-> Fruitful, failed |-> Fruitless])
<1> DEFINE m == Click2Rent_create_booking
           customer == [next |-> Fruitful, failed |-> Fruitless]
           reservation == [confirmed |-> Fruitful, failed |-> Fruitless]
<1>1. /\ Len(m) = 3 /\ DOMAIN m = 1 .. 3
      /\ m[1].acts = FALSE /\ m[1].on = Outcomes([next |-> Parsed])
      /\ m[2] = Click2Rent_api_request(Ask(customer))
      /\ m[3] = Click2Rent_api_request(Act(reservation))
  BY DEF Click2Rent_create_booking, Click2Rent_get_bearer_token, Ask
<1> HIDE DEF m, customer, reservation
<1>2. m[2].acts = FALSE /\ m[3].acts = TRUE
  <2>1. "good" \in Replies  BY DEF Replies
  <2> QED  BY <1>1, <2>1, Renewed
<1>3. \A r \in Replies :
         m[2].on[r] = RenewedOn(r, customer) /\ m[3].on[r] = RenewedOn(r, reservation)
  BY <1>1, Renewed DEF RenewedOn
<1> QED  BY <1>1, <1>2, <1>3 DEF m, customer, reservation

LEMMA Click2RentCancel ==
  LET m == Click2Rent_cancel_booking IN
  /\ Len(m) = 2 /\ DOMAIN m = 1 .. 2
  /\ m[1].on = Outcomes([next |-> Parsed])
  /\ \A r \in Replies : m[2].on[r] = RenewedOn(r, [raise |-> Replies])
<1> DEFINE m == Click2Rent_cancel_booking
           none == [raise |-> Replies]
<1>1. /\ Len(m) = 2 /\ DOMAIN m = 1 .. 2 /\ m[1].on = Outcomes([next |-> Parsed])
      /\ m[2] = Click2Rent_api_request(Act(none))
  BY DEF Click2Rent_cancel_booking, Click2Rent_get_bearer_token, Ask
<1> HIDE DEF m, none
<1>2. \A r \in Replies : m[2].on[r] = RenewedOn(r, none)  BY <1>1, Renewed DEF RenewedOn
<1> QED  BY <1>1, <1>2 DEF m, none

\* OK Mobility's requests are made twice.
LEMMA Changed ==
  ASSUME NEW q, NEW a, NEW t, q = [acts |-> a, on |-> t], NEW f,
         NEW changed, changed = [q EXCEPT !.on = f]
  PROVE  changed.acts = q.acts /\ changed.on = f
  OBVIOUS

LEMMA Appended ==
  ASSUME NEW a, NEW b, NEW c, NEW m, m = <<a>> \o <<b, c>>
  PROVE  /\ Len(m) = 3 /\ DOMAIN m = 1 .. 3 /\ m # <<>>
         /\ m[1] = a /\ m[2] = b /\ m[3] = c
<1> DEFINE S == {a, b, c}
           x == <<a>>
           y == <<b, c>>
<1>1. x \in Seq(S) /\ Len(x) = 1 /\ x[1] = a  OBVIOUS
<1>2. y \in Seq(S) /\ Len(y) = 2 /\ y[1] = b /\ y[2] = c  OBVIOUS
<1>3. m = x \o y  OBVIOUS
<1> HIDE DEF S, x, y
<1>4. m \in Seq(S) /\ Len(m) = 3 /\ m[1] = a /\ m[2] = b /\ m[3] = c
  BY <1>1, <1>2, <1>3, ConcatProperties
<1>5. DOMAIN m = 1 .. 3 /\ m # <<>>  BY <1>4, LenProperties, EmptySeq
<1> QED  BY <1>4, <1>5

SentOnce(table, ifLost) == [r \in Replies |-> IF r \in Lost THEN {ifLost} ELSE Outcomes(table)[r]]

LEMMA SentTwice ==
  ASSUME NEW table, NEW q, q = Act(table) \/ q = Ask(table), NEW last,
         NEW m, m = OkMobility_soap_request(q, last)
  PROVE  /\ Len(m) = 2 /\ DOMAIN m = 1 .. 2 /\ m = <<m[1], m[2]>>
         /\ m[1].acts = q.acts /\ m[1].on = SentOnce(table, "next")
         /\ m[2].acts = q.acts /\ m[2].on = SentOnce(table, last)
<1> DEFINE t == Outcomes(table)
           f == SentOnce(table, "next")
           g == SentOnce(table, last)
<1>1. PICK a : q = [acts |-> a, on |-> t]  BY DEF Act, Ask
<1> HIDE DEF t
<1>2. q.on = t  BY <1>1
<1>3. Len(m) = 2 /\ DOMAIN m = 1 .. 2 /\ m = <<m[1], m[2]>>  BY DEF OkMobility_soap_request
<1>4. /\ f = [r \in Replies |-> IF r \in Lost THEN {"next"} ELSE t[r]]
      /\ g = [r \in Replies |-> IF r \in Lost THEN {last} ELSE t[r]]
  BY DEF SentOnce, t
<1> HIDE DEF f, g
<1>5. m[1] = [q EXCEPT !.on = f] /\ m[2] = [q EXCEPT !.on = g]
  BY <1>1, <1>2, <1>4 DEF OkMobility_soap_request
<1>6. m[1].acts = q.acts /\ m[1].on = f  BY <1>1, <1>5, Changed
<1>7. m[2].acts = q.acts /\ m[2].on = g  BY <1>1, <1>5, Changed
<1> QED  BY <1>3, <1>6, <1>7 DEF f, g

LEMMA OkMobilityCreate ==
  LET m == OkMobility_create_booking
      table == [confirmed |-> Fruitful, failed |-> Fruitless \cup Unreadable]
  IN  /\ Len(m) = 2 /\ DOMAIN m = 1 .. 2
      /\ m[1].acts = TRUE /\ m[1].on = SentOnce(table, "next")
      /\ m[2].acts = TRUE /\ m[2].on = SentOnce(table, "failed")
<1> DEFINE table == [confirmed |-> Fruitful, failed |-> Fruitless \cup Unreadable]
           q == Act(table)
           m == OkMobility_create_booking
<1>1. m = OkMobility_soap_request(q, "failed") /\ q.acts = TRUE
  BY DEF OkMobility_create_booking, Act
<1>2. q = Act(table) \/ q = Ask(table)  OBVIOUS
<1> HIDE DEF table, q, m
<1> QED  BY <1>1, <1>2, SentTwice DEF table, m

LEMMA OkMobilitySearch ==
  LET m == OkMobility_search_vehicles
      table == [found |-> Fruitful, empty |-> Fruitless \cup Unreadable]
  IN  /\ Len(m) = 3 /\ DOMAIN m = 1 .. 3 /\ m # <<>>
      /\ m[1].on = Outcomes([found |-> Fruitful, next |-> Replies \ Fruitful])
      /\ m[2].on = SentOnce(table, "next")
      /\ m[3].on = SentOnce(table, "empty")
<1> DEFINE first == Ask([found |-> Fruitful, next |-> Replies \ Fruitful])
           table == [found |-> Fruitful, empty |-> Fruitless \cup Unreadable]
           q == Ask(table)
           k == OkMobility_soap_request(q, "empty")
           m == OkMobility_search_vehicles
<1>1. /\ m = <<first>> \o k
      /\ first.on = Outcomes([found |-> Fruitful, next |-> Replies \ Fruitful])
  BY DEF OkMobility_search_vehicles, Ask
<1>2. q = Act(table) \/ q = Ask(table)  OBVIOUS
<1>3. k = OkMobility_soap_request(q, "empty")  OBVIOUS
<1> HIDE DEF first, table, q, m, k
<1>4. /\ k = <<k[1], k[2]>>
      /\ k[1].on = SentOnce(table, "next") /\ k[2].on = SentOnce(table, "empty")
  BY <1>2, <1>3, SentTwice
<1>5. m = <<first>> \o <<k[1], k[2]>>  BY <1>1, <1>4
<1>6. /\ Len(m) = 3 /\ DOMAIN m = 1 .. 3 /\ m # <<>>
      /\ m[1] = first /\ m[2] = k[1] /\ m[3] = k[2]
  BY <1>5, Appended
<1> QED  BY <1>1, <1>4, <1>6 DEF table, m

\* Methods are finite sequences of requests.
IsMethod(requests) ==
  Len(requests) \in Nat /\ DOMAIN requests = 1 .. Len(requests) /\ (requests = <<>> <=> Len(requests) = 0)

LEMMA SearchIsMethod == \A s \in DOMAIN Adapters : IsMethod(Adapters[s].search)
<1> SUFFICES ASSUME NEW s \in DOMAIN Adapters PROVE IsMethod(Adapters[s].search)
  OBVIOUS
<1> USE DEF IsMethod
<1>1. CASE s \in {"green_motion", "usave"}
  BY <1>1, SMTT(30) DEF Adapters, GreenMotionAdapter, GreenMotion_search_vehicles
<1>2. CASE s = "locauto_rent"
  BY <1>2, SMTT(30) DEF Adapters, Locauto_search_vehicles
<1>3. CASE s = "yesaway"
  BY <1>3, SMTT(30) DEF Adapters, Yesaway_search_vehicles
<1>4. CASE s = "ok_mobility"
  <2>1. Adapters[s].search = OkMobility_search_vehicles  BY <1>4 DEF Adapters
  <2> QED  BY <1>4, <2>1, OkMobilitySearch
<1>5. CASE s = "adobe_car"
  BY <1>5, SMTT(30) DEF Adapters, AdobeCar_search_vehicles, AdobeCar_get_token
<1>6. CASE s = "surprice"
  BY <1>6, SMTT(30) DEF Adapters, Surprice_search_vehicles
<1>7. CASE s = "recordgo"
  BY <1>7, SMTT(30) DEF Adapters, RecordGo_search_vehicles
<1>8. CASE s = "easirent"
  BY <1>8, SMTT(30) DEF Adapters, Easirent_search_vehicles
<1>9. CASE s = "sicily_by_car"
  BY <1>9, SMTT(30) DEF Adapters, SicilyByCar_search_vehicles
<1>10. CASE s = "click2rent"
  BY <1>10, SMTT(30) DEF Adapters, Click2Rent_search_vehicles, Click2Rent_get_bearer_token, Click2Rent_api_request, Click2Rent_ensure_hire_points, Click2Rent_ensure_car_details
<1>11. CASE s = "wheelsys"
  BY <1>11, SMTT(30) DEF Adapters, Wheelsys_search_vehicles
<1>12. CASE s = "renteon"
  BY <1>12, SMTT(30) DEF Adapters, Renteon_search_vehicles
<1>13. CASE s = "internal"
  BY <1>13, SMTT(30) DEF Adapters, Internal_search_vehicles
<1>14. CASE s = "favrica"
  BY <1>14, SMTT(30) DEF Adapters, Favrica_search_vehicles
<1>15. CASE s = "emr"
  BY <1>15, SMTT(30) DEF Adapters, Emr_search_vehicles, Favrica_search_vehicles
<1>16. CASE s = "xdrive"
  BY <1>16, SMTT(30) DEF Adapters, XDrive_search_vehicles, Favrica_search_vehicles
<1> QED
  BY AdapterNames, <1>1, <1>2, <1>3, <1>4, <1>5, <1>6, <1>7, <1>8, <1>9, <1>10,
     <1>11, <1>12, <1>13, <1>14, <1>15, <1>16

LEMMA LocationsIsMethod == \A s \in DOMAIN Adapters : IsMethod(Adapters[s].locations)
<1> SUFFICES ASSUME NEW s \in DOMAIN Adapters PROVE IsMethod(Adapters[s].locations)
  OBVIOUS
<1> USE DEF IsMethod
<1>1. CASE s \in {"green_motion", "usave"}
  BY <1>1, SMTT(30) DEF Adapters, GreenMotionAdapter, GreenMotion_get_locations
<1>2. CASE s = "locauto_rent"
  BY <1>2, SMTT(30) DEF Adapters, Locauto_get_locations, Static
<1>3. CASE s = "yesaway"
  BY <1>3, SMTT(30) DEF Adapters, Yesaway_get_locations
<1>4. CASE s = "ok_mobility"
  BY <1>4, SMTT(30) DEF Adapters, OkMobility_get_locations, OkMobility_soap_request
<1>5. CASE s = "adobe_car"
  BY <1>5, SMTT(30) DEF Adapters, AdobeCar_get_locations, AdobeCar_get_token
<1>6. CASE s = "surprice"
  BY <1>6, SMTT(30) DEF Adapters, Surprice_get_locations
<1>7. CASE s = "recordgo"
  BY <1>7, SMTT(30) DEF Adapters, RecordGo_get_locations, Static
<1>8. CASE s = "easirent"
  BY <1>8, SMTT(30) DEF Adapters, Easirent_get_locations, Static
<1>9. CASE s = "sicily_by_car"
  BY <1>9, SMTT(30) DEF Adapters, SicilyByCar_get_locations
<1>10. CASE s = "click2rent"
  BY <1>10, SMTT(30) DEF Adapters, Click2Rent_get_locations, Click2Rent_get_bearer_token, Click2Rent_api_request
<1>11. CASE s = "wheelsys"
  BY <1>11, SMTT(30) DEF Adapters, Wheelsys_get_locations
<1>12. CASE s = "renteon"
  BY <1>12, SMTT(30) DEF Adapters, Renteon_get_locations
<1>13. CASE s = "internal"
  BY <1>13, SMTT(30) DEF Adapters, Internal_get_locations
<1>14. CASE s = "favrica"
  BY <1>14, SMTT(30) DEF Adapters, Favrica_get_locations
<1>15. CASE s = "emr"
  BY <1>15, SMTT(30) DEF Adapters, Emr_get_locations, Favrica_get_locations
<1>16. CASE s = "xdrive"
  BY <1>16, SMTT(30) DEF Adapters, XDrive_get_locations, Favrica_get_locations
<1> QED
  BY AdapterNames, <1>1, <1>2, <1>3, <1>4, <1>5, <1>6, <1>7, <1>8, <1>9, <1>10,
     <1>11, <1>12, <1>13, <1>14, <1>15, <1>16

LEMMA CreateIsMethod == \A s \in DOMAIN Adapters : IsMethod(Adapters[s].create)
<1> SUFFICES ASSUME NEW s \in DOMAIN Adapters PROVE IsMethod(Adapters[s].create)
  OBVIOUS
<1> USE DEF IsMethod
<1>1. CASE s \in {"green_motion", "usave"}
  BY <1>1, SMTT(30) DEF Adapters, GreenMotionAdapter, GreenMotion_create_booking
<1>2. CASE s = "locauto_rent"
  BY <1>2, SMTT(30) DEF Adapters, Locauto_create_booking
<1>3. CASE s = "yesaway"
  BY <1>3, SMTT(30) DEF Adapters, Yesaway_create_booking
<1>4. CASE s = "ok_mobility"
  BY <1>4, SMTT(30) DEF Adapters, OkMobility_create_booking, OkMobility_soap_request
<1>5. CASE s = "adobe_car"
  BY <1>5, SMTT(30) DEF Adapters, AdobeCar_create_booking, AdobeCar_get_token
<1>6. CASE s = "surprice"
  BY <1>6, SMTT(30) DEF Adapters, Surprice_create_booking
<1>7. CASE s = "recordgo"
  BY <1>7, SMTT(30) DEF Adapters, RecordGo_create_booking
<1>8. CASE s = "easirent"
  BY <1>8, SMTT(30) DEF Adapters, Easirent_create_booking, Unsupported
<1>9. CASE s = "sicily_by_car"
  BY <1>9, SMTT(30) DEF Adapters, SicilyByCar_create_booking
<1>10. CASE s = "click2rent"
  BY <1>10, SMTT(30) DEF Adapters, Click2Rent_create_booking, Click2Rent_get_bearer_token, Click2Rent_api_request
<1>11. CASE s = "wheelsys"
  BY <1>11, SMTT(30) DEF Adapters, Wheelsys_create_booking
<1>12. CASE s = "renteon"
  BY <1>12, SMTT(30) DEF Adapters, Renteon_create_booking
<1>13. CASE s = "internal"
  BY <1>13, SMTT(30) DEF Adapters, Internal_create_booking
<1>14. CASE s = "favrica"
  BY <1>14, SMTT(30) DEF Adapters, Favrica_create_booking
<1>15. CASE s = "emr"
  BY <1>15, SMTT(30) DEF Adapters, Emr_create_booking, Favrica_create_booking
<1>16. CASE s = "xdrive"
  BY <1>16, SMTT(30) DEF Adapters, XDrive_create_booking, Favrica_create_booking
<1> QED
  BY AdapterNames, <1>1, <1>2, <1>3, <1>4, <1>5, <1>6, <1>7, <1>8, <1>9, <1>10,
     <1>11, <1>12, <1>13, <1>14, <1>15, <1>16

LEMMA CancelIsMethod == \A s \in DOMAIN Adapters : IsMethod(Adapters[s].cancel)
<1> SUFFICES ASSUME NEW s \in DOMAIN Adapters PROVE IsMethod(Adapters[s].cancel)
  OBVIOUS
<1> USE DEF IsMethod
<1>1. CASE s \in {"green_motion", "usave"}
  BY <1>1, SMTT(30) DEF Adapters, GreenMotionAdapter, GreenMotion_cancel_booking
<1>2. CASE s = "locauto_rent"
  BY <1>2, SMTT(30) DEF Adapters, Locauto_cancel_booking
<1>3. CASE s = "yesaway"
  BY <1>3, SMTT(30) DEF Adapters, Yesaway_cancel_booking
<1>4. CASE s = "ok_mobility"
  BY <1>4, SMTT(30) DEF Adapters, OkMobility_cancel_booking, OkMobility_soap_request
<1>5. CASE s = "adobe_car"
  BY <1>5, SMTT(30) DEF Adapters, AdobeCar_cancel_booking, AdobeCar_get_token
<1>6. CASE s = "surprice"
  BY <1>6, SMTT(30) DEF Adapters, Surprice_cancel_booking
<1>7. CASE s = "recordgo"
  BY <1>7, SMTT(30) DEF Adapters, RecordGo_cancel_booking
<1>8. CASE s = "easirent"
  BY <1>8, SMTT(30) DEF Adapters, Easirent_cancel_booking, Unsupported
<1>9. CASE s = "sicily_by_car"
  BY <1>9, SMTT(30) DEF Adapters, SicilyByCar_cancel_booking
<1>10. CASE s = "click2rent"
  BY <1>10, SMTT(30) DEF Adapters, Click2Rent_cancel_booking, Click2Rent_get_bearer_token, Click2Rent_api_request
<1>11. CASE s = "wheelsys"
  BY <1>11, SMTT(30) DEF Adapters, Wheelsys_cancel_booking
<1>12. CASE s = "renteon"
  BY <1>12, SMTT(30) DEF Adapters, Renteon_cancel_booking
<1>13. CASE s = "internal"
  BY <1>13, SMTT(30) DEF Adapters, Internal_cancel_booking
<1>14. CASE s = "favrica"
  BY <1>14, SMTT(30) DEF Adapters, Favrica_cancel_booking
<1>15. CASE s = "emr"
  BY <1>15, SMTT(30) DEF Adapters, Emr_cancel_booking, Favrica_cancel_booking
<1>16. CASE s = "xdrive"
  BY <1>16, SMTT(30) DEF Adapters, XDrive_cancel_booking
<1> QED
  BY AdapterNames, <1>1, <1>2, <1>3, <1>4, <1>5, <1>6, <1>7, <1>8, <1>9, <1>10,
     <1>11, <1>12, <1>13, <1>14, <1>15, <1>16

\* A reservation.  After a request that acts another one follows only when the
\* first was turned away, and with OK Mobility when it was lost.  "confirmed" has
\* a reservation behind it, but for what ConfirmedIsReserved excepts; a success
\* is "confirmed" and a timeout leaves the method, but for what FailedIsRetriable
\* excepts.
LEMMA CreateTable ==
  ASSUME NEW s \in DOMAIN Adapters, NEW i \in DOMAIN Adapters[s].create, NEW r \in Replies,
         NEW o \in Adapters[s].create[i].on[r]
  PROVE  LET acts == Adapters[s].create[i].acts
             last == Len(Adapters[s].create)
         IN  /\ o \in CreateOutcomes
             /\ acts /\ o = "again" => r \in Denied /\ s # "ok_mobility"
             /\ acts /\ o = "next" => s = "ok_mobility" /\ i = 1 /\ last = 2 /\ r \in Lost
             /\ s = "ok_mobility" => acts /\ last = 2
             /\ ~acts /\ o \in {"next", "again"} => i < last
             /\ o = "confirmed" =>
                   \/ acts /\ r \in Fruitful
                   \/ acts /\ r = "nulled" /\ s \in ReadsNullAsReference
                   \/ acts /\ r \in Ambiguous /\ s \in TrustsTheCommit
             /\ acts /\ r = "good" => o = "confirmed"
             /\ acts /\ r = "mixed" => o = "confirmed" \/ s \in DropsMixed
             /\ acts /\ r = "timeout" => o = "raise" \/ s \in CatchesTimeouts
<1> USE DEF Act, Ask, Outcomes, Replies, Fruitful, Lacking, Denied, Fruitless, Parsed, Unreadable, Lost,
            CreateOutcomes, Ambiguous, ReadsNullAsReference, TrustsTheCommit, DropsMixed, CatchesTimeouts
<1>1. CASE s \in {"green_motion", "usave"}
  <2>1. Adapters[s].create = GreenMotion_create_booking  BY <1>1 DEF Adapters, GreenMotionAdapter
  <2> QED  BY <1>1, <2>1 DEF GreenMotion_create_booking
<1>2. CASE s = "locauto_rent"
  BY <1>2, SMTT(30) DEF Adapters, Locauto_create_booking
<1>3. CASE s = "yesaway"
  BY <1>3, SMTT(30) DEF Adapters, Yesaway_create_booking
<1>4. CASE s = "ok_mobility"
  <2>1. Adapters[s].create = OkMobility_create_booking  BY <1>4 DEF Adapters
  <2>2. CASE i = 1  BY <1>4, <2>1, <2>2, OkMobilityCreate DEF SentOnce
  <2>3. CASE i = 2  BY <1>4, <2>1, <2>3, OkMobilityCreate DEF SentOnce
  <2> QED  BY <2>1, <2>2, <2>3, OkMobilityCreate
<1>5. CASE s = "adobe_car"
  BY <1>5, SMTT(30) DEF Adapters, AdobeCar_create_booking, AdobeCar_get_token
<1>6. CASE s = "surprice"
  BY <1>6, SMTT(30) DEF Adapters, Surprice_create_booking
<1>7. CASE s = "recordgo"
  BY <1>7, SMTT(30) DEF Adapters, RecordGo_create_booking
<1>8. CASE s = "easirent"
  BY <1>8, SMTT(30) DEF Adapters, Easirent_create_booking, Unsupported
<1>9. CASE s = "sicily_by_car"
  BY <1>9, SMTT(30) DEF Adapters, SicilyByCar_create_booking
<1>10. CASE s = "click2rent"
  <2>1. Adapters[s].create = Click2Rent_create_booking  BY <1>10 DEF Adapters
  <2>2. CASE i = 1  BY <1>10, <2>1, <2>2, Click2RentCreate DEF RenewedOn
  <2>3. CASE i = 2  BY <1>10, <2>1, <2>3, Click2RentCreate DEF RenewedOn
  <2>4. CASE i = 3  BY <1>10, <2>1, <2>4, Click2RentCreate DEF RenewedOn
  <2> QED  BY <2>1, <2>2, <2>3, <2>4, Click2RentCreate
<1>11. CASE s = "wheelsys"
  BY <1>11, SMTT(30) DEF Adapters, Wheelsys_create_booking
<1>12. CASE s = "renteon"
  BY <1>12, SMTT(30) DEF Adapters, Renteon_create_booking
<1>13. CASE s = "internal"
  BY <1>13, SMTT(30) DEF Adapters, Internal_create_booking
<1>14. CASE s = "favrica"
  BY <1>14, SMTT(30) DEF Adapters, Favrica_create_booking
<1>15. CASE s = "emr"
  BY <1>15, SMTT(30) DEF Adapters, Emr_create_booking, Favrica_create_booking
<1>16. CASE s = "xdrive"
  BY <1>16, SMTT(30) DEF Adapters, XDrive_create_booking, Favrica_create_booking
<1> QED
  BY AdapterNames, <1>1, <1>2, <1>3, <1>4, <1>5, <1>6, <1>7, <1>8, <1>9, <1>10,
     <1>11, <1>12, <1>13, <1>14, <1>15, <1>16

\* A cancellation.
LEMMA CancelTable ==
  ASSUME NEW s \in DOMAIN Adapters, NEW i \in DOMAIN Adapters[s].cancel, NEW r \in Replies,
         NEW o \in Adapters[s].cancel[i].on[r]
  PROVE  LET acts == Adapters[s].cancel[i].acts
             last == Len(Adapters[s].cancel)
         IN  /\ o \in CancelOutcomes
             /\ o = "cancelled" =>
                   \/ acts /\ r \in Fruitful
                   \/ r \in Ambiguous
                   \/ s \in CancelsBlindly
             /\ r = "good" => o = "cancelled" \/ (o = "next" /\ i < last) \/ s = "click2rent"
<1> USE DEF Act, Ask, Outcomes, Replies, Fruitful, Lacking, Denied, Fruitless, Parsed, Unreadable, Lost,
            CancelOutcomes, Ambiguous, CancelsBlindly
<1>1. CASE s \in {"green_motion", "usave"}
  <2>1. Adapters[s].cancel = GreenMotion_cancel_booking  BY <1>1 DEF Adapters, GreenMotionAdapter
  <2> QED  BY <1>1, <2>1 DEF GreenMotion_cancel_booking
<1>2. CASE s = "locauto_rent"
  BY <1>2, SMTT(30) DEF Adapters, Locauto_cancel_booking
<1>3. CASE s = "yesaway"
  BY <1>3, SMTT(30) DEF Adapters, Yesaway_cancel_booking
<1>4. CASE s = "ok_mobility"
  BY <1>4, SMTT(30) DEF Adapters, OkMobility_cancel_booking, OkMobility_soap_request
<1>5. CASE s = "adobe_car"
  BY <1>5, SMTT(30) DEF Adapters, AdobeCar_cancel_booking, AdobeCar_get_token
<1>6. CASE s = "surprice"
  BY <1>6, SMTT(30) DEF Adapters, Surprice_cancel_booking
<1>7. CASE s = "recordgo"
  BY <1>7, SMTT(30) DEF Adapters, RecordGo_cancel_booking
<1>8. CASE s = "easirent"
  BY <1>8, SMTT(30) DEF Adapters, Easirent_cancel_booking, Unsupported
<1>9. CASE s = "sicily_by_car"
  BY <1>9, SMTT(30) DEF Adapters, SicilyByCar_cancel_booking
<1>10. CASE s = "click2rent"
  <2>1. Adapters[s].cancel = Click2Rent_cancel_booking  BY <1>10 DEF Adapters
  <2>2. CASE i = 1  BY <1>10, <2>1, <2>2, Click2RentCancel DEF RenewedOn
  <2>3. CASE i = 2  BY <1>10, <2>1, <2>3, Click2RentCancel DEF RenewedOn
  <2> QED  BY <2>1, <2>2, <2>3, Click2RentCancel
<1>11. CASE s = "wheelsys"
  BY <1>11, SMTT(30) DEF Adapters, Wheelsys_cancel_booking
<1>12. CASE s = "renteon"
  BY <1>12, SMTT(30) DEF Adapters, Renteon_cancel_booking
<1>13. CASE s = "internal"
  BY <1>13, SMTT(30) DEF Adapters, Internal_cancel_booking
<1>14. CASE s = "favrica"
  BY <1>14, SMTT(30) DEF Adapters, Favrica_cancel_booking
<1>15. CASE s = "emr"
  BY <1>15, SMTT(30) DEF Adapters, Emr_cancel_booking, Favrica_cancel_booking
<1>16. CASE s = "xdrive"
  BY <1>16, SMTT(30) DEF Adapters, XDrive_cancel_booking
<1> QED
  BY AdapterNames, <1>1, <1>2, <1>3, <1>4, <1>5, <1>6, <1>7, <1>8, <1>9, <1>10,
     <1>11, <1>12, <1>13, <1>14, <1>15, <1>16

\* A search.  An adapter that does not hide losses raises for each of them.  The
\* requests that follow one with vehicles in its answer are the last of their
\* search, and fail only with the two adapters that need every answer.
Later(s, i) ==
  \/ s \in {"yesaway", "renteon", "easirent"} /\ i = 2
  \/ s = "click2rent" /\ i = 5

LEMMA SearchTable ==
  ASSUME NEW s \in DOMAIN Adapters, NEW i \in DOMAIN Adapters[s].search, NEW r \in Replies,
         NEW o \in Adapters[s].search[i].on[r]
  PROVE  LET last == Len(Adapters[s].search) IN
         /\ o \in SearchOutcomes \cup {"again"}
         /\ s \notin HidesLosses \cup {"internal"} /\ r \in Lost => o = "raise"
         /\ o = "more" /\ i < last => Later(s, i + 1)
         /\ Later(s, i) =>
               /\ i = last
               /\ o \in {"empty", "raise"} =>
                     s \in NeedsEveryAnswer /\ r \in Unreadable \cup Lost \cup {"expired"}
<1> USE DEF Ask, Outcomes, Replies, Fruitful, Lacking, Denied, Fruitless, Parsed, Unreadable, Lost,
            SearchOutcomes, HidesLosses, NeedsEveryAnswer, Later
<1>1. CASE s \in {"green_motion", "usave"}
  <2>1. Adapters[s].search = GreenMotion_search_vehicles  BY <1>1 DEF Adapters, GreenMotionAdapter
  <2>2. i = 1  BY <2>1 DEF GreenMotion_search_vehicles
  <2> QED  BY <1>1, <2>1, <2>2, SMTT(30) DEF GreenMotion_search_vehicles
<1>2. CASE s = "locauto_rent"
  BY <1>2, SMTT(30) DEF Adapters, Locauto_search_vehicles
<1>3. CASE s = "yesaway"
  <2>1. Adapters[s].search = Yesaway_search_vehicles  BY <1>3 DEF Adapters
  <2> QED  BY <1>3, <2>1, YesawayPlans
<1>4. CASE s = "ok_mobility"
  <2>1. Adapters[s].search = OkMobility_search_vehicles  BY <1>4 DEF Adapters
  <2>2. CASE i = 1  BY <1>4, <2>1, <2>2, OkMobilitySearch DEF SentOnce
  <2>3. CASE i = 2  BY <1>4, <2>1, <2>3, OkMobilitySearch DEF SentOnce
  <2>4. CASE i = 3  BY <1>4, <2>1, <2>4, OkMobilitySearch DEF SentOnce
  <2> QED  BY <2>1, <2>2, <2>3, <2>4, OkMobilitySearch
<1>5. CASE s = "adobe_car"
  BY <1>5, SMTT(30) DEF Adapters, AdobeCar_search_vehicles, AdobeCar_get_token
<1>6. CASE s = "surprice"
  BY <1>6, SMTT(30) DEF Adapters, Surprice_search_vehicles
<1>7. CASE s = "recordgo"
  BY <1>7, SMTT(30) DEF Adapters, RecordGo_search_vehicles
<1>8. CASE s = "easirent"
  <2>1. Adapters[s].search = Easirent_search_vehicles  BY <1>8 DEF Adapters
  <2> QED  BY <1>8, <2>1, EasirentKinds
<1>9. CASE s = "sicily_by_car"
  BY <1>9, SMTT(30) DEF Adapters, SicilyByCar_search_vehicles
<1>10. CASE s = "click2rent"
  <2>1. Adapters[s].search = Click2Rent_search_vehicles  BY <1>10 DEF Adapters
  <2>2. CASE i = 1  BY <1>10, <2>1, <2>2, Click2RentSearch DEF RenewedOn
  <2>3. CASE i = 2  BY <1>10, <2>1, <2>3, Click2RentSearch DEF RenewedOn
  <2>4. CASE i = 3  BY <1>10, <2>1, <2>4, Click2RentSearch DEF RenewedOn
  <2>5. CASE i = 4  BY <1>10, <2>1, <2>5, Click2RentSearch DEF RenewedOn
  <2>6. CASE i = 5  BY <1>10, <2>1, <2>6, Click2RentSearch DEF RenewedOn
  <2> QED  BY <2>1, <2>2, <2>3, <2>4, <2>5, <2>6, Click2RentSearch
<1>11. CASE s = "wheelsys"
  BY <1>11, SMTT(30) DEF Adapters, Wheelsys_search_vehicles
<1>12. CASE s = "renteon"
  <2>1. Adapters[s].search = Renteon_search_vehicles  BY <1>12 DEF Adapters
  <2> QED  BY <1>12, <2>1, RenteonCodes
<1>13. CASE s = "internal"
  BY <1>13, SMTT(30) DEF Adapters, Internal_search_vehicles
<1>14. CASE s = "favrica"
  BY <1>14, SMTT(30) DEF Adapters, Favrica_search_vehicles
<1>15. CASE s = "emr"
  BY <1>15, SMTT(30) DEF Adapters, Emr_search_vehicles, Favrica_search_vehicles
<1>16. CASE s = "xdrive"
  BY <1>16, SMTT(30) DEF Adapters, XDrive_search_vehicles, Favrica_search_vehicles
<1> QED
  BY AdapterNames, <1>1, <1>2, <1>3, <1>4, <1>5, <1>6, <1>7, <1>8, <1>9, <1>10,
     <1>11, <1>12, <1>13, <1>14, <1>15, <1>16

\* A vehicle that may cost others their offers.
Harms(s, e) ==
  \/ s \in RaisesOnNull /\ e = "null"
  \/ s \notin ReadsCarefully /\ e \notin Readable

\* What a search makes of one vehicle.
LEMMA ReadingTable ==
  ASSUME NEW s \in DOMAIN Adapters, NEW e \in Entries
  PROVE  LET verdicts == Adapters[s].reading[e] IN
         /\ verdicts \subseteq Verdicts
         /\ e = "whole" => verdicts = {"offer"}
         /\ ~Harms(s, e) => verdicts \cap {"stop", "raise"} = {}
         /\ s \notin DefaultsToZero \cup {"internal"} => "free" \notin verdicts
<1> USE DEF Reading, Entries, Incomplete, Verdicts, ReadsCarefully, DefaultsToZero,
            Harms, Readable, RaisesOnNull
<1>1. CASE s \in {"green_motion", "usave"}
  <2>1. Adapters[s].reading = GreenMotion_parse_single_vehicle  BY <1>1 DEF Adapters, GreenMotionAdapter
  <2> QED  BY <1>1, <2>1 DEF GreenMotion_parse_single_vehicle
<1>2. CASE s = "locauto_rent"
  BY <1>2, SMTT(30) DEF Adapters, Locauto_parse_single_vehicle
<1>3. CASE s = "yesaway"
  BY <1>3, SMTT(30) DEF Adapters, Yesaway_parse_vehicle
<1>4. CASE s = "ok_mobility"
  BY <1>4, SMTT(30) DEF Adapters, OkMobility_parse_single_vehicle
<1>5. CASE s = "adobe_car"
  BY <1>5, SMTT(30) DEF Adapters, AdobeCar_parse_vehicle
<1>6. CASE s = "surprice"
  BY <1>6, SMTT(30) DEF Adapters, Surprice_parse_vehicle
<1>7. CASE s = "recordgo"
  BY <1>7, SMTT(30) DEF Adapters, RecordGo_parse_acriss_vehicles
<1>8. CASE s = "easirent"
  BY <1>8, SMTT(30) DEF Adapters, Easirent_parse_vehicle
<1>9. CASE s = "sicily_by_car"
  BY <1>9, SMTT(30) DEF Adapters, SicilyByCar_parse_offer
<1>10. CASE s = "click2rent"
  BY <1>10, SMTT(30) DEF Adapters, Click2Rent_build_vehicle
<1>11. CASE s = "wheelsys"
  BY <1>11, SMTT(30) DEF Adapters, Wheelsys_parse_vehicle
<1>12. CASE s = "renteon"
  BY <1>12, SMTT(30) DEF Adapters, Renteon_parse_vehicle
<1>13. CASE s = "internal"
  BY <1>13, SMTT(30) DEF Adapters, Internal_parse_vehicle
<1>14. CASE s = "favrica"
  BY <1>14, SMTT(30) DEF Adapters, Favrica_parse_vehicle
<1>15. CASE s = "emr"
  BY <1>15, SMTT(30) DEF Adapters, Emr_parse_vehicle, Favrica_parse_vehicle
<1>16. CASE s = "xdrive"
  BY <1>16, SMTT(30) DEF Adapters, XDrive_parse_vehicle, Favrica_parse_vehicle
<1> QED
  BY AdapterNames, <1>1, <1>2, <1>3, <1>4, <1>5, <1>6, <1>7, <1>8, <1>9, <1>10,
     <1>11, <1>12, <1>13, <1>14, <1>15, <1>16

\* The locations.
LEMMA LocationsTable ==
  ASSUME NEW s \in DOMAIN Adapters, NEW i \in DOMAIN Adapters[s].locations, NEW r \in Replies,
         NEW o \in Adapters[s].locations[i].on[r]
  PROVE  LET last == Len(Adapters[s].locations) IN
         /\ o \in SearchOutcomes \cup {"again"}
         /\ o = "empty" \/ (o = "next" /\ i = last) =>
               \/ r \in Lacking
               \/ s \in ReadsErrorsAsNone /\ r \in Denied \cup {"error"}
               \/ s = "ok_mobility"
<1> USE DEF Ask, Outcomes, Replies, Fruitful, Lacking, Denied, Fruitless, Parsed, Unreadable, Lost,
            SearchOutcomes, ReadsErrorsAsNone
<1>1. CASE s \in {"green_motion", "usave"}
  <2>1. Adapters[s].locations = GreenMotion_get_locations  BY <1>1 DEF Adapters, GreenMotionAdapter
  <2>2. CASE i = 1  BY <1>1, <2>1, <2>2 DEF GreenMotion_get_locations
  <2>3. CASE i = 2  BY <1>1, <2>1, <2>3 DEF GreenMotion_get_locations
  <2> QED  BY <2>1, <2>2, <2>3 DEF GreenMotion_get_locations
<1>2. CASE s = "locauto_rent"
  BY <1>2, SMTT(30) DEF Adapters, Locauto_get_locations, Static
<1>3. CASE s = "yesaway"
  BY <1>3, SMTT(30) DEF Adapters, Yesaway_get_locations
<1>4. CASE s = "ok_mobility"
  BY <1>4, SMTT(30) DEF Adapters, OkMobility_get_locations, OkMobility_soap_request
<1>5. CASE s = "adobe_car"
  BY <1>5, SMTT(30) DEF Adapters, AdobeCar_get_locations, AdobeCar_get_token
<1>6. CASE s = "surprice"
  BY <1>6, SMTT(30) DEF Adapters, Surprice_get_locations
<1>7. CASE s = "recordgo"
  BY <1>7, SMTT(30) DEF Adapters, RecordGo_get_locations, Static
<1>8. CASE s = "easirent"
  BY <1>8, SMTT(30) DEF Adapters, Easirent_get_locations, Static
<1>9. CASE s = "sicily_by_car"
  BY <1>9, SMTT(30) DEF Adapters, SicilyByCar_get_locations
<1>10. CASE s = "click2rent"
  <2>1. Adapters[s].locations = Click2Rent_get_locations  BY <1>10 DEF Adapters
  <2>2. CASE i = 1  BY <1>10, <2>1, <2>2, Click2RentLocations DEF RenewedOn
  <2>3. CASE i = 2  BY <1>10, <2>1, <2>3, Click2RentLocations DEF RenewedOn
  <2> QED  BY <2>1, <2>2, <2>3, Click2RentLocations
<1>11. CASE s = "wheelsys"
  BY <1>11, SMTT(30) DEF Adapters, Wheelsys_get_locations
<1>12. CASE s = "renteon"
  BY <1>12, SMTT(30) DEF Adapters, Renteon_get_locations
<1>13. CASE s = "internal"
  BY <1>13, SMTT(30) DEF Adapters, Internal_get_locations
<1>14. CASE s = "favrica"
  BY <1>14, SMTT(30) DEF Adapters, Favrica_get_locations
<1>15. CASE s = "emr"
  BY <1>15, SMTT(30) DEF Adapters, Emr_get_locations, Favrica_get_locations
<1>16. CASE s = "xdrive"
  BY <1>16, SMTT(30) DEF Adapters, XDrive_get_locations, Favrica_get_locations
<1> QED
  BY AdapterNames, <1>1, <1>2, <1>3, <1>4, <1>5, <1>6, <1>7, <1>8, <1>9, <1>10,
     <1>11, <1>12, <1>13, <1>14, <1>15, <1>16

-----------------------------------------------------------------------------
(* The inductive invariant.                                                *)

Running(m) == method = m /\ Runs

\* Reservations the supplier has made for the booking, or may still make.
Reservations == desk.made + desk.coming

\* A call leaves one at most, and a call that still runs none yet, or with OK
\* Mobility as many as requests have been sent.
Reserved ==
  IF supplier = "ok_mobility"
  THEN Reservations <= 2 * calls - (IF Running("create") THEN 3 - at ELSE 0)
  ELSE Reservations <= calls - (IF Running("create") THEN 1 ELSE 0)

\* A first call that goes on with a reservation lost the answer to it.
LostOnTheWay ==
  Running("create") /\ calls = 1 /\ Reservations > 0 =>
      supplier = "ok_mobility" /\ seen \cap {"timeout", "broken"} # {}

\* A null ends the call.
NullEnds == Running("create") => "nulled" \notin seen

BookingInv ==
  /\ Reserved /\ LostOnTheWay /\ NullEnds
  /\ FailedIsRetriable /\ ConfirmedIsReserved /\ CancelReplyIsTrue

\* The breaker counts every search that was lost.
CountsLosses == supplier \notin HidesLosses => breaker.failures >= silent

\* A search with vehicles in its answers is at its last request.
MoreIsLast == Running("search") /\ answered # {} => Later(supplier, at)

\* Among the entries is one that may cost others their offers.
Spoiled(s, entries) ==
  \/ s \in RaisesOnNull /\ "null" \in entries
  \/ s \notin ReadsCarefully /\ entries \ Readable # {}

\* What it has found so far is offered.
OfferedSoFar ==
  Running("search") /\ "whole" \in answered =>
      <<"whole", "offer">> \in offers \/ Spoiled(supplier, answered)

\* The hosts' own cars are not searched.
OwnCarsAreLeftOut == Running("search") => supplier # "internal"

SearchInv ==
  /\ CountsLosses /\ MoreIsLast /\ OfferedSoFar /\ OwnCarsAreLeftOut
  /\ SoundVehiclesAreOffered /\ NothingIsFree

IInv == TypeOK /\ BookingInv /\ SearchInv
-----------------------------------------------------------------------------
(* One request and the reply to it.                                        *)

LEMMA Known == TypeOK => supplier \in DOMAIN Adapters
  BY SuppliersAssumption DEF TypeOK

\* The methods by their names.
LEMMA Named ==
  /\ \A s \in DOMAIN Adapters : /\ Adapters[s]["search"] = Adapters[s].search
                                /\ Adapters[s]["locations"] = Adapters[s].locations
                                /\ Adapters[s]["create"] = Adapters[s].create
                                /\ Adapters[s]["cancel"] = Adapters[s].cancel
  OBVIOUS

LEMMA At ==
  ASSUME TypeOK, Runs, method \in {"search", "locations", "create", "cancel"}
  PROVE  /\ Len(Requests) \in Nat /\ DOMAIN Requests = 1 .. Len(Requests)
         /\ at \in 1 .. Len(Requests)
<1>1. IsMethod(Requests)
  BY Known, Named, SearchIsMethod, LocationsIsMethod, CreateIsMethod, CancelIsMethod DEF Requests
<1>2. at \in DOMAIN Requests  BY DEF TypeOK, Runs, Requests
<1> QED  BY <1>1, <1>2 DEF IsMethod

\* What is made of a reply is in the method's table, for the reply itself or, in
\* a repetition, for the refusal it amounts to.
LEMMA FromTable ==
  ASSUME TypeOK, NEW m \in {"search", "locations", "create", "cancel"}, NEW reply, NEW outcome,
         Receives(m, reply, outcome)
  PROVE  /\ supplier \in DOMAIN Adapters /\ method = m /\ Runs
         /\ Len(Requests) \in Nat /\ at \in 1 .. Len(Requests) /\ at \in DOMAIN Requests
         /\ reply \in Replies /\ seen' = seen \cup {reply}
         /\ reply = "nulled" => m = "create" /\ Requests[at].acts
         /\ \E r \in Replies : /\ outcome \in Requests[at].on[r]
                               /\ r = reply \/ (r = "refused" /\ reply = "expired")
<1>1. method = m /\ Runs /\ reply \in Answerable /\ outcome \in MadeOf(reply)
      /\ seen' = seen \cup {reply}
  BY DEF Receives
<1>2. reply \in Replies /\ (reply = "nulled" => m = "create" /\ Requests[at].acts)
  BY <1>1 DEF Answerable
<1>3. \E r \in Replies : /\ outcome \in Requests[at].on[r]
                         /\ r = reply \/ (r = "refused" /\ reply = "expired")
  <2>1. "refused" \in Replies  BY DEF Replies
  <2> QED  BY <1>1, <1>2, <2>1 DEF MadeOf
<1> QED  BY <1>1, <1>2, <1>3, Known, At

\* The reply to a request of a reservation.
LEMMA CreateMakes ==
  ASSUME TypeOK, NEW reply, NEW outcome, Receives("create", reply, outcome)
  PROVE  /\ outcome \in CreateOutcomes
         /\ Continues(outcome) =>
               \/ ~Requests[at].acts
               \/ reply \in Denied /\ supplier # "ok_mobility"
               \/ reply \in Lost /\ supplier = "ok_mobility" /\ at = 1
         /\ Continues(outcome) /\ supplier = "ok_mobility" => outcome = "next" /\ at = 1
         /\ outcome = "again" => supplier # "ok_mobility"
         /\ supplier = "ok_mobility" => Len(Requests) = 2
         /\ Continues(outcome) => reply # "nulled"
         /\ outcome = "confirmed" =>
               \/ Requests[at].acts /\ reply \in Fruitful
               \/ reply = "nulled" /\ supplier \in ReadsNullAsReference
               \/ reply \in Ambiguous /\ supplier \in TrustsTheCommit
         /\ Requests[at].acts /\ reply = "good" => outcome = "confirmed"
         /\ Requests[at].acts /\ reply = "mixed" => outcome = "confirmed" \/ supplier \in DropsMixed
         /\ Requests[at].acts /\ reply = "timeout" => outcome = "raise" \/ supplier \in CatchesTimeouts
<1> DEFINE requests == Adapters[supplier].create
           acts == requests[at].acts
           last == Len(requests)
<1>1. /\ supplier \in DOMAIN Adapters /\ Len(Requests) \in Nat /\ at \in 1 .. Len(Requests)
      /\ at \in DOMAIN Requests
      /\ reply \in Replies /\ (reply = "nulled" => Requests[at].acts)
      /\ method = "create"
  BY FromTable
<1>2. PICK r \in Replies : /\ outcome \in Requests[at].on[r]
                           /\ r = reply \/ (r = "refused" /\ reply = "expired")
  BY FromTable
<1>3. Requests = requests  BY <1>1, Named DEF Requests
<1>4. /\ outcome \in CreateOutcomes
      /\ acts /\ outcome = "again" => r \in Denied /\ supplier # "ok_mobility"
      /\ acts /\ outcome = "next" => supplier = "ok_mobility" /\ at = 1 /\ last = 2 /\ r \in Lost
      /\ supplier = "ok_mobility" => acts /\ last = 2
      /\ outcome = "confirmed" =>
            \/ acts /\ r \in Fruitful
            \/ acts /\ r = "nulled" /\ supplier \in ReadsNullAsReference
            \/ acts /\ r \in Ambiguous /\ supplier \in TrustsTheCommit
      /\ acts /\ r = "good" => outcome = "confirmed"
      /\ acts /\ r = "mixed" => outcome = "confirmed" \/ supplier \in DropsMixed
      /\ acts /\ r = "timeout" => outcome = "raise" \/ supplier \in CatchesTimeouts
  <2> HIDE DEF requests
  <2>1. at \in DOMAIN Adapters[supplier].create /\ outcome \in Adapters[supplier].create[at].on[r]
    BY <1>1, <1>2, <1>3 DEF requests
  <2> QED  BY <1>1, <1>2, <2>1, CreateTable DEF requests
<1>5. Continues(outcome) => outcome = "again" \/ (outcome = "next" /\ at < last)
  BY <1>3, <1>4 DEF Continues, CreateOutcomes
<1>6. /\ r \in Lost \/ r = "nulled" \/ r \in Fruitful \/ r \in Ambiguous => r = reply
      /\ r \in Denied => reply \in Denied
      /\ reply \in {"good", "mixed", "timeout", "nulled"} => r = reply
      /\ "nulled" \notin Denied \cup Lost
  BY <1>2 DEF Lost, Fruitful, Ambiguous, Lacking, Unreadable, Denied
<1> HIDE DEF requests, acts, last
<1>7. Requests[at].acts = acts /\ Len(Requests) = last  BY <1>3 DEF acts, last
<1> QED  BY <1>1, <1>4, <1>5, <1>6, <1>7

\* The reply to a request of a cancellation.
LEMMA CancelMakes ==
  ASSUME TypeOK, NEW reply, NEW outcome, Receives("cancel", reply, outcome)
  PROVE  /\ outcome \in CancelOutcomes
         /\ Continues(outcome) <=> outcome = "again" \/ (outcome = "next" /\ at < Len(Requests))
         /\ outcome = "cancelled" =>
               \/ Requests[at].acts /\ reply \in Fruitful
               \/ reply \in Ambiguous
               \/ supplier \in CancelsBlindly
         /\ reply = "good" =>
               outcome = "cancelled" \/ Continues(outcome) \/ supplier = "click2rent"
<1> DEFINE requests == Adapters[supplier].cancel
           acts == requests[at].acts
           last == Len(requests)
<1>1. /\ supplier \in DOMAIN Adapters /\ at \in DOMAIN Requests /\ method = "cancel"
      /\ Len(Requests) \in Nat /\ at \in 1 .. Len(Requests)
  BY FromTable
<1>2. PICK r \in Replies : /\ outcome \in Requests[at].on[r]
                           /\ r = reply \/ (r = "refused" /\ reply = "expired")
  BY FromTable
<1>3. Requests = requests  BY <1>1, Named DEF Requests
<1>4. /\ outcome \in CancelOutcomes
      /\ outcome = "cancelled" =>
            \/ acts /\ r \in Fruitful
            \/ r \in Ambiguous
            \/ supplier \in CancelsBlindly
      /\ r = "good" => outcome = "cancelled" \/ (outcome = "next" /\ at < last)
                       \/ supplier = "click2rent"
  <2> HIDE DEF requests
  <2>1. at \in DOMAIN Adapters[supplier].cancel /\ outcome \in Adapters[supplier].cancel[at].on[r]
    BY <1>1, <1>2, <1>3 DEF requests
  <2> QED  BY <1>1, <1>2, <2>1, CancelTable DEF requests
<1>5. Continues(outcome) <=> outcome = "again" \/ (outcome = "next" /\ at < last)
  BY <1>3, <1>4 DEF Continues, CancelOutcomes
<1>6. /\ r \in Fruitful \/ r \in Ambiguous => r = reply
      /\ reply = "good" => r = reply
  BY <1>2 DEF Fruitful, Ambiguous, Lacking, Unreadable
<1> HIDE DEF requests, acts, last
<1>7. Requests[at].acts = acts /\ Len(Requests) = last  BY <1>3 DEF acts, last
<1> QED  BY <1>1, <1>4, <1>5, <1>6, <1>7

\* The reply to a request of a search.
LEMMA SearchMakes ==
  ASSUME TypeOK, NEW reply, NEW outcome, Receives("search", reply, outcome)
  PROVE  /\ outcome \in SearchOutcomes \cup {"again"}
         /\ supplier \notin HidesLosses \cup {"internal"} /\ reply \in Lost => outcome = "raise"
         /\ outcome = "more" /\ Continues(outcome) => Later(supplier, at + 1)
         /\ Later(supplier, at) =>
               /\ Continues(outcome) => outcome = "again"
               /\ outcome \in {"empty", "raise"} =>
                     /\ supplier \in NeedsEveryAnswer
                     /\ reply \in Unreadable \cup Lost \cup {"expired"}
<1> DEFINE requests == Adapters[supplier].search
           last == Len(requests)
<1>1. /\ supplier \in DOMAIN Adapters /\ at \in DOMAIN Requests /\ method = "search"
      /\ Len(Requests) \in Nat /\ at \in 1 .. Len(Requests)
  BY FromTable
<1>2. PICK r \in Replies : /\ outcome \in Requests[at].on[r]
                           /\ r = reply \/ (r = "refused" /\ reply = "expired")
  BY FromTable
<1>3. Requests = requests  BY <1>1, Named DEF Requests
<1>4. /\ outcome \in SearchOutcomes \cup {"again"}
      /\ supplier \notin HidesLosses \cup {"internal"} /\ r \in Lost => outcome = "raise"
      /\ outcome = "more" /\ at < last => Later(supplier, at + 1)
      /\ Later(supplier, at) =>
            /\ at = last
            /\ outcome \in {"empty", "raise"} =>
                  supplier \in NeedsEveryAnswer /\ r \in Unreadable \cup Lost \cup {"expired"}
  <2> HIDE DEF requests
  <2>1. at \in DOMAIN Adapters[supplier].search /\ outcome \in Adapters[supplier].search[at].on[r]
    BY <1>1, <1>2, <1>3 DEF requests
  <2> QED  BY <1>1, <1>2, <2>1, SearchTable DEF requests
<1>5. Continues(outcome) => outcome = "again" \/ (outcome \in {"next", "more"} /\ at < last)
  BY <1>3 DEF Continues
<1>6. /\ reply \in Lost => r = reply
      /\ r \in Unreadable \cup Lost \cup {"expired"} => r = reply
  BY <1>2 DEF Lost, Unreadable
<1> HIDE DEF requests, last
<1> QED  BY <1>1, <1>4, <1>5, <1>6

\* The reply to a request for the locations.
LEMMA LocationsMakes ==
  ASSUME TypeOK, NEW reply, NEW outcome, Receives("locations", reply, outcome)
  PROVE  /\ outcome \in SearchOutcomes \cup {"again"}
         /\ ~Continues(outcome) /\ outcome \notin {"found", "more", "raise"} =>
               \/ reply \in Lacking
               \/ supplier \in ReadsErrorsAsNone /\ reply \in Denied \cup {"error"}
               \/ supplier = "ok_mobility"
<1> DEFINE requests == Adapters[supplier].locations
           last == Len(requests)
<1>1. /\ supplier \in DOMAIN Adapters /\ at \in DOMAIN Requests /\ method = "locations"
      /\ Len(Requests) \in Nat /\ at \in 1 .. Len(Requests)
  BY FromTable
<1>2. PICK r \in Replies : /\ outcome \in Requests[at].on[r]
                           /\ r = reply \/ (r = "refused" /\ reply = "expired")
  BY FromTable
<1>3. Requests = requests  BY <1>1, Named DEF Requests
<1>4. /\ outcome \in SearchOutcomes \cup {"again"}
      /\ outcome = "empty" \/ (outcome = "next" /\ at = last) =>
            \/ r \in Lacking
            \/ supplier \in ReadsErrorsAsNone /\ r \in Denied \cup {"error"}
            \/ supplier = "ok_mobility"
  <2> HIDE DEF requests
  <2>1. at \in DOMAIN Adapters[supplier].locations /\ outcome \in Adapters[supplier].locations[at].on[r]
    BY <1>1, <1>2, <1>3 DEF requests
  <2> QED  BY <1>1, <1>2, <2>1, LocationsTable DEF requests
<1>5. ~Continues(outcome) /\ outcome \notin {"found", "more", "raise"} =>
         outcome = "empty" \/ (outcome = "next" /\ at = last)
  BY <1>1, <1>3, <1>4 DEF Continues, SearchOutcomes
<1>6. /\ r \in Lacking => reply \in Lacking
      /\ r \in Denied \cup {"error"} => reply \in Denied \cup {"error"}
  BY <1>2 DEF Lacking, Denied
<1> HIDE DEF requests, last
<1> QED  BY <1>4, <1>5, <1>6

\* What the supplier may have done.
LEMMA DeedsOf ==
  ASSUME NEW reply \in Replies, NEW deed \in Deeds(reply)
  PROVE  /\ deed \in {"done", "not", "later"}
         /\ deed # "not" => Requests[at].acts /\ reply \notin Denied \cup {"unreached"}
         /\ Requests[at].acts /\ reply \in Fruitful => deed = "done"
<1>1. "good" \notin Denied \cup {"unreached"} /\ "mixed" \notin Denied \cup {"unreached"}
  BY DEF Denied
<1> QED  BY <1>1 DEF Deeds, Fruitful

\* A step goes on with the next request or the same one again, or ends the method.
LEMMA Proceeds ==
  ASSUME TypeOK, Runs, method \in {"search", "locations", "create", "cancel"},
         NEW outcome, Proceed(outcome)
  PROVE  /\ Continues(outcome) => at' \in 1 .. Len(Requests) /\ again' \in BOOLEAN
         /\ Continues(outcome) => at' = (IF outcome = "again" THEN at ELSE at + 1)
         /\ ~Continues(outcome) => at' = 0 /\ again' = FALSE
<1>1. Len(Requests) \in Nat /\ at \in 1 .. Len(Requests)  BY At
<1>2. Continues(outcome) /\ outcome # "again" => at < Len(Requests)  BY DEF Continues
<1>3. Continues(outcome) => again' = (outcome = "again")  BY Zenon DEF Proceed
<1>4. Continues(outcome) => again' \in BOOLEAN  BY <1>3, Zenon
<1>5. /\ Continues(outcome) => at' = (IF outcome = "again" THEN at ELSE at + 1)
      /\ ~Continues(outcome) => at' = 0
  BY DEF Proceed
<1>6. ~Continues(outcome) => again' = FALSE  BY Zenon DEF Proceed
<1>7. Continues(outcome) => at' \in 1 .. Len(Requests)  BY <1>1, <1>2, <1>5
<1> QED  BY <1>4, <1>5, <1>6, <1>7

-----------------------------------------------------------------------------
(* Types.                                                                  *)

\* What the methods of a breaker give.
LEMMA BreakersStay ==
  ASSUME NEW b \in Breaker
  PROVE  /\ Checked(b) \in Breaker /\ Checked(b).failures = b.failures
         /\ Aged(b) \in Breaker /\ Aged(b).failures = b.failures
  BY RecoveryTimeoutAssumption
  DEF Breaker, CircuitState, Checked, Rested, Aged

LEMMA OneMoreStays ==
  ASSUME NEW n \in 0 .. FailureCap PROVE OneMore(n) \in 0 .. FailureCap
  BY FailureCapAssumption DEF OneMore

LEMMA OutcomesStay ==
  ASSUME NEW b \in Breaker
  PROVE  /\ RecordSuccess(b) \in Breaker /\ RecordSuccess(b).failures = 0
         /\ RecordFailure(b) \in Breaker /\ RecordFailure(b).failures = OneMore(b.failures)
<1>1. /\ b.state \in CircuitState
      /\ b.failures \in 0 .. FailureCap /\ b.quiet \in 0 .. RecoveryTimeout
  BY DEF Breaker
<1>2. OneMore(b.failures) \in 0 .. FailureCap  BY <1>1, OneMoreStays
<1> QED
  BY <1>1, <1>2, FailureCapAssumption, RecoveryTimeoutAssumption
  DEF RecordSuccess, RecordFailure, Breaker, CircuitState

\* The first state has the types.
LEMMA TypeInit == Init => TypeOK
<1> SUFFICES ASSUME Init PROVE TypeOK  OBVIOUS
<1>1. breaker \in Breaker /\ silent \in 0 .. FailureCap /\ calls \in 0 .. MaxCalls
  BY FailureCapAssumption, RecoveryTimeoutAssumption, MaxCallsAssumption
  DEF Init, NewBreaker, Breaker, CircuitState
<1>2. desk \in Desk /\ desk.made + desk.coming <= 2 * calls  BY DEF Init, Desk
<1>3. again \in BOOLEAN /\ ~again /\ listed \in BOOLEAN  BY DEF Init
<1>4. /\ supplier \in Suppliers /\ user \in Users /\ method \in Methods
      /\ at \in Nat /\ ~(at > 0) /\ seen \subseteq Replies /\ answered \subseteq Entries
      /\ offers \subseteq Entries \X {"offer", "free"}
      /\ told \in Told /\ cancelTold \in CancelTold
  BY DEF Init, Methods, Told, CancelTold
<1> QED  BY <1>1, <1>2, <1>3, <1>4 DEF TypeOK

\* TypeOK but for the bound on reservations, which needs Reserved.
Typed ==
  /\ supplier \in Suppliers /\ user \in Users /\ method \in Methods
  /\ at \in Nat /\ (at > 0 => at \in DOMAIN Adapters[supplier][method])
  /\ again \in BOOLEAN /\ (again => at > 0)
  /\ seen \subseteq Replies /\ answered \subseteq Entries
  /\ offers \subseteq Entries \X {"offer", "free"}
  /\ breaker \in Breaker /\ silent \in 0 .. FailureCap
  /\ listed \in BOOLEAN /\ desk \in Desk /\ calls \in 0 .. MaxCalls
  /\ told \in Told /\ cancelTold \in CancelTold

\* A method begins.
LEMMA Starts ==
  ASSUME TypeOK, NEW m \in {"search", "locations", "create", "cancel"}, Start(m)
  PROVE  /\ supplier' \in Suppliers /\ user' \in Users /\ method' \in Methods
         /\ at' \in Nat /\ (at' > 0 => at' \in DOMAIN Adapters[supplier'][method'])
         /\ again' \in BOOLEAN /\ (again' => at' > 0)
         /\ seen' \subseteq Replies /\ answered' \subseteq Entries
         /\ offers' \subseteq Entries \X {"offer", "free"}
<1>1. IsMethod(Adapters[supplier][m])
  BY Known, Named, SearchIsMethod, LocationsIsMethod, CreateIsMethod, CancelIsMethod
<1>2. at' \in {0, 1} /\ (at' > 0 => at' \in DOMAIN Adapters[supplier][m])
  BY <1>1 DEF Start, IsMethod
<1>3. again = FALSE  BY DEF Start, Runs, TypeOK
<1> QED  BY <1>2, <1>3 DEF Start, TypeOK, Methods

\* A reply comes.
LEMMA Replied ==
  ASSUME TypeOK, NEW m \in {"search", "locations", "create", "cancel"}, NEW reply, NEW outcome,
         Receives(m, reply, outcome), NEW end, Proceed(end), UNCHANGED <<supplier, user, method>>
  PROVE  /\ supplier' \in Suppliers /\ user' \in Users /\ method' \in Methods
         /\ at' \in Nat /\ (at' > 0 => at' \in DOMAIN Adapters[supplier'][method'])
         /\ again' \in BOOLEAN /\ (again' => at' > 0)
         /\ seen' \subseteq Replies
<1>1. /\ reply \in Replies /\ seen' = seen \cup {reply} /\ method = m /\ Runs
      /\ Len(Requests) \in Nat
  BY FromTable
<1>2. /\ Continues(end) => at' \in 1 .. Len(Requests) /\ again' \in BOOLEAN
      /\ ~Continues(end) => at' = 0 /\ again' = FALSE
  BY <1>1, Proceeds
<1>3. DOMAIN Requests = 1 .. Len(Requests)  BY <1>1, At
<1>4. /\ at' \in Nat /\ (at' > 0 => at' \in DOMAIN Requests)
      /\ Continues(end) => at' > 0
  BY <1>1, <1>2, <1>3
<1>5. again' \in BOOLEAN  BY <1>2
<1>6. again' => at' > 0  BY <1>2, <1>4
<1> QED  BY <1>1, <1>4, <1>5, <1>6 DEF TypeOK, Requests

\* The supplier's side of a reservation, when it answers and when it decides.
AfterReply(d, deed) ==
  [d EXCEPT !.made = IF deed = "done" THEN @ + 1 ELSE @,
            !.coming = IF deed = "later" THEN @ + 1 ELSE @]
AfterAll(d, n) == [d EXCEPT !.coming = @ - 1, !.made = @ + n]

LEMMA Reservation ==
  ASSUME NEW d \in Desk, NEW deed
  PROVE  LET e == AfterReply(d, deed) IN
         /\ e \in Desk /\ e.gone = d.gone
         /\ e.made = (IF deed = "done" THEN d.made + 1 ELSE d.made)
         /\ e.coming = (IF deed = "later" THEN d.coming + 1 ELSE d.coming)
<1> DEFINE made == IF deed = "done" THEN d.made + 1 ELSE d.made
           coming == IF deed = "later" THEN d.coming + 1 ELSE d.coming
           e == AfterReply(d, deed)
<1>1. made \in Nat /\ coming \in Nat  BY DEF Desk
<1>2. e = [d EXCEPT !.made = made, !.coming = coming]  BY Zenon DEF AfterReply
<1> HIDE DEF made, coming, e
<1>3. e \in Desk /\ e.gone = d.gone  BY <1>1, <1>2 DEF Desk
<1>4. e.made = made /\ e.coming = coming  BY <1>1, <1>2 DEF Desk
<1> QED  BY <1>3, <1>4 DEF made, coming, e

LEMMA LateReservation ==
  ASSUME NEW d \in Desk, d.coming > 0, NEW n \in {0, 1}
  PROVE  LET e == AfterAll(d, n) IN
         /\ e \in Desk /\ e.gone = d.gone
         /\ e.made = d.made + n /\ e.coming = d.coming - 1
<1> DEFINE made == d.made + n
           coming == d.coming - 1
           e == AfterAll(d, n)
<1>1. made \in Nat /\ coming \in Nat  BY DEF Desk
<1>2. e = [d EXCEPT !.coming = coming, !.made = made]  BY Zenon DEF AfterAll
<1> HIDE DEF made, coming, e
<1>3. e \in Desk /\ e.gone = d.gone  BY <1>1, <1>2 DEF Desk
<1>4. e.made = made /\ e.coming = coming  BY <1>1, <1>2 DEF Desk
<1> QED  BY <1>3, <1>4 DEF made, coming, e

\* The supplier's side of a cancellation, when it answers and when it decides.
AfterDeed(d, deed) == [d EXCEPT !.gone = @ \/ deed = "done", !.going = @ \/ deed = "later"]
AfterDecision(d, carriedOut) == [d EXCEPT !.going = FALSE, !.gone = @ \/ carriedOut]

LEMMA Deed ==
  ASSUME NEW d \in Desk, NEW deed
  PROVE  LET e == AfterDeed(d, deed) IN
         /\ e \in Desk /\ e.made = d.made /\ e.coming = d.coming
         /\ e.gone <=> d.gone \/ deed = "done"
<1> DEFINE gone == d.gone \/ deed = "done"
           going == d.going \/ deed = "later"
           e == AfterDeed(d, deed)
<1>1. gone \in BOOLEAN /\ going \in BOOLEAN  BY Zenon
<1>2. e = [d EXCEPT !.gone = gone, !.going = going]  BY Zenon DEF AfterDeed
<1> HIDE DEF gone, going, e
<1>3. e \in Desk /\ e.made = d.made /\ e.coming = d.coming /\ e.gone = gone
  BY <1>1, <1>2 DEF Desk
<1> QED  BY <1>3, Zenon DEF gone, e

LEMMA Decision ==
  ASSUME NEW d \in Desk, NEW carriedOut \in BOOLEAN
  PROVE  LET e == AfterDecision(d, carriedOut) IN
         /\ e \in Desk /\ e.made = d.made /\ e.coming = d.coming
         /\ d.gone => e.gone
<1> DEFINE gone == d.gone \/ carriedOut
           e == AfterDecision(d, carriedOut)
<1>1. gone \in BOOLEAN  BY Zenon
<1>2. e = [d EXCEPT !.going = FALSE, !.gone = gone]  BY Zenon DEF AfterDecision
<1> HIDE DEF gone, e
<1>3. e \in Desk  BY <1>1, <1>2 DEF Desk
<1>4. e.made = d.made /\ e.coming = d.coming /\ e.gone = gone  BY <1>1, <1>2 DEF Desk
<1> QED  BY <1>3, <1>4, Zenon DEF gone, e

\* What is kept of an answer.
LEMMA KeptOf ==
  ASSUME NEW answer \in Answers, NEW verdict \in Readings(answer)
  PROVE  /\ {answer[i] : i \in DOMAIN answer} \subseteq Entries
         /\ Kept(answer, verdict) \subseteq Entries \X {"offer", "free"}
<1>1. "whole" \in Entries  BY DEF Entries
<1>2. \A i \in DOMAIN answer : answer[i] \in Entries  BY <1>1 DEF Answers
<1> QED  BY <1>2 DEF Kept

LEMMA TypedNext == TypeOK /\ [Next]_vars => Typed'
<1> SUFFICES ASSUME TypeOK, [Next]_vars PROVE Typed'  OBVIOUS
<1>1. CASE Search
  <2>1. Start("search") /\ breaker' = Checked(breaker) /\ UNCHANGED <<silent, listed, booking>>
    BY <1>1 DEF Search
  <2>2. breaker' \in Breaker  BY <2>1, BreakersStay DEF TypeOK
  <2> QED  BY <2>1, <2>2, Starts DEF TypeOK, Typed, booking
<1>2. CASE GetLocations
  <2>1. Start("locations") /\ UNCHANGED <<breaker, silent, listed, booking>>
    BY <1>2 DEF GetLocations
  <2> QED  BY <2>1, Starts DEF TypeOK, Typed, booking
<1>3. CASE CreateBooking
  <2>1. /\ Start("create") /\ calls < MaxCalls /\ calls' = calls + 1
        /\ told' = "failed" \/ told' = told
        /\ UNCHANGED <<breaker, silent, listed, desk, cancelTold>>
    BY <1>3 DEF CreateBooking
  <2>2. calls' \in 0 .. MaxCalls  BY <2>1, MaxCallsAssumption DEF TypeOK
  <2>3. told' \in Told  BY <2>1 DEF TypeOK, Told
  <2> QED  BY <2>1, <2>2, <2>3, Starts DEF TypeOK, Typed
<1>4. CASE CancelBooking
  <2>1. Start("cancel") /\ UNCHANGED <<breaker, silent, listed, booking>>
    BY <1>4 DEF CancelBooking
  <2> QED  BY <2>1, Starts DEF TypeOK, Typed, booking
<1>5. ASSUME NEW good \in BOOLEAN, SearchEnds(good)
      PROVE  breaker' \in Breaker /\ silent' \in 0 .. FailureCap
  BY <1>5, OutcomesStay, OneMoreStays, FailureCapAssumption DEF SearchEnds, TypeOK
<1>6. ASSUME NEW reply, NEW outcome, SearchFinds(reply, outcome) PROVE Typed'
  <2>1. Receives("search", reply, outcome) /\ UNCHANGED <<supplier, user, method, listed, booking>>
    BY <1>6 DEF SearchFinds
  <2>2. PICK answer \in Answers :
           \E verdict \in Readings(answer) :
              /\ answered' = answered \cup {answer[i] : i \in DOMAIN answer}
              /\ \/ offers' = {} /\ Proceed("raise") /\ SearchEnds(FALSE)
                 \/ /\ offers' = offers \cup Kept(answer, verdict) /\ Proceed(outcome)
                    /\ UNCHANGED <<breaker, silent>> \/ SearchEnds(TRUE)
    BY <1>6 DEF SearchFinds
  <2>3. PICK verdict \in Readings(answer) :
              /\ answered' = answered \cup {answer[i] : i \in DOMAIN answer}
              /\ \/ offers' = {} /\ Proceed("raise") /\ SearchEnds(FALSE)
                 \/ /\ offers' = offers \cup Kept(answer, verdict) /\ Proceed(outcome)
                    /\ UNCHANGED <<breaker, silent>> \/ SearchEnds(TRUE)
    BY <2>2
  <2>4. answered' \subseteq Entries /\ offers' \subseteq Entries \X {"offer", "free"}
    BY <2>3, KeptOf DEF TypeOK
  <2>5. breaker' \in Breaker /\ silent' \in 0 .. FailureCap  BY <1>5, <2>3 DEF TypeOK
  <2>6. Proceed("raise") \/ Proceed(outcome)  BY <2>3
  <2> QED  BY <2>1, <2>4, <2>5, <2>6, Replied DEF TypeOK, Typed, booking
<1>7. ASSUME NEW reply, NEW outcome, SearchMisses(reply, outcome) PROVE Typed'
  <2>1. /\ Receives("search", reply, outcome) /\ Proceed(outcome)
        /\ offers' = {} \/ offers' = offers
        /\ UNCHANGED <<breaker, silent>> \/ SearchEnds(outcome # "raise")
        /\ UNCHANGED <<supplier, user, method, answered, listed, booking>>
    BY <1>7 DEF SearchMisses
  <2>2. breaker' \in Breaker /\ silent' \in 0 .. FailureCap  BY <1>5, <2>1 DEF TypeOK
  <2> QED  BY <2>1, <2>2, Replied DEF TypeOK, Typed, booking
<1>8. ASSUME NEW reply, NEW outcome, LocationsReply(reply, outcome) PROVE Typed'
  <2>1. /\ Receives("locations", reply, outcome) /\ Proceed(outcome)
        /\ answered' = {"whole"} \/ answered' = answered
        /\ listed' = listed \/ listed' = (answered' # {})
        /\ UNCHANGED <<supplier, user, method, offers, breaker, silent, booking>>
    BY <1>8, Zenon DEF LocationsReply
  <2>2. answered' \subseteq Entries  BY <2>1 DEF TypeOK, Entries
  <2>3. listed' \in BOOLEAN  BY <2>1, Zenon DEF TypeOK
  <2> QED  BY <2>1, <2>2, <2>3, Replied DEF TypeOK, Typed, booking
<1>9. ASSUME NEW reply, NEW outcome, CreateReply(reply, outcome) PROVE Typed'
  <2>1. /\ Receives("create", reply, outcome) /\ Proceed(outcome)
        /\ \E deed \in Deeds(reply) :
              desk' = [desk EXCEPT !.made = IF deed = "done" THEN @ + 1 ELSE @,
                                   !.coming = IF deed = "later" THEN @ + 1 ELSE @]
        /\ told' = IF Continues(outcome) THEN told ELSE CreateEnds(outcome, reply)
        /\ UNCHANGED <<supplier, user, method, searching, listed, calls, cancelTold>>
    BY <1>9 DEF CreateReply
  <2>2. desk' \in Desk
    <3>1. desk \in Desk  BY DEF TypeOK
    <3>2. PICK deed \in Deeds(reply) : desk' = AfterReply(desk, deed)
      BY <2>1, Zenon DEF AfterReply
    <3>3. AfterReply(desk, deed) \in Desk  BY <3>1, Reservation
    <3> QED  BY <3>2, <3>3
  <2>3. outcome \in CreateOutcomes  BY <2>1, CreateMakes
  <2>4. told' \in Told
    BY <2>1, <2>3 DEF TypeOK, Told, CreateEnds, CreateOutcomes, Continues
  <2> QED  BY <2>1, <2>2, <2>4, Replied DEF TypeOK, Typed, searching
<1>10. ASSUME NEW reply, NEW outcome, CancelReply(reply, outcome) PROVE Typed'
  <2>1. /\ Receives("cancel", reply, outcome) /\ Proceed(outcome)
        /\ \E deed \in Deeds(reply) :
              desk' = [desk EXCEPT !.gone = @ \/ deed = "done", !.going = @ \/ deed = "later"]
        /\ cancelTold' = IF Continues(outcome) THEN cancelTold ELSE CancelEnds(outcome)
        /\ UNCHANGED <<supplier, user, method, searching, listed, calls, told>>
    BY <1>10 DEF CancelReply
  <2>2. desk' \in Desk
    <3>1. desk \in Desk  BY DEF TypeOK
    <3>2. PICK deed \in Deeds(reply) : desk' = AfterDeed(desk, deed)
      BY <2>1, Zenon DEF AfterDeed
    <3>3. AfterDeed(desk, deed) \in Desk  BY <3>1, Deed
    <3> QED  BY <3>2, <3>3
  <2>3. outcome \in CancelOutcomes  BY <2>1, CancelMakes
  <2>4. cancelTold' \in CancelTold
    BY <2>1, <2>3 DEF TypeOK, CancelTold, CancelEnds, CancelOutcomes, Continues
  <2> QED  BY <2>1, <2>2, <2>4, Replied DEF TypeOK, Typed, searching
<1>11. CASE SupplierDecides
  <2>1. ASSUME desk.coming > 0, NEW n \in {0, 1}, desk' = AfterAll(desk, n) PROVE Typed'
    <3>1. desk \in Desk  BY DEF TypeOK
    <3>2. AfterAll(desk, n) \in Desk  BY <2>1, <3>1, LateReservation
    <3>3. desk' \in Desk  BY <2>1, <3>2
    <3> QED  BY <1>11, <3>3 DEF SupplierDecides, TypeOK, Typed, searching
  <2>2. ASSUME NEW carriedOut \in BOOLEAN, desk' = AfterDecision(desk, carriedOut) PROVE Typed'
    <3>1. desk \in Desk  BY DEF TypeOK
    <3>2. AfterDecision(desk, carriedOut) \in Desk  BY <3>1, Decision
    <3>3. desk' \in Desk  BY <2>2, <3>2
    <3> QED  BY <1>11, <3>3 DEF SupplierDecides, TypeOK, Typed, searching
  <2> QED  BY <1>11, <2>1, <2>2, Zenon DEF SupplierDecides, AfterAll, AfterDecision
<1>12. CASE Tick
  <2>1. breaker' \in Breaker  BY <1>12, BreakersStay DEF Tick, TypeOK
  <2> QED  BY <1>12, <2>1 DEF Tick, TypeOK, Typed, booking
<1>13. CASE UNCHANGED vars
  BY <1>13 DEF vars, searching, booking, TypeOK, Typed
<1> QED
  BY <1>1, <1>2, <1>3, <1>4, <1>6, <1>7, <1>8, <1>9, <1>10, <1>11, <1>12, <1>13 DEF Next, Reply

-----------------------------------------------------------------------------
(* Booking.                                                                *)

LEMMA BookingInit == Init => BookingInv
  BY DEF Init, BookingInv, Reserved, LostOnTheWay, NullEnds, Running, Runs, Reservations, Ended,
         FailedIsRetriable, ConfirmedIsReserved, CancelReplyIsTrue

\* Steps of the other users.
LEMMA BookingElsewhere ==
  ASSUME BookingInv, ~Running("create"), method' \in {"search", "locations"},
         UNCHANGED <<supplier, booking>>
  PROVE  BookingInv'
<1>1. Reserved'  BY DEF BookingInv, Reserved, Running, Reservations, booking
<1>2. LostOnTheWay' /\ NullEnds'  BY DEF LostOnTheWay, NullEnds, Running
<1>3. FailedIsRetriable' /\ ConfirmedIsReserved' /\ CancelReplyIsTrue'
  BY DEF FailedIsRetriable, ConfirmedIsReserved, CancelReplyIsTrue, Ended
<1> QED  BY <1>1, <1>2, <1>3 DEF BookingInv

\* A call begins with no reservation that was not there before.
LEMMA CreateBookingStep ==
  ASSUME TypeOK, BookingInv, CreateBooking
  PROVE  BookingInv'
<1>1. /\ ~Runs /\ method' = "create" /\ seen' = {} /\ supplier' = supplier
      /\ at' = (IF Adapters[supplier].create = <<>> THEN 0 ELSE 1)
      /\ calls' = calls + 1 /\ desk' = desk
      /\ told' = (IF Adapters[supplier].create = <<>> THEN "failed" ELSE told)
  BY Known, Named DEF CreateBooking, Start, Unsupported
<1>2. /\ calls \in Nat /\ Reservations \in Nat /\ Reservations' = Reservations
      /\ Reservations <= (IF supplier = "ok_mobility" THEN 2 * calls ELSE calls)
  BY <1>1, MaxCallsAssumption DEF TypeOK, Desk, Reservations, BookingInv, Reserved, Running
<1>3. calls' = 1 => Reservations' = 0  BY <1>1, <1>2
<1>4. Reserved'
  <2> HIDE DEF Reservations
  <2> QED  BY <1>1, <1>2 DEF Reserved, Running, Runs
<1>5. LostOnTheWay'  BY <1>3 DEF LostOnTheWay
<1>6. NullEnds'  BY <1>1 DEF NullEnds
<1>7. FailedIsRetriable'
  BY <1>3 DEF FailedIsRetriable, Reservations
<1>8. ConfirmedIsReserved'
  BY <1>1 DEF ConfirmedIsReserved, Ended, Runs
<1>9. CancelReplyIsTrue'
  BY <1>1 DEF CancelReplyIsTrue, Ended
<1> QED  BY <1>4, <1>5, <1>6, <1>7, <1>8, <1>9 DEF BookingInv

LEMMA CancelBookingStep ==
  ASSUME TypeOK, BookingInv, CancelBooking
  PROVE  BookingInv'
<1>1. /\ ~Runs /\ method' = "cancel" /\ seen' = {} /\ cancelTold' # "cancelled"
      /\ UNCHANGED <<supplier, booking>>
  BY DEF CancelBooking, Start, booking
<1>2. Reserved'
  BY <1>1 DEF BookingInv, Reserved, Running, Reservations, booking
<1>3. LostOnTheWay' /\ NullEnds'  BY <1>1 DEF LostOnTheWay, NullEnds, Running
<1>4. FailedIsRetriable' /\ ConfirmedIsReserved'
  BY <1>1 DEF FailedIsRetriable, ConfirmedIsReserved, Ended
<1>5. CancelReplyIsTrue'  BY <1>1 DEF CancelReplyIsTrue
<1> QED  BY <1>2, <1>3, <1>4, <1>5 DEF BookingInv

\* What the reply to a request of a reservation does to the booking.
LEMMA CreateReplyStep ==
  ASSUME TypeOK, BookingInv, NEW reply, NEW outcome, CreateReply(reply, outcome)
  PROVE  BookingInv'
<1>1. /\ Receives("create", reply, outcome) /\ Proceed(outcome)
      /\ told' = IF Continues(outcome) THEN told ELSE CreateEnds(outcome, reply)
      /\ UNCHANGED <<supplier, method, calls>>
  BY DEF CreateReply
<1>2. PICK deed \in Deeds(reply) : desk' = AfterReply(desk, deed)
  BY Zenon DEF CreateReply, AfterReply
<1>3. /\ method = "create" /\ Runs /\ reply \in Replies /\ seen' = seen \cup {reply}
      /\ Len(Requests) \in Nat /\ at \in 1 .. Len(Requests)
      /\ reply = "nulled" => Requests[at].acts
  BY <1>1, FromTable
<1>4. /\ deed \in {"done", "not", "later"}
      /\ deed # "not" => Requests[at].acts /\ reply \notin Denied \cup {"unreached"}
      /\ Requests[at].acts /\ reply \in Fruitful => deed = "done"
  BY <1>3, DeedsOf
<1>5. /\ Continues(outcome) => at' = (IF outcome = "again" THEN at ELSE at + 1)
      /\ ~Continues(outcome) => at' = 0
  BY <1>1, <1>3, Proceeds
<1>6. /\ desk.made \in Nat /\ desk.coming \in Nat /\ calls \in Nat
      /\ desk'.made = (IF deed = "done" THEN desk.made + 1 ELSE desk.made)
      /\ desk'.coming = (IF deed = "later" THEN desk.coming + 1 ELSE desk.coming)
  <2>1. desk \in Desk /\ calls \in Nat  BY MaxCallsAssumption DEF TypeOK
  <2>2. /\ desk'.made = (IF deed = "done" THEN desk.made + 1 ELSE desk.made)
        /\ desk'.coming = (IF deed = "later" THEN desk.coming + 1 ELSE desk.coming)
    BY <1>2, <2>1, Reservation
  <2> QED  BY <2>1, <2>2 DEF Desk
<1>7. /\ Reservations \in Nat /\ Reservations' \in Nat
      /\ Reservations' = (IF deed = "not" THEN Reservations ELSE Reservations + 1)
  BY <1>4, <1>6 DEF Reservations
<1>8. /\ Running("create") /\ method' = "create"
      /\ Running("create")' <=> Continues(outcome)
  <2>1. Continues(outcome) => at' > 0  BY <1>3, <1>5
  <2> QED  BY <1>1, <1>3, <1>5, <2>1 DEF Running, Runs
<1> DEFINE acts == Requests[at].acts
<1>9. /\ outcome \in CreateOutcomes
      /\ Continues(outcome) =>
            \/ ~acts
            \/ reply \in Denied /\ supplier # "ok_mobility"
            \/ reply \in Lost /\ supplier = "ok_mobility" /\ at = 1
      /\ Continues(outcome) /\ supplier = "ok_mobility" => outcome = "next" /\ at = 1
      /\ supplier = "ok_mobility" => Len(Requests) = 2
      /\ Continues(outcome) => reply # "nulled"
  BY <1>1, CreateMakes
<1>10. /\ outcome = "confirmed" =>
            \/ acts /\ reply \in Fruitful
            \/ reply = "nulled" /\ supplier \in ReadsNullAsReference
            \/ reply \in Ambiguous /\ supplier \in TrustsTheCommit
       /\ acts /\ reply = "good" => outcome = "confirmed"
       /\ acts /\ reply = "mixed" => outcome = "confirmed" \/ supplier \in DropsMixed
       /\ acts /\ reply = "timeout" => outcome = "raise" \/ supplier \in CatchesTimeouts
  BY <1>1, CreateMakes
<1> HIDE DEF acts
<1>11. /\ deed # "not" => acts /\ reply \notin Denied \cup {"unreached"}
       /\ acts /\ reply \in Fruitful => deed = "done"
  BY <1>4 DEF acts
<1>12. Reserved'
  <2>1. Reserved  BY DEF BookingInv
  <2>2. Continues(outcome) /\ supplier # "ok_mobility" => deed = "not"  BY <1>9, <1>11
  <2>3. Continues(outcome) /\ supplier = "ok_mobility" => at = 1 /\ at' = 2
    BY <1>5, <1>9
  <2> HIDE DEF Reservations
  <2>4. CASE supplier = "ok_mobility"
    <3>1. Reservations <= 2 * calls - (3 - at)  BY <2>1, <2>4, <1>8 DEF Reserved
    <3>2. at <= 2 /\ at \in Nat
      <4>1. Len(Requests) = 2  BY <1>9, <2>4
      <4>2. at \in 1 .. 2  BY <1>3, <4>1
      <4> QED  BY <4>2
    <3>3. Reservations' <= 2 * calls' - (IF Continues(outcome) THEN 3 - at' ELSE 0)
      BY <1>1, <1>6, <1>7, <2>3, <2>4, <3>1, <3>2
    <3> QED  BY <1>1, <1>8, <2>4, <3>3 DEF Reserved
  <2>5. CASE supplier # "ok_mobility"
    <3>1. Reservations <= calls - 1  BY <2>1, <2>5, <1>8 DEF Reserved
    <3>2. Reservations' <= calls' - (IF Continues(outcome) THEN 1 ELSE 0)
      BY <1>1, <1>6, <1>7, <2>2, <2>5, <3>1
    <3> QED  BY <1>1, <1>8, <2>5, <3>2 DEF Reserved
  <2> QED  BY <2>4, <2>5
<1>13. LostOnTheWay'
  <2> SUFFICES ASSUME Continues(outcome), calls = 1, Reservations' > 0
               PROVE  supplier = "ok_mobility" /\ seen' \cap {"timeout", "broken"} # {}
    BY <1>1, <1>8 DEF LostOnTheWay
  <2>1. CASE deed = "not"
    <3>1. Reservations > 0  BY <1>7, <2>1
    <3> QED  BY <1>3, <1>8, <3>1 DEF BookingInv, LostOnTheWay
  <2>2. CASE deed # "not"
    <3>1. supplier = "ok_mobility" /\ reply \in Lost /\ reply # "unreached"
      BY <1>9, <1>11, <2>2
    <3> QED  BY <1>3, <3>1 DEF Lost
  <2> QED  BY <2>1, <2>2
<1>14. NullEnds'
  <2>1. "nulled" \notin seen  BY <1>8 DEF BookingInv, NullEnds
  <2> QED  BY <1>3, <1>8, <1>9, <2>1 DEF NullEnds
<1>15. ~Continues(outcome) => told' = CreateEnds(outcome, reply)  BY <1>1
<1>16. Ended("create")' <=> ~Continues(outcome)  BY <1>8 DEF Ended, Running
<1>17. FailedIsRetriable'
  <2> SUFFICES ASSUME ~Continues(outcome), calls = 1, told' = "failed", Reservations' > 0
               PROVE  \/ seen' \cap (Ambiguous \cup {"broken"}) # {}
                      \/ supplier \in CatchesTimeouts /\ "timeout" \in seen'
                      \/ supplier \in DropsMixed /\ "mixed" \in seen'
    BY <1>1, <1>16 DEF FailedIsRetriable, Reservations
  <2>1. outcome # "confirmed" /\ ~(outcome = "raise" /\ reply = "timeout")
    BY <1>15 DEF CreateEnds
  <2>2. CASE deed = "not"
    <3>1. Reservations > 0  BY <1>7, <2>2
    <3>2. supplier = "ok_mobility" /\ seen \cap {"timeout", "broken"} # {}
      BY <1>8, <3>1 DEF BookingInv, LostOnTheWay
    <3> QED  BY <1>3, <3>2 DEF CatchesTimeouts
  <2>3. CASE deed # "not"
    <3>1. acts /\ reply \notin Denied \cup {"unreached"} /\ reply # "good"
      BY <1>10, <1>11, <2>1, <2>3
    <3>2. reply \in {"mixed", "timeout", "broken"} \cup Ambiguous
      BY <1>3, <3>1 DEF Replies, Denied, Ambiguous, Lacking, Unreadable
    <3> QED  BY <1>3, <1>10, <2>1, <3>1, <3>2
  <2> QED  BY <2>2, <2>3
<1>18. ConfirmedIsReserved'
  <2> SUFFICES ASSUME ~Continues(outcome), told' = "confirmed"
               PROVE  \/ desk'.made > 0 /\ "nulled" \notin seen'
                      \/ supplier \in ReadsNullAsReference /\ "nulled" \in seen'
                      \/ supplier \in TrustsTheCommit /\ seen' \cap Ambiguous # {}
    BY <1>1, <1>16 DEF ConfirmedIsReserved
  <2>1. outcome = "confirmed"  BY <1>15 DEF CreateEnds
  <2>2. CASE acts /\ reply \in Fruitful
    <3>1. desk'.made > 0  BY <1>6, <1>11, <2>2
    <3>2. "nulled" \notin seen /\ reply # "nulled"  BY <1>8, <2>2 DEF BookingInv, NullEnds, Fruitful
    <3> QED  BY <1>3, <3>1, <3>2
  <2>3. CASE reply = "nulled" /\ supplier \in ReadsNullAsReference  BY <1>3, <2>3
  <2>4. CASE reply \in Ambiguous /\ supplier \in TrustsTheCommit  BY <1>3, <2>4
  <2> QED  BY <1>10, <2>1, <2>2, <2>3, <2>4
<1>19. CancelReplyIsTrue'  BY <1>8 DEF CancelReplyIsTrue, Ended
<1> QED  BY <1>12, <1>13, <1>14, <1>17, <1>18, <1>19 DEF BookingInv

\* What the reply to a request of a cancellation does to it.
LEMMA CancelReplyStep ==
  ASSUME TypeOK, BookingInv, NEW reply, NEW outcome, CancelReply(reply, outcome)
  PROVE  BookingInv'
<1>1. /\ Receives("cancel", reply, outcome) /\ Proceed(outcome)
      /\ cancelTold' = IF Continues(outcome) THEN cancelTold ELSE CancelEnds(outcome)
      /\ UNCHANGED <<supplier, method, calls, told>>
  BY DEF CancelReply
<1>2. PICK deed \in Deeds(reply) : desk' = AfterDeed(desk, deed)
  BY Zenon DEF CancelReply, AfterDeed
<1>3. /\ method = "cancel" /\ Runs /\ reply \in Replies /\ seen' = seen \cup {reply}
      /\ Len(Requests) \in Nat /\ at \in 1 .. Len(Requests)
  BY <1>1, FromTable
<1>4. /\ Continues(outcome) => at' = (IF outcome = "again" THEN at ELSE at + 1)
      /\ ~Continues(outcome) => at' = 0
  BY <1>1, <1>3, Proceeds
<1>5. Ended("cancel")' => ~Continues(outcome)
  BY <1>3, <1>4 DEF Ended, Runs
<1>6. desk'.made = desk.made /\ desk'.coming = desk.coming
  BY <1>2, Deed DEF TypeOK
<1>7. Reserved'
  BY <1>1, <1>3, <1>6 DEF BookingInv, Reserved, Running, Reservations
<1>8. LostOnTheWay' /\ NullEnds'  BY <1>1, <1>3 DEF LostOnTheWay, NullEnds, Running
<1>9. FailedIsRetriable' /\ ConfirmedIsReserved'
  BY <1>1, <1>3 DEF FailedIsRetriable, ConfirmedIsReserved, Ended
<1>10. CancelReplyIsTrue'
  <2> SUFFICES ASSUME ~Continues(outcome), Ended("cancel")'
               PROVE  /\ cancelTold' = "cancelled" /\ ~desk'.gone =>
                            seen' \cap Ambiguous # {} \/ supplier \in CancelsBlindly
                      /\ seen' = {"good"} => cancelTold' = "cancelled" \/ supplier = "click2rent"
    BY <1>1, <1>5 DEF CancelReplyIsTrue
  <2>1. cancelTold' = CancelEnds(outcome)  BY <1>1
  <2>2. cancelTold' = "cancelled" <=> outcome = "cancelled"  BY <2>1 DEF CancelEnds
  <2>3. /\ outcome = "cancelled" =>
               \/ Requests[at].acts /\ reply \in Fruitful
               \/ reply \in Ambiguous
               \/ supplier \in CancelsBlindly
        /\ reply = "good" => outcome = "cancelled" \/ supplier = "click2rent"
    BY <1>1, CancelMakes
  <2>4. Requests[at].acts /\ reply \in Fruitful => desk'.gone
    <3>1. Requests[at].acts /\ reply \in Fruitful => deed = "done"  BY <1>3, DeedsOf
    <3>2. desk \in Desk  BY DEF TypeOK
    <3>3. deed = "done" => AfterDeed(desk, deed).gone  BY <3>2, Deed
    <3> QED  BY <1>2, <3>1, <3>3
  <2>5. cancelTold' = "cancelled" /\ ~desk'.gone =>
           seen' \cap Ambiguous # {} \/ supplier \in CancelsBlindly
    BY <1>3, <2>2, <2>3, <2>4
  <2>6. seen' = {"good"} => cancelTold' = "cancelled" \/ supplier = "click2rent"
    BY <1>3, <2>2, <2>3
  <2> QED  BY <2>5, <2>6
<1> QED  BY <1>7, <1>8, <1>9, <1>10 DEF BookingInv

\* What the supplier does later adds no reservation, and takes back nothing.
LEMMA SupplierDecidesStep ==
  ASSUME TypeOK, BookingInv, SupplierDecides
  PROVE  BookingInv'
<1>1. desk \in Desk /\ desk.made \in Nat /\ desk.coming \in Nat  BY DEF TypeOK, Desk
<1>2. /\ desk'.made \in Nat /\ desk'.coming \in Nat
      /\ desk'.made + desk'.coming <= desk.made + desk.coming
      /\ desk'.made >= desk.made
      /\ desk.gone => desk'.gone
  <2>1. ASSUME desk.coming > 0, NEW n \in {0, 1}, desk' = AfterAll(desk, n)
        PROVE  /\ desk'.made \in Nat /\ desk'.coming \in Nat
               /\ desk'.made + desk'.coming <= desk.made + desk.coming
               /\ desk'.made >= desk.made
               /\ desk.gone => desk'.gone
    BY <1>1, <2>1, LateReservation
  <2>2. ASSUME NEW carriedOut \in BOOLEAN, desk' = AfterDecision(desk, carriedOut)
        PROVE  /\ desk'.made \in Nat /\ desk'.coming \in Nat
               /\ desk'.made + desk'.coming <= desk.made + desk.coming
               /\ desk'.made >= desk.made
               /\ desk.gone => desk'.gone
    BY <1>1, <2>2, Decision
  <2> QED  BY <2>1, <2>2, Zenon DEF SupplierDecides, AfterAll, AfterDecision
<1>3. UNCHANGED <<supplier, method, at, seen, calls, told, cancelTold>>
  BY DEF SupplierDecides
<1>4. Reservations \in Nat /\ Reservations' \in Nat /\ Reservations' <= Reservations
  BY <1>1, <1>2 DEF Reservations
<1>5. Reserved'
  <2>1. calls \in Nat /\ at \in Nat  BY MaxCallsAssumption DEF TypeOK
  <2> HIDE DEF Reservations
  <2> QED  BY <1>3, <1>4, <2>1 DEF BookingInv, Reserved, Running, Runs
<1>6. LostOnTheWay'
  BY <1>3, <1>4 DEF BookingInv, LostOnTheWay, Running, Runs
<1>7. NullEnds'
  BY <1>3 DEF BookingInv, NullEnds, Running, Runs
<1>8. FailedIsRetriable'
  BY <1>1, <1>2, <1>3 DEF BookingInv, FailedIsRetriable, Ended, Runs
<1>9. ConfirmedIsReserved'
  BY <1>1, <1>2, <1>3 DEF BookingInv, ConfirmedIsReserved, Ended, Runs
<1>10. CancelReplyIsTrue'
  BY <1>2, <1>3 DEF BookingInv, CancelReplyIsTrue, Ended, Runs
<1> QED  BY <1>5, <1>6, <1>7, <1>8, <1>9, <1>10 DEF BookingInv

\* Every step keeps what holds of the booking.
LEMMA BookingNext == TypeOK /\ BookingInv /\ [Next]_vars => BookingInv'
<1> SUFFICES ASSUME TypeOK, BookingInv, [Next]_vars PROVE BookingInv'  OBVIOUS
<1>1. CASE Search
  BY <1>1, BookingElsewhere DEF Search, Start, Running
<1>2. CASE GetLocations
  BY <1>2, BookingElsewhere DEF GetLocations, Start, Running
<1>3. CASE CreateBooking  BY <1>3, CreateBookingStep
<1>4. CASE CancelBooking  BY <1>4, CancelBookingStep
<1>5. ASSUME NEW reply, NEW outcome, SearchFinds(reply, outcome) PROVE BookingInv'
  BY <1>5, BookingElsewhere DEF SearchFinds, Receives, Running
<1>6. ASSUME NEW reply, NEW outcome, SearchMisses(reply, outcome) PROVE BookingInv'
  BY <1>6, BookingElsewhere DEF SearchMisses, Receives, Running
<1>7. ASSUME NEW reply, NEW outcome, LocationsReply(reply, outcome) PROVE BookingInv'
  BY <1>7, BookingElsewhere DEF LocationsReply, Receives, Running
<1>8. ASSUME NEW reply, NEW outcome, CreateReply(reply, outcome) PROVE BookingInv'
  BY <1>8, CreateReplyStep
<1>9. ASSUME NEW reply, NEW outcome, CancelReply(reply, outcome) PROVE BookingInv'
  BY <1>9, CancelReplyStep
<1>10. CASE SupplierDecides  BY <1>10, SupplierDecidesStep
<1>11. ASSUME UNCHANGED <<supplier, method, at, seen, booking>> PROVE BookingInv'
  <2>1. Reserved' /\ LostOnTheWay' /\ NullEnds'
    BY <1>11 DEF BookingInv, Reserved, LostOnTheWay, NullEnds, Running, Runs, Reservations, booking
  <2>2. FailedIsRetriable' /\ ConfirmedIsReserved' /\ CancelReplyIsTrue'
    BY <1>11 DEF BookingInv, FailedIsRetriable, ConfirmedIsReserved, CancelReplyIsTrue,
                 Ended, Runs, booking
  <2> QED  BY <2>1, <2>2 DEF BookingInv
<1>12. CASE Tick  BY <1>11, <1>12 DEF Tick
<1>13. CASE UNCHANGED vars  BY <1>11, <1>13 DEF vars
<1> QED
  BY <1>1, <1>2, <1>3, <1>4, <1>5, <1>6, <1>7, <1>8, <1>9, <1>10, <1>12, <1>13 DEF Next, Reply

-----------------------------------------------------------------------------
(* Searching.                                                              *)

LEMMA SearchInit == Init => SearchInv
  BY DEF Init, SearchInv, CountsLosses, MoreIsLast, OfferedSoFar, OwnCarsAreLeftOut,
         Running, Runs, Ended, SoundVehiclesAreOffered, NothingIsFree, NewBreaker

\* One more search lost is counted on both sides.
LEMMA CountsGrow ==
  ASSUME NEW m \in 0 .. FailureCap, NEW n \in 0 .. FailureCap, m >= n
  PROVE  OneMore(m) >= OneMore(n) /\ OneMore(m) >= 0
  BY FailureCapAssumption DEF OneMore

\* Steps of the other users, and of the breaker's clock.
LEMMA SearchElsewhere ==
  ASSUME TypeOK, SearchInv,
         UNCHANGED <<supplier, silent>>, breaker' = breaker \/ breaker' = Aged(breaker),
         \/ UNCHANGED <<method, at, seen, answered, offers>>
         \/ offers' = {} /\ method' # "search"
         \/ offers' = offers /\ method' # "search"
  PROVE  SearchInv'
<1>1. breaker'.failures = breaker.failures  BY BreakersStay DEF TypeOK
<1>2. CountsLosses'  BY <1>1 DEF SearchInv, CountsLosses
<1>3. MoreIsLast' /\ OfferedSoFar' /\ OwnCarsAreLeftOut'
  BY DEF SearchInv, MoreIsLast, OfferedSoFar, OwnCarsAreLeftOut, Running, Runs
<1>4. SoundVehiclesAreOffered'
  BY DEF SearchInv, SoundVehiclesAreOffered, Ended, Runs
<1>5. NothingIsFree'
  BY DEF SearchInv, NothingIsFree
<1> QED  BY <1>2, <1>3, <1>4, <1>5 DEF SearchInv

\* A search begins with nothing.
LEMMA SearchStep ==
  ASSUME TypeOK, SearchInv, Search
  PROVE  SearchInv'
<1>1. /\ answered' = {} /\ offers' = {} /\ UNCHANGED <<supplier, silent>>
      /\ breaker' = Checked(breaker)
  BY DEF Search, Start
<1>4. OwnCarsAreLeftOut'  BY DEF Search, Start, OwnCarsAreLeftOut
<1>2. breaker'.failures = breaker.failures  BY <1>1, BreakersStay DEF TypeOK
<1>3. CountsLosses'  BY <1>1, <1>2 DEF SearchInv, CountsLosses
<1> QED
  BY <1>1, <1>3, <1>4
  DEF SearchInv, MoreIsLast, OfferedSoFar, SoundVehiclesAreOffered, NothingIsFree

\* The end of a search.
LEMMA EndCounts ==
  ASSUME TypeOK, CountsLosses, NEW good \in BOOLEAN, SearchEnds(good), UNCHANGED supplier,
         good /\ supplier \notin HidesLosses => ~(seen' \subseteq Lost)
  PROVE  CountsLosses'
<1>1. /\ breaker \in Breaker /\ breaker.failures \in 0 .. FailureCap /\ silent \in 0 .. FailureCap
      /\ FailureCap \in Nat
  BY FailureCapAssumption DEF TypeOK, Breaker
<1>2. /\ breaker' = (IF good THEN RecordSuccess(breaker) ELSE RecordFailure(breaker))
      /\ silent' = (IF seen' \subseteq Lost THEN OneMore(silent) ELSE 0)
  BY DEF SearchEnds
<1> SUFFICES ASSUME supplier \notin HidesLosses PROVE breaker'.failures >= silent'
  BY DEF CountsLosses
<1>3. breaker.failures >= silent  BY DEF CountsLosses
<1>4. CASE good
  BY <1>1, <1>2, <1>4, OutcomesStay
<1>5. CASE ~good
  <2>1. breaker'.failures = OneMore(breaker.failures)  BY <1>1, <1>2, <1>5, OutcomesStay
  <2>2. OneMore(breaker.failures) >= OneMore(silent) /\ OneMore(breaker.failures) >= 0
    BY <1>1, <1>3, CountsGrow
  <2> QED  BY <1>2, <2>1, <2>2
<1> QED  BY <1>4, <1>5

\* What is read of an answer.
Spoils(s, answer) == Spoiled(s, {answer[i] : i \in DOMAIN answer})

LEMMA Reads ==
  ASSUME NEW s \in DOMAIN Adapters, supplier = s, NEW answer \in Answers,
         NEW verdict \in Readings(answer)
  PROVE  /\ (\E i \in DOMAIN answer : verdict[i] = "raise") => Spoils(s, answer)
         /\ \A i \in DOMAIN answer : answer[i] = "whole" =>
               <<"whole", "offer">> \in Kept(answer, verdict) \/ Spoils(s, answer)
         /\ s \notin DefaultsToZero \cup {"internal"} =>
               \A o \in Kept(answer, verdict) : o[2] # "free"
<1>1. /\ DOMAIN answer \in {{1}, {1, 2}}
      /\ \A i \in DOMAIN answer : answer[i] \in Entries
  <2>1. "whole" \in Entries  BY DEF Entries
  <2> QED  BY <2>1 DEF Answers
<1>2. \A i \in DOMAIN answer : verdict[i] \in Adapters[s].reading[answer[i]]
  BY DEF Readings
<1>3. \A i \in DOMAIN answer :
         /\ verdict[i] \in Verdicts
         /\ answer[i] = "whole" => verdict[i] = "offer"
         /\ ~Harms(s, answer[i]) => verdict[i] \notin {"stop", "raise"}
         /\ s \notin DefaultsToZero \cup {"internal"} => verdict[i] # "free"
  <2> SUFFICES ASSUME NEW i \in DOMAIN answer
               PROVE  /\ verdict[i] \in Verdicts
                      /\ answer[i] = "whole" => verdict[i] = "offer"
                      /\ ~Harms(s, answer[i]) => verdict[i] \notin {"stop", "raise"}
                      /\ s \notin DefaultsToZero \cup {"internal"} => verdict[i] # "free"
    OBVIOUS
  <2> DEFINE e == answer[i]
             verdicts == Adapters[s].reading[e]
  <2>1. e \in Entries /\ verdict[i] \in verdicts  BY <1>1, <1>2
  <2>2. /\ verdicts \subseteq Verdicts
        /\ e = "whole" => verdicts = {"offer"}
        /\ ~Harms(s, e) => verdicts \cap {"stop", "raise"} = {}
        /\ s \notin DefaultsToZero \cup {"internal"} => "free" \notin verdicts
    BY <2>1, ReadingTable
  <2> HIDE DEF verdicts
  <2> QED  BY <2>1, <2>2
<1>4. \A i \in DOMAIN answer : verdict[i] \in {"stop", "raise"} => Spoils(s, answer)
  <2> SUFFICES ASSUME NEW i \in DOMAIN answer, verdict[i] \in {"stop", "raise"}
               PROVE  Spoils(s, answer)
    OBVIOUS
  <2>1. Harms(s, answer[i])  BY <1>3
  <2> QED  BY <2>1 DEF Spoils, Spoiled, Harms
<1>5. ASSUME NEW i \in DOMAIN answer, answer[i] = "whole"
      PROVE  <<"whole", "offer">> \in Kept(answer, verdict) \/ Spoils(s, answer)
  <2>1. verdict[i] = "offer"  BY <1>3, <1>5
  <2>2. CASE \A j \in 1 .. i : verdict[j] # "stop"
    BY <1>5, <2>1, <2>2 DEF Kept
  <2>3. CASE \E j \in 1 .. i : verdict[j] = "stop"
    <3>1. PICK j \in 1 .. i : verdict[j] = "stop"  BY <2>3
    <3>2. j \in DOMAIN answer  BY <1>1, <3>1
    <3> QED  BY <1>4, <3>1, <3>2
  <2> QED  BY <2>2, <2>3
<1>6. s \notin DefaultsToZero \cup {"internal"} => \A o \in Kept(answer, verdict) : o[2] # "free"
  BY <1>3 DEF Kept
<1> QED  BY <1>4, <1>5, <1>6

\* The reply to a request of a search has vehicles.
LEMMA SearchFindsStep ==
  ASSUME TypeOK, SearchInv, NEW reply, NEW outcome, SearchFinds(reply, outcome)
  PROVE  SearchInv'
<1>1. /\ Receives("search", reply, outcome) /\ outcome \in {"found", "more"}
      /\ UNCHANGED <<supplier, method>>
  BY DEF SearchFinds
<1>2. PICK answer \in Answers :
         \E verdict \in Readings(answer) :
            /\ answered' = answered \cup {answer[i] : i \in DOMAIN answer}
            /\ IF \E i \in DOMAIN answer : verdict[i] = "raise"
               THEN offers' = {} /\ Proceed("raise") /\ SearchEnds(FALSE)
               ELSE /\ offers' = offers \cup Kept(answer, verdict)
                    /\ Proceed(outcome)
                    /\ IF Continues(outcome) THEN UNCHANGED <<breaker, silent>> ELSE SearchEnds(TRUE)
  BY DEF SearchFinds
<1>3. PICK verdict \in Readings(answer) :
            /\ answered' = answered \cup {answer[i] : i \in DOMAIN answer}
            /\ IF \E i \in DOMAIN answer : verdict[i] = "raise"
               THEN offers' = {} /\ Proceed("raise") /\ SearchEnds(FALSE)
               ELSE /\ offers' = offers \cup Kept(answer, verdict)
                    /\ Proceed(outcome)
                    /\ IF Continues(outcome) THEN UNCHANGED <<breaker, silent>> ELSE SearchEnds(TRUE)
  BY <1>2
<1>4. /\ supplier \in DOMAIN Adapters /\ method = "search" /\ Runs
      /\ Len(Requests) \in Nat /\ at \in 1 .. Len(Requests)
      /\ reply \in Replies /\ seen' = seen \cup {reply}
  BY <1>1, FromTable
<1>10. supplier # "internal"  BY <1>4 DEF SearchInv, OwnCarsAreLeftOut, Running
<1>5. /\ supplier \notin HidesLosses => reply \notin Lost
      /\ outcome = "more" /\ Continues(outcome) => Later(supplier, at + 1)
  BY <1>1, <1>10, SearchMakes
<1>6. /\ (\E i \in DOMAIN answer : verdict[i] = "raise") => Spoils(supplier, answer)
      /\ \A i \in DOMAIN answer : answer[i] = "whole" =>
            <<"whole", "offer">> \in Kept(answer, verdict) \/ Spoils(supplier, answer)
      /\ supplier \notin DefaultsToZero => \A o \in Kept(answer, verdict) : o[2] # "free"
  BY <1>4, <1>10, Reads
<1>7. /\ Spoils(supplier, answer) => Spoiled(supplier, answered')
      /\ Spoiled(supplier, answered) => Spoiled(supplier, answered')
  BY <1>3 DEF Spoils, Spoiled
<1>8. CASE \E i \in DOMAIN answer : verdict[i] = "raise"
  <2>1. offers' = {} /\ Proceed("raise") /\ SearchEnds(FALSE)  BY <1>3, <1>8
  <2>2. at' = 0  BY <2>1 DEF Proceed, Continues
  <2>3. CountsLosses'  BY <1>1, <2>1, EndCounts DEF SearchInv
  <2>4. MoreIsLast' /\ OfferedSoFar' /\ OwnCarsAreLeftOut'
    BY <2>2 DEF MoreIsLast, OfferedSoFar, OwnCarsAreLeftOut, Running, Runs
  <2>5. SoundVehiclesAreOffered'
    BY <1>1, <1>6, <1>7, <1>8 DEF SoundVehiclesAreOffered, Spoiled
  <2>6. NothingIsFree'  BY <2>1 DEF NothingIsFree
  <2> QED  BY <2>3, <2>4, <2>5, <2>6 DEF SearchInv
<1>9. CASE ~\E i \in DOMAIN answer : verdict[i] = "raise"
  <2>1. /\ offers' = offers \cup Kept(answer, verdict) /\ Proceed(outcome)
        /\ IF Continues(outcome) THEN UNCHANGED <<breaker, silent>> ELSE SearchEnds(TRUE)
    BY <1>3, <1>9
  <2>2. /\ Continues(outcome) => outcome = "more" /\ at' = at + 1
        /\ ~Continues(outcome) => at' = 0
    <3>1. Continues(outcome) => outcome = "more"  BY <1>1 DEF Continues
    <3> QED  BY <1>1, <1>4, <2>1, <3>1, Proceeds
  <2>3. CountsLosses'
    <3>1. CASE Continues(outcome)
      BY <1>1, <2>1, <3>1 DEF SearchInv, CountsLosses
    <3>2. CASE ~Continues(outcome)
      <4>1. SearchEnds(TRUE)  BY <2>1, <3>2
      <4>2. supplier \notin HidesLosses => ~(seen' \subseteq Lost)  BY <1>4, <1>5
      <4> QED  BY <1>1, <4>1, <4>2, EndCounts DEF SearchInv
    <3> QED  BY <3>1, <3>2
  <2>4. MoreIsLast'
    BY <1>1, <1>5, <2>2 DEF MoreIsLast, Running, Runs
  <2>5. "whole" \in answered' =>
           <<"whole", "offer">> \in offers' \/ Spoiled(supplier, answered')
    <3>1. CASE "whole" \in answered
      <4>1. <<"whole", "offer">> \in offers \/ Spoiled(supplier, answered)
        BY <1>4, <3>1 DEF SearchInv, OfferedSoFar, Running
      <4> QED  BY <1>7, <2>1, <4>1
    <3>2. ASSUME NEW i \in DOMAIN answer, answer[i] = "whole"
          PROVE  <<"whole", "offer">> \in offers' \/ Spoiled(supplier, answered')
      BY <1>6, <1>7, <2>1, <3>2
    <3>3. "whole" \in answered' => "whole" \in answered \/ \E i \in DOMAIN answer : answer[i] = "whole"
      BY <1>3
    <3> QED  BY <3>1, <3>2, <3>3
  <2>6. OfferedSoFar' /\ SoundVehiclesAreOffered' /\ OwnCarsAreLeftOut'
    BY <1>1, <1>10, <2>5 DEF OfferedSoFar, SoundVehiclesAreOffered, Spoiled, OwnCarsAreLeftOut
  <2>7. NothingIsFree'
    BY <1>1, <1>6, <2>1 DEF SearchInv, NothingIsFree
  <2> QED  BY <2>3, <2>4, <2>6, <2>7 DEF SearchInv
<1> QED  BY <1>8, <1>9

\* The reply has none.
LEMMA SearchMissesStep ==
  ASSUME TypeOK, SearchInv, NEW reply, NEW outcome, SearchMisses(reply, outcome)
  PROVE  SearchInv'
<1>1. /\ Receives("search", reply, outcome) /\ outcome \notin {"found", "more"}
      /\ Proceed(outcome)
      /\ offers' = (IF outcome \in {"empty", "raise"} THEN {} ELSE offers)
      /\ IF Continues(outcome) THEN UNCHANGED <<breaker, silent>> ELSE SearchEnds(outcome # "raise")
      /\ UNCHANGED <<supplier, method, answered>>
  BY DEF SearchMisses
<1>2. /\ method = "search" /\ Runs
      /\ Len(Requests) \in Nat /\ at \in 1 .. Len(Requests)
      /\ reply \in Replies /\ seen' = seen \cup {reply}
  BY <1>1, FromTable
<1>13. supplier # "internal"  BY <1>2 DEF SearchInv, OwnCarsAreLeftOut, Running
<1>3. /\ supplier \notin HidesLosses /\ reply \in Lost => outcome = "raise"
      /\ Later(supplier, at) =>
            /\ Continues(outcome) => outcome = "again"
            /\ outcome \in {"empty", "raise"} =>
                  /\ supplier \in NeedsEveryAnswer
                  /\ reply \in Unreadable \cup Lost \cup {"expired"}
  BY <1>1, <1>13, SearchMakes
<1>4. /\ Continues(outcome) => at' = (IF outcome = "again" THEN at ELSE at + 1)
      /\ ~Continues(outcome) => at' = 0
  BY <1>1, <1>2, Proceeds
<1>5. answered # {} => Later(supplier, at)
  BY <1>2 DEF SearchInv, MoreIsLast, Running
<1>6. outcome = "raise" => ~Continues(outcome)  BY DEF Continues
<1>7. CountsLosses'
  <2>1. CASE Continues(outcome)
    BY <1>1, <2>1 DEF SearchInv, CountsLosses
  <2>2. CASE ~Continues(outcome)
    <3> DEFINE good == outcome # "raise"
    <3>1. SearchEnds(good)  BY <1>1, <2>2, Zenon
    <3>2. good \in BOOLEAN  BY Zenon
    <3>3. good /\ supplier \notin HidesLosses => ~(seen' \subseteq Lost)  BY <1>2, <1>3
    <3>4. CountsLosses /\ UNCHANGED supplier  BY <1>1 DEF SearchInv
    <3> HIDE DEF good
    <3> QED  BY <3>1, <3>2, <3>3, <3>4, EndCounts, Zenon
  <2> QED  BY <2>1, <2>2
<1>8. MoreIsLast'
  BY <1>1, <1>3, <1>4, <1>5 DEF MoreIsLast, Running, Runs
<1>9. "whole" \in answered => <<"whole", "offer">> \in offers \/ Spoiled(supplier, answered)
  BY <1>2 DEF SearchInv, OfferedSoFar, Running
<1>10. OfferedSoFar'
  <2> SUFFICES ASSUME at' > 0 PROVE "whole" \in answered' =>
                  <<"whole", "offer">> \in offers' \/ Spoiled(supplier', answered')
    BY DEF OfferedSoFar, Running, Runs
  <2>1. outcome \notin {"empty", "raise"}  BY <1>4 DEF Continues
  <2> QED  BY <1>1, <1>9, <2>1
<1>11. SoundVehiclesAreOffered'
  <2>1. CASE outcome \in {"empty", "raise"}
    BY <1>1, <1>2, <1>3, <1>5, <2>1 DEF SoundVehiclesAreOffered
  <2>2. CASE outcome \notin {"empty", "raise"}
    BY <1>1, <1>9, <2>2 DEF SoundVehiclesAreOffered, Spoiled
  <2> QED  BY <2>1, <2>2
<1>12. NothingIsFree'
  BY <1>1 DEF SearchInv, NothingIsFree
<1>14. OwnCarsAreLeftOut'  BY <1>1, <1>13 DEF OwnCarsAreLeftOut
<1> QED  BY <1>7, <1>8, <1>10, <1>11, <1>12, <1>14 DEF SearchInv

\* Every step keeps what holds of the searches.
LEMMA SearchNext == TypeOK /\ SearchInv /\ [Next]_vars => SearchInv'
<1> SUFFICES ASSUME TypeOK, SearchInv, [Next]_vars PROVE SearchInv'  OBVIOUS
<1>1. CASE Search  BY <1>1, SearchStep
<1>2. CASE GetLocations  BY <1>2, SearchElsewhere DEF GetLocations, Start
<1>3. CASE CreateBooking  BY <1>3, SearchElsewhere DEF CreateBooking, Start
<1>4. CASE CancelBooking  BY <1>4, SearchElsewhere DEF CancelBooking, Start
<1>5. ASSUME NEW reply, NEW outcome, SearchFinds(reply, outcome) PROVE SearchInv'
  BY <1>5, SearchFindsStep
<1>6. ASSUME NEW reply, NEW outcome, SearchMisses(reply, outcome) PROVE SearchInv'
  BY <1>6, SearchMissesStep
<1>7. ASSUME NEW reply, NEW outcome, LocationsReply(reply, outcome) PROVE SearchInv'
  BY <1>7, SearchElsewhere DEF LocationsReply, Receives
<1>8. ASSUME NEW reply, NEW outcome, CreateReply(reply, outcome) PROVE SearchInv'
  BY <1>8, SearchElsewhere DEF CreateReply, Receives, searching
<1>9. ASSUME NEW reply, NEW outcome, CancelReply(reply, outcome) PROVE SearchInv'
  BY <1>9, SearchElsewhere DEF CancelReply, Receives, searching
<1>10. CASE SupplierDecides  BY <1>10, SearchElsewhere DEF SupplierDecides, searching
<1>11. CASE Tick  BY <1>11, SearchElsewhere DEF Tick
<1>12. CASE UNCHANGED vars  BY <1>12, SearchElsewhere DEF vars, searching
<1> QED
  BY <1>1, <1>2, <1>3, <1>4, <1>5, <1>6, <1>7, <1>8, <1>9, <1>10, <1>11, <1>12 DEF Next, Reply

-----------------------------------------------------------------------------
(* The theorems.                                                           *)

\* The bound on reservations completes the types.
LEMMA Bounded == Typed /\ Reserved => TypeOK
<1> SUFFICES ASSUME Typed, Reserved PROVE TypeOK  OBVIOUS
<1>1. calls \in Nat /\ at \in Nat /\ desk.made \in Nat /\ desk.coming \in Nat
  BY MaxCallsAssumption DEF Typed, Desk
<1>2. Running("create") /\ supplier = "ok_mobility" => at <= 2
  <2> SUFFICES ASSUME method = "create", at > 0, supplier = "ok_mobility" PROVE at <= 2
    BY DEF Running, Runs
  <2>1. supplier \in DOMAIN Adapters  BY SuppliersAssumption DEF Typed
  <2>2. at \in DOMAIN Adapters[supplier].create  BY <2>1, Named DEF Typed
  <2>3. DOMAIN Adapters[supplier].create = 1 .. 2
    <3>1. "ok_mobility" \in DOMAIN Adapters
          /\ Adapters["ok_mobility"].create = OkMobility_create_booking
      BY DEF Adapters
    <3> QED  BY <3>1, OkMobilityCreate
  <2> QED  BY <2>2, <2>3
<1>3. desk.made + desk.coming <= 2 * calls
  BY <1>1, <1>2 DEF Reserved, Reservations
<1> QED  BY <1>3 DEF Typed, TypeOK

\* The inductive invariant holds in every state.
THEOREM Invariance == Spec => []IInv
<1>1. Init => IInv  BY TypeInit, BookingInit, SearchInit DEF IInv
<1>2. IInv /\ [Next]_vars => IInv'
  <2> SUFFICES ASSUME IInv, [Next]_vars PROVE IInv'  OBVIOUS
  <2>1. Typed'  BY TypedNext DEF IInv
  <2>2. BookingInv'  BY BookingNext DEF IInv
  <2>3. SearchInv'  BY SearchNext DEF IInv
  <2>4. Reserved'  BY <2>2 DEF BookingInv
  <2>5. (Typed /\ Reserved => TypeOK)'  BY Bounded, PTL
  <2>6. TypeOK'  BY <2>1, <2>4, <2>5
  <2> QED  BY <2>2, <2>3, <2>6 DEF IInv
<1> QED  BY <1>1, <1>2, PTL DEF Spec

\* Every variable keeps its type, and two requests are the most a call of
\* create_booking sends to make a reservation.
THEOREM TypesStay == Spec => []TypeOK
<1>1. IInv => TypeOK  BY DEF IInv
<1> QED  BY <1>1, Invariance, PTL

\* One call of create_booking makes one reservation at most, whatever becomes of
\* its requests; ok_mobility.py:284-300 alone may make two.
THEOREM OneReservation == Spec => []OneReservationPerCall
<1>1. IInv => OneReservationPerCall
  <2> SUFFICES ASSUME IInv, supplier # "ok_mobility"
               PROVE  desk.made + desk.coming <= calls
    BY DEF OneReservationPerCall
  <2>1. calls \in Nat /\ desk.made \in Nat /\ desk.coming \in Nat
    BY MaxCallsAssumption DEF IInv, TypeOK, Desk
  <2> QED  BY <2>1 DEF IInv, BookingInv, Reserved, Reservations
<1> QED  BY <1>1, Invariance, PTL

\* A first call that reports FAILED has left nothing at the supplier, but after an
\* ambiguous answer, a broken connection, or where the adapter itself makes FAILED
\* of a timeout or of a reservation with a remark (booking_service.py:332-335).
THEOREM Retriable == Spec => []FailedIsRetriable
<1>1. IInv => FailedIsRetriable  BY DEF IInv, BookingInv
<1> QED  BY <1>1, Invariance, PTL

\* A confirmed reply has a reservation behind it and names it, but for the
\* adapters that take null for a reference or trust the commit.
THEOREM Confirmed == Spec => []ConfirmedIsReserved
<1>1. IInv => ConfirmedIsReserved  BY DEF IInv, BookingInv
<1> QED  BY <1>1, Invariance, PTL

\* A booking reported as cancelled is, and a plain cancellation is reported.
THEOREM Cancelled == Spec => []CancelReplyIsTrue
<1>1. IInv => CancelReplyIsTrue  BY DEF IInv, BookingInv
<1> QED  BY <1>1, Invariance, PTL

\* Whatever threshold main.py gives the breaker, that many lost searches in a row
\* trip it, for every adapter that lets its exceptions out.
THEOREM LossesTrip == Spec => []LostSearchesTripBreaker
<1>1. IInv => LostSearchesTripBreaker
  <2> SUFFICES ASSUME IInv, supplier \notin HidesLosses, silent >= FailureThreshold
               PROVE  breaker.failures >= FailureThreshold
    BY DEF LostSearchesTripBreaker, Tripped
  <2>1. breaker.failures >= silent  BY DEF IInv, SearchInv, CountsLosses
  <2>2. breaker.failures \in Int /\ silent \in Int /\ FailureThreshold \in Int
    BY FailureCapAssumption, FailureThresholdAssumption DEF IInv, TypeOK, Breaker
  <2> QED  BY <2>1, <2>2
<1> QED  BY <1>1, Invariance, PTL

\* A sound vehicle of an answer is offered, but for what SoundVehiclesAreOffered
\* excepts.
THEOREM Offered == Spec => []SoundVehiclesAreOffered
<1>1. IInv => SoundVehiclesAreOffered  BY DEF IInv, SearchInv
<1> QED  BY <1>1, Invariance, PTL

\* No vehicle is offered for 0.00, but by the adapters that default to it.
THEOREM Priced == Spec => []NothingIsFree
<1>1. IInv => NothingIsFree  BY DEF IInv, SearchInv
<1> QED  BY <1>1, Invariance, PTL

\* The locations of a supplier leave the file only when it says that it has none,
\* but for the adapters that read errors so (location_json_refresh_service.py:86-90).
THEOREM LocationsStay == Spec => LocationsSurvive
<1> DEFINE Step ==
      listed /\ ~listed' =>
          \/ seen' \cap Lacking # {}
          \/ supplier \in ReadsErrorsAsNone /\ seen' \cap (Denied \cup {"error"}) # {}
          \/ supplier = "ok_mobility"
<1>1. TypeOK /\ [Next]_vars => Step
  <2> SUFFICES ASSUME TypeOK, [Next]_vars, listed, ~listed'
               PROVE  \/ seen' \cap Lacking # {}
                      \/ supplier \in ReadsErrorsAsNone /\ seen' \cap (Denied \cup {"error"}) # {}
                      \/ supplier = "ok_mobility"
    OBVIOUS
  <2>1. PICK reply, outcome : LocationsReply(reply, outcome)
    BY DEF Next, Reply, Search, GetLocations, CreateBooking, CancelBooking, SearchFinds,
           SearchMisses, CreateReply, CancelReply, SupplierDecides, Tick, vars
  <2>2. /\ Receives("locations", reply, outcome)
        /\ answered' = (IF outcome \in {"found", "more"} THEN {"whole"} ELSE answered)
        /\ listed' = IF Continues(outcome) \/ outcome = "raise" THEN listed ELSE answered' # {}
    BY <2>1, Zenon DEF LocationsReply
  <2>3. ~Continues(outcome) /\ outcome # "raise"  BY <2>2, Zenon
  <2>4. answered' = {}  BY <2>2, <2>3, Zenon
  <2>5. outcome \notin {"found", "more"}  BY <2>2, <2>4
  <2>6. seen' = seen \cup {reply}  BY <2>2 DEF Receives
  <2> QED  BY <2>2, <2>3, <2>5, <2>6, LocationsMakes
<1> QED  BY <1>1, TypesStay, PTL DEF Spec, LocationsSurvive

=============================================================================
