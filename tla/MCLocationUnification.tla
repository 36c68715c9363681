------------------------ MODULE MCLocationUnification ------------------------
(* Model checking LocationUnification: an airport with a code, airports at    *)
(* steps of 12 to 14 km from it and one nobody can place, a train station and *)
(* two branches of our own that share an id.                                  *)
EXTENDS LocationUnification

CONSTANTS internal, p, q, s, o1, XXX, home,
          airportA, airportB, airportC, townAirport, branch, station, hall,
          town, townCentral, townCentralStation

MCNames == {airportA, airportB, airportC, townAirport, branch, station, hall}
MCNamedType ==
    [n \in MCNames |-> CASE n \in {airportA, airportB, airportC, townAirport} -> "airport"
                         [] n = hall -> "train_station"
                         [] OTHER -> None]
MCNamedCity == [n \in MCNames |-> IF n = townAirport THEN town ELSE None]
MCCities == {town, townCentral, townCentralStation}
MCDisplay ==
    [c \in MCCities |-> IF c = townCentralStation THEN townCentral ELSE town]

Location(provider, id, name, city, word, iata, at, ours) ==
    [provider |-> provider, id |-> id, name |-> name, city |-> city, word |-> word,
     country |-> home, iata |-> iata, at |-> at, ours |-> ours]

MCProviders == <<internal, p, q, s>>

A1 == Location(p, 1, airportA, town, "airport", XXX, 100, None)
A2 == Location(q, 1, airportB, town, "airport", None, 112, None)
A3 == Location(internal, 1, airportC, town, "other", None, 126, o1)
A4 == Location(s, 1, townAirport, town, "airport", None, None, None)
A5 == Location(s, 1, townAirport, town, "airport", None, 0, None)
A6 == Location(s, 1, airportB, town, "airport", None, 131, None)
T1 == Location(p, 2, station, town, "train", None, None, None)
T2 == Location(q, 2, hall, townCentralStation, "unknown", None, None, None)
B1 == Location(internal, 2, branch, town, "downtown", None, 105, o1)
B2 == Location(q, 3, branch, townCentral, "downtown", None, None, None)
O1 == Location(s, 2, branch, town, "unknown", None, None, None)

MCCatalogs ==
    [x \in {internal, p, q, s} |->
        CASE x = internal -> {<<>>, <<A3>>, <<A3, B1>>}
          [] x = p -> {<<A1, T1>>}
          [] x = q -> {<<A2, T2>>, <<B2>>}
          [] x = s -> {<<A4>>, <<A5, O1>>, <<A6>>}]

=============================================================================
