----------------------------- MODULE Unification -----------------------------
(***************************************************************************)
(* LocationUnificationService: the list of locations the suppliers gave    *)
(* becomes a set of rows, each with the entries of the suppliers there.    *)
(* The functions of the service are operators on the list.                 *)
(*                                                                         *)
(* Names and cities are opaque; the constants say what normalising makes   *)
(* of them.  Places lie on a line: a coordinate is a kilometre, and 0 is   *)
(* the place 0.0/0.0, which suppliers send for want of a better.  All of   *)
(* it is in one country: the keys of groups and the nearby airports are    *)
(* per country.  Display names, aliases and the medians of coordinates are *)
(* left out.                                                               *)
(*                                                                         *)
(* Operators named X_<slip> are variants of X that no specification uses.  *)
(***************************************************************************)
EXTENDS Integers, FiniteSets

CONSTANTS
    None,       \* no code, no coordinates, no id of our own
    Names,      \* the names of locations
    NamedType,  \* the type a name gives away ("... Airport"), or None
    NamedCity,  \* the city a name says no more than ("Dubai Airport"), or None
    Cities,     \* the texts suppliers give for a city
    Display     \* such a text without its last suffix ("Amsterdam Central")

Types == {"airport", "downtown", "port", "train_station", "bus_station", "hotel", "other"}

ASSUME NameAssumption ==
    /\ NamedType \in [Names -> (Types \ {"hotel", "other"}) \cup {None}]
    /\ NamedCity \in [Names -> Cities \cup {None}]
    /\ None \notin Types
ASSUME DisplayAssumption == Display \in [Cities -> Cities]

\* The words for a type that suppliers send, or that the file has.
Words == Types \cup {"train", "unknown"}

\* _TYPE_ALIASES, looked up after normalize_string: the key "train_station" is
\* then "train station", which is not there.
TypeAliases(word) ==
    CASE word = "train" -> "train_station"
      [] word \in {"train_station", "unknown"} -> "other"
      [] OTHER -> word

canonicalize_location_type(word, name) ==
    IF NamedType[name] # None THEN NamedType[name] ELSE TypeAliases(word)

\* _canonicalize_location.
Canonical(location) ==
    LET type == canonicalize_location_type(location.word, location.name) IN
    [provider |-> location.provider, id |-> location.id, name |-> location.name,
     city |-> Display[location.city], country |-> location.country, type |-> type,
     iata |-> IF type = "airport" THEN location.iata ELSE None,
     at |-> location.at, ours |-> location.ours]

-----------------------------------------------------------------------------
(* _assign_nearby_airport_iata: an airport without a code takes that of    *)
(* another one.  list is a sequence of canonical locations.                *)

Airport(location) == location.type = "airport"
Donors(list) == {d \in DOMAIN list : Airport(list[d]) /\ list[d].iata # None}

Distance(a, b) == IF a < b THEN b - a ELSE a - b
NearbyKm == 15

NearbyDonors(list, i) ==
    {d \in Donors(list) :
        /\ list[d].country = list[i].country
        /\ list[d].at # None /\ list[i].at # None
        /\ Distance(list[d].at, list[i].at) <= NearbyKm}

\* The nearest of them, the first of those as near.
Nearest(list, i) ==
    CHOOSE d \in NearbyDonors(list, i) : \A e \in NearbyDonors(list, i) :
        LET far(x) == Distance(list[x].at, list[i].at) IN
        far(d) < far(e) \/ (far(d) = far(e) /\ d <= e)

CityDonors(list, i) ==
    {d \in Donors(list) : list[d].country = list[i].country /\ list[d].city = list[i].city}

\* A donor with the code most donors of the city have.
Primary(list, i) ==
    CHOOSE d \in CityDonors(list, i) : \A e \in CityDonors(list, i) :
        LET votes(x) == Cardinality({c \in CityDonors(list, i) : list[c].iata = list[x].iata})
        IN  votes(d) > votes(e) \/ (votes(d) = votes(e) /\ d <= e)

IataOf(list, i) ==
    IF ~Airport(list[i]) \/ list[i].iata # None THEN list[i].iata
    ELSE IF NearbyDonors(list, i) # {} THEN list[Nearest(list, i)].iata
    ELSE IF /\ list[i].at = None /\ NamedCity[list[i].name] = list[i].city
            /\ CityDonors(list, i) # {} THEN list[Primary(list, i)].iata
    ELSE None

\* Donors are counted again after each assignment.
Assigned_Chained(list) ==
    LET once == [i \in DOMAIN list |-> [list[i] EXCEPT !.iata = IataOf(list, i)]]
    IN  [i \in DOMAIN list |-> [once[i] EXCEPT !.iata = IataOf(once, i)]]

Assigned(list) == [i \in DOMAIN list |-> [list[i] EXCEPT !.iata = IataOf(list, i)]]

-----------------------------------------------------------------------------
(* Grouping and deduplication.                                             *)

\* coordinate_bucket: a tenth of a degree.
BucketKm == 11
Bucket(at) == at \div BucketKm

\* _build_group_key.
Key(location) ==
    CASE Airport(location) /\ location.iata # None ->
            [country |-> location.country, type |-> "airport", by |-> "iata", of |-> location.iata]
      [] Airport(location) /\ location.iata = None /\ location.at # None ->
            [country |-> location.country, type |-> "airport", by |-> "geo", of |-> Bucket(location.at)]
      [] Airport(location) /\ location.iata = None /\ location.at = None ->
            [country |-> location.country, type |-> "airport", by |-> "name", of |-> location.name]
      [] OTHER ->
            [country |-> location.country, type |-> location.type, by |-> "city", of |-> location.city]

Keys(list) == {Key(list[i]) : i \in DOMAIN list}
Group(list, key) == {i \in DOMAIN list : Key(list[i]) = key}
FirstOf(indices) == CHOOSE i \in indices : \A j \in indices : i <= j

Entry_KeepsZero(location) ==
    [provider |-> location.provider, id |-> location.id, name |-> location.name,
     country |-> location.country, iata |-> location.iata, at |-> location.at]

Entry(location) ==
    [provider |-> location.provider, id |-> location.id, name |-> location.name,
     country |-> location.country, iata |-> location.iata,
     at |-> IF location.at = 0 THEN None ELSE location.at]

Owned(list, key) == {i \in Group(list, key) : list[i].ours # None}

\* _build_unified_location: the first location of the group names the row.
Row(list, key) ==
    LET group == Group(list, key)
        first == list[FirstOf(group)]
    IN  [key |-> key, city |-> first.city, type |-> first.type, iata |-> first.iata,
         country |-> first.country,
         ours |-> IF Owned(list, key) = {} THEN None ELSE list[FirstOf(Owned(list, key))].ours,
         entries |-> {Entry(list[i]) : i \in group}]

\* _our_location_rank, and the order of the rows between equals.
Ranks(list, key) ==
    LET row == Row(list, key) IN
    <<IF row.iata # None THEN 1 ELSE 0,
      Cardinality(Group(list, key)),
      IF \E e \in row.entries : e.at # None THEN 1 ELSE 0>>

Beats(list, k, l) ==
    LET a == Ranks(list, k)
        b == Ranks(list, l)
    IN  \/ a[1] > b[1]
        \/ a[1] = b[1] /\ a[2] > b[2]
        \/ a[1] = b[1] /\ a[2] = b[2] /\ a[3] > b[3]
        \/ a = b /\ FirstOf(Group(list, k)) < FirstOf(Group(list, l))

Kept_AmongOthers(list) ==
    {k \in Keys(list) : \A l \in Keys(list) \ {k} :
        Row(list, l).ours = Row(list, k).ours => Beats(list, k, l)}

\* _dedupe_by_our_location_id: of the rows with one id of ours, the best.
Kept(list) ==
    {k \in Keys(list) :
        \/ Row(list, k).ours = None
        \/ \A l \in Keys(list) \ {k} :
              Row(list, l).ours = Row(list, k).ours => Beats(list, k, l)}

\* build_unified_locations.
Unified(locations) ==
    LET list == Assigned([i \in DOMAIN locations |-> Canonical(locations[i])])
    IN  {Row(list, key) : key \in Kept(list)}

-----------------------------------------------------------------------------
(* search_locations.  A query has a code it may be, the keys of the rows    *)
(* with a score above zero, and the types its words ask for.  The order     *)
(* and the number of the results are left out.                              *)

\* _requested_location_types.
Requestable == {"airport", "downtown", "port", "train_station", "bus_station"}

\* The types whose words the label of a type holds: "airport" ends in "port".
Says(type) == IF type = "airport" THEN {"airport", "port"} ELSE {type}

\* _location_matches_requested_type: by its type, which is in its display name,
\* or by the name of an entry, which is an alias.
LooksLike(row, types) ==
    \E type \in {row.type} \cup {NamedType[e.name] : e \in row.entries} :
        Says(type) \cap types # {}

\* _filter_generic_city_rows: a row of no type is named like its city, and is
\* left out when the city, in any country, has another.
Specific(rows) ==
    {row \in rows : row.type = "other" =>
        ~\E other \in rows : other.type # "other" /\ other.city = row.city}

\* _filter_by_query_location_type.
OfRequestedType_Strict(rows, types) ==
    IF types = {} THEN rows ELSE {row \in rows : LooksLike(row, types)}

OfRequestedType(rows, types) ==
    LET asked == {row \in rows : LooksLike(row, types)} IN
    IF types = {} \/ asked = {} THEN rows ELSE asked

search_locations(rows, query) ==
    LET exact == {row \in rows : row.iata # None /\ row.iata = query.code}
    IN  IF exact # {} THEN exact
        ELSE OfRequestedType(Specific({row \in rows : row.key \in query.matches}), query.types)

=============================================================================
