------------------------- MODULE LocationUnification -------------------------
(***************************************************************************)
(* What becomes of single locations from one refresh to the next.  A       *)
(* refresh unifies the locations of the suppliers that answer with what    *)
(* the file has of the others, so a location of a failed supplier goes     *)
(* through the unification again, now with the city, the type, the code    *)
(* and the id of ours of the row it was in.                                *)
(*                                                                         *)
(* LocationRefresh has the processes, the files and the crashes; here a    *)
(* refresh is one step, and every location has the pickup id without which *)
(* it would not be kept for a supplier that failed.                        *)
(*                                                                         *)
(* Operators named X_<slip> are variants of X that no specification uses.  *)
(***************************************************************************)
EXTENDS Unification, SequencesExt

CONSTANTS
    Providers,  \* a sequence: the suppliers in the order of the registry
    Catalogs,   \* per supplier, the lists of locations it may answer with
    MaxHops     \* bound on refreshes with failures after one without

Suppliers == ToSet(Providers)

\* Locations are as the suppliers' adapters make them: with the supplier's own
\* name, and with or without coordinates.
ASSUME ProvidersAssumption == Providers \in Seq(Suppliers) /\ IsInjective(Providers)
ASSUME CatalogsAssumption ==
    /\ None \notin Int
    /\ \A p \in Suppliers : \A list \in Catalogs[p] :
          /\ list \in Seq(ToSet(list))
          /\ \A location \in ToSet(list) :
                /\ location.provider = p
                /\ location.name \in Names /\ location.city \in Cities
                /\ location.word \in Words /\ location.at \in Int \cup {None}
ASSUME HopsAssumption == MaxHops \in Nat

VARIABLES
    file,       \* the rows of unified_locations.json
    failed,     \* the suppliers that failed in the last refresh
    raw,        \* history: the list the last refresh unified
    hops        \* history: refreshes since the last one without failures

vars == <<file, failed, raw, hops>>

Locations == UNION {ToSet(list) : list \in UNION {Catalogs[p] : p \in Suppliers}}

Entries == UNION {row.entries : row \in file}
Is(e, f) == e.provider = f.provider /\ e.id = f.id

TypeOK ==
    /\ \A row \in file :
          /\ row.type \in Types /\ row.city \in Cities
          /\ row.entries # {}
          /\ \A e \in row.entries : e.provider \in Suppliers /\ e.name \in Names /\ e.at # 0
    /\ failed \subseteq Suppliers
    /\ hops \in 0 .. MaxHops

Init == file = {} /\ failed = {} /\ raw = <<>> /\ hops = 0

Preserved_WithoutIata(p) ==
    UNION {{[provider |-> p, id |-> e.id, name |-> e.name, city |-> row.city, word |-> row.type,
             country |-> e.country, iata |-> None, at |-> e.at, ours |-> row.ours]
                : e \in {e \in row.entries : e.provider = p}} : row \in file}

\* _existing_provider_locations_as_raw.
Preserved(p) ==
    UNION {{[provider |-> p, id |-> e.id, name |-> e.name, city |-> row.city, word |-> row.type,
             country |-> e.country, iata |-> e.iata, at |-> e.at, ours |-> row.ours]
                : e \in {e \in row.entries : e.provider = p}} : row \in file}

Answers(lost) == [p \in Suppliers |-> IF p \in lost THEN {<<>>} ELSE Catalogs[p]]

\* The order of preserved locations is that of the file, by display name.
Additions_ForEverybody(lost) == [p \in Suppliers |-> SetToSeqs(Preserved(p))]
Additions(lost) == [p \in Suppliers |-> IF p \in lost THEN SetToSeqs(Preserved(p)) ELSE {<<>>}]

\* The lists that have one of the parts of each supplier, in the suppliers' order.
Lists(parts) ==
    LET upTo[n \in 0 .. Len(Providers)] ==
            IF n = 0 THEN {<<>>}
            ELSE {list \o part : list \in upTo[n - 1], part \in parts[Providers[n]]}
    IN  upTo[Len(Providers)]

\* refresh(): the answers, then what is kept of the suppliers in lost.
Refresh(lost) ==
    /\ lost # {} => hops < MaxHops
    /\ \E answers \in Lists(Answers(lost)), kept \in Lists(Additions(lost)) :
          raw' = answers \o kept
    /\ file' = Unified(raw')
    /\ failed' = lost
    /\ hops' = IF lost = {} THEN 0 ELSE hops + 1

Next == \E lost \in SUBSET Suppliers : Refresh(lost)

Spec == Init /\ [][Next]_vars

-----------------------------------------------------------------------------
(* Properties.                                                             *)

\* A location has one row: the repository's index by supplier and pickup id
\* (json_location_repository.py:107) holds one, and two rows would search and
\* book it under two ids.
EntryHasOneRow ==
    \A row, other \in file : \A e \in row.entries, f \in other.entries :
        Is(e, f) => row = other /\ e = f

\* What was unified.
Canonicals == Assigned([i \in DOMAIN raw |-> Canonical(raw[i])])

\* Deduplication by our_location_id drops rows with all suppliers in them.  A
\* location is only lost that way: a location of its own group has an id of ours
\* that a better row has too.  (It is lost although nobody withdrew it, and
\* although its supplier only failed, which is what the refresh keeps it for.)
LostOnlyToOurs ==
    \A i \in DOMAIN Canonicals :
        \/ \E e \in Entries : Is(e, Canonicals[i])
        \/ \E j \in DOMAIN Canonicals :
              /\ Key(Canonicals[j]) = Key(Canonicals[i])
              /\ Canonicals[j].ours # None
              /\ \E row \in file : row.ours = Canonicals[j].ours /\ row.key # Key(Canonicals[i])

\* The unified id of a location is what the hosts' links hold.  A failed fetch
\* does not change it, though the location goes through the unification in
\* another form, except for an airport without a code, which may be near one
\* now; a train station that only its type says is one, as TypeAliases does not
\* know the type it gave it; and a city that has another suffix to lose.
FailedKeepsIds ==
    [][\A old \in file, new \in file' : \A e \in old.entries, f \in new.entries :
          Is(e, f) /\ e.provider \in failed' =>
              \/ new.key = old.key
              \/ old.type = "airport" /\ old.iata = None
              \/ old.type = "train_station" /\ NamedType[e.name] = None
              \/ old.type # "airport" /\ Display[old.city] # old.city]_vars

\* An airport takes the code of one at most 15 km away.  A preserved location
\* gives a code it has taken to others in turn, so each refresh with a failure
\* may add 15 km.
IataStaysNear ==
    \A e \in Entries : e.iata # None /\ e.at # None =>
        \E location \in Locations :
            /\ location.iata = e.iata /\ location.at # None
            /\ Distance(location.at, e.at) <= NearbyKm * (hops + 1)

\* A search shows something of what it matches, whatever types its words ask
\* for: all rows of those types, and without such words a row of each city.
FoundIsShown ==
    \A found \in SUBSET file, types \in SUBSET Requestable :
        LET query == [code |-> None, matches |-> {row.key : row \in found}, types |-> types]
            shown == search_locations(file, query)
        IN  \A row \in found :
                /\ shown # {}
                /\ row.type \in types => row \in shown
                /\ types = {} => \E other \in shown : other.city = row.city

=============================================================================
