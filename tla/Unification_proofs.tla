------------------------- MODULE Unification_proofs -------------------------
(***************************************************************************)
(* What the functions of Unification return, for any names, cities and     *)
(* lists of locations.                                                     *)
(*                                                                         *)
(* That nonempty sets of numbers have a least element comes from the       *)
(* library's theorem on minimal elements of well-founded relations.  From  *)
(* it come the choices the service makes (the first location of a group,   *)
(* the nearest airport, the best of several rows), and induction: a set    *)
(* that has 0 and with each number the next has them all.                  *)
(***************************************************************************)
EXTENDS Unification, FiniteSetTheorems, WellFoundedInduction, TLAPS

-----------------------------------------------------------------------------
(* Numbers.                                                                *)

Less == {pair \in Nat \X Nat : pair[1] < pair[2]}

LEMMA LeastNumber ==
  ASSUME NEW T, T \subseteq Nat, T # {}
  PROVE  \E x \in T : \A y \in T : x <= y
<1>1. IsWellFoundedOn(Less, Nat)  BY NatLessThanWellFounded, Zenon DEF OpToRel, Less
<1>2. PICK x \in T : \A y \in T : ~(<<y, x>> \in Less)  BY <1>1, WFMin, Zenon
<1>3. \A y \in T : ~(y < x)  BY <1>2 DEF Less
<1> QED  BY <1>3

LEMMA GreatestNumber ==
  ASSUME NEW n \in Nat, NEW T, T \subseteq 0 .. n, T # {}
  PROVE  \E x \in T : \A y \in T : y <= x
<1> DEFINE below == {n - x : x \in T}
<1>1. below \subseteq Nat
  <2>1. \A x \in T : x \in 0 .. n  OBVIOUS
  <2>2. \A x \in 0 .. n : n - x \in Nat  OBVIOUS
  <2> QED  BY <2>1, <2>2
<1> below # {}  OBVIOUS
<1>2. PICK b \in below : \A c \in below : b <= c  BY <1>1, LeastNumber
<1>3. PICK x \in T : b = n - x  BY <1>2
<1>4. ASSUME NEW y \in T PROVE y <= x
  <2>1. n - x <= n - y  BY <1>2, <1>3
  <2>2. x \in 0 .. n /\ y \in 0 .. n  OBVIOUS
  <2> QED  BY <2>1, <2>2
<1> QED  BY <1>4

\* Induction, for sets.
LEMMA Induction ==
  ASSUME NEW S, 0 \in S, \A n \in Nat : n \in S => n + 1 \in S
  PROVE  Nat \subseteq S
<1> SUFFICES ASSUME Nat \ S # {} PROVE FALSE  OBVIOUS
<1>1. PICK x \in Nat \ S : \A y \in Nat \ S : x <= y  BY LeastNumber
<1>2. x # 0  OBVIOUS
<1>3. x - 1 \in Nat /\ x - 1 \in S  BY <1>1, <1>2
<1>4. (x - 1) + 1 = x  BY <1>1
<1> QED  BY <1>3, <1>4

\* Of numbers given to the elements of a set, one is the largest.
LEMMA MostOf ==
  ASSUME NEW S, S # {}, NEW n \in Nat, NEW number \in [S -> 0 .. n]
  PROVE  \E m \in S : \A s \in S : number[s] <= number[m]
<1> DEFINE T == {number[s] : s \in S}
<1>1. T \subseteq 0 .. n /\ T # {}  OBVIOUS
<1>2. PICK x \in T : \A y \in T : y <= x
  <2> HIDE DEF T
  <2> QED  BY <1>1, GreatestNumber
<1> QED  BY <1>2

LEMMA FirstIsLeast ==
  ASSUME NEW indices, indices \subseteq Nat, indices # {}
  PROVE  /\ FirstOf(indices) \in indices
         /\ \A j \in indices : FirstOf(indices) <= j
  BY LeastNumber DEF FirstOf

-----------------------------------------------------------------------------
(* Keys and rows.                                                          *)

\* Locations with one key agree on what the key is made of.
LEMMA KeysAgree ==
  ASSUME NEW a, NEW b, Key(a) = Key(b)
  PROVE  /\ a.country = b.country /\ a.type = b.type
         /\ Airport(a) => a.iata = b.iata
         /\ ~Airport(a) => a.city = b.city
<1> DEFINE Iata(x) == [country |-> x.country, type |-> "airport", by |-> "iata", of |-> x.iata]
           Geo(x) == [country |-> x.country, type |-> "airport", by |-> "geo", of |-> Bucket(x.at)]
           Name(x) == [country |-> x.country, type |-> "airport", by |-> "name", of |-> x.name]
           City(x) == [country |-> x.country, type |-> x.type, by |-> "city", of |-> x.city]
<1>1. ASSUME NEW x
      PROVE  \/ Airport(x) /\ x.iata # None /\ Key(x) = Iata(x)
             \/ Airport(x) /\ x.iata = None /\ Key(x) = Geo(x)
             \/ Airport(x) /\ x.iata = None /\ Key(x) = Name(x)
             \/ ~Airport(x) /\ Key(x) = City(x)
  <2>1. CASE ~Airport(x)  BY <2>1 DEF Key
  <2>2. CASE Airport(x) /\ x.iata # None  BY <2>2 DEF Key
  <2>3. CASE Airport(x) /\ x.iata = None  BY <2>3 DEF Key
  <2> QED  BY <2>1, <2>2, <2>3
<1>2. ASSUME NEW x
      PROVE  /\ Key(x).country = x.country /\ Key(x).type = x.type
             /\ Key(x).by \in {"iata", "geo", "name", "city"}
             /\ Key(x).by = "iata" => Airport(x) /\ x.iata # None /\ Key(x).of = x.iata
             /\ Key(x).by \in {"geo", "name"} => Airport(x) /\ x.iata = None
             /\ Key(x).by = "city" => ~Airport(x) /\ Key(x).of = x.city
  BY <1>1 DEF Airport
<1> QED  BY <1>2

\* The row of a key is that of some location of its group, and has the entries
\* of them all.
LEMMA RowOfKey ==
  ASSUME NEW list, DOMAIN list \subseteq Nat, NEW key \in Keys(list)
  PROVE  LET row == Row(list, key) IN
         /\ row.key = key
         /\ row.entries = {Entry(list[i]) : i \in Group(list, key)}
         /\ row.ours # None => Owned(list, key) # {}
         /\ Owned(list, key) # {} =>
               \E i \in Owned(list, key) : row.ours = list[i].ours
         /\ FirstOf(Group(list, key)) \in Group(list, key)
         /\ \E i \in Group(list, key) :
               /\ row.city = list[i].city /\ row.type = list[i].type
               /\ row.iata = list[i].iata /\ row.country = list[i].country
<1>1. Group(list, key) \subseteq Nat /\ Group(list, key) # {}  BY DEF Keys, Group
<1>2. FirstOf(Group(list, key)) \in Group(list, key)  BY <1>1, FirstIsLeast
<1>3. Owned(list, key) # {} => FirstOf(Owned(list, key)) \in Owned(list, key)
  BY <1>1, FirstIsLeast DEF Owned
<1> QED  BY <1>2, <1>3 DEF Row

-----------------------------------------------------------------------------
(* Deduplication.                                                          *)

LEMMA GroupSize ==
  ASSUME NEW list, NEW n \in Nat, DOMAIN list = 1 .. n, NEW key
  PROVE  Cardinality(Group(list, key)) \in 0 .. n
<1>1. IsFiniteSet(1 .. n) /\ Cardinality(1 .. n) = n  BY FS_Interval
<1>2. Group(list, key) \subseteq 1 .. n  BY DEF Group
<1>3. Cardinality(Group(list, key)) <= n /\ IsFiniteSet(Group(list, key))  BY <1>1, <1>2, FS_Subset
<1>4. Cardinality(Group(list, key)) \in Nat  BY <1>3, FS_CardinalityType
<1> QED  BY <1>3, <1>4

\* Groups of different keys begin at different places.
LEMMA FirstsDiffer ==
  ASSUME NEW list, DOMAIN list \subseteq Nat, NEW k \in Keys(list), NEW l \in Keys(list),
         FirstOf(Group(list, k)) = FirstOf(Group(list, l))
  PROVE  k = l
<1>1. FirstOf(Group(list, k)) \in Group(list, k) /\ FirstOf(Group(list, l)) \in Group(list, l)
  BY RowOfKey
<1> QED  BY <1>1 DEF Group

\* Of any rows, one is better than all others: a row that is left out for its
\* id of ours is left out for one that is kept.
LEMMA SomeBest ==
  ASSUME NEW list, NEW n \in Nat, DOMAIN list = 1 .. n, NEW S, S \subseteq Keys(list), S # {}
  PROVE  \E w \in S : \A l \in S \ {w} : Beats(list, w, l)
<1> DEFINE r1(k) == Ranks(list, k)[1]
           r2(k) == Ranks(list, k)[2]
           r3(k) == Ranks(list, k)[3]
           first(k) == FirstOf(Group(list, k))
<1>1. \A k \in S : /\ r1(k) \in 0 .. 1 /\ r2(k) \in 0 .. n /\ r3(k) \in 0 .. 1
                   /\ Ranks(list, k) = <<r1(k), r2(k), r3(k)>>
  BY GroupSize DEF Ranks
<1>2. \A k \in S : first(k) \in 1 .. n
  <2>1. \A k \in S : first(k) \in Group(list, k)
    <3>1. DOMAIN list \subseteq Nat  OBVIOUS
    <3> QED  BY <3>1, RowOfKey
  <2>2. \A k : Group(list, k) \subseteq 1 .. n  BY DEF Group
  <2> HIDE DEF first
  <2> QED  BY <2>1, <2>2
<1> DEFINE S1 == {k \in S : \A l \in S : r1(l) <= r1(k)}
           S2 == {k \in S1 : \A l \in S1 : r2(l) <= r2(k)}
           S3 == {k \in S2 : \A l \in S2 : r3(l) <= r3(k)}
           firsts == {first(k) : k \in S3}
<1> HIDE DEF r1, r2, r3, first
<1>3. S1 # {}
  <2> DEFINE f == [k \in S |-> r1(k)]
  <2>1. f \in [S -> 0 .. 1]  BY <1>1
  <2>2. PICK m \in S : \A l \in S : f[l] <= f[m]
    <3> HIDE DEF f
    <3> QED  BY <2>1, MostOf
  <2> QED  BY <2>2
<1>4. S2 # {}
  <2> DEFINE f == [k \in S1 |-> r2(k)]
  <2>1. f \in [S1 -> 0 .. n]  BY <1>1
  <2>2. PICK m \in S1 : \A l \in S1 : f[l] <= f[m]
    <3> HIDE DEF f, S1
    <3> QED  BY <2>1, <1>3, MostOf
  <2> HIDE DEF S1
  <2> QED  BY <2>2
<1>5. S3 # {}
  <2> DEFINE f == [k \in S2 |-> r3(k)]
  <2>1. f \in [S2 -> 0 .. 1]  BY <1>1
  <2>2. PICK m \in S2 : \A l \in S2 : f[l] <= f[m]
    <3> HIDE DEF f, S2
    <3> QED  BY <2>1, <1>4, MostOf
  <2> HIDE DEF S2
  <2> QED  BY <2>2
<1>6. firsts \subseteq Nat /\ firsts # {}
  <2>1. S3 \subseteq S  OBVIOUS
  <2> HIDE DEF S3
  <2> QED  BY <2>1, <1>2, <1>5
<1>7. PICK w \in S3 : \A l \in S3 : first(w) <= first(l)
  <2> HIDE DEF S3
  <2>1. PICK f \in firsts : \A g \in firsts : f <= g  BY <1>6, LeastNumber
  <2> QED  BY <2>1
<1>8. ASSUME NEW l \in S \ {w} PROVE Beats(list, w, l)
  <2>1. w \in S /\ l \in S  OBVIOUS
  <2>2. first(l) # first(w)  BY <2>1, FirstsDiffer DEF first
  <2>3. \/ r1(w) > r1(l)
        \/ r1(w) = r1(l) /\ r2(w) > r2(l)
        \/ r1(w) = r1(l) /\ r2(w) = r2(l) /\ r3(w) > r3(l)
        \/ l \in S3 /\ r1(w) = r1(l) /\ r2(w) = r2(l) /\ r3(w) = r3(l)
    <3>1. r1(l) <= r1(w)  OBVIOUS
    <3>2. r1(l) = r1(w) => l \in S1 /\ r2(l) <= r2(w)  BY <3>1
    <3>3. r1(l) = r1(w) /\ r2(l) = r2(w) => l \in S2 /\ r3(l) <= r3(w)  BY <3>2
    <3>4. r1(l) = r1(w) /\ r2(l) = r2(w) /\ r3(l) = r3(w) => l \in S3  BY <3>3
    <3> HIDE DEF S1, S2, S3
    <3> QED  BY <3>1, <3>2, <3>3, <3>4, <2>1, <1>1
  <2>4. l \in S3 => first(w) < first(l)
    <3> HIDE DEF S3
    <3> QED  BY <1>7, <1>2, <2>1, <2>2
  <2>5. Ranks(list, w) = <<r1(w), r2(w), r3(w)>> /\ Ranks(list, l) = <<r1(l), r2(l), r3(l)>>
    BY <1>1, <2>1
  <2> QED  BY <2>3, <2>4, <2>5 DEF Beats, first
<1> QED  BY <1>8

LEMMA Winner ==
  ASSUME NEW list, NEW n \in Nat, DOMAIN list = 1 .. n,
         NEW key \in Keys(list), key \notin Kept(list)
  PROVE  /\ Row(list, key).ours # None
         /\ \E better \in Kept(list) :
               better # key /\ Row(list, better).ours = Row(list, key).ours
<1> DEFINE S == {l \in Keys(list) : Row(list, l).ours = Row(list, key).ours}
<1>1. PICK w \in S : \A l \in S \ {w} : Beats(list, w, l)  BY SomeBest
<1>2. w \in Kept(list)  BY <1>1 DEF Kept
<1> QED  BY <1>2 DEF Kept

-----------------------------------------------------------------------------
(* Codes of airports.                                                      *)

\* Where coordinates are numbers, an airport keeps its code, or takes that of a
\* donor, and one that has coordinates takes it from one nearby.
LEMMA TakenCode ==
  ASSUME NEW list, NEW n \in Nat, DOMAIN list = 1 .. n, None \notin Int,
         \A j \in DOMAIN list : list[j].at \in Int \cup {None},
         NEW i \in DOMAIN list
  PROVE  \/ IataOf(list, i) = list[i].iata
         \/ /\ Airport(list[i]) /\ list[i].iata = None
            /\ \E d \in Donors(list) :
                  /\ IataOf(list, i) = list[d].iata
                  /\ list[i].at # None => d \in NearbyDonors(list, i)
<1>1. CASE ~Airport(list[i]) \/ list[i].iata # None  BY <1>1 DEF IataOf
<1>2. CASE Airport(list[i]) /\ list[i].iata = None /\ NearbyDonors(list, i) # {}
  <2> DEFINE S == NearbyDonors(list, i)
             far(d) == Distance(list[d].at, list[i].at)
  <2>1. \A d \in S : far(d) \in Nat /\ d \in Nat  BY DEF NearbyDonors, Donors, Distance
  <2> DEFINE fars == {far(d) : d \in S}
  <2>a. fars \subseteq Nat /\ fars # {}
    <3> HIDE DEF far
    <3> QED  BY <2>1, <1>2
  <2>2. PICK least \in fars : \A e \in S : least <= far(e)
    <3>1. PICK least \in fars : \A f \in fars : least <= f
      <4> HIDE DEF fars
      <4> QED  BY <2>a, LeastNumber
    <3> HIDE DEF S, far
    <3> QED  BY <3>1
  <2>3. PICK d \in {e \in S : far(e) = least} : \A e \in {f \in S : far(f) = least} : d <= e
    <3> HIDE DEF S, far
    <3> DEFINE nearest == {e \in S : far(e) = least}
    <3>1. nearest \subseteq Nat /\ nearest # {}  BY <2>1, <2>2
    <3> HIDE DEF nearest
    <3>2. \E d \in nearest : \A e \in nearest : d <= e  BY <3>1, LeastNumber
    <3> QED  BY <3>2 DEF nearest
  <2>4. \A e \in S : far(d) < far(e) \/ (far(d) = far(e) /\ d <= e)
    <3> HIDE DEF S, far
    <3> QED  BY <2>1, <2>2, <2>3
  <2>5. Nearest(list, i) \in S
    <3>1. Nearest(list, i) = CHOOSE x \in S : \A e \in S :
             far(x) < far(e) \/ (far(x) = far(e) /\ x <= e)
      BY DEF Nearest
    <3> HIDE DEF S, far
    <3> QED  BY <2>4, <3>1
  <2>6. IataOf(list, i) = list[Nearest(list, i)].iata  BY <1>2 DEF IataOf
  <2> QED  BY <1>2, <2>5, <2>6 DEF NearbyDonors
<1>3. CASE /\ Airport(list[i]) /\ list[i].iata = None /\ NearbyDonors(list, i) = {}
           /\ list[i].at = None /\ NamedCity[list[i].name] = list[i].city
           /\ CityDonors(list, i) # {}
  <2> DEFINE S == CityDonors(list, i)
             votes(x) == Cardinality({c \in CityDonors(list, i) : list[c].iata = list[x].iata})
  <2>1. \A d \in S : votes(d) \in 0 .. n /\ d \in Nat
    <3>1. IsFiniteSet(1 .. n) /\ Cardinality(1 .. n) = n  BY FS_Interval
    <3>2. S \subseteq 1 .. n  BY DEF CityDonors, Donors
    <3>3. ASSUME NEW T \in SUBSET (1 .. n) PROVE Cardinality(T) \in 0 .. n
      <4>0. T \subseteq 1 .. n  OBVIOUS
      <4>1. IsFiniteSet(T) /\ Cardinality(T) <= Cardinality(1 .. n)  BY <4>0, <3>1, FS_Subset
      <4>2. Cardinality(T) \in Nat  BY <4>1, FS_CardinalityType
      <4> QED  BY <3>1, <4>1, <4>2
    <3>4. \A x : {c \in S : list[c].iata = list[x].iata} \in SUBSET (1 .. n)  BY <3>2
    <3> QED  BY <3>2, <3>3, <3>4
  <2>2. PICK m \in S : \A e \in S : votes(e) <= votes(m)
    <3> DEFINE f == [d \in S |-> votes(d)]
    <3>1. f \in [S -> 0 .. n] /\ S # {}
      <4> HIDE DEF votes
      <4> QED  BY <2>1, <1>3
    <3>2. PICK m \in S : \A e \in S : f[e] <= f[m]
      <4> HIDE DEF f, S
      <4> QED  BY <3>1, MostOf
    <3> HIDE DEF S, votes
    <3> QED  BY <3>2 DEF f
  <2>3. PICK d \in {e \in S : votes(e) = votes(m)} :
           \A e \in {f \in S : votes(f) = votes(m)} : d <= e
    <3> HIDE DEF S, votes
    <3> DEFINE most == {e \in S : votes(e) = votes(m)}
    <3>1. most \subseteq Nat /\ most # {}  BY <2>1
    <3> HIDE DEF most
    <3>2. \E d \in most : \A e \in most : d <= e  BY <3>1, LeastNumber
    <3> QED  BY <3>2 DEF most
  <2>4. \A e \in S : votes(d) > votes(e) \/ (votes(d) = votes(e) /\ d <= e)
    <3> HIDE DEF S, votes
    <3> QED  BY <2>1, <2>2, <2>3
  <2>5. Primary(list, i) \in S
    <3>1. Primary(list, i) = CHOOSE x \in S : \A e \in S :
             votes(x) > votes(e) \/ (votes(x) = votes(e) /\ x <= e)
      BY DEF Primary
    <3> HIDE DEF S, votes
    <3> QED  BY <2>4, <3>1
  <2>6. IataOf(list, i) = list[Primary(list, i)].iata  BY <1>3 DEF IataOf
  <2> QED  BY <1>3, <2>5, <2>6 DEF CityDonors
<1>4. CASE /\ Airport(list[i]) /\ list[i].iata = None /\ NearbyDonors(list, i) = {}
           /\ ~(/\ list[i].at = None /\ NamedCity[list[i].name] = list[i].city
                /\ CityDonors(list, i) # {})
  BY <1>4 DEF IataOf
<1> QED  BY <1>1, <1>2, <1>3, <1>4

-----------------------------------------------------------------------------
(* Searching.                                                              *)

\* In any rows, a search by name shows something of what it matches.
LEMMA SearchShows ==
  ASSUME NEW rows, NEW found \in SUBSET rows, NEW types \in SUBSET Requestable, NEW row \in found
  PROVE  LET query == [code |-> None, matches |-> {r.key : r \in found}, types |-> types]
             shown == search_locations(rows, query)
         IN  /\ shown # {}
             /\ row.type \in types => row \in shown
             /\ types = {} => \E other \in shown : other.city = row.city
<1> DEFINE query == [code |-> None, matches |-> {r.key : r \in found}, types |-> types]
           matched == {r \in rows : r.key \in query.matches}
           specific == Specific(matched)
           shown == search_locations(rows, query)
<1>1. shown = OfRequestedType(specific, types)
  <2>1. {r \in rows : r.iata # None /\ r.iata = query.code} = {}  OBVIOUS
  <2> QED  BY <2>1 DEF search_locations
<1>2. row \in matched  OBVIOUS
<1>3. \E other \in specific : other.city = row.city  BY <1>2 DEF Specific
<1>4. row.type # "other" => row \in specific  BY <1>2 DEF Specific
<1> HIDE DEF specific
<1>5. types = {} => shown = specific  BY <1>1 DEF OfRequestedType
<1>6. shown # {}  BY <1>1, <1>3 DEF OfRequestedType
<1>7. row.type \in types => row \in shown
  <2> SUFFICES ASSUME row.type \in types PROVE row \in shown  OBVIOUS
  <2>1. row \in specific  BY <1>4 DEF Requestable
  <2>2. LooksLike(row, types)
    <3>1. row.type \in Says(row.type)  BY DEF Says
    <3> QED  BY <3>1 DEF LooksLike
  <2> QED  BY <1>1, <2>1, <2>2 DEF OfRequestedType
<1> QED  BY <1>3, <1>5, <1>6, <1>7

=============================================================================
