--------------------- MODULE LocationUnification_proofs ---------------------
(***************************************************************************)
(* Theorems about LocationUnification, for any suppliers and catalogs and  *)
(* any number of refreshes.                                                *)
(*                                                                         *)
(* The file is always what Unified makes of the list raw, so the theorems  *)
(* speak of that list.  Two of them need that no supplier gives two        *)
(* locations with one id; no code looks for that.                          *)
(***************************************************************************)
EXTENDS LocationUnification, Unification_proofs, SequenceTheorems

\* A list has no two locations with one supplier and one id.
Distinct(list) == \A i, j \in DOMAIN list : Is(list[i], list[j]) => i = j
IdsAreUnique == \A p \in Suppliers : \A list \in Catalogs[p] : Distinct(list)

-----------------------------------------------------------------------------
(* Finite sets and sequences.                                              *)

LEMMA ImageFinite ==
  ASSUME NEW f, IsFiniteSet(DOMAIN f)
  PROVE  IsFiniteSet({f[x] : x \in DOMAIN f})
<1> DEFINE T == {f[x] : x \in DOMAIN f}
           g == [x \in DOMAIN f |-> f[x]]
<1>1. g \in Surjection(DOMAIN f, T)
  BY DEF Surjection
<1> QED  BY <1>1, FS_Surjection

\* The orders of a finite set are sequences of its elements, each once.
LEMMA OrdersOfSet ==
  ASSUME NEW S, IsFiniteSet(S), NEW s \in SetToSeqs(S)
  PROVE  /\ s \in Seq(S)
         /\ \A i, j \in DOMAIN s : s[i] = s[j] => i = j
<1>1. Cardinality(S) \in Nat  BY FS_CardinalityType
<1>2. s \in [1 .. Cardinality(S) -> S]  BY DEF SetToSeqs
<1>3. \A i, j \in DOMAIN s : i # j => s[i] # s[j]  BY <1>2 DEF SetToSeqs
<1>4. s \in Seq(S)  BY <1>1, <1>2, SeqDef
<1> QED  BY <1>3, <1>4

LEMMA ProvidersInOrder ==
  /\ Len(Providers) \in Nat
  /\ \A n \in 1 .. Len(Providers) : Providers[n] \in Suppliers
  /\ \A m, n \in 1 .. Len(Providers) : Providers[m] = Providers[n] => m = n
<1>1. /\ Providers \in [1 .. Len(Providers) -> Suppliers]
      /\ Len(Providers) \in Nat /\ DOMAIN Providers = 1 .. Len(Providers)
  BY ProvidersAssumption, LenProperties
<1> QED  BY <1>1, ProvidersAssumption DEF IsInjective

-----------------------------------------------------------------------------
(* Lists: the parts of the suppliers, one after the other.                 *)

Joined(lists, more) == {list \o part : list \in lists, part \in more}
UpTo(parts) ==
  CHOOSE upTo : upTo = [n \in 0 .. Len(Providers) |->
      IF n = 0 THEN {<<>>} ELSE Joined(upTo[n - 1], parts[Providers[n]])]

LEMMA JoinedParts ==
  ASSUME NEW lists, NEW more, NEW l \in Joined(lists, more)
  PROVE  \E list \in lists : \E part \in more : l = list \o part
  BY DEF Joined

LEMMA UpToDefined ==
  ASSUME NEW parts
  PROVE  /\ UpTo(parts)[0] = {<<>>}
         /\ \A n \in 1 .. Len(Providers) :
               UpTo(parts)[n] = Joined(UpTo(parts)[n - 1], parts[Providers[n]])
<1> DEFINE At(f, n) == IF n = 0 THEN {<<>>} ELSE Joined(f[n - 1], parts[Providers[n]])
           S == {m \in Nat : \E f : f = [n \in 0 .. m |-> At(f, n)]}
<1>1. 0 \in S
  <2> DEFINE f == [n \in 0 .. 0 |-> {<<>>}]
  <2>1. f = [n \in 0 .. 0 |-> At(f, n)]  OBVIOUS
  <2> HIDE DEF f, At
  <2> QED  BY <2>1
<1>2. ASSUME NEW m \in Nat, m \in S PROVE m + 1 \in S
  <2> HIDE DEF At
  <2>1. PICK f : f = [n \in 0 .. m |-> At(f, n)]  BY <1>2
  <2> DEFINE g == [n \in 0 .. m + 1 |-> At(f, n)]
  <2>2. \A n \in 0 .. m : g[n] = f[n]
    <3>1. \A n \in 0 .. m : f[n] = At(f, n)  BY <2>1
    <3> QED  BY <3>1
  <2>3. \A n \in 0 .. m + 1 : At(g, n) = At(f, n)
    <3> SUFFICES ASSUME NEW n \in 0 .. m + 1 PROVE At(g, n) = At(f, n)  OBVIOUS
    <3>1. n # 0 => g[n - 1] = f[n - 1]
      <4>1. n # 0 => n - 1 \in 0 .. m  OBVIOUS
      <4> HIDE DEF g
      <4> QED  BY <2>2, <4>1
    <3> HIDE DEF g
    <3> QED  BY <3>1 DEF At
  <2>4. g = [n \in 0 .. m + 1 |-> At(g, n)]  BY <2>3
  <2> HIDE DEF g
  <2> QED  BY <2>4
<1>3. Len(Providers) \in S
  <2> HIDE DEF S
  <2> QED  BY <1>1, <1>2, Induction, ProvidersInOrder
<1> DEFINE u == UpTo(parts)
<1>4. u = [n \in 0 .. Len(Providers) |-> At(u, n)]
  <2>1. \E f : f = [n \in 0 .. Len(Providers) |-> At(f, n)]
    <3> HIDE DEF At
    <3> QED  BY <1>3
  <2>2. u = CHOOSE f : f = [n \in 0 .. Len(Providers) |-> At(f, n)]  BY DEF UpTo
  <2> HIDE DEF At, u
  <2> QED  BY <2>1, <2>2
<1>5. \A n \in 0 .. Len(Providers) : u[n] = At(u, n)
  <2> HIDE DEF At, u
  <2> QED  BY <1>4
<1> HIDE DEF u
<1>6. 0 \in 0 .. Len(Providers) /\ \A n \in 1 .. Len(Providers) : n \in 0 .. Len(Providers) /\ n # 0
  BY ProvidersInOrder
<1>7. u[0] = {<<>>} /\ \A n \in 1 .. Len(Providers) : u[n] = Joined(u[n - 1], parts[Providers[n]])
  BY <1>5, <1>6
<1> QED  BY <1>7 DEF u

\* A list of parts has their elements only, and each of them once.
LEMMA ListOfParts ==
  ASSUME NEW E, NEW parts, \A p \in Suppliers : parts[p] \subseteq Seq(E),
         NEW list \in Lists(parts)
  PROVE  /\ list \in Seq(E)
         /\ (\A p \in Suppliers : \A part \in parts[p] :
               Distinct(part) /\ \A i \in DOMAIN part : part[i].provider = p)
            => Distinct(list)
<1> DEFINE Own == \A p \in Suppliers : \A part \in parts[p] :
                     Distinct(part) /\ \A i \in DOMAIN part : part[i].provider = p
           Fine(l, n) ==
              /\ l \in Seq(E)
              /\ Own => /\ Distinct(l)
                        /\ \A i \in DOMAIN l : \E m \in 1 .. n : l[i].provider = Providers[m]
           S == {n \in Nat : n <= Len(Providers) => \A l \in UpTo(parts)[n] : Fine(l, n)}
<1>1. 0 \in S
  <2>1. Fine(<<>>, 0)  BY DEF Distinct
  <2>2. UpTo(parts)[0] = {<<>>}  BY UpToDefined
  <2> HIDE DEF Fine
  <2> QED  BY <2>1, <2>2
<1>2. ASSUME NEW n \in Nat, n \in S PROVE n + 1 \in S
  <2> SUFFICES ASSUME n + 1 <= Len(Providers), NEW l \in UpTo(parts)[n + 1]
               PROVE  Fine(l, n + 1)
    OBVIOUS
  <2>1. n + 1 \in 1 .. Len(Providers) /\ (n + 1) - 1 = n /\ n <= Len(Providers)
    BY ProvidersInOrder
  <2> DEFINE p == Providers[n + 1]
  <2>2. p \in Suppliers  BY <2>1, ProvidersInOrder
  <2>3. PICK k \in UpTo(parts)[n] : \E part \in parts[p] : l = k \o part
    <3>1. UpTo(parts)[n + 1] = Joined(UpTo(parts)[n], parts[p])  BY <2>1, UpToDefined
    <3> QED  BY <3>1, JoinedParts
  <2>a. PICK part \in parts[p] : l = k \o part  BY <2>3
  <2>4. Fine(k, n)  BY <1>2, <2>1
  <2>5. k \in Seq(E) /\ part \in Seq(E)  BY <2>2, <2>4
  <2>6. /\ Len(k) \in Nat /\ DOMAIN k = 1 .. Len(k)
        /\ Len(part) \in Nat /\ DOMAIN part = 1 .. Len(part)
    BY <2>5, LenProperties
  <2>7. /\ l \in Seq(E) /\ DOMAIN l = 1 .. Len(k) + Len(part)
        /\ \A i \in DOMAIN l : \/ i \in DOMAIN k /\ l[i] = k[i]
                               \/ i - Len(k) \in DOMAIN part /\ l[i] = part[i - Len(k)]
    <3>1. /\ l \in Seq(E) /\ Len(l) = Len(k) + Len(part)
          /\ \A i \in 1 .. Len(k) + Len(part) :
                l[i] = IF i <= Len(k) THEN k[i] ELSE part[i - Len(k)]
      BY <2>a, <2>5, ConcatProperties
    <3>2. DOMAIN l = 1 .. Len(k) + Len(part)  BY <3>1, LenProperties
    <3> QED  BY <3>1, <3>2, <2>6
  <2>8. ASSUME Own, NEW i \in DOMAIN l
        PROVE  \/ /\ i \in DOMAIN k /\ l[i] = k[i]
                  /\ \E m \in 1 .. n : l[i].provider = Providers[m]
               \/ i - Len(k) \in DOMAIN part /\ l[i] = part[i - Len(k)] /\ l[i].provider = p
    BY <2>2, <2>4, <2>7, <2>8
  <2>9. \A m \in 1 .. n : Providers[m] # p  BY <2>1, ProvidersInOrder
  <2>10. ASSUME Own, NEW i \in DOMAIN l, NEW j \in DOMAIN l, Is(l[i], l[j]) PROVE i = j
    <3>1. Distinct(k) /\ Distinct(part)  BY <2>2, <2>4, <2>10
    <3>2. l[i].provider = l[j].provider  BY <2>10 DEF Is
    <3>3. CASE i \in DOMAIN k /\ l[i] = k[i] /\ j \in DOMAIN k /\ l[j] = k[j]
      BY <3>1, <3>3, <2>10 DEF Distinct
    <3>4. CASE /\ i - Len(k) \in DOMAIN part /\ l[i] = part[i - Len(k)]
               /\ j - Len(k) \in DOMAIN part /\ l[j] = part[j - Len(k)]
      <4>1. i - Len(k) = j - Len(k)  BY <3>1, <3>4, <2>10 DEF Distinct
      <4> QED  BY <4>1, <2>6, <2>7
    <3> QED  BY <3>2, <3>3, <3>4, <2>8, <2>9, <2>10
  <2>11. Own => \A i \in DOMAIN l : \E m \in 1 .. n + 1 : l[i].provider = Providers[m]
    BY <2>8
  <2> QED  BY <2>7, <2>10, <2>11 DEF Distinct
<1>3. Len(Providers) \in S
  <2> HIDE DEF S
  <2> QED  BY <1>1, <1>2, Induction, ProvidersInOrder
<1>4. Lists(parts) = UpTo(parts)[Len(Providers)]  BY DEF Lists, UpTo, Joined
<1> QED  BY <1>3, <1>4, ProvidersInOrder

-----------------------------------------------------------------------------
(* The rows of a list.                                                     *)

WellFormed(location) ==
  /\ location.provider \in Suppliers
  /\ location.name \in Names /\ location.city \in Cities
  /\ location.word \in Words /\ location.at \in Int \cup {None}

CanonicalsOf(list) == Assigned([i \in DOMAIN list |-> Canonical(list[i])])

LEMMA RowsOfList ==
  ASSUME NEW list
  PROVE  Unified(list) = {Row(CanonicalsOf(list), key) : key \in Kept(CanonicalsOf(list))}
  BY DEF Unified, CanonicalsOf

LEMMA CanonicalType ==
  ASSUME NEW word \in Words, NEW name \in Names
  PROVE  canonicalize_location_type(word, name) \in Types
<1>1. TypeAliases(word) \in Types  BY DEF TypeAliases, Words, Types
<1> QED  BY <1>1, NameAssumption DEF canonicalize_location_type

\* A location keeps all but its city, its type and its code.
LEMMA CanonicalForm ==
  ASSUME NEW list, NEW n \in Nat, DOMAIN list = 1 .. n, \A i \in 1 .. n : WellFormed(list[i]),
         NEW i \in 1 .. n
  PROVE  LET c == CanonicalsOf(list) IN
         /\ DOMAIN c = 1 .. n
         /\ c[i].provider = list[i].provider /\ c[i].id = list[i].id
         /\ c[i].name = list[i].name /\ c[i].country = list[i].country
         /\ c[i].at = list[i].at /\ c[i].ours = list[i].ours
         /\ c[i].city = Display[list[i].city] /\ c[i].city \in Cities
         /\ c[i].type = canonicalize_location_type(list[i].word, list[i].name)
         /\ c[i].type \in Types
<1> DEFINE b == [j \in DOMAIN list |-> Canonical(list[j])]
           c == CanonicalsOf(list)
<1>1. c = [j \in DOMAIN b |-> [b[j] EXCEPT !.iata = IataOf(b, j)]]
  BY DEF CanonicalsOf, Assigned
<1>2. DOMAIN b = 1 .. n /\ b[i] = Canonical(list[i])  OBVIOUS
<1>3. DOMAIN c = 1 .. n /\ c[i] = [Canonical(list[i]) EXCEPT !.iata = IataOf(b, i)]
  BY <1>1, <1>2
<1>4. Display[list[i].city] \in Cities  BY DisplayAssumption DEF WellFormed
<1>5. canonicalize_location_type(list[i].word, list[i].name) \in Types
  BY CanonicalType DEF WellFormed
<1> HIDE DEF b, c
<1> QED  BY <1>3, <1>4, <1>5 DEF Canonical, c

\* The code of a location is its own, if it is an airport, or, when that is
\* none, that of another one, which is near if the location has coordinates.
LEMMA CanonicalCode ==
  ASSUME NEW list, NEW n \in Nat, DOMAIN list = 1 .. n, \A i \in 1 .. n : WellFormed(list[i]),
         NEW i \in 1 .. n
  PROVE  LET c == CanonicalsOf(list) IN
         /\ Airport(c[i]) /\ list[i].iata # None => c[i].iata = list[i].iata
         /\ c[i].iata # None =>
              \/ c[i].iata = list[i].iata
              \/ \E d \in 1 .. n :
                    /\ list[d].iata = c[i].iata
                    /\ list[i].at # None =>
                          list[d].at # None /\ Distance(list[d].at, list[i].at) <= NearbyKm
<1> DEFINE b == [j \in DOMAIN list |-> Canonical(list[j])]
           c == CanonicalsOf(list)
<1>1. c = [j \in DOMAIN b |-> [b[j] EXCEPT !.iata = IataOf(b, j)]]
  BY DEF CanonicalsOf, Assigned
<1>2. DOMAIN b = 1 .. n /\ \A j \in 1 .. n : b[j] = Canonical(list[j])  OBVIOUS
<1>3. c[i] = [Canonical(list[i]) EXCEPT !.iata = IataOf(b, i)]
  BY <1>1, <1>2
<1> HIDE DEF b, c
<1>4. /\ c[i].iata = IataOf(b, i) /\ c[i].type = b[i].type
      /\ \A j \in 1 .. n : /\ b[j].at = list[j].at
                           /\ b[j].iata = IF Airport(b[j]) THEN list[j].iata ELSE None
  BY <1>2, <1>3 DEF Canonical, Airport
<1>5. \A j \in DOMAIN b : b[j].at \in Int \cup {None}
  BY <1>2, <1>4 DEF WellFormed
<1>6. \/ IataOf(b, i) = b[i].iata
      \/ /\ Airport(b[i]) /\ b[i].iata = None
         /\ \E d \in Donors(b) :
               /\ IataOf(b, i) = b[d].iata
               /\ b[i].at # None => d \in NearbyDonors(b, i)
  BY <1>2, <1>5, TakenCode, CatalogsAssumption
<1>7. Airport(b[i]) /\ list[i].iata # None => c[i].iata = list[i].iata
  BY <1>4, <1>6
<1>8. ASSUME c[i].iata # None, c[i].iata # list[i].iata
      PROVE  \E d \in 1 .. n :
                /\ list[d].iata = c[i].iata
                /\ list[i].at # None =>
                      list[d].at # None /\ Distance(list[d].at, list[i].at) <= NearbyKm
  <2>1. IataOf(b, i) # b[i].iata  BY <1>4, <1>8
  <2>2. PICK d \in Donors(b) : /\ IataOf(b, i) = b[d].iata
                               /\ b[i].at # None => d \in NearbyDonors(b, i)
    BY <2>1, <1>6
  <2>3. d \in 1 .. n /\ b[d].iata = list[d].iata  BY <1>2, <1>4 DEF Donors
  <2>4. b[i].at # None => b[d].at # None /\ Distance(b[d].at, b[i].at) <= NearbyKm
    BY <2>2 DEF NearbyDonors
  <2> QED  BY <1>4, <2>2, <2>3, <2>4
<1>9. Airport(c[i]) <=> Airport(b[i])  BY <1>4 DEF Airport
<1> QED  BY <1>7, <1>8, <1>9 DEF c

\* A row has a key that was kept, and the entries of the locations of that key.
LEMMA RowForm ==
  ASSUME NEW list, NEW n \in Nat, DOMAIN list = 1 .. n, \A i \in 1 .. n : WellFormed(list[i]),
         NEW row \in Unified(list)
  PROVE  LET c == CanonicalsOf(list) IN
         /\ row.key \in Kept(c) /\ row = Row(c, row.key)
         /\ row.entries = {Entry(c[i]) : i \in Group(c, row.key)}
         /\ Group(c, row.key) \subseteq 1 .. n /\ Group(c, row.key) # {}
         /\ \E i \in Group(c, row.key) :
               /\ row.city = c[i].city /\ row.type = c[i].type
               /\ row.iata = c[i].iata /\ row.country = c[i].country
<1> DEFINE c == CanonicalsOf(list)
<1>1. PICK key \in Kept(c) : row = Row(c, key)  BY RowsOfList
<1>2. DOMAIN c = 1 .. n
  <2>1. CASE n = 0  BY <2>1 DEF CanonicalsOf, Assigned
  <2>2. CASE n # 0
    <3>1. 1 \in 1 .. n  BY <2>2
    <3> QED  BY <3>1, CanonicalForm
  <2> QED  BY <2>1, <2>2
<1>3. key \in Keys(c) /\ DOMAIN c \subseteq Nat  BY <1>2 DEF Kept
<1> HIDE DEF c
<1>4. /\ row.key = key
      /\ row.entries = {Entry(c[i]) : i \in Group(c, key)}
      /\ \E i \in Group(c, key) :
            /\ row.city = c[i].city /\ row.type = c[i].type
            /\ row.iata = c[i].iata /\ row.country = c[i].country
  BY <1>1, <1>3, RowOfKey
<1> QED  BY <1>1, <1>2, <1>4 DEF c, Group

LEMMA RowsFinite ==
  ASSUME NEW list, NEW n \in Nat, DOMAIN list = 1 .. n, \A i \in 1 .. n : WellFormed(list[i])
  PROVE  IsFiniteSet(Unified(list)) /\ \A row \in Unified(list) : IsFiniteSet(row.entries)
<1> DEFINE c == CanonicalsOf(list)
           keys == [i \in DOMAIN c |-> Key(c[i])]
           rows == [key \in Kept(c) |-> Row(c, key)]
<1>1. IsFiniteSet(DOMAIN c)
  <2>1. IsFiniteSet(1 .. n)  BY FS_Interval
  <2>2. DOMAIN c = DOMAIN list  BY DEF CanonicalsOf, Assigned
  <2> QED  BY <2>1, <2>2
<1>2. IsFiniteSet(Kept(c))
  <2>1. Keys(c) = {keys[i] : i \in DOMAIN keys}  BY DEF Keys
  <2>2. IsFiniteSet(Keys(c))
    <3>1. IsFiniteSet(DOMAIN keys)  BY <1>1
    <3> HIDE DEF keys, c
    <3> QED  BY <3>1, <2>1, ImageFinite
  <2>3. Kept(c) \subseteq Keys(c)  BY DEF Kept
  <2> QED  BY <2>2, <2>3, FS_Subset
<1>3. IsFiniteSet(Unified(list))
  <2>1. Unified(list) = {rows[key] : key \in DOMAIN rows}  BY RowsOfList
  <2>2. IsFiniteSet(DOMAIN rows)  BY <1>2
  <2> HIDE DEF rows
  <2> QED  BY <2>1, <2>2, ImageFinite
<1>4. ASSUME NEW row \in Unified(list) PROVE IsFiniteSet(row.entries)
  <2> DEFINE entries == [i \in Group(c, row.key) |-> Entry(c[i])]
  <2>1. row.entries = {entries[i] : i \in DOMAIN entries}
    <3>1. row.entries = {Entry(c[i]) : i \in Group(c, row.key)}  BY RowForm
    <3> HIDE DEF c
    <3> QED  BY <3>1
  <2>2. IsFiniteSet(DOMAIN entries)
    <3>1. Group(c, row.key) \subseteq DOMAIN c  BY DEF Group
    <3> QED  BY <1>1, <3>1, FS_Subset
  <2> HIDE DEF entries
  <2> QED  BY <2>1, <2>2, ImageFinite
<1> QED  BY <1>3, <1>4

-----------------------------------------------------------------------------
(* The inductive invariant: the file is what was made of well-formed       *)
(* locations.                                                              *)

FileOfList ==
  /\ Len(raw) \in Nat /\ DOMAIN raw = 1 .. Len(raw)
  /\ \A i \in 1 .. Len(raw) : WellFormed(raw[i])
  /\ file = Unified(raw)

IInv == FileOfList /\ TypeOK

LEMMA RowsTyped ==
  ASSUME NEW list, NEW n \in Nat, DOMAIN list = 1 .. n, \A i \in 1 .. n : WellFormed(list[i]),
         NEW row \in Unified(list)
  PROVE  /\ row.type \in Types /\ row.city \in Cities /\ row.entries # {}
         /\ \A e \in row.entries : e.provider \in Suppliers /\ e.name \in Names /\ e.at # 0
<1> DEFINE c == CanonicalsOf(list)
<1>1. /\ row.entries = {Entry(c[i]) : i \in Group(c, row.key)}
      /\ Group(c, row.key) \subseteq 1 .. n /\ Group(c, row.key) # {}
      /\ \E i \in Group(c, row.key) :
            /\ row.city = c[i].city /\ row.type = c[i].type
            /\ row.iata = c[i].iata /\ row.country = c[i].country
  <2> HIDE DEF c
  <2> QED  BY RowForm DEF c
<1>2. \A i \in 1 .. n : /\ c[i].provider \in Suppliers /\ c[i].name \in Names
                        /\ c[i].city \in Cities /\ c[i].type \in Types
  BY CanonicalForm DEF WellFormed
<1>3. None # 0  BY CatalogsAssumption
<1> HIDE DEF c
<1>4. row.type \in Types /\ row.city \in Cities /\ row.entries # {}  BY <1>1, <1>2
<1>5. ASSUME NEW e \in row.entries
      PROVE  e.provider \in Suppliers /\ e.name \in Names /\ e.at # 0
  <2>1. PICK i \in 1 .. n : e = Entry(c[i])  BY <1>1
  <2>2. /\ e.provider = c[i].provider /\ e.name = c[i].name
        /\ e.at = IF c[i].at = 0 THEN None ELSE c[i].at
    BY <2>1 DEF Entry
  <2> QED  BY <1>2, <1>3, <2>2
<1> QED  BY <1>4, <1>5

\* What is kept of a supplier is in its entries.
LEMMA PreservedForm ==
  ASSUME NEW p, NEW x \in Preserved(p)
  PROVE  \E row \in file : \E e \in row.entries :
            /\ e.provider = p /\ x.provider = p /\ x.id = e.id /\ x.name = e.name
            /\ x.city = row.city /\ x.word = row.type /\ x.country = e.country
            /\ x.iata = e.iata /\ x.at = e.at /\ x.ours = row.ours
            /\ x = [provider |-> p, id |-> e.id, name |-> e.name, city |-> row.city,
                    word |-> row.type, country |-> e.country, iata |-> e.iata,
                    at |-> e.at, ours |-> row.ours]
  BY DEF Preserved

LEMMA PreservedFinite ==
  ASSUME FileOfList, NEW p
  PROVE  IsFiniteSet(Preserved(p))
<1> DEFINE kept(row) == {e \in row.entries : e.provider = p}
           form(row) == [e \in kept(row) |->
              [provider |-> p, id |-> e.id, name |-> e.name, city |-> row.city,
               word |-> row.type, country |-> e.country, iata |-> e.iata,
               at |-> e.at, ours |-> row.ours]]
           image(row) == {form(row)[e] : e \in DOMAIN form(row)}
           images == [row \in file |-> image(row)]
           all == {images[row] : row \in DOMAIN images}
<1>1. IsFiniteSet(file) /\ \A row \in file : IsFiniteSet(row.entries)
  BY RowsFinite DEF FileOfList
<1>2. ASSUME NEW row \in file PROVE IsFiniteSet(image(row))
  <2>1. IsFiniteSet(kept(row))  BY <1>1, FS_Subset
  <2>2. DOMAIN form(row) = kept(row)  OBVIOUS
  <2> DEFINE f == form(row)
  <2>3. IsFiniteSet(DOMAIN f)  BY <2>1, <2>2
  <2> HIDE DEF f
  <2>4. IsFiniteSet({f[e] : e \in DOMAIN f})  BY <2>3, ImageFinite
  <2> QED  BY <2>4 DEF f
<1>3. IsFiniteSet(all)
  <2>1. IsFiniteSet(DOMAIN images)  BY <1>1
  <2> HIDE DEF images
  <2> QED  BY <2>1, ImageFinite
<1>4. \A T \in all : IsFiniteSet(T)
  <2> HIDE DEF image
  <2> QED  BY <1>2
<1>5. Preserved(p) = UNION all
  <2>1. \A row \in file : images[row] =
          {[provider |-> p, id |-> e.id, name |-> e.name, city |-> row.city,
            word |-> row.type, country |-> e.country, iata |-> e.iata,
            at |-> e.at, ours |-> row.ours] : e \in {e \in row.entries : e.provider = p}}
    OBVIOUS
  <2>2. all = {images[row] : row \in file}  OBVIOUS
  <2> HIDE DEF images, all
  <2> QED  BY <2>1, <2>2 DEF Preserved
<1> HIDE DEF all
<1> QED  BY <1>3, <1>4, <1>5, FS_UNION

\* A refresh unifies locations that suppliers gave which did not fail, and
\* such as are kept of those that did.
LEMMA RefreshedList ==
  ASSUME FileOfList, NEW lost \in SUBSET Suppliers, Refresh(lost)
  PROVE  /\ Len(raw') \in Nat /\ DOMAIN raw' = 1 .. Len(raw')
         /\ \A i \in 1 .. Len(raw') :
               \/ raw'[i] \in Locations /\ raw'[i].provider \in Suppliers \ lost
               \/ \E p \in lost : raw'[i] \in Preserved(p)
         /\ IdsAreUnique /\ EntryHasOneRow => Distinct(raw')
<1> DEFINE E1 == {l \in Locations : l.provider \in Suppliers \ lost}
           E2 == UNION {Preserved(p) : p \in lost}
<1>1. PICK answers \in Lists(Answers(lost)), kept \in Lists(Additions(lost)) :
         raw' = answers \o kept
  BY DEF Refresh
<1>2. ASSUME NEW p \in Suppliers, NEW part \in Answers(lost)[p]
      PROVE  /\ part \in Seq(E1)
             /\ \A i \in DOMAIN part : part[i].provider = p
             /\ IdsAreUnique => Distinct(part)
  <2>1. CASE p \in lost
    <3>1. part = <<>>  BY <2>1 DEF Answers
    <3> QED  BY <3>1 DEF Distinct
  <2>2. CASE p \notin lost
    <3>1. part \in Catalogs[p]  BY <2>2 DEF Answers
    <3>2. part \in Seq(ToSet(part)) /\ \A l \in ToSet(part) : l.provider = p
      BY <3>1, CatalogsAssumption
    <3>3. ToSet(part) \subseteq E1  BY <2>2, <3>1, <3>2 DEF Locations
    <3>4. \A i \in DOMAIN part : part[i] \in ToSet(part)  BY DEF ToSet
    <3> QED  BY <3>1, <3>2, <3>3, <3>4, SeqMonotonic DEF IdsAreUnique
  <2> QED  BY <2>1, <2>2
<1>3. ASSUME NEW p \in Suppliers, NEW part \in Additions(lost)[p]
      PROVE  /\ part \in Seq(E2)
             /\ \A i \in DOMAIN part : part[i].provider = p
             /\ EntryHasOneRow => Distinct(part)
  <2>1. CASE p \notin lost
    <3>1. part = <<>>  BY <2>1 DEF Additions
    <3> QED  BY <3>1 DEF Distinct
  <2>2. CASE p \in lost
    <3>1. part \in SetToSeqs(Preserved(p))  BY <2>2 DEF Additions
    <3>2. part \in Seq(Preserved(p)) /\ \A i, j \in DOMAIN part : part[i] = part[j] => i = j
      BY <3>1, OrdersOfSet, PreservedFinite
    <3>3. \A i \in DOMAIN part : part[i] \in Preserved(p)
      BY <3>2, LenProperties, ElementOfSeq
    <3>4. \A i \in DOMAIN part : part[i].provider = p
      BY <3>3, PreservedForm
    <3>5. ASSUME EntryHasOneRow, NEW i \in DOMAIN part, NEW j \in DOMAIN part,
                 Is(part[i], part[j])
          PROVE  i = j
      <4>1. \A x, y \in Preserved(p) : x.id = y.id => x = y
        BY <3>5, PreservedForm DEF EntryHasOneRow, Is
      <4> QED  BY <3>2, <3>3, <3>5, <4>1 DEF Is
    <3>6. Preserved(p) \subseteq E2  BY <2>2
    <3> QED  BY <3>2, <3>4, <3>5, <3>6, SeqMonotonic DEF Distinct
  <2> QED  BY <2>1, <2>2
<1>4. answers \in Seq(E1) /\ (IdsAreUnique => Distinct(answers))
  <2> HIDE DEF E1
  <2> QED  BY <1>2, ListOfParts
<1>5. kept \in Seq(E2) /\ (EntryHasOneRow => Distinct(kept))
  <2> HIDE DEF E2
  <2> QED  BY <1>3, ListOfParts
<1> DEFINE a == Len(answers)
           k == Len(kept)
<1>6. a \in Nat /\ DOMAIN answers = 1 .. a /\ k \in Nat /\ DOMAIN kept = 1 .. k
  BY <1>4, <1>5, LenProperties
<1>7. /\ raw' \in Seq(E1 \cup E2) /\ Len(raw') = a + k
      /\ \A i \in 1 .. a + k : raw'[i] = IF i <= a THEN answers[i] ELSE kept[i - a]
  <2>1. answers \in Seq(E1 \cup E2) /\ kept \in Seq(E1 \cup E2)
    BY <1>4, <1>5, SeqMonotonic
  <2> HIDE DEF E1, E2
  <2> QED  BY <1>1, <2>1, ConcatProperties
<1>8. Len(raw') \in Nat /\ DOMAIN raw' = 1 .. Len(raw')
  BY <1>7, LenProperties
<1>9. \A i \in 1 .. Len(raw') :
         \/ i \in 1 .. a /\ raw'[i] = answers[i] /\ raw'[i] \in E1
         \/ i - a \in 1 .. k /\ raw'[i] = kept[i - a] /\ raw'[i] \in E2
  <2>1. \A i \in 1 .. a : answers[i] \in E1  BY <1>4, ElementOfSeq
  <2>2. \A i \in 1 .. k : kept[i] \in E2  BY <1>5, ElementOfSeq
  <2> HIDE DEF E1, E2
  <2> QED  BY <1>6, <1>7, <2>1, <2>2
<1>10. \A l \in E2 : l.provider \in lost  BY PreservedForm
<1>11. ASSUME IdsAreUnique, EntryHasOneRow, NEW i \in 1 .. Len(raw'), NEW j \in 1 .. Len(raw'),
              Is(raw'[i], raw'[j])
       PROVE  i = j
  <2>1. Distinct(answers) /\ Distinct(kept)  BY <1>4, <1>5, <1>11
  <2>2. raw'[i].provider = raw'[j].provider  BY <1>11 DEF Is
  <2>3. ~(raw'[i] \in E1 /\ raw'[j] \in E2) /\ ~(raw'[i] \in E2 /\ raw'[j] \in E1)
    BY <1>10, <2>2
  <2>4. CASE i \in 1 .. a /\ raw'[i] = answers[i] /\ j \in 1 .. a /\ raw'[j] = answers[j]
    BY <1>6, <1>11, <2>1, <2>4 DEF Distinct
  <2>5. CASE /\ i - a \in 1 .. k /\ raw'[i] = kept[i - a]
             /\ j - a \in 1 .. k /\ raw'[j] = kept[j - a]
    <3>1. i - a = j - a  BY <1>6, <1>11, <2>1, <2>5 DEF Distinct
    <3> QED  BY <3>1, <1>6, <1>8
  <2> HIDE DEF E1, E2
  <2> QED  BY <1>9, <2>3, <2>4, <2>5
<1>12. \A i \in 1 .. Len(raw') :
          \/ raw'[i] \in Locations /\ raw'[i].provider \in Suppliers \ lost
          \/ \E p \in lost : raw'[i] \in Preserved(p)
  BY <1>9
<1> QED  BY <1>8, <1>11, <1>12 DEF Distinct

LEMMA LocationsWellFormed ==
  \A l \in Locations : WellFormed(l)
  BY CatalogsAssumption DEF Locations, WellFormed

LEMMA PreservedWellFormed ==
  ASSUME FileOfList, TypeOK, NEW p \in Suppliers, NEW x \in Preserved(p)
  PROVE  WellFormed(x)
<1>1. PICK row \in file : \E e \in row.entries :
         /\ x.provider = p /\ x.name = e.name /\ x.city = row.city /\ x.word = row.type
         /\ x.at = e.at
  BY PreservedForm
<1>a. PICK e \in row.entries :
         /\ x.provider = p /\ x.name = e.name /\ x.city = row.city /\ x.word = row.type
         /\ x.at = e.at
  BY <1>1
<1>2. row.type \in Words  BY <1>1 DEF TypeOK, Words
<1>3. e.at \in Int \cup {None}
  <2> DEFINE c == CanonicalsOf(raw)
  <2>1. row.entries = {Entry(c[i]) : i \in Group(c, row.key)} /\ Group(c, row.key) \subseteq 1 .. Len(raw)
    <3> HIDE DEF c
    <3> QED  BY RowForm DEF FileOfList, c
  <2>2. PICK i \in 1 .. Len(raw) : e = Entry(c[i])
    <3> HIDE DEF c
    <3> QED  BY <1>a, <2>1
  <2>3. c[i].at = raw[i].at  BY CanonicalForm DEF FileOfList
  <2>4. raw[i].at \in Int \cup {None}  BY DEF FileOfList, WellFormed
  <2> HIDE DEF c
  <2> QED  BY <2>2, <2>3, <2>4 DEF Entry
<1> QED  BY <1>a, <1>2, <1>3 DEF WellFormed, TypeOK

LEMMA InvInit == Init => IInv
<1> SUFFICES ASSUME Init PROVE IInv  OBVIOUS
<1>1. FileOfList
  <2>1. Len(raw) = 0 /\ DOMAIN raw = 1 .. 0  BY DEF Init
  <2>2. Kept(CanonicalsOf(raw)) = {}
    <3>1. DOMAIN CanonicalsOf(raw) = {}  BY <2>1 DEF CanonicalsOf, Assigned
    <3> QED  BY <3>1 DEF Kept, Keys
  <2>3. file = Unified(raw)  BY <2>2, RowsOfList DEF Init
  <2> QED  BY <2>1, <2>3 DEF FileOfList
<1>2. TypeOK  BY HopsAssumption DEF Init, TypeOK
<1> QED  BY <1>1, <1>2 DEF IInv

LEMMA InvRefresh ==
  ASSUME IInv, NEW lost \in SUBSET Suppliers, Refresh(lost)
  PROVE  IInv'
<1>1. /\ Len(raw') \in Nat /\ DOMAIN raw' = 1 .. Len(raw')
      /\ \A i \in 1 .. Len(raw') :
            \/ raw'[i] \in Locations
            \/ \E p \in lost : raw'[i] \in Preserved(p)
  BY RefreshedList DEF IInv
<1>2. \A i \in 1 .. Len(raw') : WellFormed(raw'[i])
  BY <1>1, LocationsWellFormed, PreservedWellFormed DEF IInv
<1>3. file' = Unified(raw')  BY DEF Refresh
<1>4. FileOfList'  BY <1>1, <1>2, <1>3 DEF FileOfList
<1>5. failed' \subseteq Suppliers /\ hops' \in 0 .. MaxHops
  BY HopsAssumption DEF Refresh, IInv, TypeOK
<1>6. \A row \in file' :
         /\ row.type \in Types /\ row.city \in Cities /\ row.entries # {}
         /\ \A e \in row.entries : e.provider \in Suppliers /\ e.name \in Names /\ e.at # 0
  BY <1>1, <1>2, <1>3, RowsTyped
<1> QED  BY <1>4, <1>5, <1>6 DEF IInv, TypeOK

LEMMA InvStep == IInv /\ [Next]_vars => IInv'
<1> SUFFICES ASSUME IInv, [Next]_vars PROVE IInv'  OBVIOUS
<1>1. CASE Next  BY <1>1, InvRefresh DEF Next
<1>2. CASE UNCHANGED vars  BY <1>2 DEF vars, IInv, FileOfList, TypeOK
<1> QED  BY <1>1, <1>2

THEOREM Invariance == Spec => []IInv
  BY InvInit, InvStep, PTL DEF Spec

\* The rows of the file are typed: whatever the suppliers answer, and however
\* often a location comes back from the file, its type is one of the seven and
\* it has coordinates or none, never the place 0/0.
THEOREM Typed == Spec => []TypeOK
  BY Invariance, PTL DEF IInv

-----------------------------------------------------------------------------
(* Every location has one row, and is in it, or was left out for an id of  *)
(* ours.                                                                   *)

\* Locations that are told apart have one row each.
LEMMA DistinctGivesOneRow ==
  ASSUME FileOfList, Distinct(raw)
  PROVE  EntryHasOneRow
<1> DEFINE c == CanonicalsOf(raw)
<1>1. ASSUME NEW row \in file, NEW e \in row.entries
      PROVE  \E i \in 1 .. Len(raw) :
                /\ row = Row(c, Key(c[i])) /\ e = Entry(c[i])
                /\ e.provider = raw[i].provider /\ e.id = raw[i].id
  <2>1. /\ row = Row(c, row.key) /\ row.entries = {Entry(c[i]) : i \in Group(c, row.key)}
        /\ Group(c, row.key) \subseteq 1 .. Len(raw)
    <3>1. /\ Len(raw) \in Nat /\ DOMAIN raw = 1 .. Len(raw)
          /\ \A i \in 1 .. Len(raw) : WellFormed(raw[i])
          /\ row \in Unified(raw)
      BY <1>1 DEF FileOfList
    <3> QED  BY <3>1, RowForm
  <2>2. PICK i \in Group(c, row.key) : e = Entry(c[i])
    <3> HIDE DEF c
    <3> QED  BY <1>1, <2>1
  <2>3. i \in 1 .. Len(raw) /\ Key(c[i]) = row.key  BY <2>1, <2>2 DEF Group
  <2>4. c[i].provider = raw[i].provider /\ c[i].id = raw[i].id
    BY <2>3, CanonicalForm DEF FileOfList
  <2> HIDE DEF c
  <2> QED  BY <2>1, <2>2, <2>3, <2>4 DEF Entry
<1>2. DOMAIN raw = 1 .. Len(raw)  BY DEF FileOfList
<1> HIDE DEF c
<1>3. ASSUME NEW row \in file, NEW other \in file, NEW e \in row.entries, NEW f \in other.entries,
             Is(e, f)
      PROVE  row = other /\ e = f
  <2>1. PICK i \in 1 .. Len(raw) :
           /\ row = Row(c, Key(c[i])) /\ e = Entry(c[i])
           /\ e.provider = raw[i].provider /\ e.id = raw[i].id
    BY <1>1
  <2>2. PICK j \in 1 .. Len(raw) :
           /\ other = Row(c, Key(c[j])) /\ f = Entry(c[j])
           /\ f.provider = raw[j].provider /\ f.id = raw[j].id
    BY <1>1
  <2>3. Is(raw[i], raw[j])  BY <1>3, <2>1, <2>2 DEF Is
  <2>4. i = j  BY <1>2, <2>3 DEF Distinct
  <2> QED  BY <2>1, <2>2, <2>4
<1> QED  BY <1>3 DEF EntryHasOneRow

DistinctInv == IInv /\ Distinct(raw)

LEMMA DistinctInvariance == ASSUME IdsAreUnique PROVE Spec => []DistinctInv
<1>1. Init => DistinctInv
  BY InvInit DEF Init, DistinctInv, Distinct
<1>2. DistinctInv /\ [Next]_vars => DistinctInv'
  <2> SUFFICES ASSUME DistinctInv, [Next]_vars PROVE DistinctInv'  OBVIOUS
  <2>1. IInv'  BY InvStep DEF DistinctInv
  <2>2. ASSUME NEW lost \in SUBSET Suppliers, Refresh(lost) PROVE Distinct(raw)'
    <3>1. FileOfList /\ EntryHasOneRow  BY DistinctGivesOneRow DEF DistinctInv, IInv
    <3>2. Distinct(raw')  BY <2>2, <3>1, RefreshedList
    <3> QED  BY <3>2
  <2>3. CASE UNCHANGED vars
    <3>1. Distinct(raw) /\ raw' = raw  BY <2>3 DEF vars, DistinctInv
    <3>2. Distinct(raw)'  BY <3>1 DEF Distinct
    <3> QED  BY <2>1, <3>2 DEF DistinctInv
  <2> QED  BY <2>1, <2>2, <2>3 DEF Next, DistinctInv
<1> QED  BY <1>1, <1>2, PTL DEF Spec

\* When suppliers do not give one id twice, a location has one row: neither an
\* answer and what is kept of a failed supplier, nor two rows of the file from
\* which something is kept, give it two.
THEOREM OneRow == ASSUME IdsAreUnique PROVE Spec => []EntryHasOneRow
<1>1. DistinctInv => EntryHasOneRow
  BY DistinctGivesOneRow DEF DistinctInv, IInv
<1> QED  BY <1>1, DistinctInvariance, PTL

\* A location is only lost to a row with the same id of ours, which is kept.
LEMMA LostToOurs == FileOfList => LostOnlyToOurs
<1> SUFFICES ASSUME FileOfList PROVE LostOnlyToOurs  OBVIOUS
<1> DEFINE c == CanonicalsOf(raw)
           n == Len(raw)
<1>1. n \in Nat /\ DOMAIN raw = 1 .. n /\ Canonicals = c /\ DOMAIN c = 1 .. n
  BY DEF FileOfList, Canonicals, CanonicalsOf, Assigned
<1>2. file = {Row(c, key) : key \in Kept(c)}  BY RowsOfList DEF FileOfList
<1> HIDE DEF c, n
<1> SUFFICES ASSUME NEW i \in 1 .. n
             PROVE  \/ \E e \in Entries : Is(e, c[i])
                    \/ \E j \in 1 .. n :
                          /\ Key(c[j]) = Key(c[i]) /\ c[j].ours # None
                          /\ \E row \in file : row.ours = c[j].ours /\ row.key # Key(c[i])
  BY <1>1 DEF LostOnlyToOurs
<1> DEFINE key == Key(c[i])
<1>3. key \in Keys(c) /\ i \in Group(c, key)  BY <1>1 DEF Keys, Group
<1>4. CASE key \in Kept(c)
  <2>1. Entry(c[i]) \in Row(c, key).entries  BY <1>1, <1>3, RowOfKey
  <2>2. Row(c, key) \in file  BY <1>2, <1>4
  <2>3. Entry(c[i]) \in Entries  BY <2>1, <2>2 DEF Entries
  <2> QED  BY <2>3 DEF Is, Entry
<1>5. CASE key \notin Kept(c)
  <2> HIDE DEF key
  <2>1. /\ Row(c, key).ours # None
        /\ \E better \in Kept(c) : better # key /\ Row(c, better).ours = Row(c, key).ours
    BY <1>1, <1>3, <1>5, Winner
  <2>2. PICK j \in Owned(c, key) : Row(c, key).ours = c[j].ours
    BY <1>1, <1>3, <2>1, RowOfKey
  <2>3. j \in 1 .. n /\ Key(c[j]) = key  BY <1>1 DEF Owned, Group
  <2>4. PICK better \in Kept(c) : better # key /\ Row(c, better).ours = Row(c, key).ours  BY <2>1
  <2>5. Row(c, better).key = better  BY <1>1, RowOfKey DEF Kept
  <2>6. Row(c, better) \in file  BY <1>2
  <2> QED  BY <2>1, <2>2, <2>3, <2>4, <2>5, <2>6 DEF key
<1> QED  BY <1>4, <1>5

\* A location is only missing from the file when its own group has an id of
\* ours that a better row has too.
THEOREM OnlyOursIsLost == Spec => []LostOnlyToOurs
  BY Invariance, LostToOurs, PTL DEF IInv

\* A search of any file shows something of what it matches.
THEOREM Shown == Spec => []FoundIsShown
<1>1. FoundIsShown  BY SearchShows DEF FoundIsShown
<1> QED  BY <1>1, PTL

-----------------------------------------------------------------------------
(* Codes.                                                                  *)

LEMMA DistanceAdds ==
  ASSUME NEW a \in Int, NEW b \in Int, NEW c \in Int
  PROVE  /\ Distance(a, b) \in Nat /\ Distance(a, a) = 0
         /\ Distance(a, c) <= Distance(a, b) + Distance(b, c)
  BY DEF Distance

LEMMA Kilometres ==
  ASSUME NEW h \in Nat
  PROVE  /\ NearbyKm \in Nat /\ NearbyKm * h \in Nat
         /\ NearbyKm * (h + 1) = NearbyKm * h + NearbyKm
  BY DEF NearbyKm

\* What is unified has its codes from near places: that of a supplier is its
\* own, and one that is kept has moved as far as the file allows.
LEMMA RawStaysNear ==
  ASSUME IInv, IataStaysNear, NEW lost \in SUBSET Suppliers, Refresh(lost),
         NEW i \in 1 .. Len(raw'), raw'[i].iata # None, raw'[i].at # None
  PROVE  \E location \in Locations :
            /\ location.iata = raw'[i].iata /\ location.at # None
            /\ Distance(location.at, raw'[i].at) <= NearbyKm * hops'
<1>1. hops \in Nat /\ hops' \in Nat /\ (lost # {} => hops' = hops + 1)
  BY HopsAssumption DEF IInv, TypeOK, Refresh
<1>2. \/ raw'[i] \in Locations
      \/ \E p \in lost : raw'[i] \in Preserved(p)
  BY RefreshedList DEF IInv
<1>3. CASE raw'[i] \in Locations
  <2>1. raw'[i].at \in Int  BY <1>3, LocationsWellFormed DEF WellFormed
  <2>2. Distance(raw'[i].at, raw'[i].at) = 0  BY <2>1, DistanceAdds
  <2>3. 0 <= NearbyKm * hops'
    <3>1. NearbyKm * hops' \in Nat  BY <1>1, Kilometres
    <3> QED  BY <3>1
  <2> QED  BY <1>3, <2>2, <2>3
<1>4. ASSUME NEW p \in lost, raw'[i] \in Preserved(p)
      PROVE  \E location \in Locations :
                /\ location.iata = raw'[i].iata /\ location.at # None
                /\ Distance(location.at, raw'[i].at) <= NearbyKm * hops'
  <2>1. \E e \in Entries : raw'[i].iata = e.iata /\ raw'[i].at = e.at
    BY <1>4, PreservedForm DEF Entries
  <2>2. hops' = hops + 1  BY <1>1
  <2> QED  BY <2>1, <2>2 DEF IataStaysNear
<1> QED  BY <1>2, <1>3, <1>4

LEMMA NearStep ==
  ASSUME IInv, IataStaysNear, NEW lost \in SUBSET Suppliers, Refresh(lost)
  PROVE  IataStaysNear'
<1> DEFINE c == CanonicalsOf(raw')
           n == Len(raw')
<1>1. /\ n \in Nat /\ DOMAIN raw' = 1 .. n /\ \A i \in 1 .. n : WellFormed(raw'[i])
      /\ file' = Unified(raw') /\ hops' \in Nat
  BY InvRefresh, HopsAssumption DEF IInv, FileOfList, TypeOK
<1> SUFFICES ASSUME NEW row \in file', NEW e \in row.entries, e.iata # None, e.at # None
             PROVE  \E location \in Locations :
                       /\ location.iata = e.iata /\ location.at # None
                       /\ Distance(location.at, e.at) <= NearbyKm * (hops' + 1)
  BY DEF IataStaysNear, Entries
<1>2. PICK i \in 1 .. n : e = Entry(c[i])
  <2>1. row.entries = {Entry(c[i]) : i \in Group(c, row.key)} /\ Group(c, row.key) \subseteq 1 .. n
    <3> HIDE DEF c, n
    <3> QED  BY <1>1, RowForm DEF c
  <2> HIDE DEF c, n
  <2> QED  BY <2>1
<1>3. c[i].at = raw'[i].at  BY <1>1, CanonicalForm
<1>4. e.iata = c[i].iata /\ e.at = raw'[i].at
  <2> HIDE DEF c
  <2> QED  BY <1>2, <1>3 DEF Entry
<1>5. \/ c[i].iata = raw'[i].iata
      \/ \E d \in 1 .. n :
            /\ raw'[d].iata = c[i].iata
            /\ raw'[i].at # None =>
                  raw'[d].at # None /\ Distance(raw'[d].at, raw'[i].at) <= NearbyKm
  BY <1>1, <1>4, CanonicalCode
<1> HIDE DEF c
<1>6. CASE c[i].iata = raw'[i].iata
  <2>1. PICK location \in Locations :
           /\ location.iata = raw'[i].iata /\ location.at # None
           /\ Distance(location.at, raw'[i].at) <= NearbyKm * hops'
    BY <1>4, <1>6, RawStaysNear
  <2>2. location.at \in Int /\ raw'[i].at \in Int
    BY <1>1, <1>4, <2>1, LocationsWellFormed DEF WellFormed
  <2>3. Distance(location.at, raw'[i].at) \in Nat  BY <2>2, DistanceAdds
  <2>4. NearbyKm * hops' <= NearbyKm * (hops' + 1)
    <3>1. /\ NearbyKm \in Nat /\ NearbyKm * hops' \in Nat
          /\ NearbyKm * (hops' + 1) = NearbyKm * hops' + NearbyKm
      BY <1>1, Kilometres
    <3> QED  BY <3>1
  <2>5. Distance(location.at, raw'[i].at) <= NearbyKm * (hops' + 1)
    BY <1>1, <2>1, <2>3, <2>4 DEF NearbyKm
  <2> QED  BY <1>4, <1>6, <2>1, <2>5
<1>7. ASSUME NEW d \in 1 .. n, raw'[d].iata = c[i].iata, raw'[d].at # None,
             Distance(raw'[d].at, raw'[i].at) <= NearbyKm
      PROVE  \E location \in Locations :
                /\ location.iata = e.iata /\ location.at # None
                /\ Distance(location.at, e.at) <= NearbyKm * (hops' + 1)
  <2>1. PICK location \in Locations :
           /\ location.iata = raw'[d].iata /\ location.at # None
           /\ Distance(location.at, raw'[d].at) <= NearbyKm * hops'
    BY <1>4, <1>7, RawStaysNear
  <2>2. location.at \in Int /\ raw'[d].at \in Int /\ raw'[i].at \in Int
    BY <1>1, <1>4, <1>7, <2>1, LocationsWellFormed DEF WellFormed
  <2>3. /\ Distance(location.at, raw'[d].at) \in Nat
        /\ Distance(raw'[d].at, raw'[i].at) \in Nat
        /\ Distance(location.at, raw'[i].at) \in Nat
        /\ Distance(location.at, raw'[i].at)
              <= Distance(location.at, raw'[d].at) + Distance(raw'[d].at, raw'[i].at)
    BY <2>2, DistanceAdds
  <2>4. Distance(location.at, raw'[i].at) <= NearbyKm * (hops' + 1)
    BY <1>1, <1>7, <2>1, <2>3 DEF NearbyKm
  <2> QED  BY <1>4, <1>7, <2>1, <2>4
<1> QED  BY <1>4, <1>5, <1>6, <1>7

\* A code comes from a location with coordinates at most 15 km away, and 15 km
\* more for every refresh since the last one without failures.
THEOREM CodesStayNear == Spec => []IataStaysNear
<1>1. Init => IInv /\ IataStaysNear
  BY InvInit DEF Init, IataStaysNear, Entries
<1>2. IInv /\ IataStaysNear /\ [Next]_vars => (IInv /\ IataStaysNear)'
  <2> SUFFICES ASSUME IInv, IataStaysNear, [Next]_vars PROVE IataStaysNear'  BY InvStep
  <2>1. CASE Next  BY <2>1, NearStep DEF Next
  <2>2. CASE UNCHANGED vars  BY <2>2 DEF vars, IataStaysNear, Entries
  <2> QED  BY <2>1, <2>2
<1> QED  BY <1>1, <1>2, PTL DEF Spec

-----------------------------------------------------------------------------
(* Ids.                                                                    *)

\* A location that is kept goes through the unification with what its row says.
LEMMA KeptForm ==
  ASSUME FileOfList, EntryHasOneRow, NEW lost \in SUBSET Suppliers, Refresh(lost),
         NEW old \in file, NEW e \in old.entries, e.provider \in lost,
         NEW j \in 1 .. Len(raw'), raw'[j].provider = e.provider, raw'[j].id = e.id
  PROVE  /\ raw'[j].name = e.name /\ raw'[j].city = old.city /\ raw'[j].word = old.type
         /\ raw'[j].country = e.country /\ raw'[j].iata = e.iata
<1>1. PICK p \in lost : raw'[j] \in Preserved(p)  BY RefreshedList
<1>2. \E row \in file : \E f \in row.entries :
         /\ f.provider = p /\ raw'[j].provider = p /\ raw'[j].id = f.id /\ raw'[j].name = f.name
         /\ raw'[j].city = row.city /\ raw'[j].word = row.type /\ raw'[j].country = f.country
         /\ raw'[j].iata = f.iata
  BY <1>1, PreservedForm
<1>3. PICK row \in file : \E f \in row.entries :
         /\ f.provider = p /\ raw'[j].provider = p /\ raw'[j].id = f.id /\ raw'[j].name = f.name
         /\ raw'[j].city = row.city /\ raw'[j].word = row.type /\ raw'[j].country = f.country
         /\ raw'[j].iata = f.iata
  BY <1>2
<1>4. PICK f \in row.entries :
         /\ f.provider = p /\ raw'[j].provider = p /\ raw'[j].id = f.id /\ raw'[j].name = f.name
         /\ raw'[j].city = row.city /\ raw'[j].word = row.type /\ raw'[j].country = f.country
         /\ raw'[j].iata = f.iata
  BY <1>3
<1>5. Is(e, f)  BY <1>4 DEF Is
<1>6. row = old /\ f = e
  <2>1. \A r, o \in file : \A x \in r.entries, y \in o.entries : Is(x, y) => r = o /\ x = y
    BY DEF EntryHasOneRow
  <2> QED  BY <2>1, <1>5
<1> QED  BY <1>4, <1>6

\* The key that a kept location has after the refresh is that of its row, but
\* for the exceptions that FailedKeepsIds names.
LEMMA KeptKey ==
  ASSUME NEW a, NEW row, NEW first, NEW b, NEW word \in Words,
         Key(first) = Key(a), a.name \in Names,
         row.type = first.type, row.city = first.city, row.iata = first.iata,
         a.type = canonicalize_location_type(word, a.name),
         b.type = canonicalize_location_type(row.type, a.name),
         b.country = a.country, b.city = Display[row.city],
         Airport(b) /\ a.iata # None => b.iata = a.iata,
         ~(row.type = "airport" /\ row.iata = None),
         ~(row.type = "train_station" /\ NamedType[a.name] = None),
         ~(row.type # "airport" /\ Display[row.city] # row.city)
  PROVE  Key(b) = Key(a)
<1>1. /\ first.country = a.country /\ first.type = a.type
      /\ Airport(first) => first.iata = a.iata
      /\ ~Airport(first) => first.city = a.city
  BY KeysAgree
<1>2. a.type = row.type  BY <1>1
<1>3. b.type = a.type
  <2>1. CASE NamedType[a.name] # None
    BY <2>1 DEF canonicalize_location_type
  <2>2. CASE NamedType[a.name] = None
    <3>1. a.type = TypeAliases(word) /\ b.type = TypeAliases(a.type)
      BY <2>2, <1>2 DEF canonicalize_location_type
    <3>2. a.type # "train_station"  BY <2>2, <1>2
    <3>3. TypeAliases(word) \notin {"train_station"} => TypeAliases(TypeAliases(word)) = TypeAliases(word)
      BY DEF TypeAliases, Words, Types
    <3> QED  BY <3>1, <3>2, <3>3
  <2> QED  BY <2>1, <2>2
<1>4. CASE Airport(a)
  <2>1. Airport(b) /\ Airport(first)  BY <1>1, <1>3, <1>4 DEF Airport
  <2>2. a.iata # None  BY <1>1, <1>2, <1>4, <2>1 DEF Airport
  <2>3. b.iata = a.iata  BY <2>1, <2>2
  <2> QED  BY <1>4, <2>1, <2>2, <2>3 DEF Key
<1>5. CASE ~Airport(a)
  <2>1. ~Airport(b) /\ ~Airport(first)  BY <1>1, <1>3, <1>5 DEF Airport
  <2>2. b.city = a.city  BY <1>1, <1>2, <1>5, <2>1 DEF Airport
  <2> QED  BY <1>3, <1>5, <2>1, <2>2 DEF Key
<1> QED  BY <1>4, <1>5

\* When suppliers do not give one id twice, a failed fetch leaves the unified
\* ids of the supplier's locations what they were, with the exceptions of
\* FailedKeepsIds.
THEOREM IdsSurvive == ASSUME IdsAreUnique PROVE Spec => FailedKeepsIds
<1> DEFINE A == \A old \in file, new \in file' : \A e \in old.entries, f \in new.entries :
                   Is(e, f) /\ e.provider \in failed' =>
                      \/ new.key = old.key
                      \/ old.type = "airport" /\ old.iata = None
                      \/ old.type = "train_station" /\ NamedType[e.name] = None
                      \/ old.type # "airport" /\ Display[old.city] # old.city
<1>1. ASSUME DistinctInv, NEW lost \in SUBSET Suppliers, Refresh(lost) PROVE A
  <2> SUFFICES ASSUME NEW old \in file, NEW new \in file',
                      NEW e \in old.entries, NEW f \in new.entries,
                      Is(e, f), e.provider \in failed',
                      ~(old.type = "airport" /\ old.iata = None),
                      ~(old.type = "train_station" /\ NamedType[e.name] = None),
                      ~(old.type # "airport" /\ Display[old.city] # old.city)
               PROVE  new.key = old.key
    OBVIOUS
  <2> DEFINE c == CanonicalsOf(raw)
             d == CanonicalsOf(raw')
  <2>1. /\ Len(raw) \in Nat /\ DOMAIN raw = 1 .. Len(raw) /\ file = Unified(raw)
        /\ \A i \in 1 .. Len(raw) : WellFormed(raw[i])
    BY <1>1 DEF DistinctInv, IInv, FileOfList
  <2>2. /\ Len(raw') \in Nat /\ DOMAIN raw' = 1 .. Len(raw') /\ file' = Unified(raw')
        /\ \A i \in 1 .. Len(raw') : WellFormed(raw'[i])
    BY <1>1, InvRefresh DEF DistinctInv, IInv, FileOfList
  <2>3. /\ old.entries = {Entry(c[i]) : i \in Group(c, old.key)}
        /\ Group(c, old.key) \subseteq 1 .. Len(raw)
        /\ \E i \in Group(c, old.key) :
              old.city = c[i].city /\ old.type = c[i].type /\ old.iata = c[i].iata
    <3> HIDE DEF c
    <3> QED  BY <2>1, RowForm DEF c
  <2>4. /\ new.entries = {Entry(d[i]) : i \in Group(d, new.key)}
        /\ Group(d, new.key) \subseteq 1 .. Len(raw')
    <3> HIDE DEF d
    <3> QED  BY <2>2, RowForm DEF d
  <2>5. PICK i \in 1 .. Len(raw) : i \in Group(c, old.key) /\ e = Entry(c[i])
    <3> HIDE DEF c
    <3> QED  BY <2>3
  <2>6. PICK first \in 1 .. Len(raw) :
           /\ first \in Group(c, old.key)
           /\ old.city = c[first].city /\ old.type = c[first].type /\ old.iata = c[first].iata
    <3> HIDE DEF c
    <3> QED  BY <2>3
  <2>7. PICK j \in 1 .. Len(raw') : j \in Group(d, new.key) /\ f = Entry(d[j])
    <3> HIDE DEF d
    <3> QED  BY <2>4
  <2>8. /\ Key(c[i]) = old.key /\ Key(c[first]) = old.key /\ Key(d[j]) = new.key
    BY <2>5, <2>6, <2>7 DEF Group
  <2>9. /\ c[i].type = canonicalize_location_type(raw[i].word, raw[i].name)
        /\ c[i].name = raw[i].name
        /\ raw[i].word \in Words /\ raw[i].name \in Names
    BY <2>1, CanonicalForm DEF WellFormed
  <2>10. /\ d[j].type = canonicalize_location_type(raw'[j].word, raw'[j].name)
         /\ d[j].city = Display[raw'[j].city] /\ d[j].country = raw'[j].country
         /\ d[j].provider = raw'[j].provider /\ d[j].id = raw'[j].id
    BY <2>2, CanonicalForm
  <2>11. Airport(d[j]) /\ raw'[j].iata # None => d[j].iata = raw'[j].iata
    BY <2>2, CanonicalCode
  <2> HIDE DEF c, d
  <2>12. /\ e.name = c[i].name /\ e.country = c[i].country /\ e.iata = c[i].iata
         /\ f.provider = d[j].provider /\ f.id = d[j].id
    BY <2>5, <2>7 DEF Entry
  <2>13. /\ raw'[j].name = e.name /\ raw'[j].city = old.city /\ raw'[j].word = old.type
         /\ raw'[j].country = e.country /\ raw'[j].iata = e.iata
    <3>1. FileOfList /\ EntryHasOneRow  BY <1>1, DistinctGivesOneRow DEF DistinctInv, IInv
    <3>2. e.provider \in lost  BY <1>1 DEF Refresh
    <3>3. raw'[j].provider = e.provider /\ raw'[j].id = e.id  BY <2>10, <2>12 DEF Is
    <3> QED  BY <1>1, <3>1, <3>2, <3>3, KeptForm
  <2>14. Key(d[j]) = Key(c[i])
    <3> DEFINE a == c[i]
               b == d[j]
               g == c[first]
    <3>1. /\ Key(g) = Key(a) /\ a.name \in Names
          /\ old.type = g.type /\ old.city = g.city /\ old.iata = g.iata
          /\ a.type = canonicalize_location_type(raw[i].word, a.name)
          /\ b.type = canonicalize_location_type(old.type, a.name)
          /\ b.country = a.country /\ b.city = Display[old.city]
          /\ Airport(b) /\ a.iata # None => b.iata = a.iata
          /\ ~(old.type = "train_station" /\ NamedType[a.name] = None)
      BY <2>6, <2>8, <2>9, <2>10, <2>11, <2>12, <2>13
    <3> HIDE DEF a, b, g
    <3>2. Key(b) = Key(a)  BY <2>9, <3>1, KeptKey
    <3> QED  BY <3>2 DEF a, b
  <2> QED  BY <2>8, <2>14
<1>2. DistinctInv /\ [Next]_vars => [A]_vars
  <2> HIDE DEF A
  <2> QED  BY <1>1 DEF Next
<1> QED  BY <1>2, DistinctInvariance, PTL DEF Spec, FailedKeepsIds

=============================================================================
