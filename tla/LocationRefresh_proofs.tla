------------------------ MODULE LocationRefresh_proofs ------------------------
(***************************************************************************)
(* Theorems about LocationRefresh for any set of providers.  Types hold    *)
(* for any number of refreshers; the rest needs that there is only one,    *)
(* and the run LocationTwoRefreshers shows that it does.                   *)
(***************************************************************************)
EXTENDS LocationRefresh, TLAPS

(***************************************************************************)
(* Types.                                                                  *)
(***************************************************************************)
\* Every step keeps the types: a refresh, then the gateway.
LEMMA TypeStep == TypeOK /\ [Next]_vars => TypeOK'
<1> SUFFICES ASSUME TypeOK, [Next]_vars PROVE TypeOK'
  OBVIOUS
<1> USE DEF TypeOK, Goto, With, Fetched, Answers, files, repository
<1>0. Catalog \subseteq Providers
  BY DEF Catalog, Content
<1>1. ASSUME NEW p \in Refreshers, Begin(p) PROVE TypeOK'
  BY <1>1 DEF Begin
<1>2. ASSUME NEW p \in Refreshers, Open(p) PROVE TypeOK'
  BY <1>2, NoInodeAssumption DEF Open, ReadyToWrite, Content, Broken
<1>3. ASSUME NEW p \in Refreshers, Write(p) PROVE TypeOK'
  <2>1. PICK c \in Outcomes(p) : data' = [data EXCEPT ![handle[p]] = c]
    BY <1>3 DEF Write
  <2>2. c \in Content
    <3>1. Fetched(p) \cup kept[p] \subseteq Providers
      OBVIOUS
    <3>2. Document(p) \in Content
      BY <3>1 DEF Document, Content
    <3>3. Broken \in Content
      BY DEF Broken, Content
    <3>4. c = Document(p) \/ c = Broken
      BY DEF Outcomes
    <3> QED
      BY <3>2, <3>3, <3>4
  <2>3. data' \in [Inodes -> Content]
    BY <2>1, <2>2
  <2> QED
    BY <1>3, <2>3 DEF Write
<1>4. ASSUME NEW p \in Refreshers, Rename(p) PROVE TypeOK'
  BY <1>4 DEF Rename, Misread
<1>5. ASSUME NEW p \in Refreshers, Reload(p) PROVE TypeOK'
  BY <1>0, <1>5 DEF Reload
<1>6. ASSUME NEW p \in Refreshers, Abort(p) PROVE TypeOK'
  BY <1>6 DEF Abort
<1>7. ASSUME NEW p \in Refreshers, NEW a \in Providers, Fetch(p, a) PROVE TypeOK'
  BY <1>7 DEF Fetch
<1>8. ASSUME NEW p \in Refreshers, NEW a \in Providers, Keep(p, a) PROVE TypeOK'
  <2>1. got' \in [Refreshers -> [Providers -> Answers \cup {"none", "looked", "misread"}]]
    <3>1. \E x \in {"looked", "misread"} : got' = [got EXCEPT ![p][a] = x]
      BY <1>8, Zenon DEF Keep
    <3> QED
      BY <3>1
  <2>2. kept' \in [Refreshers -> SUBSET Providers]
    BY <1>0, <1>8 DEF Keep
  <2> QED
    BY <1>8, <2>1, <2>2 DEF Keep
<1>9. CASE Load
  BY <1>0, <1>9 DEF Load
<1>10. CASE Restart
  BY <1>10 DEF Restart
<1>11. CASE UNCHANGED vars
  BY <1>11 DEF vars
<1> QED
  BY <1>1, <1>2, <1>3, <1>4, <1>5, <1>6, <1>7, <1>8, <1>9, <1>10, <1>11 DEF Next

\* The first state has the right types, with or without a file.
LEMMA InitType == Init => TypeOK
<1> SUFFICES ASSUME Init PROVE TypeOK
  OBVIOUS
<1>1. ASSUME NEW s \in SUBSET Providers PROVE [whole |-> TRUE, has |-> s] \in Content
  BY DEF Content
<1>2. Broken \in Content
  BY DEF Broken, Content
<1>3. data \in [Inodes -> Content]
  <2>1. CASE data = [i \in Inodes |-> Broken]
    BY <1>2, <2>1
  <2>2. ASSUME NEW s \in SUBSET Providers,
               data = [i \in Inodes |-> IF i = json THEN [whole |-> TRUE, has |-> s] ELSE Broken]
        PROVE  data \in [Inodes -> Content]
    BY <1>1, <1>2, <2>2
  <2> QED
    BY <2>1, <2>2 DEF Init
<1> QED
  BY <1>3, NoInodeAssumption DEF Init, TypeOK

\* Every variable keeps its type and a file is open exactly while it is written,
\* for any number of refreshers.
THEOREM TypeCorrect == Spec => []TypeOK
  BY InitType, TypeStep, PTL DEF Spec

-----------------------------------------------------------------------------
(***************************************************************************)
(* One refresher.  The strengthening says where the two names point and    *)
(* what is in the files (CleanFiles), that a refresh under way holds what  *)
(* the file has of the providers it has looked up (KeptIsThere), and that  *)
(* the repository lags behind the file only by what is gone.               *)
(***************************************************************************)
Alone == \A p, q \in Refreshers : p = q

CleanFiles ==
    /\ mixed = {}
    /\ JsonIsWhole
    /\ tmp # NoInode => tmp # json
    /\ \A p \in Refreshers :
          /\ pc[p] = "writing" => tmp # NoInode /\ handle[p] = tmp
          /\ pc[p] = "renaming" => tmp # NoInode /\ data[tmp] = Document(p)

KeptIsThere ==
    \A p \in Refreshers :
        /\ pc[p] \in {"fetching", "keeping", "writing", "renaming"}
              => kept[p] = With(p, {"looked"}) \cap Catalog
        /\ pc[p] \in {"keeping", "writing", "renaming"} => With(p, {"none"}) = {}
        /\ pc[p] \in {"writing", "renaming"} => With(p, {"failed"}) = {}

ServedOrGone == loaded => served \ Catalog \subseteq gone

IInv == TypeOK /\ CleanFiles /\ KeptIsThere /\ ServedOrGone

\* No refresh has begun, and only the file has content.
LEMMA InitIInv == Init /\ TypeOK => IInv
  BY DEF Init, IInv, TypeOK, CleanFiles, JsonIsWhole, KeptIsThere, ServedOrGone

\* Only a rename changes what the file says.
LEMMA CatalogStays ==
    ASSUME Alone, IInv, [Next]_vars,
           \A p \in Refreshers : ~Rename(p)
    PROVE  Catalog' = Catalog /\ json' = json /\ gone' = gone
<1> USE DEF IInv, files, repository
<1>1. ASSUME NEW p \in Refreshers, Open(p) PROVE Catalog' = Catalog /\ json' = json /\ gone' = gone
  <2>1. PICK i \in Inodes : i # json /\ data' = [data EXCEPT ![i] = Broken]
    BY <1>1 DEF Open, Unused, CleanFiles
  <2> QED
    BY <1>1, <2>1 DEF Open, Catalog, TypeOK
<1>2. ASSUME NEW p \in Refreshers, Write(p) PROVE Catalog' = Catalog /\ json' = json /\ gone' = gone
  <2>1. handle[p] # json
    BY <1>2 DEF Write, CleanFiles
  <2> QED
    BY <1>2, <2>1 DEF Write, Catalog, TypeOK
<1>3. ASSUME NEW p \in Refreshers, Begin(p) \/ Reload(p) \/ Abort(p)
      PROVE Catalog' = Catalog /\ json' = json /\ gone' = gone
  BY <1>3 DEF Begin, Reload, Abort, Catalog
<1>4. ASSUME NEW p \in Refreshers, NEW a \in Providers, Fetch(p, a) \/ Keep(p, a)
      PROVE Catalog' = Catalog /\ json' = json /\ gone' = gone
  BY <1>4 DEF Fetch, Keep, Catalog
<1>5. CASE Load \/ Restart \/ UNCHANGED vars
  BY <1>5 DEF Load, Restart, vars, Catalog
<1> QED
  BY <1>1, <1>2, <1>3, <1>4, <1>5 DEF Next

\* What a rename puts in place of the file.
LEMMA RenameCatalog ==
    ASSUME IInv, NEW p \in Refreshers, Rename(p)
    PROVE  /\ Catalog' = Fetched(p) \cup ((Failed(p) \ Misread(p)) \cap Catalog)
           /\ Catalog \ Catalog' \subseteq With(p, {"empty"}) \cup Misread(p)
           /\ gone' = (gone \ Fetched(p)) \cup With(p, {"empty"}) \cup Misread(p)
           /\ json' = tmp /\ tmp # NoInode /\ tmp' = NoInode
           /\ data' = data /\ data[tmp] = Document(p)
<1>1. tmp # NoInode /\ data[tmp] = Document(p)
  BY DEF IInv, CleanFiles, Rename
<1>2. json' = tmp /\ tmp' = NoInode /\ data' = data /\ gone' = (gone \ Fetched(p)) \cup With(p, {"empty"}) \cup Misread(p)
  BY <1>1 DEF Rename
<1>3. Catalog' = Fetched(p) \cup kept[p]
  BY <1>1, <1>2 DEF Catalog, Document
<1>4. kept[p] = With(p, {"looked"}) \cap Catalog /\ With(p, {"none"}) = {} /\ With(p, {"failed"}) = {}
  BY DEF IInv, KeptIsThere, Rename
<1>5. Failed(p) \ Misread(p) = With(p, {"looked"})
  BY <1>4 DEF Failed, Misread, With
<1>6. Catalog \subseteq Providers
  BY DEF IInv, TypeOK, Catalog, Content
<1>7. Providers \subseteq Fetched(p) \cup With(p, {"looked"}) \cup With(p, {"empty"}) \cup Misread(p)
  BY <1>4 DEF IInv, TypeOK, Answers, With, Fetched, Misread
<1> QED
  BY <1>1, <1>2, <1>3, <1>4, <1>5, <1>6, <1>7

\* The names, the open file and the documents fit together after every step.
LEMMA CleanFilesStep == Alone /\ IInv /\ [Next]_vars => CleanFiles'
<1> SUFFICES ASSUME Alone, IInv, [Next]_vars PROVE CleanFiles'
  OBVIOUS
<1> USE DEF files, repository, Goto
<1>0. TypeOK /\ CleanFiles
  BY DEF IInv
<1>1. ASSUME NEW p \in Refreshers, Begin(p) PROVE CleanFiles'
  BY <1>0, <1>1 DEF Begin, CleanFiles, JsonIsWhole, Document, Alone, TypeOK
<1>2. ASSUME NEW p \in Refreshers, Open(p) PROVE CleanFiles'
  <2>1. PICK i \in Inodes :
           /\ IF tmp = NoInode THEN Unused(i) ELSE i = tmp
           /\ tmp' = i
           /\ handle' = [handle EXCEPT ![p] = i]
           /\ data' = [data EXCEPT ![i] = Broken]
           /\ mixed' = IF \E q \in Refreshers \ {p} : handle[q] = i
                       THEN mixed \cup {i} ELSE mixed \ {i}
    BY <1>2 DEF Open
  <2>2. i # json /\ i # NoInode
    BY <1>0, <2>1, NoInodeAssumption DEF Unused, CleanFiles
  <2>3. mixed' = {}
    BY <1>0, <2>1 DEF Alone, CleanFiles
  <2>4. JsonIsWhole'
    BY <1>0, <1>2, <2>1, <2>2 DEF Open, CleanFiles, JsonIsWhole, TypeOK
  <2>5. \A q \in Refreshers : pc'[q] = "writing" /\ handle'[q] = tmp'
    BY <1>0, <1>2, <2>1 DEF Open, Alone, TypeOK
  <2> QED
    BY <1>2, <2>1, <2>2, <2>3, <2>4, <2>5 DEF Open, CleanFiles
<1>3. ASSUME NEW p \in Refreshers, Write(p) PROVE CleanFiles'
  <2>1. handle[p] = tmp /\ tmp \in Inodes /\ tmp # json
    BY <1>0, <1>3 DEF Write, CleanFiles, TypeOK
  <2>2. data' = [data EXCEPT ![tmp] = Document(p)]
    BY <1>0, <1>3, <2>1 DEF Write, Outcomes, CleanFiles
  <2>3. JsonIsWhole'
    BY <1>0, <1>3, <2>1, <2>2 DEF Write, CleanFiles, JsonIsWhole, TypeOK
  <2>4. \A q \in Refreshers : q = p /\ pc'[q] = "renaming" /\ data'[tmp'] = Document(q)'
    BY <1>0, <1>3, <2>1, <2>2 DEF Write, Alone, TypeOK, Document, Fetched, With
  <2> QED
    BY <1>0, <1>3, <2>1, <2>3, <2>4, NoInodeAssumption DEF Write, CleanFiles
<1>4. ASSUME NEW p \in Refreshers, Rename(p) PROVE CleanFiles'
  <2>1. json' = tmp /\ tmp' = NoInode /\ data' = data /\ data[tmp] = Document(p)
    BY <1>4, RenameCatalog
  <2>2. JsonIsWhole'
    BY <2>1 DEF JsonIsWhole, Document
  <2>3. \A q \in Refreshers : pc'[q] \notin {"writing", "renaming"}
    BY <1>0, <1>4 DEF Rename, Alone, TypeOK
  <2> QED
    BY <1>0, <1>4, <2>1, <2>2, <2>3 DEF Rename, CleanFiles
<1>5. ASSUME NEW p \in Refreshers, Reload(p) \/ Abort(p) PROVE CleanFiles'
  BY <1>0, <1>5 DEF Reload, Abort, CleanFiles, JsonIsWhole, Document, Fetched, With, Alone, TypeOK
<1>6. ASSUME NEW p \in Refreshers, NEW a \in Providers, Fetch(p, a) \/ Keep(p, a) PROVE CleanFiles'
  <2>1. \A q \in Refreshers : pc'[q] \in {"fetching", "keeping"}
    BY <1>0, <1>6 DEF Fetch, Keep, Alone, TypeOK
  <2> QED
    BY <1>0, <1>6, <2>1 DEF Fetch, Keep, CleanFiles, JsonIsWhole
<1>7. CASE Load \/ UNCHANGED vars
  BY <1>0, <1>7 DEF Load, vars, CleanFiles, JsonIsWhole, Document, Fetched, With
<1>8. CASE Restart
  BY <1>0, <1>8 DEF Restart, CleanFiles, JsonIsWhole, Document, Fetched, With, TypeOK
<1> QED
  BY <1>1, <1>2, <1>3, <1>4, <1>5, <1>6, <1>7, <1>8 DEF Next

\* A refresh under way never holds less or more than it should of the old file.
LEMMA KeptIsThereStep == Alone /\ IInv /\ [Next]_vars => KeptIsThere'
<1> SUFFICES ASSUME Alone, IInv, [Next]_vars PROVE KeptIsThere'
  OBVIOUS
<1> USE DEF files, repository, Goto
<1>0. TypeOK /\ KeptIsThere
  BY DEF IInv
<1>1. ASSUME NEW p \in Refreshers, Rename(p) PROVE KeptIsThere'
  <2>1. \A q \in Refreshers : pc'[q] \in {"reloading", "idle"}
    BY <1>0, <1>1 DEF Rename, Alone, TypeOK
  <2> QED
    BY <2>1 DEF KeptIsThere
<1>2. ASSUME \A p \in Refreshers : ~Rename(p) PROVE KeptIsThere'
  <2>0. Catalog' = Catalog
    BY <1>2, CatalogStays
  <2>1. ASSUME NEW p \in Refreshers, Begin(p) PROVE KeptIsThere'
    BY <1>0, <2>0, <2>1 DEF Begin, KeptIsThere, With, Alone, TypeOK
  <2>2. ASSUME NEW p \in Refreshers, Open(p) PROVE KeptIsThere'
    <3>1. With(p, {"failed"}) = {} /\ pc[p] = "keeping"
      BY <2>2 DEF Open, ReadyToWrite
    <3> QED
      BY <1>0, <2>0, <2>2, <3>1 DEF Open, KeptIsThere, With, Alone, TypeOK
  <2>3. ASSUME NEW p \in Refreshers, Write(p) PROVE KeptIsThere'
    BY <1>0, <2>0, <2>3 DEF Write, KeptIsThere, With, Alone, TypeOK
  <2>4. ASSUME NEW p \in Refreshers, Reload(p) \/ Abort(p) PROVE KeptIsThere'
    BY <1>0, <2>0, <2>4 DEF Reload, Abort, KeptIsThere, With, Alone, TypeOK
  <2>5. ASSUME NEW p \in Refreshers, NEW a \in Providers, Fetch(p, a) PROVE KeptIsThere'
    <3>1. PICK answer \in Answers : got' = [got EXCEPT ![p][a] = answer]
      BY <2>5 DEF Fetch
    <3>2. With(p, {"looked"})' = With(p, {"looked"})
      BY <1>0, <2>5, <3>1 DEF Fetch, With, Answers, TypeOK
    <3>3. With(p, {"none"})' = With(p, {"none"}) \ {a}
      BY <1>0, <2>5, <3>1 DEF Fetch, With, Answers, TypeOK
    <3> QED
      BY <1>0, <2>0, <2>5, <3>2, <3>3 DEF Fetch, KeptIsThere, Alone, TypeOK
  <2>6. ASSUME NEW p \in Refreshers, NEW a \in Providers, Keep(p, a) PROVE KeptIsThere'
    <3>1. pc[p] = "keeping" /\ pc' = pc /\ got[p][a] = "failed"
      BY <2>6 DEF Keep
    <3>2. CASE /\ got' = [got EXCEPT ![p][a] = "looked"]
               /\ kept' = [kept EXCEPT ![p] = @ \cup ({a} \cap Catalog)]
      <4>1. With(p, {"looked"})' = With(p, {"looked"}) \cup {a}
        BY <1>0, <3>1, <3>2 DEF With, TypeOK
      <4>2. With(p, {"none"})' = With(p, {"none"})
        BY <1>0, <3>1, <3>2 DEF With, TypeOK
      <4>3. kept'[p] = kept[p] \cup ({a} \cap Catalog)
        BY <1>0, <3>2 DEF TypeOK
      <4> QED
        BY <1>0, <2>0, <3>1, <4>1, <4>2, <4>3 DEF KeptIsThere, Alone
    <3>3. CASE got' = [got EXCEPT ![p][a] = "misread"] /\ UNCHANGED kept
      <4>1. With(p, {"looked"})' = With(p, {"looked"}) /\ With(p, {"none"})' = With(p, {"none"})
        BY <1>0, <3>1, <3>3 DEF With, TypeOK
      <4> QED
        BY <1>0, <2>0, <3>1, <3>3, <4>1 DEF KeptIsThere, Alone
    <3> QED
      BY <2>6, <3>2, <3>3 DEF Keep
  <2>7. CASE Load \/ UNCHANGED vars
    BY <1>0, <2>0, <2>7 DEF Load, vars, KeptIsThere, With
  <2>8. CASE Restart
    BY <1>0, <2>0, <2>8 DEF Restart, KeptIsThere, With, TypeOK
  <2> QED
    BY <1>2, <2>1, <2>2, <2>3, <2>4, <2>5, <2>6, <2>7, <2>8 DEF Next
<1> QED
  BY <1>1, <1>2

\* What the repository still serves and the file no longer has is gone.
LEMMA ServedOrGoneStep == Alone /\ IInv /\ [Next]_vars => ServedOrGone'
<1> SUFFICES ASSUME Alone, IInv, [Next]_vars PROVE ServedOrGone'
  OBVIOUS
<1>0. ServedOrGone
  BY DEF IInv
<1>1. ASSUME NEW p \in Refreshers, Rename(p) PROVE ServedOrGone'
  <2>1. loaded' = loaded /\ served' = served
    BY <1>1 DEF Rename, repository
  <2> QED
    BY <1>0, <1>1, <2>1, RenameCatalog DEF ServedOrGone
<1>2. ASSUME \A p \in Refreshers : ~Rename(p) PROVE ServedOrGone'
  <2>1. Catalog' = Catalog /\ gone' = gone
    BY <1>2, CatalogStays
  <2>2. \/ loaded' = loaded /\ served' = served
        \/ served' = Catalog
        \/ loaded' = FALSE
    BY <1>2 DEF Next, Begin, Open, Write, Reload, Abort, Fetch, Keep, Load, Restart, vars, repository
  <2> QED
    BY <1>0, <2>1, <2>2 DEF ServedOrGone
<1> QED
  BY <1>1, <1>2

\* The strengthening holds in every state.
LEMMA Invariance == ASSUME Alone PROVE Spec => []IInv
<1>1. Init => IInv
  BY InitIInv, InitType
<1>2. IInv /\ [Next]_vars => IInv'
  BY CleanFilesStep, KeptIsThereStep, ServedOrGoneStep, TypeStep DEF IInv
<1> QED
  BY <1>1, <1>2, PTL DEF Spec

\* With one refresher, whatever aborts and restarts do, no reader ever sees
\* half a document.
THEOREM Whole == ASSUME Alone PROVE Spec => []JsonIsWhole
<1>1. IInv => JsonIsWhole
  BY DEF IInv, CleanFiles
<1> QED
  BY <1>1, Invariance, PTL

\* With one refresher a refresh is as good as one atomic step from the file as
\* it is then: what providers answered, and the old locations of the others, as
\* far as it could read them.
THEOREM Atomic == ASSUME Alone PROVE Spec => RefreshIsAtomic
<1> DEFINE A == json' # json => \E p \in Refreshers :
          /\ pc[p] = "renaming" /\ pc'[p] # "renaming"
          /\ Catalog' = Fetched(p) \cup ((Failed(p) \ Misread(p)) \cap Catalog)
<1>1. IInv /\ [Next]_vars => A
  <2> SUFFICES ASSUME IInv, [Next]_vars, json' # json PROVE A
    OBVIOUS
  <2>1. PICK p \in Refreshers : Rename(p)
    BY CatalogStays
  <2>2. Catalog' = Fetched(p) \cup ((Failed(p) \ Misread(p)) \cap Catalog)
    BY <2>1, RenameCatalog
  <2>3. pc[p] = "renaming" /\ pc'[p] # "renaming"
    BY <2>1 DEF Rename, Goto, IInv, TypeOK
  <2> QED
    BY <2>2, <2>3
<1>2. IInv /\ [Next]_vars => [A]_vars
  BY <1>1
<1> QED
  BY <1>2, Invariance, PTL DEF Spec, RefreshIsAtomic

\* With one refresher, neither the file nor the running gateway forgets the
\* locations of a provider that has not said it has none, unless its fetch failed
\* when the file could not be read.
THEOREM Losses == ASSUME Alone PROVE Spec => LossHasCause
<1> DEFINE A == /\ Catalog \ Catalog' \subseteq gone'
                /\ loaded /\ loaded' => served \ served' \subseteq gone'
<1>1. IInv /\ [Next]_vars => A
  <2> SUFFICES ASSUME IInv, [Next]_vars PROVE A
    OBVIOUS
  <2>1. ASSUME NEW p \in Refreshers, Rename(p) PROVE A
    <3>1. served' = served
      BY <2>1 DEF Rename, repository
    <3> QED
      BY <2>1, <3>1, RenameCatalog
  <2>2. ASSUME \A p \in Refreshers : ~Rename(p) PROVE A
    <3>1. Catalog' = Catalog /\ gone' = gone
      BY <2>2, CatalogStays
    <3>2. \/ served' = served
          \/ served' = Catalog
          \/ loaded' = FALSE
      BY <2>2 DEF Next, Begin, Open, Write, Reload, Abort, Fetch, Keep, Load, Restart, vars, repository
    <3> QED
      BY <3>1, <3>2 DEF IInv, ServedOrGone
  <2> QED
    BY <2>1, <2>2
<1>2. IInv /\ [Next]_vars => [A]_vars
  BY <1>1
<1> QED
  BY <1>2, Invariance, PTL DEF Spec, LossHasCause

=============================================================================
