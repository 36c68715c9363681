--------------------------- MODULE LocationRefresh ---------------------------
(***************************************************************************)
(* The file of unified locations: LocationJsonRefreshService (refresh),    *)
(* who runs it, and JsonLocationRepository, which serves the file.         *)
(*                                                                         *)
(* Two processes on one volume refresh the file: the gateway, on           *)
(* POST /locations/sync (one at a time, behind _sync_lock), and the        *)
(* location-sync container, every six hours.  A refresh asks every adapter *)
(* for its locations, keeps what the file has of those that failed, writes *)
(* the temporary file and renames it.  Both use the same temporary name.   *)
(*                                                                         *)
(* A file's content is the set of providers that have locations in it.     *)
(* Unifying is taken for the identity on that set, although its dedupe may *)
(* drop a provider's rows (LocationUnification shows when), and so is the  *)
(* preservation, as every location has the pickup id without which it is   *)
(* not kept.  A name points to an inode: a writer keeps writing to the     *)
(* inode it has opened, whatever its name is by then.                      *)
(*                                                                         *)
(* Operators named X_<slip> are variants of X that no specification uses.  *)
(***************************************************************************)
EXTENDS FiniteSets

CONSTANTS
    Providers,
    Refreshers, \* processes that may run refresh()
    Sync,       \* the gateway's; it reloads the repository afterwards
    Inodes,     \* enough for the two names and every open file
    NoInode,
    ReadFails   \* whether reading the file that is there may raise

ASSUME NoInodeAssumption == NoInode \notin Inodes
ASSUME ReadFailsAssumption == ReadFails \in BOOLEAN

VARIABLES
    pc,         \* where each refresher is
    got,        \* what it has got from each provider
    kept,       \* failed providers it has found in the existing file
    handle,     \* the inode it has open for writing
    json, tmp,  \* the inodes of unified_locations.json and its .tmp
    data,       \* the content of each inode
    mixed,      \* inodes two writers have had open at once
    loaded,     \* whether the repository has read the file
    served,     \* the providers it has in memory
    gone        \* history: providers whose last written answer was empty, or
                \* failed when the file could not be read

files == <<json, tmp, data, mixed>>
repository == <<loaded, served>>
vars == <<pc, got, kept, handle, json, tmp, data, mixed, loaded, served, gone>>

Answers == {"some", "empty", "failed"}
Content == [whole : BOOLEAN, has : SUBSET Providers]

\* No valid JSON document: being written, or written by two at once.
Broken == [whole |-> FALSE, has |-> {}]

\* What a reader makes of unified_locations.json: nothing, when the file is
\* missing or is no JSON.
Catalog == IF json = NoInode THEN {} ELSE data[json].has

TypeOK ==
    /\ pc \in [Refreshers -> {"idle", "fetching", "keeping", "writing", "renaming", "reloading"}]
    /\ got \in [Refreshers -> [Providers -> Answers \cup {"none", "looked", "misread"}]]
    /\ kept \in [Refreshers -> SUBSET Providers]
    /\ handle \in [Refreshers -> Inodes \cup {NoInode}]
    /\ json \in Inodes \cup {NoInode}
    /\ tmp \in Inodes \cup {NoInode}
    /\ data \in [Inodes -> Content]
    /\ mixed \subseteq Inodes
    /\ loaded \in BOOLEAN
    /\ served \subseteq Providers
    /\ gone \subseteq Providers
    /\ \A p \in Refreshers : handle[p] # NoInode <=> pc[p] = "writing"

\* A file of an earlier refresh, or none; the gateway has not read it yet.
Init ==
    /\ pc = [p \in Refreshers |-> "idle"]
    /\ got = [p \in Refreshers |-> [a \in Providers |-> "none"]]
    /\ kept = [p \in Refreshers |-> {}]
    /\ handle = [p \in Refreshers |-> NoInode]
    /\ tmp = NoInode
    /\ \/ json = NoInode /\ data = [i \in Inodes |-> Broken]
       \/ /\ json \in Inodes
          /\ \E s \in SUBSET Providers :
                data = [i \in Inodes |-> IF i = json THEN [whole |-> TRUE, has |-> s] ELSE Broken]
    /\ mixed = {}
    /\ loaded = FALSE
    /\ served = {}
    /\ gone = {}

-----------------------------------------------------------------------------
(* A refresh.                                                              *)

Goto(p, where) == pc' = [pc EXCEPT ![p] = where]
With(p, answers) == {a \in Providers : got[p][a] \in answers}
Fetched(p) == With(p, {"some"})
Failed(p) == With(p, {"failed", "looked", "misread"})
Misread(p) == With(p, {"misread"})

Begin_KeepsKept(p) ==
    /\ pc[p] = "idle"
    /\ Goto(p, "fetching")
    /\ got' = [got EXCEPT ![p] = [a \in Providers |-> "none"]]
    /\ UNCHANGED <<kept, handle, files, repository, gone>>

Begin(p) ==
    /\ pc[p] = "idle"
    /\ Goto(p, "fetching")
    /\ got' = [got EXCEPT ![p] = [a \in Providers |-> "none"]]
    /\ kept' = [kept EXCEPT ![p] = {}]
    /\ UNCHANGED <<handle, files, repository, gone>>

\* get_locations under its timeout, and the filter by country.
Fetch(p, a) ==
    /\ pc[p] = "fetching" /\ got[p][a] = "none"
    /\ \E answer \in Answers : got' = [got EXCEPT ![p][a] = answer]
    /\ Goto(p, IF With(p, {"none"}) = {a} THEN "keeping" ELSE "fetching")
    /\ UNCHANGED <<kept, handle, files, repository, gone>>

Keep_InternalOnly(p, a) ==
    /\ pc[p] = "keeping" /\ got[p][a] = "failed"
    /\ got' = [got EXCEPT ![p][a] = "looked"]
    /\ UNCHANGED <<pc, kept, handle, files, repository, gone>>

\* _existing_provider_locations_as_raw: one look at the file per failed provider.
\* A file that cannot be read is taken for one that has nothing of the provider.
Keep(p, a) ==
    /\ pc[p] = "keeping" /\ got[p][a] = "failed"
    /\ \/ /\ got' = [got EXCEPT ![p][a] = "looked"]
          /\ kept' = [kept EXCEPT ![p] = @ \cup ({a} \cap Catalog)]
       \/ /\ ReadFails /\ json # NoInode
          /\ got' = [got EXCEPT ![p][a] = "misread"]
          /\ UNCHANGED kept
    /\ UNCHANGED <<pc, handle, files, repository, gone>>

ReadyToWrite(p) == pc[p] = "keeping" /\ With(p, {"failed"}) = {}
Unused(i) == i \notin {json, tmp} /\ \A q \in Refreshers : handle[q] # i

Open_InPlace(p) ==
    /\ ReadyToWrite(p) /\ json # NoInode
    /\ handle' = [handle EXCEPT ![p] = json]
    /\ tmp' = json
    /\ data' = [data EXCEPT ![json] = Broken]
    /\ Goto(p, "writing")
    /\ UNCHANGED <<got, kept, json, mixed, repository, gone>>

\* Opening the .tmp file to write creates it, or truncates the one that is there.
Open(p) ==
    /\ ReadyToWrite(p)
    /\ \E i \in Inodes :
          /\ IF tmp = NoInode THEN Unused(i) ELSE i = tmp
          /\ tmp' = i
          /\ handle' = [handle EXCEPT ![p] = i]
          /\ data' = [data EXCEPT ![i] = Broken]
          /\ mixed' = IF \E q \in Refreshers \ {p} : handle[q] = i
                      THEN mixed \cup {i} ELSE mixed \ {i}
    /\ Goto(p, "writing")
    /\ UNCHANGED <<got, kept, json, repository, gone>>

\* Two writers at once may leave the one's document, or pieces of both.
Document(p) == [whole |-> TRUE, has |-> Fetched(p) \cup kept[p]]
Outcomes(p) == {Document(p)} \cup (IF handle[p] \in mixed THEN {Broken} ELSE {})

\* The document is written and the file closed.
Write(p) ==
    /\ pc[p] = "writing"
    /\ \E c \in Outcomes(p) : data' = [data EXCEPT ![handle[p]] = c]
    /\ handle' = [handle EXCEPT ![p] = NoInode]
    /\ Goto(p, "renaming")
    /\ UNCHANGED <<got, kept, json, tmp, mixed, repository, gone>>

\* The .tmp file becomes the file.  If another refresher has renamed it, this
\* raises and the refresh has failed.
Rename(p) ==
    /\ pc[p] = "renaming"
    /\ IF tmp # NoInode
       THEN /\ json' = tmp /\ tmp' = NoInode
            /\ gone' = (gone \ Fetched(p)) \cup With(p, {"empty"}) \cup Misread(p)
            /\ Goto(p, IF p = Sync THEN "reloading" ELSE "idle")
       ELSE Goto(p, "idle") /\ UNCHANGED <<json, tmp, gone>>
    /\ UNCHANGED <<got, kept, handle, data, mixed, repository>>

\* sync_locations reloads the repository: reload() forgets what it has before it
\* reads the file, and the sync has failed if that raises.
Reload(p) ==
    /\ pc[p] = "reloading"
    /\ \/ loaded' = TRUE /\ served' = Catalog
       \/ ReadFails /\ json # NoInode /\ loaded' = FALSE /\ served' = {}
    /\ Goto(p, "idle")
    /\ UNCHANGED <<got, kept, handle, files, gone>>

Abort_KeepsOpen(p) ==
    /\ pc[p] \notin {"idle", "reloading"}
    /\ Goto(p, "idle")
    /\ UNCHANGED <<got, kept, handle, files, repository, gone>>

\* The refresh raises, or the location-sync container dies: a .tmp file stays.
Abort(p) ==
    /\ pc[p] \notin {"idle", "reloading"}
    /\ Goto(p, "idle")
    /\ handle' = [handle EXCEPT ![p] = NoInode]
    /\ UNCHANGED <<got, kept, files, repository, gone>>

-----------------------------------------------------------------------------
(* The gateway.                                                            *)

\* A request reads a location: the repository loads the file if its signature
\* is not the one it has in memory.  If reading it raises, the request fails
\* before anything is changed.
Load ==
    /\ loaded => served # Catalog
    /\ loaded' = TRUE
    /\ served' = Catalog
    /\ UNCHANGED <<pc, got, kept, handle, files, gone>>

\* The gateway restarts with an empty repository, its refresh is lost.
Restart ==
    /\ loaded' = FALSE
    /\ served' = {}
    /\ pc' = [p \in Refreshers |-> IF p = Sync THEN "idle" ELSE pc[p]]
    /\ handle' = [p \in Refreshers |-> IF p = Sync THEN NoInode ELSE handle[p]]
    /\ UNCHANGED <<got, kept, files, gone>>

Next ==
    \/ \E p \in Refreshers :
          \/ Begin(p) \/ Open(p) \/ Write(p) \/ Rename(p) \/ Reload(p) \/ Abort(p)
          \/ \E a \in Providers : Fetch(p, a) \/ Keep(p, a)
    \/ Load
    \/ Restart

Spec == Init /\ [][Next]_vars

-----------------------------------------------------------------------------
(* Properties.                                                             *)

\* The locations of a provider leave the file, or the repository of a running
\* gateway, only when the provider has said it has none, or its fetch failed and
\* the file could not be read at that moment: no other failed fetch, no aborted
\* refresh, left-over .tmp file or restart takes them away (the comment at
\* location_json_refresh_service.py:86-91 does not allow for the second).  With
\* one refresher.
LossHasCause ==
    [][ /\ Catalog \ Catalog' \subseteq gone'
        /\ loaded /\ loaded' => served \ served' \subseteq gone' ]_vars

\* Readers never see half a document, with one refresher: the file is replaced
\* by a rename (_export_unified_json).
JsonIsWhole == json # NoInode => data[json].whole

\* A refresh replaces the file by what the providers answered, and by what the
\* file itself, at that moment, has of those that failed, but for those for which
\* it could not be read.  With one refresher.
RefreshIsAtomic ==
    [][json' # json => \E p \in Refreshers :
          /\ pc[p] = "renaming" /\ pc'[p] # "renaming"
          /\ Catalog' = Fetched(p) \cup ((Failed(p) \ Misread(p)) \cap Catalog)]_vars

\* location_json_refresh_service.py:86: "A provider whose fetch FAILED [...]
\* must not have its locations wiped from the file".
FailedKeepsLocations ==
    [][\A p \in Refreshers : pc[p] = "renaming" /\ pc'[p] # "renaming" =>
          Failed(p) \cap Catalog \subseteq Catalog']_vars

=============================================================================
