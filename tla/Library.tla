------------------------------- MODULE Library -------------------------------
(***************************************************************************)
(* The library of one user: tags and sharing with their version, paged     *)
(* listings, collections, and the export and import of it all.             *)
(* internal/records: service.go, repository.go, catalog.go, export.go and  *)
(* import.go; the sharing of internal/household.                           *)
(*                                                                         *)
(* A request reads in several statements and writes in one transaction;    *)
(* pages of a listing, parts of an export and records of an import are     *)
(* statements or transactions of their own, with the requests of other     *)
(* browsers in between.  Viewing rounds are the business of module Rounds: *)
(* here a media is a movie, with its rounds as a history of statuses, and  *)
(* a request that changes them is one step.                                *)
(*                                                                         *)
(* Titles are ranks.  A cursor is "sort|key|id", taken apart at its first  *)
(* two separators: of a title that holds one, the cursor keeps the part    *)
(* before it, which has a rank below the title's and may be a title of its *)
(* own, and takes what follows for the id.                                 *)
(*                                                                         *)
(* Tags are ranks too, in the order of their names.  A CSV has them in one *)
(* cell, "|" between them, and is read by taking the cell apart at every   *)
(* "|": of a name that holds one come its parts.  A cell that begins with  *)
(* an apostrophe before =, +, -, @, a tab or a return loses it, whether the *)
(* export put it there or the name that is first has it.                   *)
(***************************************************************************)
EXTENDS Integers, FiniteSets, Sequences

CONSTANTS
    Media,         \* the movies, a set of numbers in the order of their ids
    TitleOf,       \* [Media -> Nat]
    CutOf,         \* [Media -> Nat], the rank of what a cursor keeps of the title
    RestOf,        \* [Media -> Int], where what it takes for the id is among the ids
    Tags,          \* tag names, a set of numbers in their order
    PartsOf,       \* [Tags -> SUBSET Tags], the names a CSV gives back for one
    FirstPartsOf,  \* [Tags -> SUBSET Tags], the same for the first of a cell
    Collections,   \* collection ids
    CollectionNames,
    Clients,       \* browsers that edit tags and sharing
    PageLimit,     \* items of a page
    Formats,       \* of an export: "json", "csv"
    MaxWrites,     \* bound on the writes before and during what is watched
    MaxNow,        \* bound on the clock, in seconds
    MaxRounds,     \* bound on the rounds of a media
    MaxActive,     \* bound on the listings, edits and transfers under way at a time
    None

ASSUME MediaAreNumbered == Media \subseteq Nat /\ IsFiniteSet(Media)
ASSUME TitlesAreRanks ==
    TitleOf \in [Media -> Nat] /\ CutOf \in [Media -> Nat] /\ RestOf \in [Media -> Int]
ASSUME TagsAreNumbered ==
    Tags \subseteq Nat /\ PartsOf \in [Tags -> SUBSET Tags] /\ FirstPartsOf \in [Tags -> SUBSET Tags]
ASSUME PartsComeFirst == \A m \in Media : CutOf[m] <= TitleOf[m]
ASSUME LimitIsPositive == PageLimit \in Nat \ {0}
ASSUME BoundsAreNumbers == MaxWrites \in Nat /\ MaxNow \in Nat /\ MaxRounds \in Nat

VARIABLES
    profile,      \* [Media -> the row of user_media_profiles, or None]
    tags,         \* [Media -> the names in user_media_tags]
    rounds,       \* [Media -> the rounds, by number]
    collections,  \* [Collections -> the collection with its items, or None]
    edit,         \* [Clients -> the edit of tags or sharing under way, or Resting]
    listing,      \* a browser that pages through the library
    transfer,     \* an export, and the import of its document
    now,          \* the clock of the database, in seconds
    writes        \* number of writes so far

library == <<profile, tags, rounds, collections>>
vars == <<profile, tags, rounds, collections, edit, listing, transfer, now, writes>>

\* Wishlist and dropped are like watching here.
Statuses == {"none", "watching", "completed"}
Profile == [status : Statuses, version : Nat, shared : BOOLEAN, at : Nat]
Round == [status : Statuses, archived : BOOLEAN]
IsUnique(s) == \A i, j \in DOMAIN s : s[i] = s[j] => i = j
Lists == {s \in UNION {[1..n -> Media] : n \in 0..Cardinality(Media)} : IsUnique(s)}
Collection == [name : CollectionNames, items : Lists]
Exported == [version : Nat, shared : BOOLEAN]
ASSUME NoneIsDistinct == None \notin Profile /\ None \notin Collection /\ None \notin Exported

NewProfile == [status |-> "none", version |-> 1, shared |-> FALSE, at |-> now]
Ensured(m) == IF profile[m] = None THEN NewProfile ELSE profile[m]
VersionOf(m) == IF profile[m] = None THEN 0 ELSE profile[m].version

Resting == [pc |-> "resting"]
Writes == writes < MaxWrites /\ writes' = writes + 1
Begins ==
    Cardinality({c \in Clients : edit[c] # Resting}) + (IF listing.pc = "none" THEN 0 ELSE 1)
        + (IF transfer.pc = "none" THEN 0 ELSE 1) < MaxActive

-----------------------------------------------------------------------------
(* Listing *)

Sorts == {"updated", "title"}

InLibrary(p, m) == p[m] # None /\ p[m].status # "none"
\* Newest first, then by id; the sorts by rating and by date watched are alike.
\* Titles sort upwards: so does the negative time.
KeyIn(p, sort, m) == IF sort = "title" THEN TitleOf[m] ELSE -p[m].at

(* Mutant: ties of the key are left out of the next page. *)
AfterKey(key, m, cursor) == key > cursor.key

After(key, m, cursor) == \/ key > cursor.key
                         \/ key = cursor.key /\ m > cursor.id

Beginning == [key |-> -MaxNow - 1, id |-> -1]
NotListing == [pc |-> "none"]

Remaining == {m \in Media : InLibrary(profile, m)
                            /\ After(KeyIn(profile, listing.sort, m), m, listing.cursor)}
Earlier(m, n) ==
    LET key == [i \in {m, n} |-> KeyIn(profile, listing.sort, i)] IN
    key[m] < key[n] \/ (key[m] = key[n] /\ m < n)
IsPage(page) ==
    /\ Cardinality(page) = IF Cardinality(Remaining) < PageLimit THEN Cardinality(Remaining)
                           ELSE PageLimit
    /\ \A m \in page, n \in Remaining \ page : Earlier(m, n)

\* What the decoder makes of the cursor of m.
IsCut(m) == listing.sort = "title" /\ CutOf[m] # TitleOf[m]
CursorOf(m) == IF IsCut(m) THEN [key |-> CutOf[m], id |-> RestOf[m]]
               ELSE [key |-> KeyIn(profile, listing.sort, m), id |-> m]

BeginListing ==
    /\ listing.pc = "none" /\ Begins
    /\ \E sort \in Sorts :
         listing' = [pc |-> "paging", sort |-> sort, cursor |-> Beginning, cut |-> FALSE,
                     given |-> [m \in Media |-> 0],
                     still |-> {m \in Media : InLibrary(profile, m)}]
    /\ UNCHANGED <<library, edit, transfer, now, writes>>

\* A page and, when one more row was found, the cursor of its last item.
LibraryPage ==
    /\ listing.pc = "paging"
    /\ \E page \in SUBSET Remaining :
         /\ IsPage(page)
         /\ LET given == [m \in Media |-> IF m \in page /\ listing.given[m] < 2
                                          THEN listing.given[m] + 1 ELSE listing.given[m]] IN
            IF page = Remaining
            THEN listing' = [listing EXCEPT !.pc = "listed", !.given = given]
            ELSE \E last \in page :
                   /\ \A m \in page \ {last} : Earlier(m, last)
                   /\ listing' = [listing EXCEPT !.given = given, !.cursor = CursorOf(last),
                                                     !.cut = @ \/ IsCut(last)]
    /\ UNCHANGED <<library, edit, transfer, now, writes>>

EndListing ==
    /\ listing.pc = "listed" /\ listing' = NotListing
    /\ UNCHANGED <<library, edit, transfer, now, writes>>

\* listing.still: in the library under one key since the listing began.
Stays(p, m) == InLibrary(p, m) /\ KeyIn(p, listing.sort, m) = KeyIn(profile, listing.sort, m)
Moves(p) ==
    listing' = IF listing.pc = "none" THEN listing
               ELSE [listing EXCEPT !.still = {m \in @ : Stays(p, m)}]

-----------------------------------------------------------------------------
(* Viewing rounds: what module Rounds does to the profile *)

Current(history) == {i \in DOMAIN history : ~history[i].archived}

Projected(history) ==
    IF Current(history) = {} THEN "none"
    ELSE history[CHOOSE i \in Current(history) : TRUE].status

\* The write of a profile by a request, with the listing it may disturb.
Writing(m, row) == profile' = [profile EXCEPT ![m] = row] /\ Moves(profile')

\* Another write since: an import is no longer alone.
Disturbs == transfer' = [transfer EXCEPT !.alone = FALSE]

ChangeRounds ==
    /\ Writes
    /\ \E m \in Media, s \in Statuses \ {"none"} :
         /\ LET history == rounds[m]  last == Len(history) IN
            \/ /\ history = <<>>
               /\ rounds' = [rounds EXCEPT ![m] = <<[status |-> s, archived |-> FALSE]>>]
            \/ /\ Current(history) # {}
               /\ rounds' = [rounds EXCEPT ![m][last].status = s]
            \/ /\ Current(history) # {} /\ history[last].status = "completed"
               /\ s = "watching" /\ last < MaxRounds
               /\ rounds' = [rounds EXCEPT ![m] =
                               Append([@ EXCEPT ![last].archived = TRUE],
                                      [status |-> s, archived |-> FALSE])]
            \/ /\ Current(history) # {}
               /\ rounds' = [rounds EXCEPT ![m] = SubSeq(@, 1, last - 1)]
         /\ Writing(m, [Ensured(m) EXCEPT !.status = Projected(rounds'[m]), !.at = now])
    /\ Disturbs
    /\ UNCHANGED <<tags, collections, edit, now>>

-----------------------------------------------------------------------------
(* Tags and sharing, guarded by the version of the profile *)

Edit == [pc : {"version", "tags", "checked", "sharing"}, media : Media, version : Nat,
         tags : SUBSET Tags, shared : BOOLEAN, fresh : BOOLEAN]

Reads(c, pc, m) ==
    edit' = [edit EXCEPT ![c] = [pc |-> pc, media |-> m, version |-> VersionOf(m), tags |-> {},
                                 shared |-> Ensured(m).shared, fresh |-> TRUE]]
Settles(c) == edit' = [edit EXCEPT ![c] = Resting]

\* The version, and then in another statement the tags, go to the browser.
ReadVersion(c) ==
    /\ edit[c] = Resting /\ Begins
    /\ \E m \in Media : Reads(c, "version", m)
    /\ UNCHANGED <<library, listing, transfer, now, writes>>

ReadTags(c) ==
    /\ edit[c].pc = "version"
    /\ edit' = [edit EXCEPT ![c].pc = "tags", ![c].tags = tags[edit[c].media]]
    /\ UNCHANGED <<library, listing, transfer, now, writes>>

\* The service compares versions before the transaction does.
CheckVersion(c) ==
    /\ edit[c].pc = "tags"
    /\ IF VersionOf(edit[c].media) = edit[c].version
       THEN edit' = [edit EXCEPT ![c].pc = "checked"] ELSE Settles(c)
    /\ UNCHANGED <<library, listing, transfer, now, writes>>

(* Mutant: a first edit creates the profile and a later one keeps its version. *)
EnsuresOnly(m) == Writing(m, [Ensured(m) EXCEPT !.at = IF profile[m] = None THEN now ELSE @])

\* The profile comes into being at version 1, or its version goes up.
Bumps(m) ==
    Writing(m, IF profile[m] = None THEN NewProfile
               ELSE [profile[m] EXCEPT !.version = @ + 1, !.at = now])

SetTagsVersioned(c) ==
    LET m == edit[c].media IN
    /\ edit[c].pc = "checked"
    /\ IF VersionOf(m) = edit[c].version
       THEN /\ Writes /\ Bumps(m)
            /\ \E names \in SUBSET Tags : tags' = [tags EXCEPT ![m] = names]
            /\ Disturbs
       ELSE UNCHANGED <<profile, tags, listing, transfer, writes>>
    /\ Settles(c)
    /\ UNCHANGED <<rounds, collections, now>>

\* Nothing is sent, or the request fails.
Abandon(c) ==
    /\ edit[c] # Resting /\ Settles(c)
    /\ UNCHANGED <<library, listing, transfer, now, writes>>

\* One statement reads the sharing with its version.
ReadSharing(c) ==
    /\ edit[c] = Resting /\ Begins
    /\ \E m \in Media : profile[m] # None /\ Reads(c, "sharing", m)
    /\ UNCHANGED <<library, listing, transfer, now, writes>>

UpdateSharing(c) ==
    LET m == edit[c].media IN
    /\ edit[c].pc = "sharing"
    /\ IF VersionOf(m) = edit[c].version
       THEN /\ Writes /\ Disturbs
            /\ \E shared \in BOOLEAN :
                 Writing(m, [profile[m] EXCEPT !.version = @ + 1, !.shared = shared, !.at = now])
       ELSE UNCHANGED <<profile, listing, transfer, writes>>
    /\ Settles(c)
    /\ UNCHANGED <<tags, rounds, collections, now>>

-----------------------------------------------------------------------------
(* Collections, each request one transaction *)

NameTaken(id, name) ==
    \E other \in Collections \ {id} : collections[other] # None /\ collections[other].name = name

CreateCollection ==
    /\ Writes /\ Disturbs
    /\ \E id \in Collections, name \in CollectionNames :
         /\ collections[id] = None /\ ~NameTaken(id, name)
         /\ collections' = [collections EXCEPT ![id] = [name |-> name, items |-> <<>>]]
    /\ UNCHANGED <<profile, tags, rounds, edit, listing, now>>

RenameCollection ==
    /\ Writes /\ Disturbs
    /\ \E id \in Collections, name \in CollectionNames :
         /\ collections[id] # None /\ ~NameTaken(id, name)
         /\ collections' = [collections EXCEPT ![id].name = name]
    /\ UNCHANGED <<profile, tags, rounds, edit, listing, now>>

Holds(items, m) == \E i \in DOMAIN items : items[i] = m

\* At the end, unless it is there.
AddCollectionItem ==
    /\ Writes /\ Disturbs
    /\ \E id \in Collections, m \in Media :
         /\ collections[id] # None /\ ~Holds(collections[id].items, m)
         /\ collections' = [collections EXCEPT ![id].items = Append(@, m)]
    /\ UNCHANGED <<profile, tags, rounds, edit, listing, now>>

ReplaceCollectionItems ==
    /\ Writes /\ Disturbs
    /\ \E id \in Collections, items \in Lists :
         /\ collections[id] # None
         /\ collections' = [collections EXCEPT ![id].items = items]
    /\ UNCHANGED <<profile, tags, rounds, edit, listing, now>>

DeleteCollection ==
    /\ Writes /\ Disturbs
    /\ \E id \in Collections : /\ collections[id] # None
                               /\ collections' = [collections EXCEPT ![id] = None]
    /\ UNCHANGED <<profile, tags, rounds, edit, listing, now>>

-----------------------------------------------------------------------------
(* Export: statement by statement, in the order of the ids *)

Record == [media : Media, profile : Exported \cup {None}, tags : SUBSET Tags, rounds : Seq(Round)]
NoDocument == [records |-> <<>>, collections |-> [id \in Collections |-> None]]
NoTransfer == [pc |-> "none", format |-> "json", todo |-> {}, document |-> NoDocument,
               next |-> 1, failed |-> {}, alone |-> FALSE]

First(ids) == CHOOSE m \in ids : \A n \in ids : m <= n

IsExported(m) ==
    \/ profile[m] # None \/ rounds[m] # <<>>
    \/ \E id \in Collections : collections[id] # None /\ Holds(collections[id].items, m)

BeginExport ==
    /\ transfer.pc = "none" /\ Begins
    /\ \E format \in Formats :
         transfer' = [NoTransfer EXCEPT !.pc = "profile", !.format = format,
                                        !.todo = {m \in Media : IsExported(m)},
                                        !.alone = TRUE]
    /\ UNCHANGED <<library, edit, listing, now, writes>>

LastRecord == Len(transfer.document.records)

ExportProfile ==
    /\ transfer.pc = "profile" /\ transfer.todo # {}
    /\ LET m == First(transfer.todo) IN
       transfer' = [transfer EXCEPT
           !.pc = "tags",
           !.document.records = Append(@,
               [media |-> m, tags |-> {}, rounds |-> <<>>,
                profile |-> IF profile[m] = None THEN None
                            ELSE [version |-> profile[m].version, shared |-> profile[m].shared]])]
    /\ UNCHANGED <<library, edit, listing, now, writes>>

ExportTags ==
    /\ transfer.pc = "tags"
    /\ transfer' = [transfer EXCEPT
           !.pc = "rounds", !.document.records[LastRecord].tags = tags[First(transfer.todo)]]
    /\ UNCHANGED <<library, edit, listing, now, writes>>

ExportRounds ==
    /\ transfer.pc = "rounds"
    /\ LET m == First(transfer.todo) IN
       transfer' = [transfer EXCEPT
           !.pc = "profile", !.todo = @ \ {m}, !.document.records[LastRecord].rounds = rounds[m]]
    /\ UNCHANGED <<library, edit, listing, now, writes>>

\* The tags the import makes of the cell that the export makes of these.
ReadBack(names) ==
    UNION {IF n = First(names) THEN FirstPartsOf[n] ELSE PartsOf[n] : n \in names}

\* A CSV row holds one round, or none, and neither profile nor collections.  It
\* is kept as the import will read it.
Rows(record) ==
    LET row == [record EXCEPT !.profile = None, !.tags = ReadBack(@)] IN
    IF record.rounds = <<>> THEN <<row>>
    ELSE [i \in DOMAIN record.rounds |-> [row EXCEPT !.rounds = <<record.rounds[i]>>]]
Joined(records) ==
    LET joined[i \in 0..Len(records)] == IF i = 0 THEN <<>> ELSE joined[i - 1] \o Rows(records[i])
    IN joined[Len(records)]

ExportCollections ==
    /\ transfer.pc = "profile" /\ transfer.todo = {}
    /\ transfer' = [transfer EXCEPT
           !.pc = "exported",
           !.document = IF transfer.format = "csv"
                        THEN [@ EXCEPT !.records = Joined(transfer.document.records)]
                        ELSE [@ EXCEPT !.collections = collections]]
    /\ UNCHANGED <<library, edit, listing, now, writes>>

-----------------------------------------------------------------------------
(* Import: a transaction per record, then one per collection *)

BeginImport ==
    /\ transfer.pc = "exported" /\ Writes
    /\ transfer' = [transfer EXCEPT !.pc = "importing", !.next = 1, !.alone = TRUE,
                                     !.todo = {id \in Collections : transfer.document.collections[id] # None}]
    /\ UNCHANGED <<library, edit, listing, now>>

\* The row a record leaves, of a profile that was there or is created for it.
ImportedProfile(record) ==
    LET m == record.media
        kept == IF record.profile = None /\ record.rounds = <<>> /\ record.tags = {}
                THEN profile[m] ELSE Ensured(m)
        set == IF record.profile = None THEN kept
               ELSE [kept EXCEPT !.version = record.profile.version,
                                 !.shared = record.profile.shared, !.at = now]
    IN IF record.rounds = <<>> THEN set
       ELSE [set EXCEPT !.status = Projected(record.rounds), !.at = now]

(* Mutant: tags are added to those the media has. *)
ImportsMoreTags(record) == tags' = [tags EXCEPT ![record.media] = @ \cup record.tags]

ImportTags(record) == tags' = [tags EXCEPT ![record.media] = record.tags]

\* The rounds of the record replace those there are.  Whoever edits the media
\* holds a version that may come back with the one of the document.
ImportRounds(record) ==
    /\ rounds' = [rounds EXCEPT ![record.media] = record.rounds]
    /\ edit' = [c \in Clients |-> IF edit[c] # Resting /\ edit[c].media = record.media
                                  THEN [edit[c] EXCEPT !.fresh = FALSE] ELSE edit[c]]

InstallRecord(record) ==
    /\ Writing(record.media, ImportedProfile(record))
    /\ ImportTags(record) /\ ImportRounds(record)
    /\ transfer' = [transfer EXCEPT !.next = @ + 1]

\* A record that is refused, or whose transaction fails, is reported.
ReportRecord(record) ==
    /\ transfer' = [transfer EXCEPT !.next = @ + 1, !.failed = @ \cup {record.media}]
    /\ UNCHANGED <<profile, tags, rounds, edit, listing>>

ImportRecord ==
    /\ transfer.pc = "importing" /\ transfer.next <= LastRecord
    /\ LET record == transfer.document.records[transfer.next] IN
       InstallRecord(record) \/ ReportRecord(record)
    /\ UNCHANGED <<collections, now, writes>>

\* The ids are those of the document; a name that another id has is refused.
ImportCollection ==
    /\ transfer.pc = "importing" /\ transfer.next > LastRecord
    /\ \E id \in transfer.todo :
         \/ /\ ~NameTaken(id, transfer.document.collections[id].name)
            /\ collections' = [collections EXCEPT ![id] = transfer.document.collections[id]]
            /\ transfer' = [transfer EXCEPT !.todo = @ \ {id}]
         \/ /\ transfer' = [transfer EXCEPT !.todo = @ \ {id}, !.failed = @ \cup {id}]
            /\ UNCHANGED collections
    /\ UNCHANGED <<profile, tags, rounds, edit, listing, now, writes>>

ReportImport ==
    /\ transfer.pc = "importing" /\ transfer.next > LastRecord /\ transfer.todo = {}
    /\ transfer' = [transfer EXCEPT !.pc = "imported"]
    /\ UNCHANGED <<library, edit, listing, now, writes>>

EndTransfer ==
    /\ transfer.pc \in {"exported", "imported"} /\ transfer' = NoTransfer
    /\ UNCHANGED <<library, edit, listing, now, writes>>

Tick == /\ now < MaxNow /\ now' = now + 1
        /\ UNCHANGED <<library, edit, listing, transfer, writes>>

Init ==
    /\ profile = [m \in Media |-> None] /\ tags = [m \in Media |-> {}]
    /\ rounds = [m \in Media |-> <<>>] /\ collections = [id \in Collections |-> None]
    /\ edit = [c \in Clients |-> Resting] /\ listing = NotListing /\ transfer = NoTransfer
    /\ now = 0 /\ writes = 0

Editing(c) ==
    \/ ReadVersion(c) \/ ReadTags(c) \/ CheckVersion(c) \/ SetTagsVersioned(c)
    \/ ReadSharing(c) \/ UpdateSharing(c) \/ Abandon(c)

Next ==
    \/ BeginListing \/ LibraryPage \/ EndListing
    \/ ChangeRounds \/ \E c \in Clients : Editing(c)
    \/ CreateCollection \/ RenameCollection \/ AddCollectionItem
    \/ ReplaceCollectionItems \/ DeleteCollection
    \/ BeginExport \/ ExportProfile \/ ExportTags \/ ExportRounds \/ ExportCollections
    \/ BeginImport \/ ImportRecord \/ ImportCollection \/ ReportImport \/ EndTransfer
    \/ Tick

Spec == Init /\ [][Next]_vars

-----------------------------------------------------------------------------
(* What must hold *)

(* Every variable has its type, and no collection lists a media twice. *)
TypeOK ==
    /\ profile \in [Media -> Profile \cup {None}] /\ tags \in [Media -> SUBSET Tags]
    /\ rounds \in [Media -> Seq(Round)]
    /\ collections \in [Collections -> Collection \cup {None}]
    /\ edit \in [Clients -> Edit \cup {Resting}]
    /\ listing.pc \in {"none", "paging", "listed"}
    /\ transfer.pc \in {"none", "profile", "tags", "rounds", "exported", "importing", "imported"}
    /\ now \in 0..MaxNow /\ writes \in 0..MaxWrites

(* Pages are cut by a key while the library changes between them: a media  *)
(* that stays where it is comes up, and never twice.  Where a cursor kept   *)
(* only a part of a title it may come up again, but is not left out either: *)
(* see the README.                                                          *)
ListsOnce ==
    listing.pc # "none" =>
        \A m \in listing.still : /\ ~listing.cut => listing.given[m] <= 1
                                 /\ listing.pc = "listed" => listing.given[m] >= 1

(* The version and the tags a browser edits come from two statements, and  *)
(* others edit tags and sharing meanwhile: as long as the version it will  *)
(* send is the current one, what it was shown is what it would replace.    *)
NoLostEdit ==
    \A c \in Clients :
        LET e == edit[c] IN
        e # Resting /\ e.pc # "version" /\ e.fresh /\ VersionOf(e.media) = e.version
        => IF e.pc = "sharing" THEN Ensured(e.media).shared = e.shared
           ELSE tags[e.media] = e.tags

(* A record that no failure left out is in the library as it says: while   *)
(* exported, where it is the only one of its media; after an import, where *)
(* none after it is of the same media and replaced it.  The tags of a      *)
(* record exported in CSV are what the import will read.                   *)
AsRead(names) ==
    IF transfer.pc = "exported" /\ transfer.format = "csv" THEN ReadBack(names) ELSE names
IsWhole(i) ==
    \A j \in DOMAIN transfer.document.records \ {i} :
        transfer.document.records[j].media = transfer.document.records[i].media
        => transfer.pc # "exported" /\ j < i
Installed(i) ==
    LET record == transfer.document.records[i]  m == record.media IN
    IsWhole(i) /\ m \notin transfer.failed
    => /\ record.tags = AsRead(tags[m]) /\ rounds[m] = record.rounds
       /\ record.rounds # <<>> => profile[m].status = Projected(record.rounds)
       /\ record.profile # None => /\ profile[m].version = record.profile.version
                                   /\ profile[m].shared = record.profile.shared

(* An export read while nothing is written is the library, and an import   *)
(* that nothing comes between puts the library back as the document has    *)
(* it, whatever was written from the one to the other.  A CSV row carries  *)
(* one round, so that a media of several keeps the last, and its tags come *)
(* back as the import reads their cell (see the README).                   *)
TransfersFaithful ==
    LET exported == {transfer.document.records[i].media : i \in DOMAIN transfer.document.records}
    IN transfer.alone /\ transfer.pc \in {"exported", "imported"} =>
       /\ \A i \in DOMAIN transfer.document.records : Installed(i)
       /\ transfer.pc = "exported" => exported = {m \in Media : IsExported(m)}
       /\ \A id \in Collections :
              transfer.document.collections[id] # None /\ id \notin transfer.failed
              => collections[id] = transfer.document.collections[id]
=============================================================================
