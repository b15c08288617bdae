---------------------------- MODULE LibraryProofs ----------------------------
(***************************************************************************)
(* The library for any movies, titles, collections, browsers and bounds:   *)
(* the safety properties of Library, from one inductive invariant.         *)
(***************************************************************************)
EXTENDS Library, TLAPS, WellFoundedInduction, SequenceTheorems, FiniteSetTheorems

\* The records a listing and a transfer are made of.
Listing == [pc : {"paging", "listed"}, sort : Sorts, cursor : [key : Int, id : Int],
            cut : BOOLEAN, given : [Media -> 0..2], still : SUBSET Media]
Document == [records : Seq(Record), collections : [Collections -> Collection \cup {None}]]
Transfer == [pc : {"none", "profile", "tags", "rounds", "exported", "importing", "imported"},
             format : Formats \cup {"json"}, todo : SUBSET (Media \cup Collections),
             document : Document, next : Nat \ {0}, failed : SUBSET (Media \cup Collections),
             alone : BOOLEAN]

\* What an export still has to read, and an import to write.
Todo ==
    /\ transfer.pc \in {"profile", "tags", "rounds"} => transfer.todo \subseteq Media
    /\ transfer.pc \in {"tags", "rounds"} => transfer.todo # {} /\ LastRecord > 0
    /\ transfer.pc = "importing" => transfer.todo \subseteq Collections

Typed ==
    /\ TypeOK
    /\ listing \in Listing \cup {NotListing}
    /\ transfer \in Transfer /\ Todo
    /\ \A m \in Media : profile[m] # None => profile[m].at <= now

\* The status of a profile is that of the rounds, where there are any.
Projections ==
    \A m \in Media : rounds[m] # <<>> =>
        profile[m] # None /\ profile[m].status = Projected(rounds[m])

\* A version that a browser holds is not ahead of the profile's; while it is
\* the same, what was read with it is what there is.
EditHolds(c) ==
    LET e == edit[c] IN
    /\ e.pc = "sharing" => profile[e.media] # None
    /\ e.fresh => /\ e.version <= VersionOf(e.media)
                  /\ e.version = VersionOf(e.media) =>
                       /\ e.pc = "sharing" => Ensured(e.media).shared = e.shared
                       /\ e.pc \in {"tags", "checked"} => tags[e.media] = e.tags
Edits == \A c \in Clients : edit[c] # Resting => EditHolds(c)

\* Of the media that stay, those behind the cursor were given and those
\* ahead of it were not; a cursor that was cut may be behind some it gave.
Paged ==
    listing.pc # "none" =>
        \A m \in listing.still :
            /\ InLibrary(profile, m)
            /\ LET ahead == After(KeyIn(profile, listing.sort, m), m, listing.cursor) IN
               /\ listing.pc = "paging" /\ ~ahead => listing.given[m] >= 1
               /\ ~listing.cut => listing.given[m] <= 1
               /\ listing.pc = "paging" /\ ~listing.cut /\ ahead => listing.given[m] = 0
               /\ listing.pc = "listed" => listing.given[m] >= 1

\* The profile as an export writes it.
ProfileOf(m) ==
    IF profile[m] = None THEN None
    ELSE [version |-> profile[m].version, shared |-> profile[m].shared]

Records == transfer.document.records
Reading == {"profile", "tags", "rounds"}

\* An export that nothing comes between has read what is there, media by
\* media: the last record is under way when pc is not "profile".
Exporting ==
    /\ transfer.pc \in Reading =>
         /\ transfer.failed = {}
         /\ transfer.document.collections = [id \in Collections |-> None]
    /\ transfer.pc \in Reading /\ transfer.alone =>
         /\ {Records[i].media : i \in DOMAIN Records} \cup transfer.todo = {m \in Media : IsExported(m)}
         /\ \A i, j \in DOMAIN Records : Records[i].media = Records[j].media => i = j
         /\ \A i \in DOMAIN Records :
              LET whole == transfer.pc = "profile" \/ i # LastRecord  m == Records[i].media IN
              /\ IF whole THEN m \notin transfer.todo ELSE m = First(transfer.todo)
              /\ Records[i].profile = ProfileOf(m)
              /\ whole \/ transfer.pc = "rounds" => Records[i].tags = tags[m]
              /\ whole => Records[i].rounds = rounds[m]

\* An import that nothing comes between has installed the records so far, and
\* the collections that are done.
Importing ==
    transfer.pc = "importing" /\ transfer.alone =>
        /\ \A i \in DOMAIN Records : i < transfer.next => Installed(i)
        /\ \A id \in Collections \ transfer.todo :
              transfer.document.collections[id] # None /\ id \notin transfer.failed
              => collections[id] = transfer.document.collections[id]

IInv == Typed /\ Projections /\ Edits /\ Paged /\ Exporting /\ Importing /\ TransfersFaithful

-----------------------------------------------------------------------------
(* Types *)

LEMMA InitTyped == Init => Typed
<1> SUFFICES ASSUME Init PROVE Typed
  OBVIOUS
<1>1. /\ <<>> \in Seq(Round) /\ <<>> \in Seq(Record)
      /\ 0 \in 0..MaxNow /\ 0 \in 0..MaxWrites /\ 0 \in Nat
  BY EmptySeq, BoundsAreNumbers
<1>2. NoTransfer \in Transfer
  BY <1>1 DEF NoTransfer, NoDocument, Transfer, Document
<1>3. TypeOK
  BY <1>1 DEF Init, TypeOK, NotListing, NoTransfer
<1> QED  BY <1>1, <1>2, <1>3 DEF Init, Typed, Todo, NoTransfer

LEMMA TypedParts ==
    ASSUME Typed
    PROVE  /\ profile \in [Media -> Profile \cup {None}] /\ tags \in [Media -> SUBSET Tags]
           /\ rounds \in [Media -> Seq(Round)]
           /\ collections \in [Collections -> Collection \cup {None}]
           /\ edit \in [Clients -> Edit \cup {Resting}]
           /\ now \in Nat /\ now <= MaxNow /\ writes \in Nat
           /\ transfer \in Transfer /\ listing \in Listing \cup {NotListing}
BY BoundsAreNumbers DEF Typed, TypeOK

LEMMA EnsuredTypes ==
    ASSUME Typed, NEW m \in Media
    PROVE  /\ Ensured(m) \in Profile /\ Ensured(m).at <= now
           /\ NewProfile \in Profile /\ NewProfile.at = now
           /\ VersionOf(m) \in Nat
<1>1. NewProfile \in Profile /\ NewProfile.at = now
  BY TypedParts DEF NewProfile, Profile, Statuses
<1>2. profile[m] # None => profile[m] \in Profile
  BY TypedParts
<1> QED  BY <1>1, <1>2, TypedParts DEF Ensured, VersionOf, Typed, Profile

\* The types and the time of a library in which one profile is written.
LEMMA WritingTyped ==
    ASSUME Typed, NEW m \in Media, NEW row \in Profile \cup {None}, Writing(m, row), now' = now,
           row # None => row.at <= now
    PROVE  /\ profile' \in [Media -> Profile \cup {None}]
           /\ \A n \in Media : profile'[n] # None => profile'[n].at <= now'
           /\ listing' \in Listing \cup {NotListing}
           /\ profile'[m] = row /\ \A n \in Media \ {m} : profile'[n] = profile[n]
<1>1. profile' = [profile EXCEPT ![m] = row]
  BY DEF Writing
<1>2. listing' \in Listing \cup {NotListing}
  <2>1. CASE listing.pc = "none"
    BY <2>1, TypedParts DEF Writing, Moves
  <2>2. CASE listing.pc # "none"
    <3>1. listing \in Listing
      BY <2>2, TypedParts DEF NotListing
    <3>2. PICK still \in SUBSET Media : listing' = [listing EXCEPT !.still = still]
      <4> DEFINE staying == {n \in listing.still : Stays(profile', n)}
      <4>1. staying \in SUBSET Media /\ listing' = [listing EXCEPT !.still = staying]
        BY <2>2, <3>1 DEF Writing, Moves, Listing
      <4> QED  BY <4>1
    <3> QED  BY <3>1, <3>2 DEF Listing
  <2> QED  BY <2>1, <2>2
<1> QED  BY <1>1, <1>2, TypedParts DEF Typed

LEMMA MovesKeepsStage == ASSUME NEW p, Moves(p), listing \in Listing \cup {NotListing}
                         PROVE  listing'.pc = listing.pc
BY DEF Moves, Listing, NotListing

LEMMA WritesTyped == ASSUME Typed, Writes PROVE writes' \in 0..MaxWrites
BY BoundsAreNumbers DEF Writes, Typed, TypeOK

\* Whatever happens beside a transfer leaves it as it was, disturbed at most.
Beside == transfer' \in {transfer, [transfer EXCEPT !.alone = FALSE]}

LEMMA BesideTyped == ASSUME Typed, Beside
                     PROVE  /\ transfer' \in Transfer /\ Todo' /\ transfer'.pc = transfer.pc
                            /\ transfer'.document = transfer.document
                            /\ transfer'.todo = transfer.todo
                            /\ transfer'.next = transfer.next
                            /\ transfer'.failed = transfer.failed
                            /\ transfer'.alone => transfer.alone /\ transfer' = transfer
<1>1. transfer \in Transfer /\ Todo
  BY DEF Typed
<1>2. /\ transfer' \in Transfer /\ transfer'.pc = transfer.pc
      /\ transfer'.document = transfer.document /\ transfer'.todo = transfer.todo
      /\ transfer'.next = transfer.next /\ transfer'.failed = transfer.failed
      /\ transfer'.alone => transfer.alone /\ transfer' = transfer
  BY <1>1 DEF Beside, Transfer
<1> QED  BY <1>1, <1>2 DEF Todo, LastRecord

\* One profile is written, beside any transfer: what is left to show are the
\* types of the row and of the tags, rounds and edits.
LEMMA WriteTyped ==
    ASSUME Typed, NEW m \in Media, NEW row \in Profile, Writing(m, row), row.at <= now,
           Writes, Beside, UNCHANGED <<collections, now>>,
           tags' \in [Media -> SUBSET Tags], rounds' \in [Media -> Seq(Round)],
           edit' \in [Clients -> Edit \cup {Resting}]
    PROVE  Typed'
<1>1. /\ profile' \in [Media -> Profile \cup {None}]
      /\ \A n \in Media : profile'[n] # None => profile'[n].at <= now'
      /\ listing' \in Listing \cup {NotListing}
  BY WritingTyped
<1>2. listing'.pc \in {"none", "paging", "listed"}
  BY <1>1 DEF Listing, NotListing
<1>3. transfer' \in Transfer /\ Todo'
  BY BesideTyped
<1>4. transfer'.pc \in {"none", "profile", "tags", "rounds", "exported", "importing", "imported"}
  BY <1>3 DEF Transfer
<1> QED  BY <1>1, <1>2, <1>3, <1>4, WritesTyped, TypedParts DEF Typed, TypeOK

-----------------------------------------------------------------------------
(* Induction on numbers, by a least counterexample, and the rows of a CSV *)

LEMMA LeastNumber ==
    ASSUME NEW T \in SUBSET Nat, T # {}
    PROVE  \E x \in T : \A y \in T : x <= y
<1>1. PICK x \in T : \A y \in T : <<y, x>> \notin OpToRel(<, Nat)
  BY NatLessThanWellFounded, WFMin
<1>2. \A y \in T : ~(y < x)
  BY <1>1 DEF OpToRel
<1> QED  BY <1>2

LEMMA ReadBackTypes ==
    ASSUME NEW names \in SUBSET Tags
    PROVE  ReadBack(names) \in SUBSET Tags
BY TagsAreNumbered DEF ReadBack

LEMMA RowTypes ==
    ASSUME NEW record \in Record
    PROVE  /\ Rows(record) \in Seq(Record) /\ Len(Rows(record)) > 0
           /\ Len(Rows(record)) = IF record.rounds = <<>> THEN 1 ELSE Len(record.rounds)
           /\ \A q \in 1..Len(Rows(record)) :
                /\ Rows(record)[q].media = record.media
                /\ Rows(record)[q].tags = ReadBack(record.tags)
                /\ Rows(record)[q].profile = None
                /\ Len(Rows(record)) = 1 => Rows(record)[q].rounds = record.rounds
<1> DEFINE row == [record EXCEPT !.profile = None, !.tags = ReadBack(@)]
<1>1. row \in Record /\ record.rounds \in Seq(Round)
  BY ReadBackTypes DEF Record
<1>2. CASE record.rounds = <<>>
  <2>1. Rows(record) = <<row>>
    BY <1>2 DEF Rows
  <2>2. <<row>> \in Seq(Record) /\ Len(<<row>>) = 1 /\ <<row>>[1] = row
    BY <1>1
  <2>3. row.media = record.media /\ row.tags = ReadBack(record.tags) /\ row.profile = None
        /\ row.rounds = record.rounds
    BY DEF Record
  <2> HIDE DEF row
  <2> QED  BY <1>2, <2>1, <2>2, <2>3
<1>3. CASE record.rounds # <<>>
  <2> DEFINE n == Len(record.rounds)
             piece(i) == [row EXCEPT !.rounds = <<record.rounds[i]>>]
  <2>1. n \in Nat \ {0} /\ DOMAIN record.rounds = 1..n
    BY <1>1, <1>3, EmptySeq, LenProperties
  <2>2. \A i \in 1..n : piece(i) \in Record
    <3> TAKE i \in 1..n
    <3>1. record.rounds[i] \in Round
      BY <1>1, ElementOfSeq
    <3>2. <<record.rounds[i]>> \in Seq(Round)
      BY <3>1
    <3> QED  BY <1>1, <3>2 DEF Record
  <2>3. Rows(record) = [i \in 1..n |-> piece(i)]
    BY <1>3, <2>1 DEF Rows
  <2>4. Rows(record) \in Seq(Record) /\ Len(Rows(record)) = n
    <3>1. [i \in 1..n |-> piece(i)] \in [1..n -> Record]
      BY <2>2
    <3> DEFINE pieces == [i \in 1..n |-> piece(i)]
    <3>2. DOMAIN pieces = 1..n
      OBVIOUS
    <3> HIDE DEF n, piece
    <3>3. pieces \in Seq(Record)
      BY <2>1, <3>1, SeqDef
    <3> HIDE DEF pieces
    <3>4. Len(pieces) = n
      BY <2>1, <3>2, <3>3, LenProperties
    <3> QED  BY <2>3, <3>3, <3>4 DEF pieces
  <2>5. \A q \in 1..n : /\ piece(q).media = record.media
                        /\ piece(q).tags = ReadBack(record.tags)
                        /\ piece(q).profile = None /\ piece(q).rounds = <<record.rounds[q]>>
    BY DEF Record
  <2>6. n = 1 => record.rounds = <<record.rounds[1]>>
    BY <1>1, <2>1
  <2> HIDE DEF piece, n
  <2>7. \A q \in 1..n : Rows(record)[q] = piece(q)
    BY <2>3
  <2>8. \A q \in 1..n : n = 1 => piece(q).rounds = record.rounds
    BY <2>1, <2>5, <2>6
  <2>9. n = Len(record.rounds)
    BY DEF n
  <2> QED  BY <1>3, <2>1, <2>4, <2>5, <2>7, <2>8, <2>9
<1> QED  BY <1>2, <1>3

\* Joined is the value at the last record of a function like this one.
IsJoining(f, records, n) ==
    f = [i \in 0..n |-> IF i = 0 THEN <<>> ELSE f[i - 1] \o Rows(records[i])]

LEMMA JoiningExists ==
    ASSUME NEW records, NEW n \in Nat
    PROVE  \E f : IsJoining(f, records, n)
<1> SUFFICES ASSUME \A f : ~IsJoining(f, records, n)
             PROVE  FALSE
  OBVIOUS
<1> DEFINE T == {k \in Nat : \A f : ~IsJoining(f, records, k)}
<1>1. PICK least \in T : \A k \in T : least <= k
  <2>1. T \in SUBSET Nat /\ n \in T
    OBVIOUS
  <2> QED  BY <2>1, LeastNumber
<1>2. least \in Nat /\ \A f : ~IsJoining(f, records, least)
  BY <1>1
<1>3. CASE least = 0
  <2> DEFINE f == [i \in 0..0 |-> <<>>]
  <2>1. \A i \in 0..0 : i = 0
    OBVIOUS
  <2>2. f = [i \in 0..0 |-> IF i = 0 THEN <<>> ELSE f[i - 1] \o Rows(records[i])]
    BY <2>1, Zenon
  <2>3. IsJoining(f, records, 0)
    BY <2>2 DEF IsJoining
  <2> QED  BY <1>2, <1>3, <2>3
<1>4. CASE least # 0
  <2>1. least - 1 \in Nat /\ least - 1 \notin T
    BY <1>1, <1>2, <1>4
  <2>2. PICK g : IsJoining(g, records, least - 1)
    BY <2>1
  <2> DEFINE f == [i \in 0..least |->
                     IF i = 0 THEN <<>> ELSE g[i - 1] \o Rows(records[i])]
  <2>3. g = [i \in 0..(least - 1) |-> IF i = 0 THEN <<>> ELSE g[i - 1] \o Rows(records[i])]
    BY <2>2 DEF IsJoining
  <2>4. \A i \in 0..(least - 1) : g[i] = f[i]
    <3>1. \A i \in 0..(least - 1) : i \in 0..least
      BY <1>2
    <3> QED  BY <2>3, <3>1
  <2>5. \A i \in 0..least : i # 0 => i - 1 \in 0..(least - 1)
    BY <1>2
  <2> DEFINE step == [i \in 0..least |->
                        IF i = 0 THEN <<>> ELSE f[i - 1] \o Rows(records[i])]
  <2>6. \A i \in 0..least : f[i] = step[i]
    <3> SUFFICES ASSUME NEW i \in 0..least PROVE f[i] = step[i]
      OBVIOUS
    <3>1. CASE i = 0
      BY <3>1
    <3>2. CASE i # 0
      <4>1. g[i - 1] = f[i - 1]
        BY <2>4, <2>5, <3>2
      <4>2. f[i] = g[i - 1] \o Rows(records[i]) /\ step[i] = f[i - 1] \o Rows(records[i])
        BY <3>2
      <4> HIDE DEF f, step
      <4> QED  BY <4>1, <4>2
    <3> QED  BY <3>1, <3>2
  <2>7. f = step
    BY <2>6
  <2>8. IsJoining(f, records, least)
    BY <2>7 DEF IsJoining
  <2> QED  BY <1>2, <2>8
<1> QED  BY <1>3, <1>4

\* What n rows joined hold: the rows of the first n records, each as a block,
\* and nothing else.
Holding(joined, records, n) ==
    /\ joined \in Seq(Record)
    /\ \A i \in 1..Len(joined) :
         \E k \in 1..n : \E q \in 1..Len(Rows(records[k])) : joined[i] = Rows(records[k])[q]
    /\ \A k \in 1..n : \E before \in Nat :
         \A q \in 1..Len(Rows(records[k])) :
            before + q \in 1..Len(joined) /\ joined[before + q] = Rows(records[k])[q]

LEMMA HoldingExtends ==
    ASSUME NEW records \in Seq(Record), NEW n \in Nat, n < Len(records), NEW joined,
           Holding(joined, records, n)
    PROVE  Holding(joined \o Rows(records[n + 1]), records, n + 1)
<1> DEFINE more == Rows(records[n + 1])
           all == joined \o more
<1>1. Len(records) \in Nat /\ n + 1 \in 1..Len(records)
  BY LenProperties
<1>2. records[n + 1] \in Record
  BY <1>1, ElementOfSeq
<1>3. more \in Seq(Record) /\ joined \in Seq(Record) /\ Len(more) \in Nat /\ Len(joined) \in Nat
  BY <1>2, RowTypes, LenProperties DEF Holding
<1>4. /\ all \in Seq(Record) /\ Len(all) = Len(joined) + Len(more)
      /\ \A i \in 1..Len(joined) + Len(more) :
            all[i] = IF i <= Len(joined) THEN joined[i] ELSE more[i - Len(joined)]
  BY <1>3, ConcatProperties
<1> HIDE DEF all
<1>5. \A i \in 1..Len(all) :
         \E k \in 1..(n + 1) : \E q \in 1..Len(Rows(records[k])) : all[i] = Rows(records[k])[q]
  <2> SUFFICES ASSUME NEW i \in 1..Len(all)
               PROVE  \E k \in 1..(n + 1) : \E q \in 1..Len(Rows(records[k])) :
                         all[i] = Rows(records[k])[q]
    OBVIOUS
  <2>1. CASE i <= Len(joined)
    <3>1. i \in 1..Len(joined) /\ all[i] = joined[i]
      BY <1>3, <1>4, <2>1
    <3>2. PICK k \in 1..n : \E q \in 1..Len(Rows(records[k])) : joined[i] = Rows(records[k])[q]
      BY <3>1 DEF Holding
    <3>3. k \in 1..(n + 1)
      OBVIOUS
    <3> QED  BY <3>1, <3>2, <3>3
  <2>2. CASE ~(i <= Len(joined))
    <3>1. i - Len(joined) \in 1..Len(more) /\ all[i] = more[i - Len(joined)]
      BY <1>3, <1>4, <2>2
    <3>2. n + 1 \in 1..(n + 1)
      OBVIOUS
    <3> QED  BY <3>1, <3>2
  <2> QED  BY <2>1, <2>2
<1>6. \A k \in 1..(n + 1) : \E before \in Nat :
         \A q \in 1..Len(Rows(records[k])) :
            before + q \in 1..Len(all) /\ all[before + q] = Rows(records[k])[q]
  <2> SUFFICES ASSUME NEW k \in 1..(n + 1)
               PROVE  \E before \in Nat :
                        \A q \in 1..Len(Rows(records[k])) :
                          before + q \in 1..Len(all) /\ all[before + q] = Rows(records[k])[q]
    OBVIOUS
  <2>1. CASE k \in 1..n
    <3>1. PICK before \in Nat :
             \A q \in 1..Len(Rows(records[k])) :
                before + q \in 1..Len(joined) /\ joined[before + q] = Rows(records[k])[q]
      BY <2>1 DEF Holding
    <3>2. \A i \in 1..Len(joined) : i \in 1..Len(all) /\ all[i] = joined[i]
      BY <1>3, <1>4
    <3> QED  BY <3>1, <3>2
  <2>2. CASE k = n + 1
    <3>1. \A q \in 1..Len(more) :
             /\ Len(joined) + q \in 1..Len(all)
             /\ all[Len(joined) + q] = more[q]
      <4> TAKE q \in 1..Len(more)
      <4> HIDE DEF more
      <4>1. /\ Len(joined) + q \in 1..Len(joined) + Len(more)
            /\ ~(Len(joined) + q <= Len(joined)) /\ (Len(joined) + q) - Len(joined) = q
        BY <1>3
      <4> QED  BY <1>4, <4>1
    <3> QED  BY <1>3, <2>2, <3>1
  <2>3. k \in 1..n \/ k = n + 1
    OBVIOUS
  <2> QED  BY <2>1, <2>2, <2>3
<1> QED  BY <1>4, <1>5, <1>6 DEF Holding, all

\* What the rows of a CSV hold, for documents of any length.
LEMMA JoinedRows ==
    ASSUME NEW records \in Seq(Record)
    PROVE  Holding(Joined(records), records, Len(records))
<1> DEFINE n == Len(records)
<1>1. n \in Nat
  BY LenProperties, Zenon
<1>2. PICK f : f = [i \in 0..n |-> IF i = 0 THEN <<>> ELSE f[i - 1] \o Rows(records[i])]
                /\ Joined(records) = f[n]
  <2>1. \E f : f = [i \in 0..n |-> IF i = 0 THEN <<>> ELSE f[i - 1] \o Rows(records[i])]
    BY <1>1, JoiningExists DEF IsJoining
  <2> DEFINE g == CHOOSE f : f = [i \in 0..n |-> IF i = 0 THEN <<>>
                                                 ELSE f[i - 1] \o Rows(records[i])]
  <2>2. g = [i \in 0..n |-> IF i = 0 THEN <<>> ELSE g[i - 1] \o Rows(records[i])]
    BY <2>1, Zenon
  <2>3. Joined(records) = g[n]
    BY Zenon DEF Joined
  <2> QED  BY <2>2, <2>3
<1>3. f[0] = <<>> /\ \A i \in 0..n : i # 0 => f[i] = f[i - 1] \o Rows(records[i])
  BY <1>1, <1>2
<1> DEFINE T == {i \in 0..n : ~Holding(f[i], records, i)}
<1>4. T = {}
  <2> SUFFICES ASSUME T # {} PROVE FALSE
    OBVIOUS
  <2>1. PICK least \in T : \A k \in T : least <= k
    <3>1. T \in SUBSET Nat
      BY <1>1
    <3> QED  BY <3>1, LeastNumber
  <2>2. Holding(f[0], records, 0)
    BY <1>3, EmptySeq DEF Holding
  <2>3. least \in 1..n /\ least - 1 \in Nat /\ least - 1 \in 0..n /\ least - 1 \notin T
    BY <1>1, <2>1, <2>2
  <2>4. Holding(f[least - 1], records, least - 1)
    BY <2>3
  <2>5. (least - 1) + 1 = least /\ least - 1 < n /\ least # 0 /\ least \in 0..n
    BY <1>1, <2>3
  <2>6. Holding(f[least - 1] \o Rows(records[least]), records, least)
    BY <2>3, <2>4, <2>5, HoldingExtends
  <2>7. f[least] = f[least - 1] \o Rows(records[least])
    BY <1>3, <2>5
  <2>8. Holding(f[least], records, least)
    BY <2>6, <2>7
  <2>9. ~Holding(f[least], records, least)
    BY <2>1, Zenon
  <2> HIDE DEF T
  <2> QED  BY <2>8, <2>9
<1>5. n \in 0..n
  BY <1>1
<1>6. Holding(f[n], records, n)
  <2>1. n \notin T
    BY <1>4
  <2> QED  BY <1>5, <2>1, Zenon
<1>7. Holding(Joined(records), records, n)
  BY <1>2, <1>6, Zenon
<1> QED  BY <1>7

-----------------------------------------------------------------------------
(* The writes: of rounds, tags, sharing and collections *)

LEMMA ProjectedType == ASSUME NEW history \in Seq(Round) PROVE Projected(history) \in Statuses
<1>1. CASE Current(history) = {}
  BY <1>1 DEF Projected, Statuses
<1>2. CASE Current(history) # {}
  <2> DEFINE i == CHOOSE j \in Current(history) : TRUE
  <2>1. i \in Current(history)
    BY <1>2
  <2>2. i \in 1..Len(history)
    BY <2>1, LenProperties DEF Current
  <2>3. history[i] \in Round
    BY <2>2, ElementOfSeq
  <2> QED  BY <1>2, <2>3 DEF Projected, Round
<1> QED  BY <1>1, <1>2

\* The profile and the rounds after a request on rounds.
LEMMA ChangeRoundsEffect ==
    ASSUME Typed, ChangeRounds
    PROVE  \E m \in Media, history \in Seq(Round) :
             LET row == [Ensured(m) EXCEPT !.status = Projected(history), !.at = now] IN
             /\ rounds' = [rounds EXCEPT ![m] = history]
             /\ row \in Profile /\ row.at = now /\ row.version = Ensured(m).version
             /\ row.shared = Ensured(m).shared /\ row.status = Projected(history)
             /\ Writing(m, row)
<1>1. PICK m \in Media, s \in Statuses \ {"none"} :
        /\ LET history == rounds[m]  last == Len(history) IN
            \/ /\ history = <<>>
               /\ rounds' = [rounds EXCEPT ![m] = <<[status |-> s, archived |-> FALSE]>>]
            \/ /\ Current(history) # {}
               /\ rounds' = [rounds EXCEPT ![m][last].status = s]
            \/ /\ Current(history) # {} /\ history[last].status = "completed"
               /\ s = "watching" /\ last < MaxRounds
               /\ rounds' = [rounds EXCEPT ![m] =
                               Append([@ EXCEPT ![last].archived = TRUE],
                                      [status |-> s, archived |-> FALSE])]
            \/ /\ Current(history) # {}
               /\ rounds' = [rounds EXCEPT ![m] = SubSeq(@, 1, last - 1)]
        /\ Writing(m, [Ensured(m) EXCEPT !.status = Projected(rounds'[m]), !.at = now])
  BY DEF ChangeRounds
<1> DEFINE history == rounds[m]
           last == Len(history)
           new == [status |-> s, archived |-> FALSE]
<1>2. history \in Seq(Round) /\ new \in Round /\ last \in Nat /\ DOMAIN history = 1..last
  <2>1. history \in Seq(Round)
    BY TypedParts
  <2> QED  BY <2>1, LenProperties DEF Round
<1>3. Current(history) # {} => last \in 1..last
  BY <1>2 DEF Current
<1>4. PICK after \in Seq(Round) : rounds' = [rounds EXCEPT ![m] = after]
  <2>1. CASE rounds' = [rounds EXCEPT ![m] = <<new>>]
    <3>1. <<new>> \in Seq(Round)
      BY <1>2
    <3> QED  BY <2>1, <3>1
  <2>2. CASE Current(history) # {} /\ rounds' = [rounds EXCEPT ![m][last].status = s]
    <3>1. history[last] \in Round
      BY <1>2, <1>3, <2>2, ElementOfSeq
    <3>2. [history[last] EXCEPT !.status = s] \in Round
      BY <3>1 DEF Round
    <3>3. [history EXCEPT ![last] = [history[last] EXCEPT !.status = s]] \in Seq(Round)
      BY <1>2, <1>3, <2>2, <3>2, ExceptSeq
    <3> QED  BY <2>2, <3>3
  <2>3. CASE /\ Current(history) # {}
             /\ rounds' = [rounds EXCEPT ![m] =
                             Append([@ EXCEPT ![last].archived = TRUE], new)]
    <3>1. history[last] \in Round
      BY <1>2, <1>3, <2>3, ElementOfSeq
    <3>2. [history[last] EXCEPT !.archived = TRUE] \in Round
      BY <3>1 DEF Round
    <3>3. [history EXCEPT ![last] = [history[last] EXCEPT !.archived = TRUE]] \in Seq(Round)
      BY <1>2, <1>3, <2>3, <3>2, ExceptSeq
    <3>4. Append([history EXCEPT ![last].archived = TRUE], new) \in Seq(Round)
      BY <1>2, <3>3, AppendProperties
    <3> QED  BY <2>3, <3>4
  <2>4. CASE /\ Current(history) # {}
             /\ rounds' = [rounds EXCEPT ![m] = SubSeq(@, 1, last - 1)]
    <3>1. SubSeq(history, 1, last - 1) \in Seq(Round)
      <4>1. \A i \in 1..(last - 1) : history[i] \in Round
        BY <1>2, ElementOfSeq
      <4> QED  BY <1>2, <1>3, <2>4, <4>1, SubSeqProperties
    <3> QED  BY <2>4, <3>1
  <2> QED  BY <1>1, <2>1, <2>2, <2>3, <2>4
<1>5. rounds'[m] = after
  BY <1>4, TypedParts
<1> DEFINE row == [Ensured(m) EXCEPT !.status = Projected(after), !.at = now]
<1>6. Ensured(m) \in Profile /\ Projected(after) \in Statuses /\ now \in Nat
  BY EnsuredTypes, ProjectedType, TypedParts
<1>7. /\ row \in Profile /\ row.at = now /\ row.version = Ensured(m).version
      /\ row.shared = Ensured(m).shared /\ row.status = Projected(after)
  BY <1>6 DEF Profile
<1>8. Writing(m, row)
  BY <1>1, <1>5
<1> HIDE DEF row
<1> QED  BY <1>4, <1>7, <1>8 DEF row

LEMMA ChangeRoundsTyped == ASSUME Typed, ChangeRounds PROVE Typed'
<1>1. PICK m \in Media, history \in Seq(Round), row \in Profile :
        rounds' = [rounds EXCEPT ![m] = history] /\ row.at = now /\ Writing(m, row)
  BY ChangeRoundsEffect
<1>2. Writes /\ Beside /\ UNCHANGED <<tags, collections, edit, now>>
  BY DEF ChangeRounds, Disturbs, Beside
<1>3. rounds' \in [Media -> Seq(Round)]
  BY <1>1, TypedParts
<1>4. tags' \in [Media -> SUBSET Tags] /\ edit' \in [Clients -> Edit \cup {Resting}] /\ now <= now
  BY <1>2, TypedParts
<1> QED  BY <1>1, <1>2, <1>3, <1>4, WriteTyped

LEMMA RestingIsNoEdit == Resting \notin Edit
BY DEF Resting, Edit

LEMMA EditUnderWay ==
    ASSUME Typed, NEW c \in Clients, edit[c] # Resting \/ edit[c].pc # "resting"
    PROVE  edit[c] \in Edit /\ edit[c].media \in Media /\ edit[c] # Resting
<1>1. edit[c] \in Edit \cup {Resting}
  BY TypedParts
<1>2. Resting.pc = "resting"
  BY DEF Resting
<1>3. edit[c] \in Edit
  BY <1>1, <1>2
<1> QED  BY <1>3, RestingIsNoEdit DEF Edit

\* The row that an edit of tags and one of the sharing leave.
Touched(p) == [p EXCEPT !.version = @ + 1, !.at = now]
Reshared(p, shared) == [p EXCEPT !.version = @ + 1, !.shared = shared, !.at = now]

LEMMA NextVersion ==
    ASSUME NEW p \in Profile, now \in Nat, NEW shared \in BOOLEAN
    PROVE  /\ Touched(p) \in Profile /\ Touched(p).at = now
           /\ Touched(p).version > p.version /\ Touched(p).status = p.status
           /\ Reshared(p, shared) \in Profile /\ Reshared(p, shared).at = now
           /\ Reshared(p, shared).version > p.version /\ Reshared(p, shared).status = p.status
<1>1. p.version + 1 \in Nat /\ p.version + 1 > p.version
  BY DEF Profile
<1>2. Touched(p) \in Profile /\ Reshared(p, shared) \in Profile
  BY <1>1 DEF Touched, Reshared, Profile
<1>3. /\ Touched(p).at = now /\ Touched(p).version = p.version + 1
      /\ Touched(p).status = p.status
  BY DEF Touched, Profile
<1>4. /\ Reshared(p, shared).at = now /\ Reshared(p, shared).version = p.version + 1
      /\ Reshared(p, shared).status = p.status
  BY DEF Reshared, Profile
<1> QED  BY <1>1, <1>2, <1>3, <1>4

\* Tags and sharing are written with a version that goes up.
LEMMA SetTagsEffect ==
    ASSUME Typed, NEW c \in Clients, SetTagsVersioned(c)
    PROVE  /\ edit[c] \in Edit /\ edit[c].pc = "checked"
           /\ \/ \E row \in Profile :
                   /\ Writing(edit[c].media, row) /\ row.at = now
                   /\ row.version > VersionOf(edit[c].media)
                   /\ row.status = Ensured(edit[c].media).status
                   /\ \E names \in SUBSET Tags : tags' = [tags EXCEPT ![edit[c].media] = names]
                   /\ Writes /\ Disturbs
              \/ UNCHANGED <<profile, tags, listing, transfer, writes>>
           /\ Settles(c) /\ UNCHANGED <<rounds, collections, now>>
<1> DEFINE m == edit[c].media
<1>1. edit[c] \in Edit /\ edit[c].pc = "checked"
  BY EditUnderWay DEF SetTagsVersioned
<1>2. m \in Media
  BY <1>1 DEF Edit
<1>3. Settles(c) /\ UNCHANGED <<rounds, collections, now>>
  BY DEF SetTagsVersioned
<1>4. CASE UNCHANGED <<profile, tags, listing, transfer, writes>>
  BY <1>1, <1>3, <1>4
<1>5. CASE /\ Bumps(m) /\ Writes /\ Disturbs
           /\ \E names \in SUBSET Tags : tags' = [tags EXCEPT ![m] = names]
  <2> DEFINE row == IF profile[m] = None THEN NewProfile
                    ELSE Touched(profile[m])
  <2>1. /\ row \in Profile /\ row.at = now /\ row.version > VersionOf(m)
        /\ row.status = Ensured(m).status
    <3>1. CASE profile[m] = None
      <4>1. NewProfile \in Profile /\ NewProfile.at = now
        BY <1>2, EnsuredTypes
      <4>2. NewProfile.version = 1
        BY DEF NewProfile
      <4>3. VersionOf(m) = 0 /\ Ensured(m) = NewProfile
        BY <3>1 DEF VersionOf, Ensured
      <4> QED  BY <3>1, <4>1, <4>2, <4>3
    <3>2. CASE profile[m] # None
      <4>1. profile[m] \in Profile /\ now \in Nat
        BY <1>2, <3>2, TypedParts
      <4>2. VersionOf(m) = profile[m].version /\ Ensured(m) = profile[m]
        BY <3>2 DEF VersionOf, Ensured
      <4> QED  BY <3>2, <4>1, <4>2, NextVersion
    <3> QED  BY <3>1, <3>2
  <2>2. Writing(m, row)
    BY <1>5 DEF Bumps, Touched
  <2> HIDE DEF row
  <2> QED  BY <1>1, <1>3, <1>5, <2>1, <2>2
<1> QED  BY <1>4, <1>5 DEF SetTagsVersioned

LEMMA SettlesTyped == ASSUME Typed, NEW c \in Clients, Settles(c)
                      PROVE  edit' \in [Clients -> Edit \cup {Resting}]
BY TypedParts DEF Settles

\* Nothing of the library changes, nor the listing and the transfer.
LEMMA OnlyEditTyped ==
    ASSUME Typed, UNCHANGED <<library, listing, transfer, now, writes>>,
           edit' \in [Clients -> Edit \cup {Resting}]
    PROVE  Typed'
BY DEF Typed, TypeOK, Todo, LastRecord, library

LEMMA SetTagsTyped == ASSUME Typed, NEW c \in Clients, SetTagsVersioned(c) PROVE Typed'
<1>1. edit' \in [Clients -> Edit \cup {Resting}] /\ edit[c].media \in Media
  BY SetTagsEffect, SettlesTyped DEF Edit
<1>2. CASE UNCHANGED <<profile, tags, listing, transfer, writes>>
  BY <1>1, <1>2, SetTagsEffect, OnlyEditTyped DEF library
<1>3. ASSUME NEW row \in Profile, Writing(edit[c].media, row), row.at = now, Writes, Disturbs,
             NEW names \in SUBSET Tags, tags' = [tags EXCEPT ![edit[c].media] = names]
      PROVE  Typed'
  <2>1. Beside /\ UNCHANGED <<rounds, collections, now>> /\ row.at <= now
    BY <1>3, SetTagsEffect, TypedParts DEF Disturbs, Beside
  <2>2. tags' \in [Media -> SUBSET Tags] /\ rounds' \in [Media -> Seq(Round)]
    BY <1>3, <2>1, TypedParts
  <2> QED  BY <1>1, <1>3, <2>1, <2>2, WriteTyped
<1> QED  BY <1>2, <1>3, SetTagsEffect

LEMMA UpdateSharingEffect ==
    ASSUME Typed, Edits, NEW c \in Clients, UpdateSharing(c)
    PROVE  /\ edit[c] \in Edit /\ edit[c].pc = "sharing"
           /\ \/ \E row \in Profile :
                   /\ Writing(edit[c].media, row) /\ row.at = now
                   /\ row.version > VersionOf(edit[c].media)
                   /\ row.status = Ensured(edit[c].media).status
                   /\ Writes /\ Disturbs
              \/ UNCHANGED <<profile, listing, transfer, writes>>
           /\ Settles(c) /\ UNCHANGED <<tags, rounds, collections, now>>
<1> DEFINE m == edit[c].media
<1>1. edit[c] \in Edit /\ edit[c].pc = "sharing"
  BY EditUnderWay DEF UpdateSharing
<1>2. m \in Media /\ profile[m] # None
  BY <1>1, RestingIsNoEdit DEF Edit, Edits, EditHolds
<1>3. Settles(c) /\ UNCHANGED <<tags, rounds, collections, now>>
  BY DEF UpdateSharing
<1>4. CASE UNCHANGED <<profile, listing, transfer, writes>>
  BY <1>1, <1>3, <1>4
<1>5. ASSUME NEW shared \in BOOLEAN, Writes, Disturbs,
             Writing(m, [profile[m] EXCEPT !.version = @ + 1, !.shared = shared, !.at = now])
      PROVE  \E row \in Profile :
                /\ Writing(m, row) /\ row.at = now /\ row.version > VersionOf(m)
                /\ row.status = Ensured(m).status
  <2> DEFINE row == Reshared(profile[m], shared)
  <2>1. profile[m] \in Profile /\ now \in Nat
    BY <1>2, TypedParts
  <2>2. /\ row \in Profile /\ row.at = now /\ row.version > VersionOf(m)
        /\ row.status = Ensured(m).status
    <3>1. VersionOf(m) = profile[m].version /\ Ensured(m) = profile[m]
      BY <1>2 DEF VersionOf, Ensured
    <3> QED  BY <2>1, <3>1, NextVersion
  <2>3. Writing(m, row)
    BY <1>5 DEF Reshared
  <2> HIDE DEF row
  <2> QED  BY <2>2, <2>3
<1> QED  BY <1>1, <1>3, <1>4, <1>5 DEF UpdateSharing

LEMMA UpdateSharingTyped ==
    ASSUME Typed, Edits, NEW c \in Clients, UpdateSharing(c) PROVE Typed'
<1>1. edit' \in [Clients -> Edit \cup {Resting}] /\ edit[c].media \in Media
  BY UpdateSharingEffect, SettlesTyped DEF Edit
<1>2. CASE UNCHANGED <<profile, listing, transfer, writes>>
  BY <1>1, <1>2, UpdateSharingEffect, OnlyEditTyped DEF library
<1>3. ASSUME NEW row \in Profile, Writing(edit[c].media, row), row.at = now, Writes, Disturbs
      PROVE  Typed'
  <2>1. Beside /\ UNCHANGED <<tags, rounds, collections, now>> /\ row.at <= now
    BY <1>3, UpdateSharingEffect, TypedParts DEF Disturbs, Beside
  <2>2. tags' \in [Media -> SUBSET Tags] /\ rounds' \in [Media -> Seq(Round)]
    BY <2>1, TypedParts
  <2> QED  BY <1>1, <1>3, <2>1, <2>2, WriteTyped
<1> QED  BY <1>2, <1>3, UpdateSharingEffect

LEMMA AppendToList ==
    ASSUME NEW items \in Lists, NEW m \in Media, ~Holds(items, m)
    PROVE  Append(items, m) \in Lists
<1>1. PICK n \in 0..Cardinality(Media) : items \in [1..n -> Media] /\ IsUnique(items)
  BY DEF Lists
<1>2. Cardinality(Media) \in Nat /\ n \in Nat
  BY MediaAreNumbered, FS_CardinalityType
<1>3. items \in Seq(Media) /\ Len(items) = n /\ DOMAIN items = 1..n
  <2>1. items \in Seq(Media)
    BY <1>1, <1>2, SeqDef
  <2> QED  BY <1>1, <1>2, <2>1, LenProperties
<1> DEFINE longer == Append(items, m)
<1>4. /\ longer \in [1..n + 1 -> Media]
      /\ \A i \in 1..n : longer[i] = items[i]
      /\ longer[n + 1] = m
  <2>1. /\ longer \in Seq(Media) /\ Len(longer) = n + 1
        /\ \A i \in 1..n : longer[i] = items[i]
        /\ longer[n + 1] = m
    BY <1>3, AppendProperties
  <2> HIDE DEF longer
  <2> QED  BY <2>1, LenProperties
<1> HIDE DEF longer
<1>5. IsUnique(longer)
  <2>1. \A i \in 1..n : items[i] # m
    BY <1>3 DEF Holds
  <2>2. \A i \in 1..n + 1 : i \in 1..n \/ i = n + 1
    BY <1>2
  <2>3. \A i, j \in 1..n : items[i] = items[j] => i = j
    BY <1>1, <1>3 DEF IsUnique
  <2>4. \A i, j \in 1..n + 1 : longer[i] = longer[j] => i = j
    BY <1>4, <2>1, <2>2, <2>3
  <2>5. DOMAIN longer = 1..n + 1
    BY <1>4
  <2> QED  BY <2>4, <2>5 DEF IsUnique
<1>6. n + 1 <= Cardinality(Media)
  <2> SUFFICES ASSUME Cardinality(Media) < n + 1 PROVE FALSE
    BY <1>2
  <2>1. IsFiniteSet(1..n + 1) /\ Cardinality(1..n + 1) = n + 1
    <3>1. 1 \in Int /\ n + 1 \in Int /\ ~(1 > n + 1)
      BY <1>2
    <3>2. IsFiniteSet(1..n + 1) /\ Cardinality(1..n + 1) = (n + 1) - 1 + 1
      BY <3>1, FS_Interval
    <3> QED  BY <1>2, <3>2
  <2>2. \E x, y \in 1..n + 1 : x # y /\ longer[x] = longer[y]
    BY <1>4, <2>1, MediaAreNumbered, FS_PigeonHole
  <2> QED  BY <1>4, <1>5, <2>2 DEF IsUnique
<1>7. n + 1 \in 0..Cardinality(Media)
  BY <1>2, <1>6
<1> QED  BY <1>4, <1>5, <1>7 DEF Lists, longer

LEMMA EmptyList == <<>> \in Lists
<1>1. 0 \in 0..Cardinality(Media) /\ 1..0 = {}
  BY MediaAreNumbered, FS_CardinalityType
<1>2. <<>> \in [1..0 -> Media] /\ IsUnique(<<>>)
  BY <1>1 DEF IsUnique
<1> QED  BY <1>1, <1>2 DEF Lists

\* Collections change, beside any transfer.
CollectionsWritten ==
    CreateCollection \/ RenameCollection \/ AddCollectionItem
        \/ ReplaceCollectionItems \/ DeleteCollection

LEMMA CollectionsWrittenEffect ==
    ASSUME Typed, CollectionsWritten
    PROVE  /\ collections' \in [Collections -> Collection \cup {None}]
           /\ Writes /\ Disturbs /\ UNCHANGED <<profile, tags, rounds, edit, listing, now>>
<1>1. /\ collections \in [Collections -> Collection \cup {None}]
      /\ \A id \in Collections : collections[id] # None => collections[id] \in Collection
  BY TypedParts
<1>2. CASE CreateCollection
  <2>1. PICK id \in Collections, name \in CollectionNames :
          collections' = [collections EXCEPT ![id] = [name |-> name, items |-> <<>>]]
    BY <1>2 DEF CreateCollection
  <2>2. [name |-> name, items |-> <<>>] \in Collection
    BY EmptyList DEF Collection
  <2> QED  BY <1>1, <1>2, <2>1, <2>2 DEF CreateCollection
<1>3. CASE RenameCollection
  <2>1. PICK id \in Collections, name \in CollectionNames :
          collections[id] # None /\ collections' = [collections EXCEPT ![id].name = name]
    BY <1>3 DEF RenameCollection
  <2>2. [collections[id] EXCEPT !.name = name] \in Collection
    BY <1>1, <2>1 DEF Collection
  <2> QED  BY <1>1, <1>3, <2>1, <2>2 DEF RenameCollection
<1>4. CASE AddCollectionItem
  <2>1. PICK id \in Collections, m \in Media :
          /\ collections[id] # None /\ ~Holds(collections[id].items, m)
          /\ collections' = [collections EXCEPT ![id].items = Append(@, m)]
    BY <1>4 DEF AddCollectionItem
  <2>2. collections[id] \in Collection /\ collections[id].items \in Lists
    BY <1>1, <2>1 DEF Collection
  <2>3. Append(collections[id].items, m) \in Lists
    BY <2>1, <2>2, AppendToList
  <2>4. [collections[id] EXCEPT !.items = Append(@, m)] \in Collection
    BY <2>2, <2>3 DEF Collection
  <2> QED  BY <1>1, <1>4, <2>1, <2>4 DEF AddCollectionItem
<1>5. CASE ReplaceCollectionItems
  <2>1. PICK id \in Collections, items \in Lists :
          collections[id] # None /\ collections' = [collections EXCEPT ![id].items = items]
    BY <1>5 DEF ReplaceCollectionItems
  <2>2. [collections[id] EXCEPT !.items = items] \in Collection
    BY <1>1, <2>1 DEF Collection
  <2> QED  BY <1>1, <1>5, <2>1, <2>2 DEF ReplaceCollectionItems
<1>6. CASE DeleteCollection
  BY <1>1, <1>6 DEF DeleteCollection
<1> QED  BY <1>2, <1>3, <1>4, <1>5, <1>6 DEF CollectionsWritten

LEMMA CollectionsWrittenTyped == ASSUME Typed, CollectionsWritten PROVE Typed'
<1>1. /\ collections' \in [Collections -> Collection \cup {None}]
      /\ Writes /\ Beside /\ UNCHANGED <<profile, tags, rounds, edit, listing, now>>
  BY CollectionsWrittenEffect DEF Disturbs, Beside
<1>2. transfer' \in Transfer /\ Todo' /\ writes' \in 0..MaxWrites /\ transfer'.pc = transfer.pc
  BY <1>1, BesideTyped, WritesTyped
<1> QED  BY <1>1, <1>2 DEF Typed, TypeOK

\* A browser reads before it edits.
EditReads(c) ==
    ReadVersion(c) \/ ReadTags(c) \/ CheckVersion(c) \/ ReadSharing(c) \/ Abandon(c)

LEMMA ReadsTyped ==
    ASSUME Typed, NEW c \in Clients, NEW m \in Media, NEW pc \in {"version", "sharing"},
           Reads(c, pc, m)
    PROVE  /\ edit'[c] \in Edit /\ edit' = [edit EXCEPT ![c] = edit'[c]]
           /\ edit'[c].pc = pc /\ edit'[c].media = m /\ edit'[c].version = VersionOf(m)
           /\ edit'[c].shared = Ensured(m).shared
<1> DEFINE e == [pc |-> pc, media |-> m, version |-> VersionOf(m), tags |-> {},
                 shared |-> Ensured(m).shared, fresh |-> TRUE]
<1>1. VersionOf(m) \in Nat /\ Ensured(m).shared \in BOOLEAN
  BY EnsuredTypes DEF Profile
<1>2. e \in Edit
  BY <1>1 DEF Edit
<1>3. edit' = [edit EXCEPT ![c] = e]
  BY DEF Reads
<1>4. edit'[c] = e
  BY <1>3, TypedParts
<1>5. e.pc = pc /\ e.media = m /\ e.version = VersionOf(m) /\ e.shared = Ensured(m).shared
  OBVIOUS
<1> HIDE DEF e
<1> QED  BY <1>2, <1>3, <1>4, <1>5

LEMMA EditReadsEffect ==
    ASSUME Typed, NEW c \in Clients, EditReads(c)
    PROVE  /\ UNCHANGED <<profile, tags, rounds, collections, listing, transfer, now, writes>>
           /\ edit' = [edit EXCEPT ![c] = edit'[c]]
           /\ edit'[c] \in Edit \cup {Resting}
           /\ \/ edit'[c] = Resting
              \/ /\ edit'[c].pc = "version" /\ edit'[c].version = VersionOf(edit'[c].media)
              \/ /\ edit'[c].pc = "sharing" /\ edit'[c].version = VersionOf(edit'[c].media)
                 /\ edit'[c].shared = Ensured(edit'[c].media).shared
                 /\ profile[edit'[c].media] # None
              \/ /\ edit[c] \in Edit /\ edit'[c].media = edit[c].media
                 /\ edit'[c].version = edit[c].version /\ edit'[c].fresh = edit[c].fresh
                 /\ \/ edit[c].pc = "version" /\ edit'[c].pc = "tags"
                       /\ edit'[c].tags = tags[edit[c].media]
                    \/ edit[c].pc = "tags" /\ edit'[c].pc = "checked"
                       /\ edit'[c].tags = edit[c].tags
<1> USE DEF library
<1>1. edit \in [Clients -> Edit \cup {Resting}]
  BY TypedParts
<1>2. CASE ReadVersion(c)
  <2>1. PICK m \in Media : Reads(c, "version", m)
    BY <1>2 DEF ReadVersion
  <2>2. /\ edit'[c] \in Edit /\ edit' = [edit EXCEPT ![c] = edit'[c]]
        /\ edit'[c].pc = "version" /\ edit'[c].media = m /\ edit'[c].version = VersionOf(m)
    BY <2>1, ReadsTyped
  <2> QED  BY <1>2, <2>2 DEF ReadVersion
<1>3. CASE ReadSharing(c)
  <2>1. PICK m \in Media : profile[m] # None /\ Reads(c, "sharing", m)
    BY <1>3 DEF ReadSharing
  <2>2. /\ edit'[c] \in Edit /\ edit' = [edit EXCEPT ![c] = edit'[c]]
        /\ edit'[c].pc = "sharing" /\ edit'[c].media = m /\ edit'[c].version = VersionOf(m)
        /\ edit'[c].shared = Ensured(m).shared
    BY <2>1, ReadsTyped
  <2> QED  BY <1>3, <2>1, <2>2 DEF ReadSharing
<1>4. CASE ReadTags(c)
  <2>1. edit[c] \in Edit /\ edit[c].pc = "version" /\ tags[edit[c].media] \in SUBSET Tags
    BY <1>4, EditUnderWay, TypedParts DEF ReadTags
  <2> DEFINE e == [edit[c] EXCEPT !.pc = "tags", !.tags = tags[edit[c].media]]
  <2>2. /\ e \in Edit /\ e.pc = "tags" /\ e.media = edit[c].media /\ e.version = edit[c].version
        /\ e.fresh = edit[c].fresh /\ e.tags = tags[edit[c].media]
    BY <2>1 DEF Edit
  <2>3. edit' = [edit EXCEPT ![c] = e]
    BY <1>1, <1>4 DEF ReadTags
  <2> HIDE DEF e
  <2>4. edit'[c] = e
    BY <1>1, <2>3
  <2> QED  BY <1>4, <2>1, <2>2, <2>3, <2>4 DEF ReadTags
<1>5. CASE CheckVersion(c)
  <2>1. edit[c] \in Edit /\ edit[c].pc = "tags"
    BY <1>5, EditUnderWay DEF CheckVersion
  <2> DEFINE e == [edit[c] EXCEPT !.pc = "checked"]
  <2>2. /\ e \in Edit /\ e.pc = "checked" /\ e.media = edit[c].media
        /\ e.version = edit[c].version /\ e.fresh = edit[c].fresh /\ e.tags = edit[c].tags
    BY <2>1 DEF Edit
  <2>3. edit' = [edit EXCEPT ![c] = e] \/ edit' = [edit EXCEPT ![c] = Resting]
    BY <1>5 DEF CheckVersion, Settles
  <2> HIDE DEF e
  <2>4. edit'[c] = e \/ edit'[c] = Resting
    BY <1>1, <2>3
  <2> QED  BY <1>1, <1>5, <2>1, <2>2, <2>3, <2>4 DEF CheckVersion
<1>6. CASE Abandon(c)
  BY <1>1, <1>6 DEF Abandon, Settles
<1> QED  BY <1>2, <1>3, <1>4, <1>5, <1>6 DEF EditReads

LEMMA EditReadsTyped == ASSUME Typed, NEW c \in Clients, EditReads(c) PROVE Typed'
<1>1. edit' \in [Clients -> Edit \cup {Resting}]
  BY EditReadsEffect, TypedParts
<1> QED  BY <1>1, EditReadsEffect, OnlyEditTyped DEF library

-----------------------------------------------------------------------------
(* The listing and the transfer: types *)

ListingSteps == BeginListing \/ LibraryPage \/ EndListing

LEMMA OnlyListingTyped ==
    ASSUME Typed, UNCHANGED <<library, edit, transfer, now, writes>>,
           listing' \in Listing \cup {NotListing}
    PROVE  Typed'
<1>1. listing'.pc \in {"none", "paging", "listed"}
  BY DEF Listing, NotListing
<1> QED  BY <1>1 DEF Typed, TypeOK, Todo, LastRecord, library

LEMMA UnderWayListing == ASSUME Typed, listing.pc # "none" PROVE listing \in Listing
BY TypedParts DEF NotListing

LEMMA CursorTyped ==
    ASSUME Typed, NEW m \in Media, profile[m] # None
    PROVE  /\ CursorOf(m) \in [key : Int, id : Int] /\ IsCut(m) \in BOOLEAN
           /\ IsCut(m) => CursorOf(m).key < KeyIn(profile, listing.sort, m)
           /\ ~IsCut(m) => /\ CursorOf(m).key = KeyIn(profile, listing.sort, m)
                           /\ CursorOf(m).id = m
           /\ m \in Int /\ KeyIn(profile, listing.sort, m) \in Int
<1>1. /\ TitleOf[m] \in Nat /\ CutOf[m] \in Nat /\ RestOf[m] \in Int /\ m \in Int
      /\ CutOf[m] <= TitleOf[m]
  BY MediaAreNumbered, TitlesAreRanks, PartsComeFirst
<1>2. profile[m].at \in Nat
  BY TypedParts DEF Profile
<1>3. KeyIn(profile, listing.sort, m) \in Int
  BY <1>1, <1>2 DEF KeyIn
<1>4. IsCut(m) \in BOOLEAN
  BY Zenon DEF IsCut
<1>5. CASE IsCut(m)
  <2>1. KeyIn(profile, listing.sort, m) = TitleOf[m] /\ CutOf[m] < TitleOf[m]
    BY <1>1, <1>5 DEF IsCut, KeyIn
  <2> QED  BY <1>1, <1>3, <1>5, <2>1 DEF CursorOf
<1>6. CASE ~IsCut(m)
  BY <1>1, <1>3, <1>4, <1>6 DEF CursorOf
<1> QED  BY <1>5, <1>6

LEMMA BeginListingTyped == ASSUME Typed, BeginListing PROVE listing' \in Listing
<1>1. PICK sort \in Sorts :
        listing' = [pc |-> "paging", sort |-> sort, cursor |-> Beginning, cut |-> FALSE,
                    given |-> [m \in Media |-> 0],
                    still |-> {m \in Media : InLibrary(profile, m)}]
  BY DEF BeginListing
<1>2. Beginning \in [key : Int, id : Int] /\ [m \in Media |-> 0] \in [Media -> 0..2]
  BY BoundsAreNumbers DEF Beginning
<1>3. {m \in Media : InLibrary(profile, m)} \in SUBSET Media
  OBVIOUS
<1> QED  BY <1>1, <1>2, <1>3 DEF Listing

\* The count of what was given, with a page.
Given(page) ==
    [m \in Media |-> IF m \in page /\ listing.given[m] < 2
                     THEN listing.given[m] + 1 ELSE listing.given[m]]

LEMMA GivenType ==
    ASSUME Typed, listing.pc # "none", NEW page
    PROVE  /\ Given(page) \in [Media -> 0..2]
           /\ \A m \in Media : /\ listing.given[m] \in 0..2
                               /\ m \notin page => Given(page)[m] = listing.given[m]
                               /\ m \in page /\ listing.given[m] < 2 =>
                                    Given(page)[m] = listing.given[m] + 1
                               /\ m \in page => Given(page)[m] >= 1
<1>1. \A m \in Media : listing.given[m] \in 0..2
  BY UnderWayListing DEF Listing
<1>2. \A m \in Media : listing.given[m] < 2 => listing.given[m] + 1 \in 0..2
  BY <1>1
<1>3. Given(page) \in [Media -> 0..2]
  BY <1>1, <1>2 DEF Given
<1>4. \A m \in Media : /\ m \notin page => Given(page)[m] = listing.given[m]
                       /\ m \in page /\ listing.given[m] < 2 =>
                            Given(page)[m] = listing.given[m] + 1
                       /\ m \in page => Given(page)[m] >= 1
  BY <1>1 DEF Given
<1> QED  BY <1>1, <1>3, <1>4

\* The last page, or one with the cursor of its last item.
LEMMA LibraryPageEffect ==
    ASSUME Typed, LibraryPage
    PROVE  /\ listing \in Listing /\ listing.pc = "paging" /\ listing' \in Listing
           /\ UNCHANGED <<library, edit, transfer, now, writes>>
           /\ \E page \in SUBSET Remaining :
                /\ IsPage(page)
                /\ listing'.given = Given(page) /\ listing'.still = listing.still
                /\ listing'.sort = listing.sort
                /\ \/ page = Remaining /\ listing'.pc = "listed" /\ listing'.cut = listing.cut
                   \/ \E last \in page :
                        /\ page # Remaining /\ listing'.pc = "paging"
                        /\ \A m \in page \ {last} : Earlier(m, last)
                        /\ listing'.cursor = CursorOf(last)
                        /\ listing'.cut = (listing.cut \/ IsCut(last))
<1>1. listing \in Listing /\ listing.pc = "paging"
  BY UnderWayListing DEF LibraryPage
<1>2. UNCHANGED <<library, edit, transfer, now, writes>>
  BY DEF LibraryPage
<1>3. PICK page \in SUBSET Remaining :
        /\ IsPage(page)
        /\ IF page = Remaining
           THEN listing' = [listing EXCEPT !.pc = "listed", !.given = Given(page)]
           ELSE \E last \in page :
                  /\ \A m \in page \ {last} : Earlier(m, last)
                  /\ listing' = [listing EXCEPT !.given = Given(page), !.cursor = CursorOf(last),
                                   !.cut = @ \/ IsCut(last)]
  BY DEF LibraryPage, Given
<1>4. Given(page) \in [Media -> 0..2]
  BY <1>1, GivenType
<1>5. CASE page = Remaining
  <2>1. listing' = [listing EXCEPT !.pc = "listed", !.given = Given(page)]
    BY <1>3, <1>5
  <2>2. /\ listing' \in Listing /\ listing'.given = Given(page) /\ listing'.still = listing.still
        /\ listing'.sort = listing.sort /\ listing'.pc = "listed" /\ listing'.cut = listing.cut
    BY <1>1, <1>4, <2>1 DEF Listing
  <2> QED  BY <1>1, <1>2, <1>3, <1>5, <2>2
<1>6. CASE page # Remaining
  <2> DEFINE cut(last) == listing.cut \/ IsCut(last)
  <2>1. PICK last \in page :
          /\ \A m \in page \ {last} : Earlier(m, last)
          /\ listing' = [listing EXCEPT !.given = Given(page), !.cursor = CursorOf(last),
                                        !.cut = cut(last)]
    BY <1>3, <1>6
  <2>2. last \in Media /\ profile[last] # None
    BY <2>1 DEF Remaining, InLibrary
  <2>3. CursorOf(last) \in [key : Int, id : Int] /\ cut(last) \in BOOLEAN
    BY <1>1, <2>2, CursorTyped DEF Listing
  <2> HIDE DEF cut
  <2>4. /\ listing' \in Listing /\ listing'.given = Given(page) /\ listing'.still = listing.still
        /\ listing'.sort = listing.sort /\ listing'.pc = "paging"
        /\ listing'.cut = cut(last) /\ listing'.cursor = CursorOf(last)
    BY <1>1, <1>4, <2>1, <2>3 DEF Listing
  <2> QED  BY <1>1, <1>2, <1>3, <1>6, <2>1, <2>4 DEF cut
<1> QED  BY <1>5, <1>6

LEMMA ListingStepsTyped == ASSUME Typed, ListingSteps PROVE Typed'
<1>1. listing' \in Listing \cup {NotListing}
  BY BeginListingTyped, LibraryPageEffect DEF ListingSteps, EndListing
<1>2. UNCHANGED <<library, edit, transfer, now, writes>>
  BY DEF ListingSteps, BeginListing, LibraryPage, EndListing
<1> QED  BY <1>1, <1>2, OnlyListingTyped

LEMMA OnlyTransferTyped ==
    ASSUME Typed, UNCHANGED <<library, edit, listing, now, writes>>, transfer' \in Transfer, Todo'
    PROVE  Typed'
<1>1. transfer'.pc \in {"none", "profile", "tags", "rounds", "exported", "importing", "imported"}
  BY DEF Transfer
<1> QED  BY <1>1 DEF Typed, TypeOK, library

LEMMA FirstIsLeast ==
    ASSUME NEW ids \in SUBSET Media, ids # {}
    PROVE  First(ids) \in ids /\ \A n \in ids : First(ids) <= n
<1>1. \E m \in ids : \A n \in ids : m <= n
  BY LeastNumber, MediaAreNumbered
<1> QED  BY <1>1 DEF First

LEMMA TransferParts ==
    ASSUME Typed
    PROVE  /\ transfer \in Transfer /\ transfer.document \in Document
           /\ Records \in Seq(Record) /\ LastRecord = Len(Records) /\ LastRecord \in Nat
           /\ DOMAIN Records = 1..LastRecord
           /\ \A i \in DOMAIN Records : Records[i] \in Record /\ Records[i].media \in Media
           /\ transfer.document.collections \in [Collections -> Collection \cup {None}]
<1>1. transfer \in Transfer /\ transfer.document \in Document
  BY TypedParts DEF Transfer
<1>2. Records \in Seq(Record) /\ transfer.document.collections \in [Collections -> Collection \cup {None}]
  BY <1>1 DEF Document, Records
<1>3. LastRecord = Len(Records) /\ LastRecord \in Nat /\ DOMAIN Records = 1..LastRecord
  BY <1>2, LenProperties DEF LastRecord, Records
<1>4. \A i \in DOMAIN Records : Records[i] \in Record
  BY <1>2, <1>3, ElementOfSeq
<1> QED  BY <1>1, <1>2, <1>3, <1>4 DEF Record

LEMMA BeginExportEffect ==
    ASSUME Typed, BeginExport
    PROVE  /\ transfer' \in Transfer /\ UNCHANGED <<library, edit, listing, now, writes>>
           /\ transfer'.pc = "profile" /\ transfer'.todo = {m \in Media : IsExported(m)}
           /\ transfer'.document = NoDocument /\ transfer'.failed = {} /\ transfer'.alone
<1>1. PICK format \in Formats :
        transfer' = [NoTransfer EXCEPT !.pc = "profile", !.format = format,
                                        !.todo = {m \in Media : IsExported(m)}, !.alone = TRUE]
  BY DEF BeginExport
<1>2. NoDocument \in Document /\ {m \in Media : IsExported(m)} \in SUBSET (Media \cup Collections)
  BY EmptySeq DEF NoDocument, Document
<1>3. transfer' = [pc |-> "profile", format |-> format, todo |-> {m \in Media : IsExported(m)},
                   document |-> NoDocument, next |-> 1, failed |-> {}, alone |-> TRUE]
  BY <1>1 DEF NoTransfer
<1>4. /\ transfer'.pc = "profile" /\ transfer'.todo = {m \in Media : IsExported(m)}
      /\ transfer'.document = NoDocument /\ transfer'.failed = {} /\ transfer'.alone
  BY <1>3
<1>5. transfer' \in Transfer
  BY <1>2, <1>3 DEF Transfer
<1>6. UNCHANGED <<library, edit, listing, now, writes>>
  BY DEF BeginExport
<1> QED  BY <1>4, <1>5, <1>6, Zenon

LEMMA ProfileOfType == ASSUME Typed, NEW m \in Media PROVE ProfileOf(m) \in Exported \cup {None}
BY TypedParts DEF ProfileOf, Exported, Profile

\* The profile of the next media opens a record.
Opened(m) == [media |-> m, tags |-> {}, rounds |-> <<>>, profile |-> ProfileOf(m)]

LEMMA ExportProfileEffect ==
    ASSUME Typed, ExportProfile
    PROVE  /\ transfer.pc = "profile" /\ transfer.todo # {} /\ transfer.todo \subseteq Media
           /\ First(transfer.todo) \in transfer.todo /\ Opened(First(transfer.todo)) \in Record
           /\ transfer' \in Transfer /\ UNCHANGED <<library, edit, listing, now, writes>>
           /\ transfer'.pc = "tags" /\ transfer'.todo = transfer.todo
           /\ Records' = Append(Records, Opened(First(transfer.todo)))
           /\ transfer'.document.collections = transfer.document.collections
           /\ transfer'.failed = transfer.failed /\ transfer'.alone = transfer.alone
<1> DEFINE m == First(transfer.todo)
<1>1. /\ transfer.pc = "profile" /\ transfer.todo # {}
      /\ UNCHANGED <<library, edit, listing, now, writes>>
  BY DEF ExportProfile
<1>2. transfer.todo \subseteq Media
  BY <1>1 DEF Typed, Todo
<1>3. m \in transfer.todo /\ m \in Media
  BY <1>1, <1>2, FirstIsLeast
<1> HIDE DEF m
<1>4. Opened(m) \in Record
  <2>1. ProfileOf(m) \in Exported \cup {None} /\ <<>> \in Seq(Round)
    BY <1>3, ProfileOfType, EmptySeq
  <2> QED  BY <1>3, <2>1 DEF Opened, Record
<1> DEFINE records == Append(Records, Opened(m))
           document == [transfer.document EXCEPT !.records = records]
<1>5. records \in Seq(Record)
  BY <1>4, TransferParts, AppendProperties
<1>6. transfer' = [transfer EXCEPT !.pc = "tags", !.document = document]
  BY DEF ExportProfile, Opened, ProfileOf, Records, m
<1> HIDE DEF records
<1>7. /\ document \in Document /\ document.records = records
      /\ document.collections = transfer.document.collections
  BY <1>5, TransferParts DEF Document
<1> HIDE DEF document
<1>8. /\ transfer' \in Transfer /\ transfer'.pc = "tags" /\ transfer'.todo = transfer.todo
      /\ transfer'.document = document
      /\ transfer'.failed = transfer.failed /\ transfer'.alone = transfer.alone
  BY <1>6, <1>7, TransferParts DEF Transfer
<1> QED  BY <1>1, <1>2, <1>3, <1>4, <1>7, <1>8 DEF Records, records, m

\* The tags, and the rounds, are read into the last record.
Last == Records[LastRecord]
Filled(record) == [Records EXCEPT ![LastRecord] = record]

LEMMA FilledType ==
    ASSUME Typed, transfer.pc \in {"tags", "rounds"}, NEW record \in Record
    PROVE  /\ Filled(record) \in Seq(Record) /\ Len(Filled(record)) = LastRecord
           /\ LastRecord \in DOMAIN Records /\ Last \in Record
           /\ DOMAIN Filled(record) = DOMAIN Records /\ Filled(record)[LastRecord] = record
           /\ \A i \in DOMAIN Records : i # LastRecord => Filled(record)[i] = Records[i]
<1>1. LastRecord \in DOMAIN Records
  BY TransferParts DEF Typed, Todo
<1>2. Filled(record) \in Seq(Record) /\ Len(Filled(record)) = LastRecord
  BY <1>1, TransferParts, ExceptSeq DEF Filled
<1> QED  BY <1>1, <1>2, TransferParts DEF Filled, Last

LEMMA ExportTagsEffect ==
    ASSUME Typed, ExportTags
    PROVE  LET record == [Last EXCEPT !.tags = tags[First(transfer.todo)]] IN
           /\ transfer.pc = "tags" /\ record \in Record
           /\ transfer' \in Transfer /\ UNCHANGED <<library, edit, listing, now, writes>>
           /\ transfer'.pc = "rounds" /\ transfer'.todo = transfer.todo
           /\ Records' = Filled(record)
           /\ transfer'.document.collections = transfer.document.collections
           /\ transfer'.failed = transfer.failed /\ transfer'.alone = transfer.alone
<1> DEFINE record == [Last EXCEPT !.tags = tags[First(transfer.todo)]]
<1>1. transfer.pc = "tags" /\ UNCHANGED <<library, edit, listing, now, writes>>
  BY DEF ExportTags
<1>2. First(transfer.todo) \in Media
  BY <1>1, FirstIsLeast DEF Typed, Todo
<1>3. Last \in Record
  BY <1>1, TransferParts DEF Typed, Todo, Last
<1>4. record \in Record
  BY <1>2, <1>3, TypedParts DEF Record
<1> DEFINE document == [transfer.document EXCEPT !.records = Filled(record)]
<1>5. transfer' = [transfer EXCEPT !.pc = "rounds", !.document = document]
  BY DEF ExportTags, Filled, Last, Records
<1> HIDE DEF record
<1>6. /\ document \in Document /\ document.records = Filled(record)
      /\ document.collections = transfer.document.collections
  BY <1>1, <1>4, FilledType, TransferParts DEF Document
<1> HIDE DEF document
<1>7. /\ transfer' \in Transfer /\ transfer'.pc = "rounds" /\ transfer'.todo = transfer.todo
      /\ transfer'.document = document
      /\ transfer'.failed = transfer.failed /\ transfer'.alone = transfer.alone
  BY <1>5, <1>6, TransferParts DEF Transfer
<1> QED  BY <1>1, <1>4, <1>6, <1>7 DEF Records, record

LEMMA ExportRoundsEffect ==
    ASSUME Typed, ExportRounds
    PROVE  LET record == [Last EXCEPT !.rounds = rounds[First(transfer.todo)]] IN
           /\ transfer.pc = "rounds" /\ record \in Record /\ transfer.todo \subseteq Media
           /\ transfer' \in Transfer /\ UNCHANGED <<library, edit, listing, now, writes>>
           /\ transfer'.pc = "profile" /\ transfer'.todo = transfer.todo \ {First(transfer.todo)}
           /\ Records' = Filled(record)
           /\ transfer'.document.collections = transfer.document.collections
           /\ transfer'.failed = transfer.failed /\ transfer'.alone = transfer.alone
<1> DEFINE m == First(transfer.todo)
           record == [Last EXCEPT !.rounds = rounds[m]]
<1>1. transfer.pc = "rounds" /\ UNCHANGED <<library, edit, listing, now, writes>>
  BY DEF ExportRounds
<1>2. m \in Media /\ transfer.todo \subseteq Media
  BY <1>1, FirstIsLeast DEF Typed, Todo
<1>3. Last \in Record
  BY <1>1, TransferParts DEF Typed, Todo, Last
<1>4. record \in Record
  BY <1>2, <1>3, TypedParts DEF Record
<1> DEFINE document == [transfer.document EXCEPT !.records = Filled(record)]
<1>5. transfer' = [transfer EXCEPT !.pc = "profile", !.todo = @ \ {m}, !.document = document]
  BY DEF ExportRounds, Filled, Last, Records
<1> HIDE DEF record, m
<1>6. /\ document \in Document /\ document.records = Filled(record)
      /\ document.collections = transfer.document.collections
  BY <1>1, <1>4, FilledType, TransferParts DEF Document
<1> HIDE DEF document
<1>7. /\ transfer' \in Transfer /\ transfer'.pc = "profile" /\ transfer'.todo = transfer.todo \ {m}
      /\ transfer'.document = document
      /\ transfer'.failed = transfer.failed /\ transfer'.alone = transfer.alone
  BY <1>5, <1>6, TransferParts DEF Transfer
<1> QED  BY <1>1, <1>2, <1>4, <1>6, <1>7 DEF Records, record, m

LEMMA ExportCollectionsEffect ==
    ASSUME Typed, ExportCollections
    PROVE  /\ transfer.pc = "profile" /\ transfer.todo = {}
           /\ transfer' \in Transfer /\ UNCHANGED <<library, edit, listing, now, writes>>
           /\ transfer'.pc = "exported" /\ transfer'.todo = {}
           /\ transfer'.failed = transfer.failed /\ transfer'.alone = transfer.alone
           /\ \/ /\ Records' = Joined(Records) /\ transfer'.format = "csv"
                 /\ transfer'.document.collections = transfer.document.collections
              \/ /\ Records' = Records /\ transfer'.format # "csv"
                 /\ transfer'.document.collections = collections
<1> DEFINE document == IF transfer.format = "csv"
                       THEN [transfer.document EXCEPT !.records = Joined(Records)]
                       ELSE [transfer.document EXCEPT !.collections = collections]
<1>1. /\ transfer.pc = "profile" /\ transfer.todo = {}
      /\ UNCHANGED <<library, edit, listing, now, writes>>
      /\ transfer' = [transfer EXCEPT !.pc = "exported", !.document = document]
  BY DEF ExportCollections, Records
<1>2. Joined(Records) \in Seq(Record)
  BY TransferParts, JoinedRows DEF Holding
<1>3. /\ document \in Document
      /\ \/ /\ document.records = Joined(Records) /\ transfer.format = "csv"
            /\ document.collections = transfer.document.collections
         \/ /\ document.records = Records /\ transfer.format # "csv"
            /\ document.collections = collections
  BY <1>2, TransferParts, TypedParts DEF Document, Records
<1> HIDE DEF document
<1>4. /\ transfer' \in Transfer /\ transfer'.pc = "exported" /\ transfer'.todo = {}
      /\ transfer'.failed = transfer.failed /\ transfer'.alone = transfer.alone
      /\ transfer'.document = document /\ transfer'.format = transfer.format
  BY <1>1, <1>3, TransferParts DEF Transfer
<1> QED  BY <1>1, <1>3, <1>4 DEF Records

LEMMA TransferType == ASSUME Typed PROVE transfer \in Transfer
BY DEF Typed

LEMMA BeginImportEffect ==
    ASSUME Typed, BeginImport
    PROVE  /\ transfer.pc = "exported" /\ Writes /\ UNCHANGED <<library, edit, listing, now>>
           /\ transfer' \in Transfer /\ transfer'.pc = "importing"
           /\ transfer'.todo = {id \in Collections : transfer.document.collections[id] # None}
           /\ transfer'.document = transfer.document /\ transfer'.next = 1
           /\ transfer'.failed = transfer.failed
<1> DEFINE ids == {id \in Collections : transfer.document.collections[id] # None}
<1>1. /\ transfer.pc = "exported" /\ Writes /\ UNCHANGED <<library, edit, listing, now>>
      /\ transfer' = [transfer EXCEPT !.pc = "importing", !.next = 1, !.alone = TRUE, !.todo = ids]
  BY DEF BeginImport
<1>2. ids \in SUBSET (Media \cup Collections)
  OBVIOUS
<1> HIDE DEF ids
<1>3. 1 \in Nat \ {0} /\ "importing" \in {"exported", "importing"}
  OBVIOUS
<1>4. /\ transfer' \in Transfer /\ transfer'.pc = "importing" /\ transfer'.todo = ids
      /\ transfer'.document = transfer.document /\ transfer'.next = 1
      /\ transfer'.failed = transfer.failed
  BY <1>1, <1>2, <1>3, TransferType DEF Transfer
<1> QED  BY <1>1, <1>4 DEF ids

\* The record that comes next.
NextRecord == Records[transfer.next]

LEMMA NextRecordType ==
    ASSUME Typed, ImportRecord
    PROVE  /\ transfer.pc = "importing" /\ transfer.next \in DOMAIN Records
           /\ NextRecord \in Record /\ NextRecord.media \in Media
           /\ UNCHANGED <<collections, now, writes>>
           /\ InstallRecord(NextRecord) \/ ReportRecord(NextRecord)
<1>1. transfer.next \in Nat \ {0}
  BY TransferType DEF Transfer
<1>2. transfer.pc = "importing" /\ transfer.next \in DOMAIN Records
  BY <1>1, TransferParts DEF ImportRecord
<1>3. NextRecord \in Record /\ NextRecord.media \in Media
  BY <1>2, TransferParts DEF NextRecord
<1> QED  BY <1>2, <1>3 DEF ImportRecord, NextRecord, Records

LEMMA ImportedProfileType ==
    ASSUME Typed, NEW record \in Record
    PROVE  LET m == record.media  row == ImportedProfile(record) IN
           /\ row \in Profile \cup {None}
           /\ row # None => row.at <= now
           /\ profile[m] # None => row # None
           /\ record.rounds # <<>> => row # None /\ row.status = Projected(record.rounds)
           /\ record.profile # None => /\ row # None
                                       /\ row.version = record.profile.version
                                       /\ row.shared = record.profile.shared
<1> DEFINE m == record.media
           kept == IF record.profile = None /\ record.rounds = <<>> /\ record.tags = {}
                   THEN profile[m] ELSE Ensured(m)
           set == IF record.profile = None THEN kept
                  ELSE [kept EXCEPT !.version = record.profile.version,
                                    !.shared = record.profile.shared, !.at = now]
           row == ImportedProfile(record)
<1>1. /\ m \in Media /\ record.profile \in Exported \cup {None} /\ record.rounds \in Seq(Round)
      /\ now \in Nat
  BY TypedParts DEF Record
<1>2. /\ Ensured(m) \in Profile /\ Ensured(m).at <= now
      /\ profile[m] # None => profile[m] = Ensured(m)
  BY <1>1, EnsuredTypes DEF Ensured
<1>3. /\ kept = None \/ (kept \in Profile /\ kept.at <= now)
      /\ profile[m] # None => kept = Ensured(m)
      /\ record.profile # None \/ record.rounds # <<>> => kept = Ensured(m)
  BY <1>2
<1>4. Ensured(m) # None /\ None \notin Profile
  BY <1>2, NoneIsDistinct
<1> HIDE DEF kept
<1>5. /\ set = None \/ (set \in Profile /\ set.at <= now)
      /\ profile[m] # None \/ record.profile # None \/ record.rounds # <<>> => set \in Profile
      /\ record.profile # None => /\ set.version = record.profile.version
                                  /\ set.shared = record.profile.shared
  <2>1. CASE record.profile = None
    <3>1. set = kept
      BY <2>1
    <3> QED  BY <1>2, <1>3, <2>1, <3>1
  <2>2. CASE record.profile # None
    <3>1. record.profile.version \in Nat /\ record.profile.shared \in BOOLEAN
      BY <1>1, <2>2 DEF Exported
    <3>2. kept \in Profile
      BY <1>2, <1>3, <2>2
    <3>3. set = [kept EXCEPT !.version = record.profile.version,
                             !.shared = record.profile.shared, !.at = now]
      BY <2>2
    <3> HIDE DEF set
    <3>4. /\ set \in Profile /\ set.at = now /\ set.version = record.profile.version
          /\ set.shared = record.profile.shared
      BY <1>1, <3>1, <3>2, <3>3 DEF Profile
    <3> QED  BY <1>1, <3>4
  <2> QED  BY <2>1, <2>2
<1>6. row = IF record.rounds = <<>> THEN set
            ELSE [set EXCEPT !.status = Projected(record.rounds), !.at = now]
  BY DEF ImportedProfile, kept
<1> HIDE DEF set, row
<1>7. CASE record.rounds = <<>>
  BY <1>4, <1>5, <1>6, <1>7 DEF row
<1>8. CASE record.rounds # <<>>
  <2>1. set \in Profile /\ Projected(record.rounds) \in Statuses
    BY <1>1, <1>5, <1>8, ProjectedType
  <2>2. row = [set EXCEPT !.status = Projected(record.rounds), !.at = now]
    BY <1>6, <1>8
  <2>3. /\ row \in Profile /\ row.at = now /\ row.status = Projected(record.rounds)
        /\ row.version = set.version /\ row.shared = set.shared
    BY <1>1, <2>1, <2>2 DEF Profile
  <2>4. row.at <= now /\ row # None
    BY <1>1, <1>4, <2>3
  <2> QED  BY <1>5, <2>3, <2>4 DEF row
<1> QED  BY <1>7, <1>8

LEMMA InstallRecordEffect ==
    ASSUME Typed, ImportRecord, InstallRecord(NextRecord)
    PROVE  LET m == NextRecord.media  row == ImportedProfile(NextRecord) IN
           /\ Writing(m, row) /\ profile' \in [Media -> Profile \cup {None}]
           /\ profile'[m] = row /\ \A n \in Media \ {m} : profile'[n] = profile[n]
           /\ \A n \in Media : profile'[n] # None => profile'[n].at <= now'
           /\ tags' = [tags EXCEPT ![m] = NextRecord.tags]
           /\ rounds' = [rounds EXCEPT ![m] = NextRecord.rounds]
           /\ tags' \in [Media -> SUBSET Tags] /\ rounds' \in [Media -> Seq(Round)]
           /\ edit' \in [Clients -> Edit \cup {Resting}]
           /\ listing' \in Listing \cup {NotListing} /\ UNCHANGED <<collections, now, writes>>
           /\ transfer' \in Transfer /\ transfer'.next = transfer.next + 1
           /\ transfer'.pc = "importing" /\ transfer'.document = transfer.document
           /\ transfer'.todo = transfer.todo /\ transfer'.failed = transfer.failed
           /\ transfer'.alone = transfer.alone
<1> DEFINE m == NextRecord.media  row == ImportedProfile(NextRecord)
<1>1. /\ NextRecord \in Record /\ m \in Media /\ UNCHANGED <<collections, now, writes>>
      /\ transfer.pc = "importing" /\ NextRecord.tags \in SUBSET Tags
      /\ NextRecord.rounds \in Seq(Round)
  BY NextRecordType DEF Record
<1>2. /\ Writing(m, row) /\ transfer' = [transfer EXCEPT !.next = @ + 1]
      /\ tags' = [tags EXCEPT ![m] = NextRecord.tags]
      /\ rounds' = [rounds EXCEPT ![m] = NextRecord.rounds]
      /\ edit' = [c \in Clients |-> IF edit[c] # Resting /\ edit[c].media = m
                                    THEN [edit[c] EXCEPT !.fresh = FALSE] ELSE edit[c]]
  BY DEF InstallRecord, ImportTags, ImportRounds
<1>3. /\ row \in Profile \cup {None}
      /\ row # None => row.at <= now
  BY <1>1, ImportedProfileType
<1> HIDE DEF m, row
<1>4. /\ profile' \in [Media -> Profile \cup {None}]
      /\ profile'[m] = row /\ \A n \in Media \ {m} : profile'[n] = profile[n]
      /\ \A n \in Media : profile'[n] # None => profile'[n].at <= now'
      /\ listing' \in Listing \cup {NotListing}
  BY <1>1, <1>2, <1>3, WritingTyped
<1>5. tags' \in [Media -> SUBSET Tags] /\ rounds' \in [Media -> Seq(Round)]
  BY <1>1, <1>2, TypedParts
<1>6. edit' \in [Clients -> Edit \cup {Resting}]
  <2>1. \A c \in Clients : edit[c] # Resting => [edit[c] EXCEPT !.fresh = FALSE] \in Edit
    BY TypedParts DEF Edit
  <2> QED  BY <1>2, <2>1, TypedParts
<1>7. /\ transfer' \in Transfer /\ transfer'.next = transfer.next + 1
      /\ transfer'.pc = "importing" /\ transfer'.document = transfer.document
      /\ transfer'.todo = transfer.todo /\ transfer'.failed = transfer.failed
      /\ transfer'.alone = transfer.alone
  BY <1>1, <1>2, TransferType DEF Transfer
<1> QED  BY <1>1, <1>2, <1>4, <1>5, <1>6, <1>7 DEF m, row

LEMMA ReportRecordEffect ==
    ASSUME Typed, ImportRecord, ReportRecord(NextRecord)
    PROVE  /\ UNCHANGED <<library, edit, listing, now, writes>>
           /\ transfer' \in Transfer /\ transfer'.next = transfer.next + 1
           /\ transfer'.pc = "importing" /\ transfer'.document = transfer.document
           /\ transfer'.todo = transfer.todo
           /\ transfer'.failed = transfer.failed \cup {NextRecord.media}
           /\ transfer'.alone = transfer.alone
<1>1. /\ NextRecord.media \in Media /\ transfer.pc = "importing"
      /\ UNCHANGED <<library, edit, listing, now, writes>>
      /\ transfer' = [transfer EXCEPT !.next = @ + 1, !.failed = @ \cup {NextRecord.media}]
  BY NextRecordType DEF ReportRecord, library
<1>2. /\ transfer' \in Transfer /\ transfer'.next = transfer.next + 1
      /\ transfer'.pc = "importing" /\ transfer'.document = transfer.document
      /\ transfer'.todo = transfer.todo
      /\ transfer'.failed = transfer.failed \cup {NextRecord.media}
      /\ transfer'.alone = transfer.alone
  <2>1. transfer.next + 1 \in Nat \ {0}
    BY TransferType DEF Transfer
  <2>2. transfer.failed \cup {NextRecord.media} \in SUBSET (Media \cup Collections)
    BY <1>1, TransferType DEF Transfer
  <2> QED  BY <1>1, <2>1, <2>2, TransferType DEF Transfer
<1> QED  BY <1>1, <1>2

LEMMA ImportCollectionEffect ==
    ASSUME Typed, ImportCollection
    PROVE  /\ transfer.pc = "importing" /\ transfer.next > LastRecord
           /\ UNCHANGED <<profile, tags, rounds, edit, listing, now, writes>>
           /\ collections' \in [Collections -> Collection \cup {None}]
           /\ transfer' \in Transfer /\ transfer'.pc = "importing"
           /\ transfer'.document = transfer.document /\ transfer'.next = transfer.next
           /\ transfer'.alone = transfer.alone
           /\ \E id \in transfer.todo :
                /\ id \in Collections /\ transfer'.todo = transfer.todo \ {id}
                /\ \/ /\ collections' = [collections EXCEPT
                                           ![id] = transfer.document.collections[id]]
                      /\ transfer'.failed = transfer.failed
                   \/ UNCHANGED collections /\ transfer'.failed = transfer.failed \cup {id}
<1>1. /\ transfer.pc = "importing" /\ transfer.next > LastRecord
      /\ UNCHANGED <<profile, tags, rounds, edit, listing, now, writes>>
  BY DEF ImportCollection
<1>2. PICK id \in transfer.todo :
         \/ /\ collections' = [collections EXCEPT ![id] = transfer.document.collections[id]]
            /\ transfer' = [transfer EXCEPT !.todo = @ \ {id}]
         \/ /\ transfer' = [transfer EXCEPT !.todo = @ \ {id}, !.failed = @ \cup {id}]
            /\ UNCHANGED collections
  BY DEF ImportCollection
<1>3. id \in Collections
  BY <1>1 DEF Typed, Todo
<1>4. transfer.document.collections[id] \in Collection \cup {None}
  BY <1>3, TransferParts
<1>5. collections' \in [Collections -> Collection \cup {None}]
  BY <1>2, <1>3, <1>4, TypedParts
<1>6. CASE /\ collections' = [collections EXCEPT ![id] = transfer.document.collections[id]]
           /\ transfer' = [transfer EXCEPT !.todo = @ \ {id}]
  <2>1. /\ transfer' \in Transfer /\ transfer'.pc = "importing"
        /\ transfer'.document = transfer.document /\ transfer'.next = transfer.next
        /\ transfer'.alone = transfer.alone /\ transfer'.todo = transfer.todo \ {id}
        /\ transfer'.failed = transfer.failed
    BY <1>1, <1>3, <1>6, TransferType DEF Transfer
  <2> QED  BY <1>1, <1>3, <1>5, <1>6, <2>1
<1>7. CASE /\ transfer' = [transfer EXCEPT !.todo = @ \ {id}, !.failed = @ \cup {id}]
           /\ UNCHANGED collections
  <2>1. /\ transfer' \in Transfer /\ transfer'.pc = "importing"
        /\ transfer'.document = transfer.document /\ transfer'.next = transfer.next
        /\ transfer'.alone = transfer.alone /\ transfer'.todo = transfer.todo \ {id}
        /\ transfer'.failed = transfer.failed \cup {id}
    BY <1>1, <1>3, <1>7, TransferType DEF Transfer
  <2> QED  BY <1>1, <1>3, <1>5, <1>7, <2>1
<1> QED  BY <1>2, <1>6, <1>7

LEMMA NoTransferType ==
    NoTransfer \in Transfer /\ NoTransfer.pc = "none" /\ NoTransfer.document = NoDocument
BY EmptySeq DEF NoTransfer, NoDocument, Transfer, Document

LEMMA ReportImportEffect ==
    ASSUME Typed, ReportImport
    PROVE  /\ transfer.pc = "importing" /\ transfer.next > LastRecord /\ transfer.todo = {}
           /\ transfer' \in Transfer /\ transfer'.pc = "imported" /\ transfer'.todo = {}
           /\ transfer'.document = transfer.document /\ transfer'.alone = transfer.alone
           /\ transfer'.failed = transfer.failed
           /\ UNCHANGED <<library, edit, listing, now, writes>>
<1>1. /\ transfer.pc = "importing" /\ transfer.next > LastRecord /\ transfer.todo = {}
      /\ transfer' = [transfer EXCEPT !.pc = "imported"]
      /\ UNCHANGED <<library, edit, listing, now, writes>>
  BY DEF ReportImport
<1> QED  BY <1>1, TransferType DEF Transfer

ExportSteps ==
    BeginExport \/ ExportProfile \/ ExportTags \/ ExportRounds \/ ExportCollections

LEMMA ExportStepsTyped == ASSUME Typed, ExportSteps PROVE Typed'
<1>1. CASE BeginExport
  <2>1. /\ transfer' \in Transfer /\ UNCHANGED <<library, edit, listing, now, writes>>
        /\ transfer'.pc = "profile" /\ transfer'.todo \subseteq Media
    BY <1>1, BeginExportEffect
  <2> QED  BY <2>1, OnlyTransferTyped DEF Todo
<1>2. CASE ExportProfile
  <2>1. /\ transfer' \in Transfer /\ UNCHANGED <<library, edit, listing, now, writes>>
        /\ transfer'.pc = "tags" /\ transfer'.todo \subseteq Media /\ transfer'.todo # {}
        /\ Opened(First(transfer.todo)) \in Record
        /\ Records' = Append(Records, Opened(First(transfer.todo)))
    BY <1>2, ExportProfileEffect
  <2>2. LastRecord' > 0
    BY <2>1, TransferParts, AppendProperties DEF LastRecord, Records
  <2> QED  BY <2>1, <2>2, OnlyTransferTyped DEF Todo
<1>3. CASE ExportTags
  <2>1. /\ transfer' \in Transfer /\ UNCHANGED <<library, edit, listing, now, writes>>
        /\ transfer.pc = "tags" /\ transfer'.pc = "rounds" /\ transfer'.todo = transfer.todo
        /\ [Last EXCEPT !.tags = tags[First(transfer.todo)]] \in Record
        /\ Records' = Filled([Last EXCEPT !.tags = tags[First(transfer.todo)]])
    BY <1>3, ExportTagsEffect
  <2>2. LastRecord' = LastRecord
    BY <2>1, FilledType DEF LastRecord, Records
  <2>3. transfer.todo \subseteq Media /\ transfer.todo # {} /\ LastRecord > 0
    BY <2>1 DEF Typed, Todo
  <2>4. Todo'
    BY <2>1, <2>2, <2>3 DEF Todo
  <2> QED  BY <2>1, <2>4, OnlyTransferTyped
<1>4. CASE ExportRounds
  <2>1. /\ transfer' \in Transfer /\ UNCHANGED <<library, edit, listing, now, writes>>
        /\ transfer'.pc = "profile" /\ transfer'.todo \subseteq Media
    BY <1>4, ExportRoundsEffect
  <2> QED  BY <2>1, OnlyTransferTyped DEF Todo
<1>5. CASE ExportCollections
  <2>1. /\ transfer' \in Transfer /\ UNCHANGED <<library, edit, listing, now, writes>>
        /\ transfer'.pc = "exported"
    BY <1>5, ExportCollectionsEffect
  <2> QED  BY <2>1, OnlyTransferTyped DEF Todo
<1> QED  BY <1>1, <1>2, <1>3, <1>4, <1>5 DEF ExportSteps

ImportSteps == BeginImport \/ ImportRecord \/ ImportCollection \/ ReportImport \/ EndTransfer

LEMMA ImportStepsTyped == ASSUME Typed, ImportSteps PROVE Typed'
<1>1. CASE BeginImport
  <2>1. /\ transfer' \in Transfer /\ transfer'.pc = "importing" /\ Writes
        /\ UNCHANGED <<library, edit, listing, now>>
        /\ transfer'.todo \subseteq Collections
    BY <1>1, BeginImportEffect
  <2>2. Todo' /\ writes' \in 0..MaxWrites
    BY <2>1, WritesTyped DEF Todo
  <2> QED  BY <2>1, <2>2 DEF Typed, TypeOK, library
<1>2. CASE ImportRecord /\ InstallRecord(NextRecord)
  <2>1. /\ profile' \in [Media -> Profile \cup {None}]
        /\ \A n \in Media : profile'[n] # None => profile'[n].at <= now'
        /\ tags' \in [Media -> SUBSET Tags] /\ rounds' \in [Media -> Seq(Round)]
        /\ edit' \in [Clients -> Edit \cup {Resting}]
        /\ listing' \in Listing \cup {NotListing} /\ UNCHANGED <<collections, now, writes>>
        /\ transfer' \in Transfer /\ transfer'.pc = "importing"
        /\ transfer'.todo = transfer.todo
    BY <1>2, InstallRecordEffect
  <2>2. listing'.pc \in {"none", "paging", "listed"}
    BY <2>1 DEF Listing, NotListing
  <2>3. Todo'
    BY <1>2, <2>1, NextRecordType DEF Typed, Todo
  <2> QED  BY <2>1, <2>2, <2>3 DEF Typed, TypeOK
<1>3. CASE ImportRecord /\ ReportRecord(NextRecord)
  <2>1. /\ UNCHANGED <<library, edit, listing, now, writes>> /\ transfer' \in Transfer
        /\ transfer'.pc = "importing" /\ transfer'.todo = transfer.todo
    BY <1>3, ReportRecordEffect
  <2>2. Todo'
    BY <1>3, <2>1, NextRecordType DEF Typed, Todo
  <2> QED  BY <2>1, <2>2, OnlyTransferTyped
<1>4. CASE ImportCollection
  <2>1. /\ transfer.pc = "importing" /\ UNCHANGED <<profile, tags, rounds, edit, listing, now, writes>>
        /\ collections' \in [Collections -> Collection \cup {None}]
        /\ transfer' \in Transfer /\ transfer'.pc = "importing"
        /\ transfer'.todo \subseteq transfer.todo
    BY <1>4, ImportCollectionEffect
  <2>2. Todo'
    BY <2>1 DEF Typed, Todo
  <2> QED  BY <2>1, <2>2 DEF Typed, TypeOK
<1>5. CASE ReportImport
  <2>1. /\ UNCHANGED <<library, edit, listing, now, writes>> /\ transfer' \in Transfer
        /\ transfer'.pc = "imported"
    BY <1>5, ReportImportEffect
  <2> QED  BY <2>1, OnlyTransferTyped DEF Todo
<1>6. CASE EndTransfer
  <2>1. transfer' \in Transfer /\ transfer'.pc = "none" /\ UNCHANGED <<library, edit, listing, now, writes>>
    BY <1>6, NoTransferType DEF EndTransfer
  <2> QED  BY <2>1, OnlyTransferTyped DEF Todo
<1> QED  BY <1>1, <1>2, <1>3, <1>4, <1>5, <1>6, NextRecordType DEF ImportSteps

LEMMA TickTyped == ASSUME Typed, Tick PROVE Typed'
<1>1. now' = now + 1 /\ now' \in 0..MaxNow
  BY BoundsAreNumbers DEF Tick, Typed, TypeOK
<1>2. \A m \in Media : profile[m] # None => profile[m].at <= now + 1
  <2>1. \A m \in Media : profile[m] # None => profile[m].at \in Nat
    BY TypedParts DEF Profile
  <2> QED  BY <2>1, TypedParts DEF Typed
<1>3. UNCHANGED <<profile, tags, rounds, collections, edit, listing, transfer, writes>>
  BY DEF Tick, library
<1> QED  BY <1>1, <1>2, <1>3 DEF Typed, TypeOK, Todo, LastRecord

\* The steps, gathered by what they write.
LEMMA NextSteps ==
    ASSUME Next
    PROVE  \/ ListingSteps \/ ChangeRounds \/ CollectionsWritten
           \/ ExportSteps \/ ImportSteps \/ Tick
           \/ \E c \in Clients : EditReads(c) \/ SetTagsVersioned(c) \/ UpdateSharing(c)
BY DEF Next, ListingSteps, CollectionsWritten, ExportSteps, ImportSteps, Editing, EditReads

LEMMA TypedStep == ASSUME Typed, Edits, [Next]_vars PROVE Typed'
<1>1. CASE Next
  BY <1>1, NextSteps, ListingStepsTyped, ChangeRoundsTyped, CollectionsWrittenTyped,
     ExportStepsTyped, ImportStepsTyped, TickTyped, EditReadsTyped, SetTagsTyped,
     UpdateSharingTyped
<1>2. CASE UNCHANGED vars
  BY <1>2 DEF vars, Typed, TypeOK, Todo, LastRecord
<1> QED  BY <1>1, <1>2

-----------------------------------------------------------------------------
(* Profiles follow their rounds, and edits hold *)

LEMMA ProfileIsSomething == ASSUME NEW row \in Profile PROVE row # None
BY NoneIsDistinct

\* A write that keeps the rounds and the status.
LEMMA ProjectionsKept ==
    ASSUME Typed, Projections, NEW m \in Media, NEW row \in Profile, Writing(m, row), now' = now,
           row.at <= now, row.status = Ensured(m).status, UNCHANGED rounds
    PROVE  Projections'
<1>1. profile'[m] = row /\ row # None /\ \A n \in Media \ {m} : profile'[n] = profile[n]
  BY WritingTyped, ProfileIsSomething
<1>2. rounds[m] # <<>> => row.status = Projected(rounds[m])
  BY DEF Projections, Ensured
<1>3. ASSUME NEW n \in Media, rounds'[n] # <<>>
      PROVE  profile'[n] # None /\ profile'[n].status = Projected(rounds'[n])
  <2>1. CASE n = m
    BY <1>1, <1>2, <1>3, <2>1
  <2>2. CASE n # m
    BY <1>1, <1>3, <2>2 DEF Projections
  <2> QED  BY <2>1, <2>2
<1> QED  BY <1>3 DEF Projections

LEMMA ProjectionsStep ==
    ASSUME Typed, Edits, Projections, [Next]_vars
    PROVE  Projections'
<1>1. ASSUME UNCHANGED <<profile, rounds>> PROVE Projections'
  <2>1. profile' = profile /\ rounds' = rounds
    BY <1>1
  <2>2. Projections' = Projections
    BY <2>1, Zenon DEF Projections
  <2> QED  BY <2>2
<1>2. CASE ListingSteps
  BY <1>1, <1>2 DEF ListingSteps, BeginListing, LibraryPage, EndListing, library
<1>3. CASE ChangeRounds
  <2>1. PICK m \in Media, history \in Seq(Round), row \in Profile :
          /\ rounds' = [rounds EXCEPT ![m] = history]
          /\ row.at = now /\ row.status = Projected(history) /\ Writing(m, row)
    BY <1>3, ChangeRoundsEffect
  <2>2. now' = now /\ row.at <= now
    BY <1>3, <2>1, TypedParts DEF ChangeRounds
  <2>3. profile'[m] = row /\ row # None /\ \A n \in Media \ {m} : profile'[n] = profile[n]
    BY <2>1, <2>2, WritingTyped, ProfileIsSomething
  <2>4. rounds'[m] = history /\ \A n \in Media \ {m} : rounds'[n] = rounds[n]
    BY <2>1, TypedParts
  <2> QED  BY <2>1, <2>3, <2>4 DEF Projections
<1>4. CASE CollectionsWritten
  BY <1>1, <1>4, CollectionsWrittenEffect
<1>5. CASE ExportSteps
  BY <1>1, <1>5 DEF ExportSteps, BeginExport, ExportProfile, ExportTags, ExportRounds,
     ExportCollections, library
<1>6. CASE BeginImport \/ ImportCollection \/ ReportImport \/ EndTransfer
  BY <1>1, <1>6 DEF BeginImport, ImportCollection, ReportImport, EndTransfer, library
<1>7. CASE ImportRecord /\ InstallRecord(NextRecord)
  <2> DEFINE m == NextRecord.media  row == ImportedProfile(NextRecord)
  <2>1. m \in Media /\ NextRecord \in Record
    BY <1>7, NextRecordType
  <2>2. /\ profile'[m] = row /\ \A n \in Media \ {m} : profile'[n] = profile[n]
        /\ rounds' = [rounds EXCEPT ![m] = NextRecord.rounds]
    BY <1>7, InstallRecordEffect
  <2>3. rounds'[m] = NextRecord.rounds /\ \A n \in Media \ {m} : rounds'[n] = rounds[n]
    BY <2>1, <2>2, TypedParts
  <2>4. NextRecord.rounds # <<>> => row # None /\ row.status = Projected(NextRecord.rounds)
    BY <2>1, ImportedProfileType
  <2> HIDE DEF m, row
  <2> QED  BY <2>1, <2>2, <2>3, <2>4 DEF Projections
<1>8. CASE ImportRecord /\ ReportRecord(NextRecord)
  BY <1>1, <1>8 DEF ReportRecord
<1>9. CASE Tick \/ UNCHANGED vars
  BY <1>1, <1>9 DEF Tick, vars, library
<1>10. ASSUME NEW c \in Clients, EditReads(c) PROVE Projections'
  BY <1>1, <1>10, EditReadsEffect
<1>11. ASSUME NEW c \in Clients, SetTagsVersioned(c) PROVE Projections'
  <2>1. edit[c].media \in Media /\ UNCHANGED <<rounds, now>> /\ now <= now
    BY <1>11, SetTagsEffect, TypedParts DEF Edit
  <2> QED  BY <1>1, <1>11, <2>1, SetTagsEffect, ProjectionsKept
<1>12. ASSUME NEW c \in Clients, UpdateSharing(c) PROVE Projections'
  <2>1. edit[c].media \in Media /\ UNCHANGED <<rounds, now>> /\ now <= now
    BY <1>12, UpdateSharingEffect, TypedParts DEF Edit
  <2> QED  BY <1>1, <1>12, <2>1, UpdateSharingEffect, ProjectionsKept
<1> QED  BY <1>2, <1>3, <1>4, <1>5, <1>6, <1>7, <1>8, <1>9, <1>10, <1>11, <1>12,
            NextSteps, NextRecordType DEF ImportSteps

\* Edits hold across a step that takes no profile away and where the version of
\* a media goes up or its sharing and tags stay.
Ages(m) ==
    /\ profile[m] # None => profile'[m] # None
    /\ \/ VersionOf(m)' > VersionOf(m)
       \/ /\ VersionOf(m)' = VersionOf(m) /\ Ensured(m)'.shared = Ensured(m).shared
          /\ tags'[m] = tags[m]

LEMMA EditsAge ==
    ASSUME Typed, Edits, \A m \in Media : Ages(m),
           \A c \in Clients : edit'[c] = Resting \/ edit'[c] = edit[c],
           \A m \in Media : VersionOf(m)' \in Nat
    PROVE  Edits'
<1> SUFFICES ASSUME NEW c \in Clients, edit'[c] # Resting PROVE EditHolds(c)'
  BY DEF Edits
<1>1. edit'[c] = edit[c] /\ edit[c] # Resting /\ EditHolds(c)
  BY DEF Edits
<1>2. edit[c] \in Edit
  BY <1>1, EditUnderWay
<1> DEFINE e == edit[c]
<1> PICK m \in Media : e.media = m
  BY <1>2 DEF Edit
<1>3. m \in Media /\ Ages(m) /\ VersionOf(m)' \in Nat /\ VersionOf(m) \in Nat /\ e.version \in Nat
  BY <1>2, EnsuredTypes DEF Edit
<1>4. CASE VersionOf(m)' > VersionOf(m)
  <2>1. e.pc = "sharing" => profile'[m] # None
    BY <1>1, <1>3 DEF EditHolds, Ages
  <2>2. e.fresh => e.version <= VersionOf(m)' /\ e.version # VersionOf(m)'
    BY <1>1, <1>3, <1>4 DEF EditHolds
  <2> QED  BY <1>1, <2>1, <2>2 DEF EditHolds
<1>5. CASE /\ VersionOf(m)' = VersionOf(m) /\ Ensured(m)'.shared = Ensured(m).shared
           /\ tags'[m] = tags[m]
  <2>1. e.pc = "sharing" => profile'[m] # None
    BY <1>1, <1>3 DEF EditHolds, Ages
  <2> QED  BY <1>1, <1>5, <2>1 DEF EditHolds
<1> QED  BY <1>3, <1>4, <1>5 DEF Ages

LEMMA AgesUnchanged ==
    ASSUME Typed, UNCHANGED <<profile, tags>>
    PROVE  \A m \in Media : Ages(m) /\ VersionOf(m)' \in Nat
<1> SUFFICES ASSUME NEW m \in Media PROVE Ages(m) /\ VersionOf(m)' \in Nat
  OBVIOUS
<1>1. VersionOf(m)' = VersionOf(m)
  BY DEF VersionOf
<1>2. Ensured(m)'.shared = Ensured(m).shared
  BY DEF Ensured, NewProfile
<1> QED  BY <1>1, <1>2, EnsuredTypes DEF Ages

LEMMA AgesWritten ==
    ASSUME Typed, NEW m \in Media, NEW row \in Profile, Writing(m, row), now' = now,
           row.at <= now, \A n \in Media \ {m} : tags'[n] = tags[n],
           \/ row.version > VersionOf(m)
           \/ /\ row.version = Ensured(m).version /\ row.shared = Ensured(m).shared
              /\ tags'[m] = tags[m]
    PROVE  \A n \in Media : Ages(n) /\ VersionOf(n)' \in Nat
<1>1. profile'[m] = row /\ row # None /\ \A n \in Media \ {m} : profile'[n] = profile[n]
  BY WritingTyped, ProfileIsSomething
<1>2. VersionOf(m)' = row.version /\ Ensured(m)' = row /\ row.version \in Nat
  BY <1>1 DEF VersionOf, Ensured, Profile
<1>3. Ages(m)
  <2>1. CASE row.version > VersionOf(m)
    BY <1>1, <1>2, <2>1 DEF Ages
  <2>2. CASE /\ row.version = Ensured(m).version /\ row.shared = Ensured(m).shared
             /\ tags'[m] = tags[m]
    <3>1. CASE profile[m] = None
      <4>1. VersionOf(m) = 0 /\ Ensured(m).version = 1
        BY <3>1 DEF VersionOf, Ensured, NewProfile
      <4> QED  BY <1>1, <1>2, <2>2, <4>1 DEF Ages
    <3>2. CASE profile[m] # None
      <4>1. VersionOf(m) = Ensured(m).version
        BY <3>2 DEF VersionOf, Ensured
      <4> QED  BY <1>1, <1>2, <2>2, <4>1 DEF Ages
    <3> QED  BY <3>1, <3>2
  <2> QED  BY <2>1, <2>2
<1>4. ASSUME NEW n \in Media \ {m} PROVE Ages(n) /\ VersionOf(n)' \in Nat
  <2>1. VersionOf(n)' = VersionOf(n) /\ Ensured(n)'.shared = Ensured(n).shared
    BY <1>1, <1>4 DEF VersionOf, Ensured, NewProfile
  <2> QED  BY <1>1, <1>4, <2>1, EnsuredTypes DEF Ages
<1> QED  BY <1>2, <1>3, <1>4

LEMMA EditReadsHold == ASSUME Typed, Edits, NEW c \in Clients, EditReads(c) PROVE Edits'
<1>1. /\ UNCHANGED <<profile, tags, now>> /\ edit' = [edit EXCEPT ![c] = edit'[c]]
      /\ \A b \in Clients \ {c} : edit'[b] = edit[b]
  <2>1. UNCHANGED <<profile, tags, now>> /\ edit' = [edit EXCEPT ![c] = edit'[c]]
    BY EditReadsEffect
  <2> QED  BY <2>1, TypedParts
<1>2. \A m \in Media : VersionOf(m)' = VersionOf(m) /\ Ensured(m)' = Ensured(m)
  BY <1>1 DEF VersionOf, Ensured, NewProfile
<1>3. ASSUME NEW b \in Clients \ {c}, edit'[b] # Resting PROVE EditHolds(b)'
  <2>1. edit'[b] = edit[b] /\ EditHolds(b) /\ edit[b].media \in Media
    BY <1>1, <1>3, EditUnderWay DEF Edits
  <2> QED  BY <1>1, <1>2, <2>1 DEF EditHolds
<1>4. ASSUME edit'[c] # Resting PROVE EditHolds(c)'
  <2> DEFINE e == edit'[c]
  <2>1. PICK m \in Media : e \in Edit /\ e.media = m
    BY <1>4, EditReadsEffect DEF Edit
  <2>2. VersionOf(m)' = VersionOf(m) /\ Ensured(m)' = Ensured(m) /\ VersionOf(m) \in Nat
    BY <1>2, <2>1, EnsuredTypes
  <2>3. CASE e.pc = "version" /\ e.version = VersionOf(m)
    BY <1>1, <2>1, <2>2, <2>3 DEF EditHolds
  <2>4. CASE /\ e.pc = "sharing" /\ e.version = VersionOf(m) /\ e.shared = Ensured(m).shared
             /\ profile[m] # None
    BY <1>1, <2>1, <2>2, <2>4 DEF EditHolds
  <2>5. CASE /\ edit[c] \in Edit /\ m = edit[c].media
             /\ e.version = edit[c].version /\ e.fresh = edit[c].fresh
             /\ \/ edit[c].pc = "version" /\ e.pc = "tags" /\ e.tags = tags[m]
                \/ edit[c].pc = "tags" /\ e.pc = "checked" /\ e.tags = edit[c].tags
    <3>1. EditHolds(c)
      BY <2>5, RestingIsNoEdit DEF Edits
    <3> QED  BY <1>1, <2>1, <2>2, <2>5, <3>1 DEF EditHolds
  <2> QED  BY <1>4, <2>1, <2>3, <2>4, <2>5, EditReadsEffect
<1> QED  BY <1>3, <1>4 DEF Edits

LEMMA InstallRecordHolds ==
    ASSUME Typed, Edits, ImportRecord, InstallRecord(NextRecord)
    PROVE  Edits'
<1> DEFINE m == NextRecord.media  row == ImportedProfile(NextRecord)
<1>1. m \in Media /\ NextRecord \in Record
  BY NextRecordType
<1>2. /\ profile'[m] = row /\ \A n \in Media \ {m} : profile'[n] = profile[n]
      /\ tags' = [tags EXCEPT ![m] = NextRecord.tags] /\ now' = now
  BY InstallRecordEffect
<1>3. profile[m] # None => row # None
  BY <1>1, ImportedProfileType
<1>4. edit' = [c \in Clients |-> IF edit[c] # Resting /\ edit[c].media = m
                                 THEN [edit[c] EXCEPT !.fresh = FALSE] ELSE edit[c]]
  BY DEF InstallRecord, ImportRounds
<1> HIDE DEF m, row
<1> SUFFICES ASSUME NEW c \in Clients, edit'[c] # Resting PROVE EditHolds(c)'
  BY DEF Edits
<1>5. edit[c] # Resting /\ edit[c] \in Edit /\ EditHolds(c)
  BY <1>4, EditUnderWay DEF Edits
<1>6. CASE edit[c].media = m
  <2>1. /\ edit'[c].pc = edit[c].pc /\ edit'[c].media = m /\ edit'[c].fresh = FALSE
    BY <1>4, <1>5, <1>6 DEF Edit
  <2> QED  BY <1>2, <1>3, <1>5, <1>6, <2>1 DEF EditHolds
<1>7. CASE edit[c].media # m
  <2>1. PICK n \in Media \ {m} : edit'[c] = edit[c] /\ edit[c].media = n
    BY <1>4, <1>5, <1>7 DEF Edit
  <2>2. profile'[n] = profile[n] /\ tags'[n] = tags[n]
    BY <1>1, <1>2, <2>1, TypedParts
  <2>3. VersionOf(n)' = VersionOf(n) /\ Ensured(n)'.shared = Ensured(n).shared
    BY <2>2 DEF VersionOf, Ensured, NewProfile
  <2> QED  BY <1>5, <2>1, <2>2, <2>3 DEF EditHolds
<1> QED  BY <1>6, <1>7

LEMMA SettlesEdits ==
    ASSUME Typed, NEW c \in Clients, Settles(c)
    PROVE  \A b \in Clients : edit'[b] = Resting \/ edit'[b] = edit[b]
<1>1. edit' = [edit EXCEPT ![c] = Resting] /\ DOMAIN edit = Clients
  BY TypedParts DEF Settles
<1> QED  BY <1>1

LEMMA EditsStep == ASSUME Typed, Edits, [Next]_vars PROVE Edits'
<1>1. ASSUME UNCHANGED <<profile, tags, edit>> PROVE Edits'
  <2>1. \A m \in Media : Ages(m) /\ VersionOf(m)' \in Nat
    BY <1>1, AgesUnchanged
  <2>2. edit' = edit
    BY <1>1
  <2>3. \A c \in Clients : edit'[c] = Resting \/ edit'[c] = edit[c]
    BY <2>2, Zenon
  <2> QED  BY <2>1, <2>3, EditsAge, Zenon
<1>2. CASE ListingSteps
  BY <1>1, <1>2 DEF ListingSteps, BeginListing, LibraryPage, EndListing, library
<1>3. CASE ChangeRounds
  <2>1. PICK m \in Media, row \in Profile :
          /\ Writing(m, row) /\ row.at = now /\ row.version = Ensured(m).version
          /\ row.shared = Ensured(m).shared
    BY <1>3, ChangeRoundsEffect
  <2>2. UNCHANGED <<tags, edit, now>> /\ row.at <= now
    BY <1>3, <2>1, TypedParts DEF ChangeRounds
  <2>3. \A n \in Media : Ages(n) /\ VersionOf(n)' \in Nat
    BY <2>1, <2>2, AgesWritten
  <2> QED  BY <2>2, <2>3, EditsAge
<1>4. CASE CollectionsWritten
  BY <1>1, <1>4, CollectionsWrittenEffect
<1>5. CASE ExportSteps
  BY <1>1, <1>5 DEF ExportSteps, BeginExport, ExportProfile, ExportTags, ExportRounds,
     ExportCollections, library
<1>6. CASE BeginImport \/ ImportCollection \/ ReportImport \/ EndTransfer
  BY <1>1, <1>6 DEF BeginImport, ImportCollection, ReportImport, EndTransfer, library
<1>7. CASE ImportRecord /\ InstallRecord(NextRecord)
  BY <1>7, InstallRecordHolds
<1>8. CASE ImportRecord /\ ReportRecord(NextRecord)
  BY <1>1, <1>8 DEF ReportRecord
<1>9. CASE Tick \/ UNCHANGED vars
  BY <1>1, <1>9 DEF Tick, vars, library
<1>10. ASSUME NEW c \in Clients, EditReads(c) PROVE Edits'
  BY <1>10, EditReadsHold
<1>11. ASSUME NEW c \in Clients, SetTagsVersioned(c) PROVE Edits'
  <2>1. /\ edit[c].media \in Media /\ UNCHANGED now
        /\ \A b \in Clients : edit'[b] = Resting \/ edit'[b] = edit[b]
    BY <1>11, SetTagsEffect, SettlesEdits DEF Edit
  <2>2. CASE UNCHANGED <<profile, tags>>
    BY <2>1, <2>2, AgesUnchanged, EditsAge
  <2>3. ASSUME NEW row \in Profile, Writing(edit[c].media, row), row.at = now,
               row.version > VersionOf(edit[c].media),
               NEW names, tags' = [tags EXCEPT ![edit[c].media] = names]
        PROVE  Edits'
    <3>1. row.at <= now /\ \A n \in Media \ {edit[c].media} : tags'[n] = tags[n]
      BY <2>3, TypedParts
    <3>2. \A n \in Media : Ages(n) /\ VersionOf(n)' \in Nat
      BY <2>1, <2>3, <3>1, AgesWritten
    <3> QED  BY <2>1, <3>2, EditsAge
  <2> QED  BY <1>11, <2>2, <2>3, SetTagsEffect
<1>12. ASSUME NEW c \in Clients, UpdateSharing(c) PROVE Edits'
  <2>1. /\ edit[c].media \in Media /\ UNCHANGED <<now, tags>>
        /\ \A b \in Clients : edit'[b] = Resting \/ edit'[b] = edit[b]
    BY <1>12, UpdateSharingEffect, SettlesEdits DEF Edit
  <2>2. CASE UNCHANGED profile
    BY <2>1, <2>2, AgesUnchanged, EditsAge
  <2>3. ASSUME NEW row \in Profile, Writing(edit[c].media, row), row.at = now,
               row.version > VersionOf(edit[c].media)
        PROVE  Edits'
    <3>1. row.at <= now /\ \A n \in Media \ {edit[c].media} : tags'[n] = tags[n]
      BY <2>1, <2>3, TypedParts
    <3>2. \A n \in Media : Ages(n) /\ VersionOf(n)' \in Nat
      BY <2>1, <2>3, <3>1, AgesWritten
    <3> QED  BY <2>1, <3>2, EditsAge
  <2> QED  BY <1>12, <2>2, <2>3, UpdateSharingEffect
<1> QED  BY <1>2, <1>3, <1>4, <1>5, <1>6, <1>7, <1>8, <1>9, <1>10, <1>11, <1>12,
            NextSteps, NextRecordType DEF ImportSteps

-----------------------------------------------------------------------------
(* Pages list what stays once *)

Key(m) == KeyIn(profile, listing.sort, m)

LEMMA EarlierMeans ==
    ASSUME NEW m \in Media, NEW n \in Media
    PROVE  Earlier(m, n) <=> Key(m) < Key(n) \/ (Key(m) = Key(n) /\ m < n)
BY DEF Earlier, Key

LEMMA PagedUnchanged == ASSUME Paged, UNCHANGED <<profile, listing>> PROVE Paged'
BY DEF Paged, InLibrary, KeyIn, After

LEMMA PagedMoves == ASSUME Typed, Paged, Moves(profile') PROVE Paged'
<1>1. CASE listing.pc = "none"
  BY <1>1 DEF Moves, Paged
<1>2. CASE listing.pc # "none"
  <2> DEFINE staying == {n \in listing.still : Stays(profile', n)}
  <2>1. listing' = [listing EXCEPT !.still = staying] /\ listing \in Listing
    BY <1>2, UnderWayListing DEF Moves
  <2>2. /\ listing'.still = staying /\ listing'.pc = listing.pc /\ listing'.sort = listing.sort
        /\ listing'.cursor = listing.cursor /\ listing'.cut = listing.cut
        /\ listing'.given = listing.given
    BY <2>1 DEF Listing
  <2>3. \A m \in staying : /\ m \in listing.still /\ InLibrary(profile', m)
                           /\ KeyIn(profile', listing.sort, m) = KeyIn(profile, listing.sort, m)
    BY DEF Stays
  <2> HIDE DEF staying
  <2> QED  BY <1>2, <2>2, <2>3 DEF Paged, After
<1> QED  BY <1>1, <1>2

LEMMA BeginListingPaged == ASSUME Typed, BeginListing PROVE Paged'
<1>1. PICK sort \in Sorts :
        listing' = [pc |-> "paging", sort |-> sort, cursor |-> Beginning, cut |-> FALSE,
                    given |-> [m \in Media |-> 0],
                    still |-> {m \in Media : InLibrary(profile, m)}]
  BY DEF BeginListing
<1>2. profile' = profile
  BY DEF BeginListing, library
<1>3. \A m \in listing'.still : m \in Media /\ InLibrary(profile', m) /\ listing'.given[m] = 0
  BY <1>1, <1>2
<1>4. \A m \in listing'.still : KeyIn(profile', sort, m) > -MaxNow - 1
  <2> SUFFICES ASSUME NEW m \in listing'.still PROVE KeyIn(profile', sort, m) > -MaxNow - 1
    OBVIOUS
  <2>1. m \in Media /\ profile'[m] # None /\ profile' = profile
    BY <1>2, <1>3 DEF InLibrary
  <2>2. profile[m].at \in Nat /\ profile[m].at <= now /\ now \in Nat /\ now <= MaxNow
    BY <2>1, TypedParts DEF Typed, Profile
  <2>3. TitleOf[m] \in Nat /\ MaxNow \in Nat
    BY <2>1, TitlesAreRanks, BoundsAreNumbers
  <2> QED  BY <2>1, <2>2, <2>3 DEF KeyIn
<1>5. /\ listing'.pc = "paging" /\ listing'.sort = sort /\ listing'.cut = FALSE
      /\ listing'.cursor.key = -MaxNow - 1
  BY <1>1 DEF Beginning
<1>6. \A m \in listing'.still : After(KeyIn(profile', sort, m), m, listing'.cursor)
  BY <1>4, <1>5 DEF After
<1>7. Paged' <=> \A m \in listing'.still :
            /\ InLibrary(profile', m)
            /\ LET ahead == After(KeyIn(profile', listing'.sort, m), m, listing'.cursor) IN
               /\ listing'.pc = "paging" /\ ~ahead => listing'.given[m] >= 1
               /\ ~listing'.cut => listing'.given[m] <= 1
               /\ listing'.pc = "paging" /\ ~listing'.cut /\ ahead => listing'.given[m] = 0
               /\ listing'.pc = "listed" => listing'.given[m] >= 1
  BY <1>5 DEF Paged, InLibrary, KeyIn, After
<1> QED  BY <1>3, <1>5, <1>6, <1>7

\* Where one media is before, at or after the last item of a page.
LEMMA LibraryPagePaged == ASSUME Typed, Paged, LibraryPage PROVE Paged'
<1>1. /\ listing \in Listing /\ listing.pc = "paging" /\ listing' \in Listing
      /\ profile' = profile
  BY LibraryPageEffect DEF library
<1>2. PICK page \in SUBSET Remaining :
        /\ IsPage(page)
        /\ listing'.given = Given(page) /\ listing'.still = listing.still
        /\ listing'.sort = listing.sort
        /\ \/ page = Remaining /\ listing'.pc = "listed" /\ listing'.cut = listing.cut
           \/ \E last \in page :
                /\ page # Remaining /\ listing'.pc = "paging"
                /\ \A m \in page \ {last} : Earlier(m, last)
                /\ listing'.cursor = CursorOf(last)
                /\ listing'.cut = (listing.cut \/ IsCut(last))
  BY LibraryPageEffect
<1> DEFINE ahead(m) == After(Key(m), m, listing.cursor)
           aheadNow(m) == After(Key(m), m, listing'.cursor)
<1>3. ASSUME NEW m \in listing.still
      PROVE  /\ m \in Media /\ profile[m] # None /\ InLibrary(profile, m)
             /\ m \in Remaining <=> ahead(m)
             /\ ~ahead(m) => listing.given[m] >= 1
             /\ ~listing.cut => listing.given[m] <= 1
             /\ ~listing.cut /\ ahead(m) => listing.given[m] = 0
  <2>1. m \in Media /\ InLibrary(profile, m)
    BY <1>1, <1>3 DEF Paged, Listing
  <2>2. m \in Remaining <=> ahead(m)
    BY <2>1 DEF Remaining, Key
  <2> QED  BY <1>1, <1>3, <2>1, <2>2 DEF Paged, InLibrary, Key
<1>4. ASSUME NEW m \in Media
      PROVE  /\ listing.given[m] \in 0..2
             /\ m \notin page => listing'.given[m] = listing.given[m]
             /\ m \in page /\ listing.given[m] < 2 => listing'.given[m] = listing.given[m] + 1
             /\ m \in page => listing'.given[m] >= 1
  BY <1>1, <1>2, <1>4, GivenType
<1> HIDE DEF ahead, aheadNow
<1>5. ASSUME NEW m \in listing.still, ~listing.cut PROVE listing'.given[m] <= 1
  BY <1>2, <1>3, <1>4, <1>5
<1>6. CASE page = Remaining /\ listing'.pc = "listed" /\ listing'.cut = listing.cut
  <2>1. ASSUME NEW m \in listing.still PROVE listing'.given[m] >= 1
    BY <1>3, <1>4, <1>6, <2>1
  <2> QED  BY <1>1, <1>2, <1>3, <1>5, <1>6, <2>1 DEF Paged, InLibrary
<1>7. ASSUME NEW last \in page, page # Remaining, listing'.pc = "paging",
             \A m \in page \ {last} : Earlier(m, last),
             listing'.cursor = CursorOf(last),
             listing'.cut = (listing.cut \/ IsCut(last))
      PROVE  Paged'
  <2> DEFINE k == listing'.cursor.key
             id == listing'.cursor.id
  <2>1. last \in Remaining /\ last \in Media /\ profile[last] # None /\ ahead(last)
    BY <1>2, <1>7 DEF Remaining, InLibrary, Key, ahead
  <2>2. /\ k \in Int /\ id \in Int /\ Key(last) \in Int /\ last \in Int
        /\ k < Key(last) \/ (k = Key(last) /\ id = last)
        /\ ~listing'.cut => k = Key(last) /\ id = last
    BY <1>7, <2>1, CursorTyped DEF Key
  <2>3. listing.cursor.key \in Int /\ listing.cursor.id \in Int
    BY <1>1 DEF Listing
  <2> HIDE DEF k, id
  <2>4. ASSUME NEW m \in listing.still
        PROVE  /\ m \in Int /\ Key(m) \in Int
               /\ ahead(m) <=> \/ Key(m) > listing.cursor.key
                               \/ Key(m) = listing.cursor.key /\ m > listing.cursor.id
               /\ aheadNow(m) <=> Key(m) > k \/ (Key(m) = k /\ m > id)
    BY <1>3, <2>2, <2>4, CursorTyped DEF Key, After, ahead, aheadNow, k, id
  <2>5. /\ \/ Key(last) > listing.cursor.key
           \/ Key(last) = listing.cursor.key /\ last > listing.cursor.id
    BY <2>1 DEF After, ahead
  <2>6. ASSUME NEW m \in listing.still, ~aheadNow(m) PROVE listing'.given[m] >= 1
    <3>1. CASE m \in page
      BY <1>3, <1>4, <2>6, <3>1
    <3>2. CASE m \in Remaining \ page
      <4>1. Earlier(last, m)
        BY <1>2, <1>7, <3>2 DEF IsPage
      <4>2. Key(last) < Key(m) \/ (Key(last) = Key(m) /\ last < m)
        BY <1>3, <2>1, <2>6, <4>1, EarlierMeans
      <4> QED  BY <2>2, <2>4, <2>6, <4>2
    <3>3. CASE m \notin Remaining
      BY <1>2, <1>3, <1>4, <2>6, <3>3
    <3> QED  BY <3>1, <3>2, <3>3
  <2>7. ASSUME NEW m \in listing.still, ~listing'.cut, aheadNow(m)
        PROVE  listing'.given[m] = 0
    <3>1. k = Key(last) /\ id = last /\ ~listing.cut
      BY <1>7, <2>2, <2>7
    <3>2. m \notin page
      <4>1. m # last
        BY <2>2, <2>4, <2>7, <3>1
      <4>2. m \in page => Key(m) < Key(last) \/ (Key(m) = Key(last) /\ m < last)
        BY <1>3, <1>7, <2>1, <2>7, <4>1, EarlierMeans
      <4> QED  BY <2>2, <2>4, <2>7, <3>1, <4>2
    <3>3. ahead(m)
      BY <2>2, <2>3, <2>4, <2>5, <2>7, <3>1
    <3> QED  BY <1>3, <1>4, <2>7, <3>1, <3>2, <3>3
  <2>8. \A m \in listing'.still :
            /\ InLibrary(profile', m)
            /\ ~aheadNow(m) => listing'.given[m] >= 1
            /\ ~listing'.cut => listing'.given[m] <= 1
            /\ ~listing'.cut /\ aheadNow(m) => listing'.given[m] = 0
    BY <1>1, <1>2, <1>3, <1>5, <1>7, <2>6, <2>7
  <2> QED  BY <1>1, <1>2, <1>7, <2>8 DEF Paged, aheadNow, Key, KeyIn, InLibrary, After
<1> QED  BY <1>2, <1>6, <1>7

LEMMA PagedStep == ASSUME Typed, Edits, Paged, [Next]_vars PROVE Paged'
<1>1. CASE BeginListing
  BY <1>1, BeginListingPaged
<1>2. CASE LibraryPage
  BY <1>2, LibraryPagePaged
<1>3. CASE EndListing
  BY <1>3 DEF EndListing, NotListing, Paged
<1>4. CASE ChangeRounds
  BY <1>4, PagedMoves DEF ChangeRounds, Writing
<1>5. CASE CollectionsWritten
  BY <1>5, CollectionsWrittenEffect, PagedUnchanged
<1>6. CASE ExportSteps
  BY <1>6, PagedUnchanged DEF ExportSteps, BeginExport, ExportProfile, ExportTags, ExportRounds,
     ExportCollections, library
<1>7. CASE BeginImport \/ ImportCollection \/ ReportImport \/ EndTransfer
  BY <1>7, PagedUnchanged DEF BeginImport, ImportCollection, ReportImport, EndTransfer, library
<1>8. CASE ImportRecord /\ InstallRecord(NextRecord)
  BY <1>8, PagedMoves DEF InstallRecord, Writing
<1>9. CASE ImportRecord /\ ReportRecord(NextRecord)
  BY <1>9, PagedUnchanged DEF ReportRecord
<1>10. CASE Tick \/ UNCHANGED vars
  BY <1>10, PagedUnchanged DEF Tick, vars, library
<1>11. ASSUME NEW c \in Clients, EditReads(c) PROVE Paged'
  BY <1>11, EditReadsEffect, PagedUnchanged
<1>12. ASSUME NEW c \in Clients, SetTagsVersioned(c) \/ UpdateSharing(c) PROVE Paged'
  BY <1>12, SetTagsEffect, UpdateSharingEffect, PagedMoves, PagedUnchanged DEF Writing
<1> QED  BY <1>1, <1>2, <1>3, <1>4, <1>5, <1>6, <1>7, <1>8, <1>9, <1>10, <1>11, <1>12,
            NextSteps, NextRecordType DEF ListingSteps, ImportSteps

-----------------------------------------------------------------------------
(* Exports and imports *)

Transfers == Exporting /\ Importing /\ TransfersFaithful

\* What an export that nothing comes between has read, record by record.
ReadSoFar(i) ==
    LET whole == transfer.pc = "profile" \/ i # LastRecord  m == Records[i].media IN
    /\ IF whole THEN m \notin transfer.todo ELSE m = First(transfer.todo)
    /\ Records[i].profile = ProfileOf(m)
    /\ whole \/ transfer.pc = "rounds" => Records[i].tags = tags[m]
    /\ whole => Records[i].rounds = rounds[m]

LEMMA ExportingMeans ==
    Exporting <=>
      /\ transfer.pc \in Reading =>
           /\ transfer.failed = {}
           /\ transfer.document.collections = [id \in Collections |-> None]
      /\ transfer.pc \in Reading /\ transfer.alone =>
           /\ {Records[i].media : i \in DOMAIN Records} \cup transfer.todo
                = {m \in Media : IsExported(m)}
           /\ \A i, j \in DOMAIN Records : Records[i].media = Records[j].media => i = j
           /\ \A i \in DOMAIN Records : ReadSoFar(i)
BY DEF Exporting, ReadSoFar

\* The medias that have a record.
ExportedMedia == {Records[i].media : i \in DOMAIN Records}

\* A step beside the transfer ends what is claimed of it, or writes nothing.
LEMMA TransfersBeside ==
    ASSUME Typed, Transfers, Beside, transfer'.alone => UNCHANGED library
    PROVE  Transfers'
<1>1. CASE transfer'.alone
  <2>1. transfer' = transfer /\ UNCHANGED <<profile, tags, rounds, collections>>
    BY <1>1, BesideTyped DEF library
  <2>2. \A m \in Media : IsExported(m)' = IsExported(m) /\ ProfileOf(m)' = ProfileOf(m)
    BY <2>1 DEF IsExported, ProfileOf
  <2>3. Records' = Records /\ LastRecord' = LastRecord
    BY <2>1 DEF Records, LastRecord
  <2>4. {m \in Media : IsExported(m)'} = {m \in Media : IsExported(m)}
    BY <2>2
  <2>5. ASSUME transfer.pc \in Reading, NEW i \in DOMAIN Records, ReadSoFar(i)
        PROVE  ReadSoFar(i)'
    <3>1. PICK m \in Media : m = Records[i].media
      BY <2>5, TransferParts
    <3>2. ProfileOf(m)' = ProfileOf(m)
      BY <2>2
    <3> QED  BY <2>1, <2>3, <2>5, <3>1, <3>2 DEF ReadSoFar
  <2>6. Exporting'
    <3>1. CASE transfer.pc \notin Reading
      BY <2>1, <3>1 DEF Exporting
    <3>2. CASE transfer.pc \in Reading
      <4>1. /\ transfer.failed = {}
            /\ transfer.document.collections = [id \in Collections |-> None]
            /\ ExportedMedia \cup transfer.todo = {m \in Media : IsExported(m)}
            /\ \A i, j \in DOMAIN Records : Records[i].media = Records[j].media => i = j
            /\ \A i \in DOMAIN Records : ReadSoFar(i)
        BY <1>1, <2>1, <3>2, ExportingMeans DEF Transfers, ExportedMedia
      <4>2. \A i \in DOMAIN Records : ReadSoFar(i)'
        BY <2>5, <3>2, <4>1
      <4> QED  BY <2>1, <2>3, <2>4, <4>1, <4>2 DEF Exporting, ReadSoFar, ExportedMedia
    <3> QED  BY <3>1, <3>2
  <2>7. \A i \in DOMAIN Records : Installed(i)' = Installed(i)
    BY <2>1 DEF Installed, IsWhole, AsRead
  <2>8. Importing'
    BY <2>1, <2>3, <2>7 DEF Transfers, Importing
  <2>9. TransfersFaithful'
    BY <2>1, <2>3, <2>4, <2>7 DEF Transfers, TransfersFaithful, Records
  <2> QED  BY <2>6, <2>8, <2>9 DEF Transfers
<1>2. CASE ~transfer'.alone
  <2>1. transfer'.pc = transfer.pc /\ transfer'.document = transfer.document
        /\ transfer'.failed = transfer.failed
    BY BesideTyped
  <2> QED  BY <1>2, <2>1 DEF Transfers, Exporting, Importing, TransfersFaithful
<1> QED  BY <1>1, <1>2

\* While it reads, only the export itself has something to hold.
LEMMA ReadingTransfers ==
    ASSUME transfer'.pc \in Reading, Exporting'
    PROVE  Transfers'
BY DEF Transfers, Importing, TransfersFaithful, Reading

LEMMA BeginExportHolds == ASSUME Typed, BeginExport PROVE Transfers'
<1>1. /\ transfer'.pc = "profile" /\ transfer'.todo = {m \in Media : IsExported(m)}
      /\ transfer'.document = NoDocument /\ transfer'.failed = {}
      /\ UNCHANGED <<profile, rounds, collections>>
  BY BeginExportEffect DEF library
<1>2. \A m \in Media : IsExported(m)' = IsExported(m)
  BY <1>1 DEF IsExported
<1>3. /\ Records' = <<>> /\ DOMAIN Records' = {}
      /\ transfer'.document.collections = [id \in Collections |-> None]
  BY <1>1 DEF Records, NoDocument
<1>4. {m \in Media : IsExported(m)'} = {m \in Media : IsExported(m)}
  BY <1>2
<1>5. {Records'[i].media : i \in DOMAIN Records'} = {}
  BY <1>3
<1>6. Exporting'
  BY <1>1, <1>3, <1>4, <1>5 DEF Exporting
<1> QED  BY <1>1, <1>6, ReadingTransfers DEF Reading

\* Reading leaves the library as it is: so what was read still holds of it.
LEMMA LibraryStays ==
    ASSUME UNCHANGED library
    PROVE  /\ UNCHANGED <<profile, tags, rounds, collections>>
           /\ \A m : IsExported(m)' = IsExported(m) /\ ProfileOf(m)' = ProfileOf(m)
BY DEF library, IsExported, ProfileOf

LEMMA ExportProfileHolds == ASSUME Typed, Transfers, ExportProfile PROVE Transfers'
<1> PICK m \in Media : m = First(transfer.todo)
  BY ExportProfileEffect
<1>1. /\ transfer.pc = "profile" /\ m \in transfer.todo /\ m \in Media
      /\ Opened(m) \in Record /\ UNCHANGED library
      /\ transfer'.pc = "tags" /\ transfer'.todo = transfer.todo
      /\ Records' = Append(Records, Opened(m))
      /\ transfer'.document.collections = transfer.document.collections
      /\ transfer'.failed = transfer.failed /\ transfer'.alone = transfer.alone
  BY ExportProfileEffect
<1>2. m = First(transfer'.todo)
  BY <1>1
<1>3. /\ DOMAIN Records = 1..LastRecord /\ DOMAIN Records' = 1..LastRecord + 1
      /\ LastRecord' = LastRecord + 1 /\ LastRecord \in Nat
      /\ \A i \in 1..LastRecord : Records'[i] = Records[i]
      /\ Records'[LastRecord + 1] = Opened(m)
  <2>1. /\ Records' \in Seq(Record) /\ Len(Records') = LastRecord + 1
        /\ \A i \in 1..LastRecord : Records'[i] = Records[i]
        /\ Records'[LastRecord + 1] = Opened(m)
    BY <1>1, TransferParts, AppendProperties
  <2>2. DOMAIN Records' = 1..LastRecord + 1
    BY <2>1, LenProperties
  <2> QED  BY <2>1, <2>2, TransferParts DEF LastRecord, Records
<1>4. Opened(m).media = m /\ Opened(m).profile = ProfileOf(m)
  BY DEF Opened
<1>5. transfer.pc \in Reading /\ transfer.failed = {}
      /\ transfer.document.collections = [id \in Collections |-> None]
  BY <1>1 DEF Transfers, Exporting, Reading
<1>6. ASSUME transfer.alone
      PROVE  /\ ExportedMedia' \cup transfer'.todo = {n \in Media : IsExported(n)'}
             /\ \A i, j \in DOMAIN Records' : Records'[i].media = Records'[j].media => i = j
             /\ \A i \in DOMAIN Records' : ReadSoFar(i)'
  <2>1. /\ ExportedMedia \cup transfer.todo = {n \in Media : IsExported(n)}
        /\ \A i, j \in DOMAIN Records : Records[i].media = Records[j].media => i = j
        /\ \A i \in DOMAIN Records : ReadSoFar(i)
    BY <1>5, <1>6, ExportingMeans DEF Transfers, ExportedMedia
  <2>2. \A i \in DOMAIN Records' : i \in DOMAIN Records \/ i = LastRecord + 1
    BY <1>3
  <2>3. \A i \in DOMAIN Records : i \in DOMAIN Records' /\ i # LastRecord + 1 /\ Records'[i] = Records[i]
    BY <1>3
  <2>4. LastRecord + 1 \in DOMAIN Records' /\ Records'[LastRecord + 1].media = m
    BY <1>3, <1>4
  <2>5. \A i \in DOMAIN Records : Records[i].media \notin transfer.todo
    BY <1>1, <2>1 DEF ReadSoFar
  <2>6. ExportedMedia' = ExportedMedia \cup {m}
    BY <2>2, <2>3, <2>4 DEF ExportedMedia
  <2>7. {n \in Media : IsExported(n)'} = {n \in Media : IsExported(n)}
    BY <1>1, LibraryStays
  <2>8. ASSUME NEW i \in DOMAIN Records PROVE ReadSoFar(i)'
    BY <1>1, <1>3, <2>1, <2>3, <2>5, <2>8, LibraryStays DEF ReadSoFar
  <2>9. ASSUME NEW n \in Nat, n = LastRecord + 1 PROVE ReadSoFar(n)'
    <3>1. /\ LastRecord' = n /\ Records'[n].media = m /\ Records'[n].profile = ProfileOf(m)'
      BY <1>1, <1>3, <1>4, <2>9, LibraryStays
    <3> QED  BY <1>1, <1>2, <3>1 DEF ReadSoFar
  <2>10. \A i \in DOMAIN Records' : ReadSoFar(i)'
    BY <1>3, <2>2, <2>8, <2>9
  <2> QED  BY <1>1, <2>1, <2>2, <2>3, <2>4, <2>5, <2>6, <2>7, <2>10
<1>7. Exporting'
  BY <1>1, <1>5, <1>6 DEF Exporting, ReadSoFar, ExportedMedia
<1> QED  BY <1>1, <1>7, ReadingTransfers DEF Reading

LEMMA FilledEffect ==
    ASSUME Typed, transfer.pc \in {"tags", "rounds"}, NEW record \in Record,
           Records' = Filled(record)
    PROVE  /\ LastRecord \in DOMAIN Records /\ Last \in Record /\ DOMAIN Records' = DOMAIN Records
           /\ Records'[LastRecord] = record
           /\ \A i \in DOMAIN Records : i # LastRecord => Records'[i] = Records[i]
           /\ LastRecord' = LastRecord
<1>1. LastRecord' = Len(Records')
  BY DEF LastRecord, Records
<1> QED  BY <1>1, FilledType

LEMMA ExportTagsHolds == ASSUME Typed, Transfers, ExportTags PROVE Transfers'
<1> DEFINE record == [Last EXCEPT !.tags = tags[First(transfer.todo)]]
<1>1. /\ transfer.pc = "tags" /\ record \in Record /\ UNCHANGED library
      /\ transfer'.pc = "rounds" /\ transfer'.todo = transfer.todo
      /\ Records' = Filled(record)
      /\ transfer'.document.collections = transfer.document.collections
      /\ transfer'.failed = transfer.failed /\ transfer'.alone = transfer.alone
  BY ExportTagsEffect
<1> HIDE DEF record
<1>2. /\ LastRecord \in DOMAIN Records /\ Last \in Record /\ DOMAIN Records' = DOMAIN Records
      /\ Records'[LastRecord] = record
      /\ \A i \in DOMAIN Records : i # LastRecord => Records'[i] = Records[i]
      /\ LastRecord' = LastRecord
  BY <1>1, FilledEffect
<1>3. /\ record.media = Last.media /\ record.profile = Last.profile
      /\ record.tags = tags[First(transfer.todo)]
  BY <1>2 DEF Record, record
<1>4. \A i \in DOMAIN Records : /\ Records'[i].media = Records[i].media
                                /\ Records'[i].profile = Records[i].profile
  BY <1>2, <1>3 DEF Last
<1>5. /\ transfer.failed = {} /\ First(transfer'.todo) = First(transfer.todo)
      /\ transfer.document.collections = [id \in Collections |-> None]
  BY <1>1 DEF Transfers, Exporting, Reading
<1>6. ASSUME transfer.alone
      PROVE  /\ ExportedMedia' \cup transfer'.todo = {n \in Media : IsExported(n)'}
             /\ \A i, j \in DOMAIN Records' : Records'[i].media = Records'[j].media => i = j
             /\ \A i \in DOMAIN Records' : ReadSoFar(i)'
  <2>1. /\ ExportedMedia \cup transfer.todo = {n \in Media : IsExported(n)}
        /\ \A i, j \in DOMAIN Records : Records[i].media = Records[j].media => i = j
        /\ \A i \in DOMAIN Records : ReadSoFar(i)
    BY <1>1, <1>6, ExportingMeans DEF Transfers, ExportedMedia, Reading
  <2>2. ExportedMedia' = ExportedMedia
    BY <1>2, <1>4 DEF ExportedMedia
  <2>3. {n \in Media : IsExported(n)'} = {n \in Media : IsExported(n)}
    BY <1>1, LibraryStays
  <2>4. ASSUME NEW i \in DOMAIN Records PROVE ReadSoFar(i)'
    <3>1. /\ Records'[i].media \in Media /\ Records'[i].media = Records[i].media
          /\ Records'[i].profile = Records[i].profile /\ ReadSoFar(i)
      BY <1>4, <2>1, <2>4, TransferParts
    <3>2. PICK m \in Media : m = Records'[i].media
      BY <3>1
    <3>3. /\ ProfileOf(m)' = ProfileOf(m) /\ tags' = tags /\ rounds' = rounds
      BY <1>1, LibraryStays
    <3>4. CASE i = LastRecord
      BY <1>1, <1>2, <1>3, <1>5, <3>1, <3>2, <3>3, <3>4 DEF ReadSoFar
    <3>5. CASE i # LastRecord
      BY <1>1, <1>2, <2>4, <3>1, <3>2, <3>3, <3>5 DEF ReadSoFar
    <3> QED  BY <3>4, <3>5
  <2> QED  BY <1>1, <1>2, <1>4, <2>1, <2>2, <2>3, <2>4
<1>7. Exporting'
  BY <1>1, <1>5, <1>6 DEF Exporting, ReadSoFar, ExportedMedia
<1> QED  BY <1>1, <1>7, ReadingTransfers DEF Reading

LEMMA ExportRoundsHolds == ASSUME Typed, Transfers, ExportRounds PROVE Transfers'
<1>0. First(transfer.todo) \in Media
  <2>1. transfer.pc = "rounds"
    BY DEF ExportRounds
  <2>2. transfer.todo \subseteq Media /\ transfer.todo # {}
    BY <2>1 DEF Typed, Todo
  <2> QED  BY <2>2, FirstIsLeast
<1> PICK m \in Media : m = First(transfer.todo)
  BY <1>0
<1> DEFINE record == [Last EXCEPT !.rounds = rounds[m]]
<1>1. /\ transfer.pc = "rounds" /\ record \in Record /\ UNCHANGED library
      /\ transfer'.pc = "profile" /\ transfer'.todo = transfer.todo \ {m}
      /\ transfer.todo \subseteq Media /\ Records' = Filled(record)
      /\ transfer'.document.collections = transfer.document.collections
      /\ transfer'.failed = transfer.failed /\ transfer'.alone = transfer.alone
  BY ExportRoundsEffect
<1> HIDE DEF record
<1>2. /\ LastRecord \in DOMAIN Records /\ Last \in Record /\ DOMAIN Records' = DOMAIN Records
      /\ Records'[LastRecord] = record
      /\ \A i \in DOMAIN Records : i # LastRecord => Records'[i] = Records[i]
      /\ LastRecord' = LastRecord
  BY <1>1, FilledEffect
<1>3. /\ record.media = Last.media /\ record.profile = Last.profile
      /\ record.tags = Last.tags /\ record.rounds = rounds[m]
  BY <1>2 DEF Record, record
<1>4. \A i \in DOMAIN Records : /\ Records'[i].media = Records[i].media
                                /\ Records'[i].profile = Records[i].profile
                                /\ Records'[i].tags = Records[i].tags
  BY <1>2, <1>3 DEF Last
<1>5. /\ transfer.failed = {}
      /\ transfer.document.collections = [id \in Collections |-> None]
  BY <1>1 DEF Transfers, Exporting, Reading
<1>6. ASSUME transfer.alone
      PROVE  /\ ExportedMedia' \cup transfer'.todo = {n \in Media : IsExported(n)'}
             /\ \A i, j \in DOMAIN Records' : Records'[i].media = Records'[j].media => i = j
             /\ \A i \in DOMAIN Records' : ReadSoFar(i)'
  <2>1. /\ ExportedMedia \cup transfer.todo = {n \in Media : IsExported(n)}
        /\ \A i, j \in DOMAIN Records : Records[i].media = Records[j].media => i = j
        /\ \A i \in DOMAIN Records : ReadSoFar(i)
    BY <1>1, <1>6, ExportingMeans DEF Transfers, ExportedMedia, Reading
  <2>2. Records[LastRecord].media = m
    BY <1>1, <1>2, <2>1 DEF ReadSoFar
  <2>3. ExportedMedia' \cup transfer'.todo = ExportedMedia \cup transfer.todo
    <3>1. ExportedMedia' = ExportedMedia /\ m \in ExportedMedia
      BY <1>2, <1>4, <2>2 DEF ExportedMedia
    <3> QED  BY <1>1, <3>1
  <2>4. {n \in Media : IsExported(n)'} = {n \in Media : IsExported(n)}
    BY <1>1, LibraryStays
  <2>5. ASSUME NEW i \in DOMAIN Records PROVE ReadSoFar(i)'
    <3>1. /\ Records'[i].media \in Media /\ Records'[i].media = Records[i].media
          /\ Records'[i].profile = Records[i].profile /\ Records'[i].tags = Records[i].tags
          /\ ReadSoFar(i)
      BY <1>4, <2>1, <2>5, TransferParts
    <3>2. PICK n \in Media : n = Records'[i].media
      BY <3>1
    <3>3. /\ ProfileOf(n)' = ProfileOf(n) /\ tags' = tags /\ rounds' = rounds
      BY <1>1, LibraryStays
    <3>4. CASE i = LastRecord
      <4>1. Records'[i].rounds = rounds[n] /\ n = m
        BY <1>2, <1>3, <2>2, <3>1, <3>2, <3>4
      <4> QED  BY <1>1, <3>1, <3>2, <3>3, <3>4, <4>1 DEF ReadSoFar
    <3>5. CASE i # LastRecord
      <4>1. Records'[i] = Records[i]
        BY <1>2, <2>5, <3>5
      <4> QED  BY <1>1, <3>1, <3>2, <3>3, <3>5, <4>1 DEF ReadSoFar
    <3> QED  BY <3>4, <3>5
  <2> QED  BY <1>1, <1>2, <1>4, <2>1, <2>3, <2>4, <2>5
<1>7. Exporting'
  BY <1>1, <1>5, <1>6 DEF Exporting, ReadSoFar, ExportedMedia
<1> QED  BY <1>1, <1>7, ReadingTransfers DEF Reading

\* What is left to show once an export or an import is through.
Faithful ==
    /\ \A i \in DOMAIN Records : Installed(i)
    /\ transfer.pc = "exported" => ExportedMedia = {m \in Media : IsExported(m)}
    /\ \A id \in Collections :
           transfer.document.collections[id] # None /\ id \notin transfer.failed
           => collections[id] = transfer.document.collections[id]

LEMMA ThroughTransfers ==
    ASSUME transfer'.pc \in {"exported", "imported"}, transfer'.alone => Faithful'
    PROVE  Transfers'
<1>1. TransfersFaithful'
  BY DEF Faithful, TransfersFaithful, Records, ExportedMedia
<1>2. Exporting' /\ Importing'
  BY DEF Exporting, Importing, Reading
<1> QED  BY <1>1, <1>2 DEF Transfers

\* The tags of a document are those of the library, except in an exported CSV.
LEMMA ReadAsIs ==
    ASSUME transfer.pc # "exported"
    PROVE  \A m : AsRead(tags[m]) = tags[m]
BY DEF AsRead

LEMMA ReadAsIsNext ==
    ASSUME transfer'.pc # "exported"
    PROVE  \A m : AsRead(tags[m])' = tags'[m]
BY DEF AsRead

LEMMA ReadOfExport ==
    ASSUME transfer'.pc = "exported", UNCHANGED tags
    PROVE  \A m : AsRead(tags[m])' = IF transfer'.format = "csv" THEN ReadBack(tags[m]) ELSE tags[m]
BY DEF AsRead, ReadBack, First

\* A record that is just what there is counts as installed, but for its tags.
LEMMA InstalledAsIs ==
    ASSUME Typed, Projections, NEW m \in Media, NEW record,
           record.rounds = rounds[m],
           record.profile = ProfileOf(m) \/ record.profile = None
    PROVE  /\ rounds[m] = record.rounds
           /\ record.rounds # <<>> => profile[m].status = Projected(record.rounds)
           /\ record.profile # None => /\ profile[m].version = record.profile.version
                                       /\ profile[m].shared = record.profile.shared
<1>1. record.rounds # <<>> => profile[m].status = Projected(record.rounds)
  BY DEF Projections
<1>2. ASSUME record.profile # None
      PROVE  /\ profile[m].version = record.profile.version
             /\ profile[m].shared = record.profile.shared
  <2>1. record.profile = ProfileOf(m) /\ ProfileOf(m) # None
    BY <1>2
  <2>2. profile[m] # None
    BY <2>1 DEF ProfileOf
  <2>3. ProfileOf(m) = IF profile[m] = None THEN None
                       ELSE [version |-> profile[m].version, shared |-> profile[m].shared]
    BY DEF ProfileOf
  <2>4. ProfileOf(m) = [version |-> profile[m].version, shared |-> profile[m].shared]
    BY <2>2, <2>3, Zenon
  <2> QED  BY <2>1, <2>4
<1> QED  BY <1>1, <1>2

\* How a record is installed after a step.
LEMMA InstalledNext ==
    ASSUME NEW i \in DOMAIN Records', NEW m, m = Records'[i].media,
           \/ \E j \in DOMAIN Records' :
                j # i /\ Records'[j].media = m /\ (transfer'.pc = "exported" \/ ~(j < i))
           \/ m \in transfer'.failed
           \/ LET record == Records'[i] IN
              /\ record.tags = AsRead(tags[m])' /\ rounds'[m] = record.rounds
              /\ record.rounds # <<>> => profile'[m].status = Projected(record.rounds)
              /\ record.profile # None => /\ profile'[m].version = record.profile.version
                                          /\ profile'[m].shared = record.profile.shared
    PROVE  Installed(i)'
<1> DEFINE read(n) ==
         IF transfer'.pc = "exported" /\ transfer'.format = "csv" THEN ReadBack(tags'[n])
         ELSE tags'[n]
<1>1. AsRead(tags[Records[i].media])' = read(Records'[i].media)
  BY DEF AsRead, ReadBack, First
<1>2. AsRead(tags[m])' = read(m)
  BY DEF AsRead, ReadBack, First
<1> HIDE DEF read
<1>3. AsRead(tags[Records[i].media])' = AsRead(tags[m])'
  BY <1>1, <1>2
<1>4. IsWhole(i)' => \A j \in DOMAIN Records' :
                       j # i /\ Records'[j].media = m => transfer'.pc # "exported" /\ j < i
  BY DEF IsWhole, Records
<1> QED  BY <1>3, <1>4 DEF Installed, Records, Projected, Current

LEMMA ExportedInstalled ==
    ASSUME Typed, Projections, transfer.pc = "profile", NEW i \in DOMAIN Records, ReadSoFar(i)
    PROVE  LET record == Records[i]  m == Records[i].media IN
           /\ m \in Media /\ record.tags = tags[m] /\ record.rounds = rounds[m]
           /\ record.profile = ProfileOf(m)
BY TransferParts DEF ReadSoFar

\* In a CSV a media of several rounds has several rows: only of one with a
\* single row, which holds all its rounds, anything is claimed.
LEMMA RowInstalled ==
    ASSUME Typed, Transfers, Projections, transfer.pc = "profile", transfer.alone,
           NEW joined, Holding(joined, Records, LastRecord), NEW i \in 1..Len(joined)
    PROVE  \E k \in DOMAIN Records :
             /\ joined[i].media = Records[k].media /\ joined[i].profile = None
             /\ joined[i].tags = ReadBack(Records[k].tags)
             /\ \/ joined[i].rounds = Records[k].rounds
                \/ \E j \in 1..Len(joined) : j # i /\ joined[j].media = joined[i].media
<1>1. PICK k \in 1..LastRecord : \E q \in 1..Len(Rows(Records[k])) : joined[i] = Rows(Records[k])[q]
  BY DEF Holding
<1>2. PICK q \in 1..Len(Rows(Records[k])) : joined[i] = Rows(Records[k])[q]
  BY <1>1
<1>3. k \in DOMAIN Records /\ Records[k] \in Record
  BY TransferParts
<1>4. /\ Rows(Records[k]) \in Seq(Record) /\ Len(Rows(Records[k])) > 0
      /\ \A r \in 1..Len(Rows(Records[k])) :
           /\ Rows(Records[k])[r].media = Records[k].media
           /\ Rows(Records[k])[r].tags = ReadBack(Records[k].tags)
           /\ Rows(Records[k])[r].profile = None
           /\ Len(Rows(Records[k])) = 1 => Rows(Records[k])[r].rounds = Records[k].rounds
  BY <1>3, RowTypes
<1>5. Len(Rows(Records[k])) \in Nat
  BY <1>4, LenProperties
<1>6. CASE Len(Rows(Records[k])) = 1
  BY <1>2, <1>3, <1>4, <1>6
<1>7. CASE Len(Rows(Records[k])) # 1
  <2> DEFINE block(before) ==
             \A r \in 1..Len(Rows(Records[k])) :
                before + r \in 1..Len(joined) /\ joined[before + r] = Rows(Records[k])[r]
  <2>0. \E before \in Nat : block(before)
    BY Zenon DEF Holding
  <2>1. PICK before \in Nat : block(before)
    BY <2>0
  <2>2. 1 \in 1..Len(Rows(Records[k])) /\ 2 \in 1..Len(Rows(Records[k]))
    <3>1. \A n \in Nat : n > 0 /\ n # 1 => 1 \in 1..n /\ 2 \in 1..n
      OBVIOUS
    <3> HIDE DEF block
    <3> QED  BY <1>4, <1>5, <1>7, <3>1
  <2>3. PICK j \in 1..Len(joined) : j # i /\ joined[j].media = Records[k].media
    <3>1. /\ before + 1 \in 1..Len(joined) /\ joined[before + 1].media = Records[k].media
          /\ before + 2 \in 1..Len(joined) /\ joined[before + 2].media = Records[k].media
      BY <1>4, <2>1, <2>2
    <3>2. before + 1 # before + 2
      OBVIOUS
    <3> QED  BY <3>1, <3>2
  <2> QED  BY <1>2, <1>3, <1>4, <2>3
<1> QED  BY <1>6, <1>7

LEMMA ExportCollectionsHolds == ASSUME Typed, Projections, Transfers, ExportCollections PROVE Transfers'
<1>1. /\ transfer.pc = "profile" /\ transfer.todo = {} /\ UNCHANGED library
      /\ transfer'.pc = "exported"
      /\ transfer'.failed = transfer.failed /\ transfer'.alone = transfer.alone
      /\ \/ /\ Records' = Joined(Records) /\ transfer'.format = "csv"
            /\ transfer'.document.collections = transfer.document.collections
         \/ /\ Records' = Records /\ transfer'.format # "csv"
            /\ transfer'.document.collections = collections
  BY ExportCollectionsEffect
<1>2. /\ UNCHANGED <<profile, tags, rounds, collections>>
      /\ {m \in Media : IsExported(m)'} = {m \in Media : IsExported(m)}
  BY <1>1, LibraryStays
<1>3. ASSUME transfer'.alone PROVE Faithful'
  <2>1. /\ ExportedMedia = {m \in Media : IsExported(m)}
        /\ \A i \in DOMAIN Records : ReadSoFar(i)
        /\ transfer.document.collections = [id \in Collections |-> None]
    BY <1>1, <1>3, ExportingMeans DEF Transfers, ExportedMedia, Reading
  <2>2. CASE /\ Records' = Records /\ transfer'.format # "csv"
             /\ transfer'.document.collections = collections
    <3>1. ASSUME NEW i \in DOMAIN Records' PROVE Installed(i)'
      <4>1. PICK m \in Media : /\ m = Records[i].media /\ Records[i].tags = tags[m]
                               /\ Records[i].rounds = rounds[m]
                               /\ Records[i].profile = ProfileOf(m)
        BY <1>1, <2>1, <2>2, <3>1, ExportedInstalled
      <4>2. LET record == Records[i] IN
            /\ rounds[m] = record.rounds
            /\ record.rounds # <<>> => profile[m].status = Projected(record.rounds)
            /\ record.profile # None => /\ profile[m].version = record.profile.version
                                        /\ profile[m].shared = record.profile.shared
        BY <4>1, InstalledAsIs
      <4>3. Records[i].tags = AsRead(tags[m])'
        BY <1>1, <1>2, <2>2, <4>1, ReadOfExport
      <4> QED  BY <1>2, <2>2, <4>1, <4>2, <4>3, InstalledNext
    <3>2. ExportedMedia' = ExportedMedia
      BY <2>2 DEF ExportedMedia
    <3> QED  BY <1>2, <2>1, <2>2, <3>1, <3>2 DEF Faithful
  <2>3. CASE /\ Records' = Joined(Records) /\ transfer'.format = "csv"
             /\ transfer'.document.collections = transfer.document.collections
    <3> PICK joined : joined = Joined(Records)
      OBVIOUS
    <3>1. /\ Holding(joined, Records, LastRecord) /\ joined \in Seq(Record)
          /\ DOMAIN joined = 1..Len(joined) /\ Records' = joined
      <4>1. Holding(joined, Records, LastRecord)
        BY TransferParts, JoinedRows
      <4> QED  BY <2>3, <4>1, LenProperties DEF Holding
    <3>2. ASSUME NEW i \in DOMAIN Records' PROVE Installed(i)'
      <4>1. PICK k \in DOMAIN Records :
              /\ joined[i].media = Records[k].media /\ joined[i].profile = None
              /\ joined[i].tags = ReadBack(Records[k].tags)
              /\ \/ joined[i].rounds = Records[k].rounds
                 \/ \E j \in 1..Len(joined) : j # i /\ joined[j].media = joined[i].media
        BY <1>1, <1>3, <3>1, <3>2, RowInstalled
      <4>2. PICK m \in Media : /\ m = Records[k].media /\ Records[k].tags = tags[m]
                               /\ Records[k].rounds = rounds[m]
                               /\ Records[k].profile = ProfileOf(m)
        BY <1>1, <2>1, ExportedInstalled
      <4>3. CASE \E j \in 1..Len(joined) : j # i /\ joined[j].media = joined[i].media
        BY <1>1, <3>1, <3>2, <4>1, <4>2, <4>3, InstalledNext
      <4>4. CASE joined[i].rounds = Records[k].rounds
        <5>1. LET record == joined[i] IN
              /\ rounds[m] = record.rounds
              /\ record.rounds # <<>> => profile[m].status = Projected(record.rounds)
              /\ record.profile # None => /\ profile[m].version = record.profile.version
                                          /\ profile[m].shared = record.profile.shared
          BY <4>1, <4>2, <4>4, InstalledAsIs
        <5>2. joined[i].tags = AsRead(tags[m])'
          BY <1>1, <1>2, <2>3, <4>1, <4>2, ReadOfExport
        <5> QED  BY <1>2, <3>1, <3>2, <4>1, <4>2, <5>1, <5>2, InstalledNext
      <4> QED  BY <4>1, <4>3, <4>4
    <3>3. ExportedMedia' = ExportedMedia
      <4>1. ASSUME NEW i \in 1..Len(joined)
            PROVE  \E k \in DOMAIN Records : joined[i].media = Records[k].media
        BY <1>1, <1>3, <3>1, <4>1, RowInstalled
      <4>2. ASSUME NEW k \in DOMAIN Records
            PROVE  \E i \in 1..Len(joined) : joined[i].media = Records[k].media
        <5>1. Records[k] \in Record /\ k \in 1..LastRecord
          BY <4>2, TransferParts
        <5>2. /\ 1 \in 1..Len(Rows(Records[k])) /\ Rows(Records[k])[1].media = Records[k].media
          <6>1. Rows(Records[k]) \in Seq(Record) /\ Len(Rows(Records[k])) > 0
            BY <5>1, RowTypes
          <6>2. 1 \in 1..Len(Rows(Records[k]))
            BY <6>1, LenProperties
          <6> QED  BY <5>1, <6>2, RowTypes
        <5>3. \E before \in Nat :
                 \A r \in 1..Len(Rows(Records[k])) :
                    before + r \in 1..Len(joined) /\ joined[before + r] = Rows(Records[k])[r]
          BY <3>1, <5>1, Zenon DEF Holding
        <5> QED  BY <5>2, <5>3
      <4>3. ExportedMedia' \subseteq ExportedMedia
        BY <3>1, <4>1 DEF ExportedMedia
      <4>4. ExportedMedia \subseteq ExportedMedia'
        BY <3>1, <4>2 DEF ExportedMedia
      <4> QED  BY <4>3, <4>4
    <3> QED  BY <1>2, <2>1, <2>3, <3>2, <3>3 DEF Faithful
  <2> QED  BY <1>1, <2>2, <2>3
<1> QED  BY <1>1, <1>3, ThroughTransfers

LEMMA ImportingTransfers ==
    ASSUME transfer'.pc = "importing", Importing'
    PROVE  Transfers'
BY DEF Transfers, Exporting, TransfersFaithful, Reading

LEMMA BeginImportHolds == ASSUME Typed, BeginImport PROVE Transfers'
<1>1. /\ transfer'.pc = "importing" /\ transfer'.document = transfer.document
      /\ transfer'.todo = {id \in Collections : transfer.document.collections[id] # None}
      /\ transfer'.next = 1
  BY BeginImportEffect
<1>2. \A i \in DOMAIN Records' : ~(i < 1)
  <2>1. Records' = Records
    BY <1>1 DEF Records
  <2> QED  BY <2>1, TransferParts
<1>3. Importing'
  BY <1>1, <1>2 DEF Importing
<1> QED  BY <1>1, <1>3, ImportingTransfers

\* An installed record stays so while its media is left alone.
LEMMA InstalledKept ==
    ASSUME NEW i \in DOMAIN Records, Installed(i), transfer'.document = transfer.document,
           transfer.pc # "exported", transfer'.pc # "exported",
           transfer.failed \subseteq transfer'.failed, NEW m, m = Records[i].media,
           profile'[m] = profile[m], tags'[m] = tags[m], rounds'[m] = rounds[m]
    PROVE  Installed(i)'
<1>1. Records' = Records
  BY DEF Records
<1>2. \/ \E j \in DOMAIN Records : j # i /\ Records[j].media = m /\ ~(j < i)
      \/ m \in transfer.failed
      \/ LET record == Records[i] IN
         /\ tags[m] = record.tags /\ rounds[m] = record.rounds
         /\ record.rounds # <<>> => profile[m].status = Projected(record.rounds)
         /\ record.profile # None => /\ profile[m].version = record.profile.version
                                     /\ profile[m].shared = record.profile.shared
  BY ReadAsIs DEF Installed, IsWhole, Records
<1> QED  BY <1>1, <1>2, ReadAsIsNext, InstalledNext

LEMMA ImportRecordTransfers ==
    ASSUME Typed, Transfers, ImportRecord, transfer'.document = transfer.document,
           transfer'.pc = "importing", transfer'.next = transfer.next + 1,
           transfer'.todo = transfer.todo, transfer.failed \subseteq transfer'.failed,
           transfer'.alone = transfer.alone, UNCHANGED collections,
           \A m \in Media \ {NextRecord.media} :
              profile'[m] = profile[m] /\ tags'[m] = tags[m] /\ rounds'[m] = rounds[m],
           \A i \in DOMAIN Records : i = transfer.next => Installed(i)',
           \A i \in DOMAIN Records : i < transfer.next =>
              \/ Records[i].media # NextRecord.media
              \/ Installed(i)'
    PROVE  Transfers'
<1>1. /\ Records' = Records /\ transfer.pc = "importing" /\ transfer.next \in Nat
      /\ DOMAIN Records = 1..LastRecord
  BY NextRecordType, TransferParts DEF Records, Transfer
<1>2. ASSUME transfer.alone, NEW i \in DOMAIN Records', i < transfer'.next PROVE Installed(i)'
  <2>1. i \in DOMAIN Records /\ (i < transfer.next \/ i = transfer.next)
    BY <1>1, <1>2
  <2>2. CASE i < transfer.next /\ Records[i].media # NextRecord.media
    <3>1. Installed(i)
      BY <1>1, <1>2, <2>1, <2>2 DEF Transfers, Importing
    <3>2. Records[i].media \in Media \ {NextRecord.media}
      BY <2>1, <2>2, TransferParts
    <3> QED  BY <1>1, <2>1, <3>1, <3>2, InstalledKept
  <2> QED  BY <2>1, <2>2
<1>3. transfer.failed \subseteq transfer'.failed
  OBVIOUS
<1>4. Importing'
  BY <1>1, <1>2 DEF Transfers, Importing
<1> QED  BY <1>4, ImportingTransfers

LEMMA InstallRecordInstalls ==
    ASSUME Typed, Transfers, ImportRecord, InstallRecord(NextRecord)
    PROVE  Transfers'
<1> PICK m \in Media : m = NextRecord.media
  BY NextRecordType
<1>1. /\ NextRecord \in Record /\ transfer.next \in DOMAIN Records
      /\ NextRecord = Records[transfer.next]
  BY NextRecordType DEF NextRecord
<1> PICK row : row = ImportedProfile(NextRecord)
  OBVIOUS
<1>2. /\ profile'[m] = row /\ \A n \in Media \ {m} : profile'[n] = profile[n]
      /\ tags' = [tags EXCEPT ![m] = NextRecord.tags]
      /\ rounds' = [rounds EXCEPT ![m] = NextRecord.rounds]
      /\ transfer'.next = transfer.next + 1
      /\ transfer'.pc = "importing" /\ transfer'.document = transfer.document
      /\ transfer'.todo = transfer.todo /\ transfer'.failed = transfer.failed
      /\ transfer'.alone = transfer.alone /\ UNCHANGED collections
  BY InstallRecordEffect
<1>3. /\ tags'[m] = NextRecord.tags /\ rounds'[m] = NextRecord.rounds
      /\ \A n \in Media \ {m} : tags'[n] = tags[n] /\ rounds'[n] = rounds[n]
  BY <1>2, TypedParts
<1>4. /\ NextRecord.rounds # <<>> => row.status = Projected(NextRecord.rounds)
      /\ NextRecord.profile # None => /\ row.version = NextRecord.profile.version
                                      /\ row.shared = NextRecord.profile.shared
  BY <1>1, ImportedProfileType
<1>5. Records' = Records
  BY <1>2 DEF Records
<1>6. ASSUME NEW i \in DOMAIN Records, i = transfer.next PROVE Installed(i)'
  <2>1. i \in DOMAIN Records' /\ Records'[i] = NextRecord
    BY <1>1, <1>5, <1>6
  <2> QED  BY <1>2, <1>3, <1>4, <2>1, ReadAsIsNext, InstalledNext
<1>7. ASSUME NEW i \in DOMAIN Records, i < transfer.next, Records[i].media = m PROVE Installed(i)'
  <2>1. PICK j \in DOMAIN Records : j = transfer.next
    BY <1>1
  <2>2. /\ j # i /\ ~(j < i) /\ Records'[j].media = m
        /\ i \in DOMAIN Records' /\ j \in DOMAIN Records'
    BY <1>1, <1>5, <1>7, <2>1, TransferParts
  <2> QED  BY <1>5, <1>7, <2>2, InstalledNext
<1> QED  BY <1>2, <1>3, <1>6, <1>7, ImportRecordTransfers

LEMMA ReportRecordHolds ==
    ASSUME Typed, Transfers, ImportRecord, ReportRecord(NextRecord)
    PROVE  Transfers'
<1>1. /\ UNCHANGED <<profile, tags, rounds, collections>> /\ transfer'.next = transfer.next + 1
      /\ transfer'.pc = "importing" /\ transfer'.document = transfer.document
      /\ transfer'.todo = transfer.todo
      /\ transfer'.failed = transfer.failed \cup {NextRecord.media}
      /\ transfer'.alone = transfer.alone
  BY ReportRecordEffect DEF library
<1>2. Records' = Records
  BY <1>1 DEF Records
<1>3. ASSUME NEW i \in DOMAIN Records, Records[i].media = NextRecord.media PROVE Installed(i)'
  BY <1>1, <1>2, <1>3, InstalledNext
<1> QED  BY <1>1, <1>3, ImportRecordTransfers DEF NextRecord

LEMMA ImportCollectionHolds == ASSUME Typed, Transfers, ImportCollection PROVE Transfers'
<1>1. /\ transfer.pc = "importing" /\ transfer.next > LastRecord
      /\ UNCHANGED <<profile, tags, rounds>> /\ transfer'.pc = "importing"
      /\ transfer'.document = transfer.document /\ transfer'.next = transfer.next
      /\ transfer'.alone = transfer.alone
  BY ImportCollectionEffect
<1>2. PICK id \in transfer.todo :
        /\ id \in Collections /\ transfer'.todo = transfer.todo \ {id}
        /\ \/ /\ collections' = [collections EXCEPT ![id] = transfer.document.collections[id]]
              /\ transfer'.failed = transfer.failed
           \/ UNCHANGED collections /\ transfer'.failed = transfer.failed \cup {id}
  BY ImportCollectionEffect
<1>3. /\ Records' = Records /\ transfer.failed \subseteq transfer'.failed
  BY <1>1, <1>2 DEF Records
<1>4. ASSUME transfer.alone, NEW i \in DOMAIN Records', i < transfer'.next PROVE Installed(i)'
  <2>1. i \in DOMAIN Records /\ Installed(i)
    BY <1>1, <1>3, <1>4 DEF Transfers, Importing
  <2> QED  BY <1>1, <1>3, <2>1, InstalledKept
<1>5. ASSUME transfer.alone, NEW other \in Collections \ transfer'.todo,
             transfer'.document.collections[other] # None, other \notin transfer'.failed
      PROVE  collections'[other] = transfer'.document.collections[other]
  <2>1. CASE other = id
    BY <1>1, <1>2, <1>5, <2>1, TypedParts
  <2>2. CASE other # id
    <3>1. other \in Collections \ transfer.todo /\ other \notin transfer.failed
      BY <1>2, <1>3, <1>5, <2>2
    <3>2. collections[other] = transfer.document.collections[other]
      BY <1>1, <1>5, <3>1 DEF Transfers, Importing
    <3>3. collections'[other] = collections[other]
      BY <1>2, <2>2, TypedParts
    <3> QED  BY <1>1, <3>2, <3>3
  <2> QED  BY <2>1, <2>2
<1>6. Importing'
  BY <1>1, <1>4, <1>5 DEF Importing
<1> QED  BY <1>1, <1>6, ImportingTransfers

LEMMA ReportImportHolds == ASSUME Typed, Transfers, ReportImport PROVE Transfers'
<1>1. /\ transfer.pc = "importing" /\ transfer.next > LastRecord /\ transfer.todo = {}
      /\ transfer'.pc = "imported" /\ transfer'.document = transfer.document
      /\ transfer'.alone = transfer.alone /\ transfer'.failed = transfer.failed
      /\ UNCHANGED <<profile, tags, rounds, collections>>
  BY ReportImportEffect DEF library
<1>2. ASSUME transfer.alone PROVE Faithful'
  <2>1. /\ Records' = Records /\ DOMAIN Records = 1..LastRecord
        /\ LastRecord \in Nat /\ transfer.next \in Nat
    BY <1>1, TransferParts DEF Records, Transfer
  <2>2. ASSUME NEW i \in DOMAIN Records PROVE Installed(i)'
    <3>1. Installed(i)
      BY <1>1, <1>2, <2>1, <2>2 DEF Transfers, Importing
    <3> QED  BY <1>1, <3>1, InstalledKept
  <2>3. \A id \in Collections :
           transfer.document.collections[id] # None /\ id \notin transfer.failed
           => collections[id] = transfer.document.collections[id]
    BY <1>1, <1>2 DEF Transfers, Importing
  <2> QED  BY <1>1, <2>1, <2>2, <2>3 DEF Faithful
<1> QED  BY <1>1, <1>2, ThroughTransfers

LEMMA TransfersStep == ASSUME Typed, Edits, Projections, Transfers, [Next]_vars PROVE Transfers'
<1>1. CASE ListingSteps \/ Tick \/ UNCHANGED vars
  <2>1. UNCHANGED library /\ UNCHANGED transfer
    <3>1. CASE ListingSteps
      <4>1. UNCHANGED <<library, edit, transfer, now, writes>>
        BY <3>1, Zenon DEF ListingSteps, BeginListing, LibraryPage, EndListing
      <4> QED  BY <4>1
    <3>2. CASE Tick \/ UNCHANGED vars
      BY <3>2 DEF Tick, vars, library
    <3> QED  BY <1>1, <3>1, <3>2
  <2> QED  BY <2>1, TransfersBeside DEF Beside
<1>2. CASE ChangeRounds
  <2>1. Disturbs
    BY <1>2 DEF ChangeRounds
  <2>2. Beside /\ ~transfer'.alone
    BY <2>1, TransferType DEF Disturbs, Beside, Transfer
  <2> QED  BY <2>2, TransfersBeside
<1>3. CASE CollectionsWritten
  <2>1. Disturbs
    BY <1>3, CollectionsWrittenEffect
  <2>2. Beside /\ ~transfer'.alone
    BY <2>1, TransferType DEF Disturbs, Beside, Transfer
  <2> QED  BY <2>2, TransfersBeside
<1>4. CASE ExportSteps
  BY <1>4, BeginExportHolds, ExportProfileHolds, ExportTagsHolds, ExportRoundsHolds,
     ExportCollectionsHolds DEF ExportSteps
<1>5. CASE BeginImport \/ ImportCollection \/ ReportImport
  BY <1>5, BeginImportHolds, ImportCollectionHolds, ReportImportHolds
<1>6. CASE ImportRecord
  BY <1>6, NextRecordType, InstallRecordInstalls, ReportRecordHolds
<1>7. CASE EndTransfer
  <2>1. transfer'.pc = "none"
    BY <1>7, NoTransferType DEF EndTransfer
  <2> QED  BY <2>1 DEF Transfers, Exporting, Importing, TransfersFaithful, Reading
<1>8. ASSUME NEW c \in Clients, EditReads(c) PROVE Transfers'
  <2>1. UNCHANGED library /\ UNCHANGED transfer
    BY <1>8 DEF EditReads, ReadVersion, ReadTags, CheckVersion, ReadSharing, Abandon, library
  <2> QED  BY <2>1, TransfersBeside DEF Beside
<1>9. ASSUME NEW c \in Clients, SetTagsVersioned(c) \/ UpdateSharing(c) PROVE Transfers'
  <2>1. Disturbs \/ UNCHANGED <<profile, tags, rounds, collections, transfer>>
    BY <1>9, SetTagsEffect, UpdateSharingEffect
  <2>2. CASE Disturbs
    <3>1. Beside /\ ~transfer'.alone
      BY <2>2, TransferType DEF Disturbs, Beside, Transfer
    <3> QED  BY <3>1, TransfersBeside
  <2>3. CASE UNCHANGED <<profile, tags, rounds, collections, transfer>>
    BY <2>3, TransfersBeside DEF Beside, library
  <2> QED  BY <2>1, <2>2, <2>3
<1> QED  BY <1>1, <1>2, <1>3, <1>4, <1>5, <1>6, <1>7, <1>8, <1>9, NextSteps DEF ImportSteps

-----------------------------------------------------------------------------
(* The invariant and what follows from it *)

LEMMA InitHolds == Init => IInv
<1> SUFFICES ASSUME Init PROVE IInv
  OBVIOUS
<1>1. Typed
  BY InitTyped
<1>2. Projections /\ Edits /\ Paged
  BY DEF Init, Projections, Edits, Paged, NotListing
<1>3. Exporting /\ Importing /\ TransfersFaithful
  BY DEF Init, NoTransfer, Exporting, Importing, TransfersFaithful, Reading
<1> QED  BY <1>1, <1>2, <1>3 DEF IInv

LEMMA StepHolds == ASSUME IInv, [Next]_vars PROVE IInv'
<1>1. Typed /\ Projections /\ Edits /\ Paged /\ Transfers
  BY DEF IInv, Transfers
<1>2. Typed'
  BY <1>1, TypedStep
<1>3. Projections'
  BY <1>1, ProjectionsStep
<1>4. Edits'
  BY <1>1, EditsStep
<1>5. Paged'
  BY <1>1, PagedStep
<1>6. Transfers'
  BY <1>1, TransfersStep
<1> QED  BY <1>2, <1>3, <1>4, <1>5, <1>6 DEF IInv, Transfers

LEMMA Invariant == Spec => []IInv
<1>1. Init => IInv
  BY InitHolds
<1>2. IInv /\ [Next]_vars => IInv'
  BY StepHolds
<1> QED  BY <1>1, <1>2, PTL DEF Spec

(* Whatever is requested, exported or imported, in whatever order, every    *)
(* variable keeps its type: in particular no collection ever lists a media  *)
(* twice, nor more items than there are media.                              *)
THEOREM TypeCorrect == Spec => []TypeOK
<1>1. IInv => TypeOK
  BY DEF IInv, Typed
<1> QED  BY <1>1, Invariant, PTL

(* The version and the tags a browser is shown come from two statements,    *)
(* and others edit meanwhile: an edit that its version lets through replaces *)
(* just what its browser was shown.                                          *)
THEOREM EditsReplaceWhatWasShown == Spec => []NoLostEdit
<1>1. IInv => NoLostEdit
  <2> SUFFICES ASSUME IInv, NEW c \in Clients, edit[c] # Resting, edit[c].pc # "version",
                      edit[c].fresh, VersionOf(edit[c].media) = edit[c].version
               PROVE  IF edit[c].pc = "sharing"
                      THEN Ensured(edit[c].media).shared = edit[c].shared
                      ELSE tags[edit[c].media] = edit[c].tags
    BY DEF NoLostEdit
  <2>1. Typed /\ EditHolds(c)
    BY DEF IInv, Edits
  <2>2. edit[c].pc \in {"tags", "checked", "sharing"}
    <3>1. edit[c] \in Edit
      BY <2>1, EditUnderWay
    <3> QED  BY <3>1 DEF Edit
  <2> QED  BY <2>1, <2>2 DEF EditHolds
<1> QED  BY <1>1, Invariant, PTL

(* For every library, however it changes between the pages, and for every   *)
(* page size: a media that stays where it is is given, and given once        *)
(* unless a cursor was cut.                                                  *)
THEOREM PagesListOnce == Spec => []ListsOnce
<1>1. IInv => ListsOnce
  BY DEF IInv, Paged, ListsOnce
<1> QED  BY <1>1, Invariant, PTL

(* An export that nothing comes between is the library, JSON or CSV, of any  *)
(* size; an import that nothing comes between puts back what the document   *)
(* has, row by row, the failed ones excepted.                               *)
THEOREM TransfersAreFaithful == Spec => []TransfersFaithful
<1>1. IInv => TransfersFaithful
  BY DEF IInv
<1> QED  BY <1>1, Invariant, PTL
=============================================================================
