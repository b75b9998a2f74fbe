------------------------------ MODULE Archive ------------------------------
(***************************************************************************)
(* From the documents of a trip to the archive its row names: FetchData    *)
(* (module ESFetch), PrepareData and Upload of internal/services/bundlr    *)
(* and the update of the row, as CompleteSegment calls them, delivered     *)
(* again and again while documents go on being indexed.                    *)
(*                                                                         *)
(* Cryptography is symbolic: a box opens with the key and nonce it was     *)
(* sealed with, and an item's id names exactly the contents signed.        *)
(***************************************************************************)
EXTENDS ESFetch

CONSTANTS Token,    \* the vehicle's token id
          Keys,     \* encryption keys
          Nonces,
          MaxTries  \* bound: deliveries of the completion

ASSUME ArchiveAssumption ==
  /\ Null \notin Keys \cup Nonces
  /\ MaxTries \in Nat

VARIABLES stage,    \* the step of CompleteSegment: "idle", "fetch", "upload" or "store"
          key,      \* its encryption key, or Null
          item,     \* its dataItem, or Null
          accepted, \* the items the Bundlr network has accepted
          row,      \* encryption_key and bundlr_id of the trip, or Null
          due,      \* what the fetch behind row had to find
          tries     \* how much of the bound is used

fetchVars   == <<index, pc, pages, after, requested>>
archiveVars == <<stage, key, item, accepted, row, due, tries>>
allVars     == <<fetchVars, archiveVars>>

----------------------------------------------------------------------------
(* The data *)

\* One file in the zip, named for the trip.
Zip(content) ==
  [name |-> <<Token, Second(Start), Second(End)>>, content |-> content]

Seal(k, nonce, plain) == [key |-> k, nonce |-> nonce, plain |-> plain]

Tags(nonce) ==
  [token |-> Token, start |-> Second(Start), end |-> Second(End), nonce |-> nonce]

\* The id is a hash of the signature, which covers data and tags.
IdOf(data, tags) == <<data, tags>>

Signed(data, tags) == [data |-> data, tags |-> tags, id |-> IdOf(data, tags)]

\* A reader with key k gets the plain text out of item i.
Opens(k, i) == i.data.key = k /\ i.data.nonce = i.tags.nonce

ArchiveTypeOK ==
  /\ TypeOK
  /\ stage \in {"idle", "fetch", "upload", "store"}
  /\ key \in Keys \cup {Null}
  /\ \A i \in accepted \cup ({item} \ {Null}) :
       i.id = IdOf(i.data, i.tags) /\ i.data.key \in Keys /\ i.tags.nonce \in Nonces
  /\ row # Null => row.key \in Keys
  /\ due \subseteq Docs
  /\ tries \in 0..MaxTries

ArchiveInit ==
  /\ Init
  /\ stage = "idle"
  /\ key = Null /\ item = Null
  /\ accepted = {}
  /\ row = Null
  /\ due = {}
  /\ tries = 0

----------------------------------------------------------------------------
(* CompleteSegment *)

KeysUsed ==
  {i.data.key : i \in accepted} \cup (IF row = Null THEN {} ELSE {row.key})

\* The completion is delivered, for the first time or again: a new key.
Deliver ==
  /\ stage = "idle"
  /\ tries < MaxTries
  /\ tries' = tries + 1
  /\ key' \in Keys \ KeysUsed
  /\ stage' = "fetch"
  /\ UNCHANGED <<fetchVars, item, accepted, row, due>>

Fetch ==
  /\ stage = "fetch"
  /\ FetchData \/ Search \/ SearchFails
  /\ UNCHANGED archiveVars

\* Mutant: the tags are completed after the item has been signed.
PrepareTaggedLate ==
  /\ stage = "fetch" /\ pc = "done"
  /\ \E nonce \in Nonces :
       LET data == Seal(key, nonce, Zip(pages)) IN
       item' = [data |-> data, tags |-> Tags(nonce), id |-> IdOf(data, Tags(Null))]
  /\ stage' = "upload"
  /\ UNCHANGED <<fetchVars, key, accepted, row, due, tries>>

\* Compressed, sealed under a random nonce, tagged and then signed.
PrepareData ==
  /\ stage = "fetch" /\ pc = "done"
  /\ \E nonce \in Nonces :
       item' = Signed(Seal(key, nonce, Zip(pages)), Tags(nonce))
  /\ stage' = "upload"
  /\ UNCHANGED <<fetchVars, key, accepted, row, due, tries>>

Upload ==
  /\ stage = "upload"
  /\ accepted' = accepted \cup {item}
  /\ stage' = "store"
  /\ UNCHANGED <<fetchVars, key, item, row, due, tries>>

\* The handler returns, and its memory is gone.
Return ==
  /\ stage' = "idle" /\ key' = Null /\ item' = Null
  /\ pc' = "start" /\ pages' = << >> /\ after' = Null /\ requested' = {}
  /\ UNCHANGED <<index, accepted, tries>>

Store ==
  /\ stage = "store"
  /\ row' = [key |-> key, bundlr |-> item.id]
  /\ due' = requested
  /\ Return

\* An error of a call, an answer that is lost, or the end of the process.
Stop ==
  /\ stage # "idle"
  /\ Return
  /\ UNCHANGED <<row, due>>

ArchiveNext ==
  \/ Deliver \/ Fetch \/ PrepareData \/ Upload \/ Store \/ Stop
  \/ \E d \in Docs : Ingest(d) /\ UNCHANGED archiveVars

ArchiveSpec == ArchiveInit /\ [][ArchiveNext]_allVars

\* The loop of a fetch runs on.  Nothing makes anybody index a document, publish
\* a completion, or deliver it again.
FairArchiveSpec ==
  ArchiveSpec /\ WF_allVars(stage = "fetch" /\ (FetchData \/ Search) /\ UNCHANGED archiveVars)

----------------------------------------------------------------------------

\* Read page by page, the archive holds each document once and in the order of
\* time, and of the documents it is due none but some tied with the last of a
\* full page is missing.
Covers(content, docs) ==
  LET held == UNION {content[i] : i \in DOMAIN content} IN
  /\ \A i, j \in DOMAIN content : i < j =>
       \A d \in content[i], e \in content[j] : d.time < e.time
  /\ \A d \in docs \ held : \E i \in DOMAIN content :
       Cardinality(content[i]) = PageSize /\ d.time \in LastTime(content[i])

\* Whatever failed, was lost or was repeated on the way, the item a row names
\* is on the Bundlr network, the row's key and the item's own tags open it, and
\* inside is the trip as it was indexed when that archive was begun: never the
\* part of it that a fetch had read before it failed.
ArchivedTrip ==
  row # Null =>
    \E i \in accepted :
      /\ i.id = row.bundlr
      /\ Opens(row.key, i)
      /\ Covers(i.data.plain.content, due)

=============================================================================
