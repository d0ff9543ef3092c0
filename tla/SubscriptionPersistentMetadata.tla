------------------- MODULE SubscriptionPersistentMetadata -------------------
(***************************************************************************)
(* Per-URL facts about subscriptions that outlive the subscription files:  *)
(* whether their expiration time has passed, and how many downloads of the *)
(* URL succeeded.  One instance is shared by every filtering configuration *)
(* of a browser context.                                                   *)
(*                                                                         *)
(* Each setter of the class is an operator on the whole map, because every *)
(* caller combines several setters in one handler.  Every setter puts the  *)
(* map into the preferences, but those are written to disk later: a crash  *)
(* takes the map back to what was written last.                            *)
(*                                                                         *)
(* Version strings, installation times and the error count are data that   *)
(* nothing modelled here looks at; an entry that has only those is not     *)
(* told apart from an absent one.                                          *)
(***************************************************************************)
EXTENDS Naturals

CONSTANTS
  Url,        \* subscription URLs
  CountCap    \* bound: counts of u from CountCap[u] on are not told apart

ASSUME CountCapAssumption == CountCap \in [Url -> Nat]

VARIABLES
  metadata_map,       \* metadata_map_, also in the preferences
  written_metadata    \* the preferences as they were last written to disk

\* For a URL without an entry the values are those the getters answer.
Metadata == [expired : BOOLEAN, download_count : Nat]

NoMetadata == [expired |-> TRUE, download_count |-> 0]

MetadataTypeOK ==
  /\ metadata_map \in [Url -> Metadata]
  /\ written_metadata \in [Url -> Metadata]

MetadataInit ==
  /\ metadata_map = [u \in Url |-> NoMetadata]
  /\ written_metadata = metadata_map

-----------------------------------------------------------------------------
\* The code counts on; what it reports of a count has a bound too ("4+").
CountOneMore(u, n) == IF n < CountCap[u] THEN n + 1 ELSE n

IsExpired(u) == metadata_map[u].expired

\* expires_in is always positive: it is clamped when the list is parsed.
SetExpirationInterval(m, u) == [m EXCEPT ![u].expired = FALSE]

IncrementDownloadSuccessCount(m, u) ==
  [m EXCEPT ![u].download_count = CountOneMore(u, @)]

\* RemoveMetadata, for each URL of a set.
RemoveMetadata(m, urls) ==
  [u \in Url |-> IF u \in urls THEN NoMetadata ELSE m[u]]

\* The clock passes the expiration time of u, and the one written before
\* for u.  (If that is later, a crash before this step finds it to come.)
ExpirationTimePasses(u) ==
  /\ ~ metadata_map[u].expired
  /\ metadata_map' = [metadata_map EXCEPT ![u].expired = TRUE]
  /\ written_metadata' = [written_metadata EXCEPT ![u].expired = TRUE]

\* The preferences are written to disk.
MetadataWritten ==
  /\ written_metadata # metadata_map
  /\ written_metadata' = metadata_map
  /\ UNCHANGED metadata_map
=============================================================================
