---------------------------- MODULE DownloadCache ----------------------------
(***************************************************************************)
(* The download cache of internal/downloadcache as a value: its entries    *)
(* from the least to the most recently used.  Every entry counts as one    *)
(* unit of size.  The steps of a process that uses it are in               *)
(* ArtifactInstall.                                                        *)
(***************************************************************************)
EXTENDS Naturals, Sequences, SequencesExt

Urls(cache) == {cache[i].url : i \in DOMAIN cache}

Content(cache, u) == cache[CHOOSE i \in DOMAIN cache : cache[i].url = u].content

\* Remove: one entry, none if there is none.
Dropped(cache, u) == SelectSeq(cache, LAMBDA e : e.url # u)

\* Lookup of an entry makes it the most recently used.
Touched(cache, u) ==
    IF u \in Urls(cache)
    THEN Append(Dropped(cache, u), [url |-> u, content |-> Content(cache, u)])
    ELSE cache

\* Store replaces the entry in one rename: nobody sees half of it.
Stored(cache, u, content) == Append(Dropped(cache, u), [url |-> u, content |-> content])

\* evict works on a listing: what to remove, oldest first, and how much is there.
Listing(cache) == [names |-> [i \in DOMAIN cache |-> cache[i].url], total |-> Len(cache)]

Evicting(listing, limit) == listing.total > limit /\ listing.names # <<>>

\* An entry somebody else has removed meanwhile is skipped: its size stays in the total.
EvictedListing(cache, listing) ==
    [names |-> Tail(listing.names),
     total |-> IF Head(listing.names) \in Urls(cache) THEN listing.total - 1 ELSE listing.total]
==============================================================================
