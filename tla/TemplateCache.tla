----------------------------- MODULE TemplateCache -----------------------------
(***************************************************************************)
(* The template cache of one export worker: the LRU cache of               *)
(* cache/template-cache.ts, the handler that loads through it              *)
(* (loadTemplateWithCache) and the pre-warming at start                    *)
(* (cache/pre-warm.ts), which runs beside the first jobs.                  *)
(*                                                                         *)
(* get, set and the file read between them are synchronous, so a job loads *)
(* its template in one step; pre-warming awaits the database before each   *)
(* file.  Times are ages in ticks, counted up to one tick past the TTL:    *)
(* older entries are expired, whatever their age.                          *)
(***************************************************************************)
EXTENDS Naturals, Sequences, FiniteSets, Subsequences

CONSTANTS
    TemplateVersions,       \* the keys of the cache
    Files,                  \* template files that jobs may ask for
    FileSize,               \* file -> its length
    MaxCapacity,            \* maxCapacity, entries
    MemoryLimit,            \* memoryLimitBytes
    Ttl,                    \* defaultTtlMs, in ticks
    Current                 \* age of a replacement that has not happened

VARIABLES
    entries,                \* the Map, in insertion order
    total,                  \* totalSizeBytes
    warming                 \* what preWarmTemplates has yet to load

cacheVars == <<entries, total, warming>>

ASSUME CapacityIsPositive == MaxCapacity \in Nat \ {0}
ASSUME SizesAreNat == FileSize \in [Files -> Nat] /\ MemoryLimit \in Nat
ASSUME TtlIsNat == Ttl \in Nat
ASSUME CurrentIsNoAge == Current \notin Nat

Ages == 0..(Ttl + 1)
Entry == [key : TemplateVersions, file : Files,
          age : Ages,       \* since set
          idle : Ages,      \* since lastAccessedAt
          outdated : Ages \cup {Current}]     \* history: since it was replaced

Older(age) == IF age > Ttl THEN age ELSE age + 1
Expired(e) == e.age > Ttl
Without(key, es) == Picked(es, {i \in DOMAIN es : es[i].key # key})
Unexpired(es) == Picked(es, {i \in DOMAIN es : ~Expired(es[i])})

SizeUpTo(es) ==
    LET sum[n \in 0..Len(es)] ==
            IF n = 0 THEN 0 ELSE sum[n - 1] + FileSize[es[n].file]
    IN sum
Sizes(es) == SizeUpTo(es)[Len(es)]
Cached(key) == {i \in DOMAIN entries : entries[i].key = key}

-----------------------------------------------------------------------------
(***************************************************************************)
(* evictIfNeeded drops what has expired and then the least recently used   *)
(* entries, the one inserted first among equals, until the new entry fits  *)
(* or nothing is left.                                                     *)
(***************************************************************************)
UsedRank(es, i) ==
    Cardinality({j \in DOMAIN es : \/ es[j].idle > es[i].idle
                                   \/ es[j].idle = es[i].idle /\ j <= i})

WithoutLru(es, n) == Picked(es, {i \in DOMAIN es : UsedRank(es, i) > n})

\* Mutant: the capacity is checked one entry too late.
FitsLate(es, size) ==
    Len(es) <= MaxCapacity /\ (es = <<>> \/ Sizes(es) + size <= MemoryLimit)

Fits(es, size) ==
    Len(es) < MaxCapacity /\ (es = <<>> \/ Sizes(es) + size <= MemoryLimit)

\* Mutant: the entries inserted first go first.
EvictFifo(es, size) ==
    LET live == Unexpired(es)
        after(n) == SubSeq(live, n + 1, Len(live))
        enough == {n \in 0..Len(live) : Fits(after(n), size)}
    IN after(CHOOSE n \in enough : \A m \in enough : n <= m)

Evict(es, size) ==
    LET live == Unexpired(es)
        enough == {n \in 0..Len(live) : Fits(WithoutLru(live, n), size)}
    IN WithoutLru(live, CHOOSE n \in enough : \A m \in enough : n <= m)

\* Mutant: what is evicted is taken off twice.
TotalEvictedTwice(key, size, rest) ==
    total - Sizes(entries) + Sizes(rest) + size
          - (Sizes(Without(key, entries)) - Sizes(rest))

\* Mutant: the size of a replaced entry is not taken off.
TotalKeepingReplaced(key, size, rest) ==
    total - Sizes(Without(key, entries)) + Sizes(rest) + size

\* removeEntry takes the size of everything that left off the total.
TotalAfterSet(key, size, rest) == total - Sizes(entries) + Sizes(rest) + size

Set(key, file) ==
    LET rest == Evict(Without(key, entries), FileSize[file]) IN
    /\ entries' = Append(rest, [key |-> key, file |-> file, age |-> 0,
                                idle |-> 0, outdated |-> Current])
    /\ total' = TotalAfterSet(key, FileSize[file], rest)

-----------------------------------------------------------------------------
(***************************************************************************)
(* A job loads the template of its version: whatever file is cached under  *)
(* the version, or else the file its own style names.                      *)
(***************************************************************************)

\* Mutant: a hit prolongs the entry.
HitProlonging(e) == [e EXCEPT !.idle = 0, !.age = 0]

Hit(e) == [e EXCEPT !.idle = 0]

LoadFromCache(key) ==
    /\ \E i \in Cached(key) :
          /\ ~Expired(entries[i])
          /\ entries' = [entries EXCEPT ![i] = Hit(@)]
    /\ UNCHANGED <<total, warming>>

\* Nothing cached, or expired: get removes the entry and set adds the new one.
LoadFromFile(key, file) ==
    /\ \A i \in Cached(key) : Expired(entries[i])
    /\ Set(key, file)
    /\ UNCHANGED warming

\* invalidateTemplateCache and has on an expired entry remove it.
Invalidate(key) ==
    /\ Cached(key) # {}
    /\ entries' = Without(key, entries)
    /\ total' = total - Sizes(entries) + Sizes(entries')
    /\ UNCHANGED warming

Clear ==
    /\ entries' = <<>>
    /\ total' = 0
    /\ UNCHANGED warming

(***************************************************************************)
(* preWarmTemplates: the most exported versions one after the other, each  *)
(* with the file of its tenant's newest style, read from the database      *)
(* before the file itself, or the default file.                            *)
(***************************************************************************)
Asleep == [at |-> "done"]

FindTopTemplates ==
    /\ warming.at = "find"
    /\ \E found \in SUBSET TemplateVersions :
          warming' = [at |-> "next", left |-> found]
    /\ UNCHANGED <<entries, total>>

ReadNewestStyle ==
    /\ warming.at = "next"
    /\ \E key \in warming.left, file \in Files :
          warming' = [at |-> "load", left |-> warming.left \ {key},
                      key |-> key, file |-> file]
    /\ UNCHANGED <<entries, total>>

StoreWarm ==
    /\ warming.at = "load"
    /\ Set(warming.key, warming.file)
    /\ warming' = [at |-> "next", left |-> warming.left]

\* No row, no file, a failing query: the template is skipped.
SkipWarm ==
    /\ warming.at = "load"
    /\ warming' = [at |-> "next", left |-> warming.left]
    /\ UNCHANGED <<entries, total>>

\* Nothing left, or the first query failed.
EndWarming ==
    /\ \/ warming.at = "find"
       \/ warming.at = "next" /\ warming.left = {}
    /\ warming' = Asleep
    /\ UNCHANGED <<entries, total>>

-----------------------------------------------------------------------------
\* A file is replaced on disk, which nothing tells the cache.
ReplaceFile(file) ==
    /\ entries' = [i \in DOMAIN entries |->
                      IF entries[i].file = file /\ entries[i].outdated = Current
                      THEN [entries[i] EXCEPT !.outdated = 0] ELSE entries[i]]
    /\ UNCHANGED <<total, warming>>

CacheTick ==
    entries' = [i \in DOMAIN entries |->
        [entries[i] EXCEPT !.age = Older(@), !.idle = Older(@),
                           !.outdated = IF @ = Current THEN @ ELSE Older(@)]]

CacheInit ==
    /\ entries = <<>>
    /\ total = 0
    /\ warming = [at |-> "find"]

CacheNext ==
    \/ \E key \in TemplateVersions :
          \/ LoadFromCache(key) \/ Invalidate(key)
          \/ \E file \in Files : LoadFromFile(key, file)
    \/ FindTopTemplates \/ ReadNewestStyle \/ StoreWarm \/ SkipWarm
    \/ EndWarming
    \/ \E file \in Files : ReplaceFile(file)

-----------------------------------------------------------------------------
(***************************************************************************)
(* Properties                                                              *)
(***************************************************************************)

\* The variables have the types of the Map and its counters.
CacheTypeOK ==
    /\ entries \in Seq(Entry)
    /\ total \in Nat
    /\ warming \in {Asleep, [at |-> "find"]}
          \cup [at : {"next"}, left : SUBSET TemplateVersions]
          \cup [at : {"load"}, left : SUBSET TemplateVersions,
                key : TemplateVersions, file : Files]

\* The counter that decides about evictions does not drift from what is
\* cached, through replacements, expiry, evictions and clearing
\* (totalSizeBytes in set, removeEntry and clear).
SizeIsSum == total = Sizes(entries)

\* However jobs and pre-warming mix, the Map has one entry per version and no
\* more than the capacity, and it exceeds the memory limit only by a single
\* file that is larger than the limit itself (set stores it all the same).
WithinLimits ==
    /\ \A i, j \in DOMAIN entries : entries[i].key = entries[j].key => i = j
    /\ Len(entries) <= MaxCapacity
    /\ total <= MemoryLimit \/ Len(entries) = 1

\* A file that is replaced on disk is handed out for at most one TTL more,
\* however often it is used meanwhile (get does not prolong an entry).
StaleForOneTtl ==
    \A i \in DOMAIN entries :
        Expired(entries[i]) \/ entries[i].outdated \in 0..Ttl \cup {Current}

\* To make room for a new entry, set never drops an unexpired entry that was
\* used after one it keeps (evictLru).
EvictsLeastRecent ==
    [][entries' # <<>> =>
        LET new == entries'[Len(entries')] IN
        Set(new.key, new.file) =>
            \A i, j \in DOMAIN entries :
                /\ entries[i].key # new.key /\ ~Expired(entries[i])
                /\ \A k \in DOMAIN entries' : entries'[k].key # entries[i].key
                /\ \E k \in DOMAIN entries' : /\ entries[j].key # new.key
                                              /\ entries'[k] = entries[j]
                => entries[i].idle >= entries[j].idle]_cacheVars

\* The size that decides about evictions is that of what is cached, one entry
\* per version within capacity and memory limit, and a replaced file is used
\* for at most one TTL more, however jobs, pre-warming and expiry mix.
CacheIsSound == CacheTypeOK /\ SizeIsSum /\ WithinLimits /\ StaleForOneTtl
=============================================================================
