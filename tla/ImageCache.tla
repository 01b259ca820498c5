---------------------------- MODULE ImageCache ----------------------------
(***************************************************************************)
(* The image cache of the proxy (internal/proxy/image_cache.go): a list in *)
(* the order of use, a map into it and the sum of the sizes, each call     *)
(* under one mutex.                                                        *)
(***************************************************************************)
EXTENDS Naturals, Sequences, SequencesExt

CONSTANTS
    Images,         \* keys: upstream and path
    Sizes,          \* lengths of the images upstreams send
    MaxBytes,       \* 200 MB
    MaxItemSize     \* 500 KB

ASSUME CacheAssumption ==
    /\ Sizes \subseteq Nat
    /\ MaxBytes \in Nat /\ MaxItemSize \in Nat /\ MaxItemSize <= MaxBytes

VARIABLES
    cacheList,      \* c.ll, last used first
    cached,         \* the sizes of the entries of c.items
    sizeBytes,      \* c.sizeBytes
    usage           \* history: the keys stored or hit, last first

cacheVars == <<cacheList, cached, sizeBytes, usage>>
ToFront(s, k) == <<k>> \o RemoveFirst(s, k)

CacheInit == cacheList = <<>> /\ cached = [k \in {} |-> 0] /\ sizeBytes = 0 /\ usage = <<>>

\* The sum of the sizes of the entries of a list.
SizeOf(list, size) ==
    LET sum[n \in 0 .. Len(list)] == IF n = 0 THEN 0 ELSE sum[n - 1] + size[list[n]]
    IN  sum[Len(list)]

\* A bug to catch: one entry is taken off the end, and no more.
EvictOne(list, size, total) ==
    IF total <= MaxBytes THEN Len(list) ELSE Len(list) - 1

\* evictIfNeeded: how many entries are left when the last ones are taken off
\* until the rest fits.
Evict(list, size, total) ==
    CHOOSE n \in 0 .. Len(list) :
        /\ n = 0 \/ total - SizeOf(SubSeq(list, n + 1, Len(list)), size) <= MaxBytes
        /\ \A m \in n + 1 .. Len(list) :
             total - SizeOf(SubSeq(list, m + 1, Len(list)), size) > MaxBytes

\* A bug to catch: a hit leaves the entry where it is.
GetImageInPlace(k) ==
    /\ k \in DOMAIN cached
    /\ usage' = ToFront(usage, k)
    /\ UNCHANGED <<cacheList, cached, sizeBytes>>

GetImage(k) ==
    /\ k \in DOMAIN cached
    /\ cacheList' = ToFront(cacheList, k) /\ usage' = ToFront(usage, k)
    /\ UNCHANGED <<cached, sizeBytes>>

\* A new entry, or a new body for an old one.
PutImage(k, size) ==
    /\ size <= MaxItemSize
    /\ LET list == ToFront(cacheList, k)
           sizes == [x \in DOMAIN cached \cup {k} |-> IF x = k THEN size ELSE cached[x]]
           total == sizeBytes + size - (IF k \in DOMAIN cached THEN cached[k] ELSE 0)
           n == Evict(list, sizes, total)
       IN  /\ cacheList' = SubSeq(list, 1, n)
           /\ cached' = [x \in ToSet(SubSeq(list, 1, n)) |-> sizes[x]]
           /\ sizeBytes' = total - SizeOf(SubSeq(list, n + 1, Len(list)), sizes)
           /\ usage' = ToFront(usage, k)

CacheNext ==
    \/ \E k \in Images : GetImage(k)
    \/ \E k \in Images, n \in Sizes : PutImage(k, n)

CacheSpec == CacheInit /\ [][CacheNext]_cacheVars

\* Replacing, hitting and evicting keep the list, the map and the sum in
\* step, and the sum within the limit.
CacheAccounts ==
    /\ ToSet(cacheList) = DOMAIN cached /\ IsInjective(cacheList)
    /\ sizeBytes = SizeOf(cacheList, cached) /\ sizeBytes <= MaxBytes

\* What is cached is what was used last: an entry is never evicted before
\* one that was used less recently.
CacheKeepsRecent == IsPrefix(cacheList, usage)
=============================================================================
