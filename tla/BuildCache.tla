----------------------------- MODULE BuildCache -----------------------------
(***************************************************************************)
(* The dependency cache of the builds (components/deploy/cache.go,         *)
(* cache_api.go).  An entry is two files, the archive and its metadata;    *)
(* Cache.mu serialises the methods, so only a crash or a failing file      *)
(* operation shows one file without the other.  Deployments restore, save  *)
(* and evict; operators clear, prune, purge and change the size limit,     *)
(* which lives in the Cache and in a table row.                            *)
(***************************************************************************)
EXTENDS Naturals, FiniteSets, FiniteSetsExt

CONSTANTS
    Keys,           \* cache keys
    SiteOf,         \* the site of each key's repository
    Sizes,          \* sizes of archives
    Limits,         \* values an operator may give the limit
    DefaultLimit,   \* the limit of --build-cache-max-size
    Builds,         \* deployments that build at the same time
    Admins,         \* PUT /api/deploy/cache/config requests
    MaxSaves        \* bound: saves

ASSUME CacheFinite == IsFiniteSet(Keys)
ASSUME CacheNumbers == Sizes \cup Limits \cup {DefaultLimit} \subseteq Nat \ {0} /\ MaxSaves \in Nat

VARIABLES
    archive,        \* key.tar.gz: its size; 0 no file
    whole,          \* archives that were written to their end
    meta,           \* key.meta.json: the size it records and its age rank; size 0 no file
    maxBytes,       \* c.maxBytes
    limitRow,       \* deploy_cache_config; 0 no row
    build,          \* where each build is
    want,           \* the key of each build
    admin,          \* handleCacheConfig: the value persisted and not yet applied; 0 none
    saves,          \* bound: saves so far; also the clock of CreatedAt
    slack           \* auxiliary: the largest limit in force since an eviction ended, or
                    \* what a failed or interrupted eviction left behind

cacheFiles == <<archive, whole, meta>>
cacheVars == <<cacheFiles, maxBytes, limitRow, build, want, admin, saves, slack>>

NoMeta == [size |-> 0, created |-> 0]

CacheInit ==
    /\ archive = [k \in Keys |-> 0]
    /\ whole = {}
    /\ meta = [k \in Keys |-> NoMeta]
    /\ maxBytes = DefaultLimit
    /\ limitRow = 0
    /\ build = [b \in Builds |-> "idle"]
    /\ want \in [Builds -> Keys]
    /\ admin = [a \in Admins |-> 0]
    /\ saves = 0
    /\ slack = DefaultLimit

\* listEntries finds the metadata files, whatever the archives.
Listed == {k \in Keys : meta[k].size # 0}
\* The sum of the sizes of some entries, counted byte by byte.
SizeOf(ks) == Cardinality(UNION {{k} \X (1..meta[k].size) : k \in ks})

\* removeEntry of some keys; the archives of the stuck ones cannot be removed,
\* but their metadata goes all the same.
RemoveEntries(ks, stuck) ==
    /\ archive' = [k \in Keys |-> IF k \in ks \ stuck THEN 0 ELSE archive[k]]
    /\ whole' = whole \ (ks \ stuck)
    /\ meta' = [k \in Keys |-> IF k \in ks THEN NoMeta ELSE meta[k]]

\* The entries are removed oldest first, and the first failure ends the loop.
RemovalFails(ks) ==
    \E k \in ks :
        /\ archive[k] # 0
        /\ RemoveEntries({j \in ks : meta[j].created <= meta[k].created}, {k})

RemoveInTurn(ks) == RemoveEntries(ks, {}) \/ RemovalFails(ks)

----------------------------------------------------------------------------

\* Cache.Restore: a whole archive is a hit, a broken one an error, and then the
\* dependencies are installed and saved.
Restore(b) ==
    /\ build[b] = "idle" /\ saves < MaxSaves
    /\ build' = [build EXCEPT ![b] = IF archive[want[b]] # 0 /\ want[b] \in whole THEN "done" ELSE "install"]
    /\ UNCHANGED <<cacheFiles, maxBytes, limitRow, want, admin, saves, slack>>

\* Cache.Save: the archive is created in place of the old one and filled, then
\* the metadata is written.  The archive fails (and is removed), the metadata
\* fails, or the process dies in between.
Save(b) ==
    /\ build[b] = "install" /\ saves < MaxSaves
    /\ saves' = saves + 1
    /\ \E n \in Sizes :
        \/ /\ archive' = [archive EXCEPT ![want[b]] = n]
           /\ whole' = whole \cup {want[b]}
           /\ \/ /\ meta' = [meta EXCEPT ![want[b]] = [size |-> n, created |-> saves + 1]]
                 /\ build' = [build EXCEPT ![b] = "evict"]
              \/ /\ build' = [build EXCEPT ![b] = "done"]
                 /\ UNCHANGED meta
        \/ /\ archive' = [archive EXCEPT ![want[b]] = 0]
           /\ whole' = whole \ {want[b]}
           /\ build' = [build EXCEPT ![b] = "done"]
           /\ UNCHANGED meta
    /\ UNCHANGED <<maxBytes, limitRow, want, admin, slack>>

\* What Evict removes: the oldest entries, as many as it takes.
EvictedFirst(n) == {k \in Listed : Cardinality({j \in Listed : meta[j].created < meta[k].created}) < n}
EvictCount == CHOOSE n \in 0..Cardinality(Listed) :
                  /\ SizeOf(Listed \ EvictedFirst(n)) <= maxBytes
                  /\ \A m \in 0..(n - 1) : SizeOf(Listed \ EvictedFirst(m)) > maxBytes

Evict(b) ==
    /\ build[b] = "evict"
    /\ build' = [build EXCEPT ![b] = "done"]
    /\ \/ RemoveEntries(EvictedFirst(EvictCount), {}) /\ slack' = maxBytes
       \/ RemovalFails(EvictedFirst(EvictCount)) /\ slack' = SizeOf(Listed)
    /\ UNCHANGED <<maxBytes, limitRow, want, admin, saves>>

\* handleCache DELETE goes on after a failure; handleSiteCache DELETE and
\* handleCachePrune, for a site's entries or the older ones, do not.
Clear ==
    /\ Listed # {}
    /\ \E stuck \in SUBSET {k \in Listed : archive[k] # 0} : RemoveEntries(Listed, stuck)
    /\ UNCHANGED <<maxBytes, limitRow, build, want, admin, saves, slack>>

PurgeSite(site) ==
    /\ \E k \in Listed : SiteOf[k] = site
    /\ RemoveInTurn({k \in Listed : SiteOf[k] = site})
    /\ UNCHANGED <<maxBytes, limitRow, build, want, admin, saves, slack>>

Prune(cutoff) ==
    /\ \E k \in Listed : meta[k].created < cutoff
    /\ RemoveInTurn({k \in Listed : meta[k].created < cutoff})
    /\ UNCHANGED <<maxBytes, limitRow, build, want, admin, saves, slack>>

\* handleCacheConfig: the row first, then the limit in force.
PersistLimit(a, n) ==
    /\ admin[a] = 0
    /\ limitRow' = n
    /\ admin' = [admin EXCEPT ![a] = n]
    /\ UNCHANGED <<cacheFiles, maxBytes, build, want, saves, slack>>

SetMaxBytes(a) ==
    /\ admin[a] # 0
    /\ maxBytes' = admin[a]
    /\ slack' = Max({slack, admin[a]})
    /\ admin' = [admin EXCEPT ![a] = 0]
    /\ UNCHANGED <<cacheFiles, limitRow, build, want, saves>>

\* The process dies and starts again: builds and requests are gone, a save may be
\* cut between its files, and loadCacheConfig applies the row.
Restart ==
    /\ \/ UNCHANGED <<cacheFiles, saves>>
       \/ \E b \in Builds : \E n \in Sizes :
              /\ build[b] = "install" /\ saves < MaxSaves
              /\ saves' = saves + 1
              /\ archive' = [archive EXCEPT ![want[b]] = n]
              /\ \/ whole' = whole \ {want[b]}
                 \/ whole' = whole \cup {want[b]}
              /\ UNCHANGED meta
    /\ build' = [b \in Builds |-> "idle"]
    /\ admin' = [a \in Admins |-> 0]
    /\ maxBytes' = IF limitRow # 0 THEN limitRow ELSE DefaultLimit
    /\ slack' = Max({slack, maxBytes', SizeOf(Listed)})
    /\ UNCHANGED <<limitRow, want>>

CacheNext ==
    \/ \E b \in Builds : Restore(b) \/ Save(b) \/ Evict(b)
    \/ Clear
    \/ \E k \in Keys : PurgeSite(SiteOf[k])
    \/ \E cutoff \in 2..MaxSaves : Prune(cutoff)
    \/ \E a \in Admins : SetMaxBytes(a) \/ \E n \in Limits : PersistLimit(a, n)
    \/ Restart

CacheSpec == CacheInit /\ [][CacheNext]_cacheVars

----------------------------------------------------------------------------

\* The types of the variables.
CacheTypeOK ==
    /\ archive \in [Keys -> Nat]
    /\ whole \subseteq Keys
    /\ meta \in [Keys -> [size : Nat, created : Nat]]
    /\ maxBytes \in Nat \ {0} /\ limitRow \in Nat /\ slack \in Nat
    /\ build \in [Builds -> {"idle", "install", "evict", "done"}]
    /\ want \in [Builds -> Keys]
    /\ admin \in [Admins -> Nat]
    /\ saves \in Nat

\* Builds that save at the same time keep the cache within its limit: once every
\* save has been followed by its eviction, the listed entries fit the largest
\* limit in force since the last eviction, unless that one failed or died
\* (cache.go:154-180, engine.go:598-606).
CacheBounded ==
    (\A b \in Builds : build[b] # "evict") => SizeOf(Listed) <= slack

============================================================================
