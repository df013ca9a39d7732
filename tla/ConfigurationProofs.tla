------------------------ MODULE ConfigurationProofs ------------------------
(***************************************************************************)
(* Proofs about Configuration, for any number of configurations, versions, *)
(* refresh intervals, clock and deaths.                                    *)
(***************************************************************************)
EXTENDS Configuration, FiniteSetTheorems, WellFoundedInduction, TLAPS

-----------------------------------------------------------------------------
(* Smallest and largest numbers *)

\* A nonempty set of natural numbers has a least element.
LEMMA Least ==
    ASSUME NEW T \in SUBSET Nat, T # {}
    PROVE  \E n \in T : \A m \in T : n <= m
<1>1. \E x \in T : \A y \in T : <<y, x>> \notin OpToRel(<, Nat)
  BY NatLessThanWellFounded, WFMin, Zenon
<1>2. \A x, y \in Nat : x < y => <<x, y>> \in OpToRel(<, Nat)
  BY Zenon DEF OpToRel
<1>3. \E x \in T : \A y \in T : ~(y < x)
  BY <1>1, <1>2, Zenon
<1> QED BY <1>3

\* std::min of two numbers, as the model writes it.
LEMMA MinOfTwo ==
    ASSUME NEW a \in Nat, NEW b \in Nat
    PROVE  Min({a, b}) \in {a, b} /\ Min({a, b}) <= a /\ Min({a, b}) <= b
<1>1. \E x \in {a, b} : \A y \in {a, b} : x =< y
  OBVIOUS
<1> QED BY <1>1 DEF Min

\* The server's longest refresh interval is one of its refresh intervals.
LEMMA LongestRefresh ==
    Max(Refresh) \in Refresh /\ Max(Refresh) \in Nat /\ \A r \in Refresh : r <= Max(Refresh)
<1>1. PICK n \in Nat : ExistsSurjection(1..n, Refresh)
  BY ConfigAssumption, FS_NatSurjection
<1>2. PICK f \in Surjection(1..n, Refresh) : TRUE
  BY <1>1 DEF ExistsSurjection
<1>3. f \in [1..n -> Refresh] /\ \A r \in Refresh : \E k \in 1..n : f[k] = r
  BY <1>2 DEF Surjection
<1>4. \A k \in 1..n : f[k] \in Nat
  BY <1>3, ConfigAssumption
<1>5. n > 0
  <2>1. PICK r : r \in Refresh
    BY ConfigAssumption, Zenon
  <2>2. PICK k \in 1..n : f[k] = r
    BY <2>1, <1>3
  <2> QED BY <2>2
<1> DEFINE Top(k, m) == \A j \in 1..k : f[j] <= f[m]
           T == {k \in 1..n : ~ \E m \in 1..k : Top(k, m)}
<1>6. T = {}
  <2> SUFFICES ASSUME T # {} PROVE FALSE
    OBVIOUS
  <2>0. T \in SUBSET Nat
    OBVIOUS
  <2> HIDE DEF T
  <2>1. PICK k \in T : \A m \in T : k <= m
    BY Least, <2>0
  <2>2. k \in 1..n /\ ~ \E m \in 1..k : Top(k, m)
    BY <2>1 DEF T
  <2>3. k # 1
    <3> SUFFICES ASSUME k = 1 PROVE FALSE
      OBVIOUS
    <3>1. Top(1, 1)
      BY <1>4, <1>5
    <3> QED BY <3>1, <2>2
  <2>4. k - 1 \in 1..n /\ ~(k <= k - 1)
    BY <2>2, <2>3
  <2>5. k - 1 \notin T
    BY <2>1, <2>4
  <2>6. PICK m \in 1..(k - 1) : Top(k - 1, m)
    BY <2>4, <2>5 DEF T
  <2>7a. m \in 1..n /\ m \in 1..k /\ k \in 1..k
    BY <2>2, <2>4, <2>6
  <2>7. m \in 1..n /\ m \in 1..k /\ k \in 1..k /\ f[m] \in Nat /\ f[k] \in Nat
    BY <2>2, <2>7a, <1>4
  <2>8. \A j \in 1..k : j = k \/ (j \in 1..(k - 1) /\ j \in 1..n)
    BY <2>2
  <2>9. CASE f[k] <= f[m]
    <3>1. Top(k, m)
      BY <2>6, <2>8, <2>9
    <3> QED BY <3>1, <2>2, <2>7
  <2>10. CASE f[m] < f[k]
    <3>1. Top(k, k)
      <4> SUFFICES ASSUME NEW j \in 1..k PROVE f[j] <= f[k]
        OBVIOUS
      <4>1. CASE j = k
        BY <4>1, <2>7
      <4>2. CASE j \in 1..(k - 1) /\ j \in 1..n
        BY <4>2, <2>6, <2>7, <2>10, <1>4
      <4> QED BY <4>1, <4>2, <2>8
    <3> QED BY <3>1, <2>2, <2>7
  <2> QED BY <2>7, <2>9, <2>10
<1>7. n \notin T
  BY <1>6
<1>8. PICK m \in 1..n : Top(n, m)
  BY <1>7, <1>5
<1>9. \A r \in Refresh : f[m] >= r
  BY <1>8, <1>3, <1>4
<1>10. \E x \in Refresh : \A y \in Refresh : x >= y
  BY <1>9, <1>3
<1> QED BY <1>10, ConfigAssumption DEF Max

\* The back-off is at least two seconds.
LEMMA BackoffIsTwoSeconds ==
    ASSUME NEW a \in Nat
    PROVE  backoff(a) \in Nat /\ backoff(a) >= 2
<1> DEFINE k == Min({a + 1, BackoffCap})
<1>1. k \in 1..8
  BY MinOfTwo, ConfigAssumption
<1>2. 2^1 = 2 /\ 2^2 = 4 /\ 2^3 = 8 /\ 2^4 = 16 /\ 2^5 = 32 /\ 2^6 = 64 /\ 2^7 = 128 /\ 2^8 = 256
  OBVIOUS
<1> HIDE DEF k
<1>3. k = 1 \/ k = 2 \/ k = 3 \/ k = 4 \/ k = 5 \/ k = 6 \/ k = 7 \/ k = 8
  BY <1>1
<1>4. 2^k \in Nat /\ 2^k >= 2
  <2>1. CASE k = 1  BY <2>1, <1>2
  <2>2. CASE k = 2  BY <2>2, <1>2
  <2>3. CASE k = 3  BY <2>3, <1>2
  <2>4. CASE k = 4  BY <2>4, <1>2
  <2>5. CASE k = 5  BY <2>5, <1>2
  <2>6. CASE k = 6  BY <2>6, <1>2
  <2>7. CASE k = 7  BY <2>7, <1>2
  <2>8. CASE k = 8  BY <2>8, <1>2
  <2> QED BY <1>3, <2>1, <2>2, <2>3, <2>4, <2>5, <2>6, <2>7, <2>8
<1> QED BY <1>4 DEF backoff, k

-----------------------------------------------------------------------------
(* Types *)

Versions == (0..MaxVersion) \cup {None}
Entry    == [expires : Nat, refresh : Refresh \cup {0}, version : Versions]
Config   == [downloadMinRetryTime : Nat, downloadAttempt : Nat, downloaded : BOOLEAN,
             expires : Nat, version : Versions]

\* Entries of the cache, by configuration.
Entries(e) == DOMAIN e \subseteq Ids /\ \A i \in DOMAIN e : e[i] \in Entry

\* What every variable but until, limits and failedAt may be.
Types ==
    /\ now \in Nat /\ version \in [Ids -> 0..MaxVersion]
    /\ config \in [Ids -> Config]
    /\ Entries(data) /\ Entries(disk.entries)
    /\ pc \in {"down", "terminated", "test", "response", "store", "write", "callbacks", "idle"}
    /\ current \in Ids
    /\ requestStart \in Nat /\ requestStart <= now
    /\ downloadedAnything \in BOOLEAN

\* What a cached entry makes of a configuration.
LEMMA Imported ==
    ASSUME NEW c \in Config, NEW e \in Entry
    PROVE  /\ importCached(c, e) \in Config
           /\ [importCached(c, e) EXCEPT !.downloadAttempt = 0] \in Config
           /\ \A d \in {importCached(c, e),
                        [importCached(c, e) EXCEPT !.downloadAttempt = 0]} :
                 /\ d.downloaded = TRUE
                 /\ d.expires = e.expires
                 /\ d.version = e.version
                 /\ d.downloadMinRetryTime = c.downloadMinRetryTime
BY DEF importCached, Config, Entry

\* Whatever FileConfigurationCache::load makes of the file, cut off or not, its entries are
\* entries of the file, or lack their expiry and refresh interval.
LEMMA Loaded ==
    ASSUME Entries(disk.entries), NEW e \in load
    PROVE  /\ Entries(e)
           /\ \A i \in DOMAIN e :
                 /\ i \in DOMAIN disk.entries
                 /\ e[i].version = disk.entries[i].version
                 /\ e[i].expires \in {disk.entries[i].expires, 0}
<1> DEFINE D == disk.entries
<1>1. CASE e = D
  BY <1>1 DEF Entries
<1>2. CASE \E ids \in SUBSET DOMAIN D : e = Restrict(D, ids)
  <2>1. PICK ids \in SUBSET DOMAIN D : e = Restrict(D, ids)
    BY <1>2
  <2>2. DOMAIN e = ids /\ \A i \in ids : e[i] = D[i]
    BY <2>1 DEF Restrict
  <2> QED BY <2>2 DEF Entries
<1>3. CASE \E ids \in SUBSET DOMAIN D : \E j \in DOMAIN D \ ids :
              e = Put(Restrict(D, ids), j, CutEntry(D[j]))
  <2>0. PICK ids \in SUBSET DOMAIN D : \E j \in DOMAIN D \ ids :
           e = Put(Restrict(D, ids), j, CutEntry(D[j]))
    BY <1>3
  <2>1. PICK j \in DOMAIN D \ ids : e = Put(Restrict(D, ids), j, CutEntry(D[j]))
    BY <2>0
  <2>2. DOMAIN e = ids \cup {j} /\ e[j] = CutEntry(D[j]) /\ \A i \in ids : e[i] = D[i]
    BY <2>1 DEF Restrict, Put
  <2>3. D[j] \in Entry /\ CutEntry(D[j]) \in Entry /\ CutEntry(D[j]).version = D[j].version
           /\ CutEntry(D[j]).expires = 0
    BY DEF Entries, Entry, CutEntry
  <2> QED BY <2>2, <2>3 DEF Entries
<1>4. (e = D) \/ \E ids \in SUBSET DOMAIN D :
         \/ e = Restrict(D, ids)
         \/ \E j \in DOMAIN D \ ids : e = Put(Restrict(D, ids), j, CutEntry(D[j]))
  BY DEF load
<1> QED BY <1>1, <1>2, <1>3, <1>4

\* A configuration that was just loaded is as it is in the cache, or new.
LEMMA LoadedConfigs ==
    ASSUME NEW e, Entries(e)
    PROVE  /\ loadCachedConfigs(e) \in [Ids -> Config]
           /\ \A i \in Ids :
                 LET c == loadCachedConfigs(e)[i]
                 IN  \/ c.downloaded = FALSE
                     \/ i \in DOMAIN e /\ c.version = e[i].version /\ c.expires = e[i].expires
<1>1. NewConfig \in Config /\ NewConfig.downloaded = FALSE
  BY DEF NewConfig, Config, Versions
<1>2. \A i \in DOMAIN e : /\ importCached(NewConfig, e[i]) \in Config
                          /\ importCached(NewConfig, e[i]).version = e[i].version
                          /\ importCached(NewConfig, e[i]).expires = e[i].expires
  BY <1>1, Imported DEF Entries
<1> QED BY <1>1, <1>2 DEF loadCachedConfigs

\* An entry that is put into the cache.
LEMMA PutEntry ==
    ASSUME NEW d, Entries(d), NEW i \in Ids, NEW e \in Entry
    PROVE  /\ Entries(Put(d, i, e))
           /\ Put(d, i, e)[i] = e
           /\ \A j \in DOMAIN Put(d, i, e) : j = i \/ (j \in DOMAIN d /\ Put(d, i, e)[j] = d[j])
BY DEF Put, Entries

\* downloadConfigs goes on.
LEMMA NextConfigTypes ==
    ASSUME Types, NEW any \in BOOLEAN, NextConfig(any)
    PROVE  /\ pc' \in {"test", "callbacks"} /\ current' \in Ids
           /\ requestStart' = 0 /\ downloadedAnything' = any
BY ConfigAssumption DEF Types, NextConfig, Ids

\* The variables have their types at the start.
LEMMA TypesInit == Init => Types
<1>1. NewConfig \in Config
  BY DEF NewConfig, Config, Versions
<1>2. Entries(<<>>)
  BY DEF Entries
<1>3. 1 \in Ids
  BY ConfigAssumption DEF Ids
<1> SUFFICES ASSUME Init PROVE Types
  OBVIOUS
<1>4. version \in [Ids -> 0..MaxVersion]
  BY ConfigAssumption DEF Init
<1>5. config \in [Ids -> Config]
  BY <1>1 DEF Init
<1>6. Entries(data) /\ Entries(disk.entries)
  BY <1>2 DEF Init
<1>7. now \in Nat /\ requestStart \in Nat /\ requestStart <= now
  BY DEF Init
<1>8. pc = "down" /\ current \in Ids /\ downloadedAnything = FALSE
  BY <1>3 DEF Init
<1> QED BY <1>4, <1>5, <1>6, <1>7, <1>8 DEF Types

\* A death leaves the clock, the server and the file.
LEMMA DieTypes ==
    ASSUME Types, NEW how \in {"down", "terminated"}, Die(how)
    PROVE  Types'
<1>1. NewConfig \in Config
  BY DEF NewConfig, Config, Versions
<1>2. Entries(<<>>)
  BY DEF Entries
<1>3. 1 \in Ids
  BY ConfigAssumption DEF Ids
<1>4. config' \in [Ids -> Config]
  BY <1>1 DEF Die
<1>5. Entries(data') /\ Entries(disk'.entries)
  BY <1>2 DEF Die, Types
<1>7. now' \in Nat /\ requestStart' \in Nat /\ requestStart' <= now'
  BY DEF Die, Types, world
<1>8. pc' \in {"down", "terminated"} /\ current' \in Ids /\ downloadedAnything' = FALSE
  BY <1>3 DEF Die
<1>9. version' = version
  BY DEF Die, world
<1> QED BY <1>4, <1>5, <1>7, <1>8, <1>9 DEF Types, Entries

\* What a 304 does, or what is taken for one.
LEMMA RevalidateTypes ==
    ASSUME Types, Revalidate
    PROVE  /\ config' \in [Ids -> Config] /\ Entries(data') /\ pc' = "store"
           /\ UNCHANGED <<disk, limits, locals, deaths>>
<1>1. PICK refresh \in Refresh \cup {0} : \E v \in Versions :
         LET entry == [expires |-> requestStart + refresh, refresh |-> refresh, version |-> v]
         IN  /\ config' = [config EXCEPT ![current] = importCached(@, entry)]
             /\ data' = Put(data, current, entry)
  BY DEF Types, Revalidate, Cached, Entries, Entry, Versions
<1>2. PICK entry \in Entry : /\ config' = [config EXCEPT ![current] = importCached(@, entry)]
                             /\ data' = Put(data, current, entry)
  <2>1. PICK v \in Versions :
           LET entry == [expires |-> requestStart + refresh, refresh |-> refresh, version |-> v]
           IN  /\ config' = [config EXCEPT ![current] = importCached(@, entry)]
               /\ data' = Put(data, current, entry)
    BY <1>1
  <2>2. requestStart + refresh \in Nat
    BY ConfigAssumption DEF Types
  <2>3. [expires |-> requestStart + refresh, refresh |-> refresh, version |-> v] \in Entry
    BY <2>2 DEF Entry
  <2> QED BY <2>1, <2>3
<1>3. importCached(config[current], entry) \in Config
  BY <1>2, Imported DEF Types
<1>4. Entries(data')
  BY <1>2, PutEntry DEF Types
<1> QED BY <1>2, <1>3, <1>4 DEF Types, Revalidate

\* What another status does, or what is taken for one.
LEMMA PostponeTypes ==
    ASSUME Types, Postpone
    PROVE  /\ config' \in [Ids -> Config]
           /\ pc' \in {"test", "callbacks"} /\ current' \in Ids
           /\ requestStart' = 0 /\ downloadedAnything' = downloadedAnything
           /\ UNCHANGED <<data, disk, limits, deaths>>
           /\ config'[current].downloadMinRetryTime >= requestStart + 2
           /\ \A i \in Ids : /\ config'[i].version = config[i].version
                             /\ config'[i].expires = config[i].expires
                             /\ config'[i].downloaded = config[i].downloaded
           /\ \A i \in Ids \ {current} : config'[i] = config[i]
<1> DEFINE c == config[current]
           a == Min({c.downloadAttempt + 1, BackoffCap})
           d == [c EXCEPT !.downloadAttempt = a, !.downloadMinRetryTime = requestStart + backoff(a)]
<1>1. c \in Config /\ c.downloadAttempt \in Nat /\ requestStart \in Nat
  BY DEF Types, Config
<1>2. a \in Nat
  BY <1>1, MinOfTwo, ConfigAssumption
<1>3. backoff(a) \in Nat /\ backoff(a) >= 2
  BY <1>2, BackoffIsTwoSeconds
<1>3a. requestStart + backoff(a) \in Nat /\ requestStart + backoff(a) >= requestStart + 2
  BY <1>1, <1>3
<1> HIDE DEF a
<1>4. /\ d \in Config /\ d.downloadMinRetryTime >= requestStart + 2
      /\ d.version = c.version /\ d.expires = c.expires /\ d.downloaded = c.downloaded
  BY <1>1, <1>2, <1>3a DEF Config
<1>5. config' = [config EXCEPT ![current] = d]
  BY DEF Postpone, a
<1>6. NextConfig(downloadedAnything) /\ UNCHANGED <<data, disk, limits, deaths>>
  BY DEF Postpone
<1> HIDE DEF d
<1>7. config \in [Ids -> Config] /\ current \in Ids /\ downloadedAnything \in BOOLEAN
  BY DEF Types
<1> QED BY <1>4, <1>5, <1>6, <1>7, NextConfigTypes

\* What a 200 does to the variables.
LEMMA ReceivedTypes ==
    ASSUME Types, NEW refresh \in Refresh, received(refresh)
    PROVE  /\ config' \in [Ids -> Config] /\ Entries(data') /\ pc' = "store"
           /\ UNCHANGED <<world, disk, limits, locals, deaths>>
           /\ config'[current].version = version[current]
           /\ config'[current].expires = requestStart + refresh
           /\ \A i \in Ids \ {current} : config'[i] = config[i]
           /\ \A i \in Ids : config'[i].downloadMinRetryTime = config[i].downloadMinRetryTime
           /\ data'[current].version = version[current]
           /\ data'[current].expires = requestStart + refresh
           /\ \A i \in DOMAIN data' : i = current \/ (i \in DOMAIN data /\ data'[i] = data[i])
<1> DEFINE entry == [expires |-> requestStart + refresh, refresh |-> refresh,
                     version |-> version[current]]
<1>1. requestStart + refresh \in Nat /\ version[current] \in Versions
  BY ConfigAssumption DEF Types, Versions
<1>2. entry \in Entry /\ entry.version = version[current]
         /\ entry.expires = requestStart + refresh
  BY <1>1 DEF Entry
<1>3. /\ config' = [config EXCEPT ![current] =
                       [importCached(config[current], entry) EXCEPT !.downloadAttempt = 0]]
      /\ data' = Put(data, current, entry)
      /\ pc' = "store" /\ UNCHANGED <<world, disk, limits, locals, deaths>>
  BY DEF received
<1> HIDE DEF entry
<1>4. config[current] \in Config /\ config \in [Ids -> Config] /\ current \in Ids /\ Entries(data)
  BY DEF Types
<1> DEFINE d == [importCached(config[current], entry) EXCEPT !.downloadAttempt = 0]
<1>5. /\ d \in Config /\ d.version = entry.version /\ d.expires = entry.expires
      /\ d.downloadMinRetryTime = config[current].downloadMinRetryTime
  BY <1>2, <1>4, Imported
<1> HIDE DEF d
<1>6. config' = [config EXCEPT ![current] = d]
  BY <1>3 DEF d
<1>7. /\ Entries(data') /\ data'[current] = entry
      /\ \A i \in DOMAIN data' : i = current \/ (i \in DOMAIN data /\ data'[i] = data[i])
  BY <1>2, <1>3, <1>4, PutEntry
<1> QED BY <1>2, <1>3, <1>4, <1>5, <1>6, <1>7

\* What download does without a request.
LEMMA SkipTypes ==
    ASSUME Types, skipDownload
    PROVE  /\ config' \in [Ids -> Config]
           /\ pc' \in {"test", "callbacks"} /\ current' \in Ids
           /\ requestStart' = 0 /\ downloadedAnything' \in BOOLEAN
           /\ UNCHANGED <<world, data, disk, limits, failedAt, deaths>>
           /\ \/ config' = config /\ downloadedAnything' = downloadedAnything
              \/ /\ downloadedAnything' = TRUE
                 /\ current \in DOMAIN data
                 /\ config'[current].version = data[current].version
                 /\ config'[current].expires = data[current].expires
                 /\ \A i \in Ids \ {current} : config'[i] = config[i]
           /\ \A i \in Ids : config'[i].downloadMinRetryTime = config[i].downloadMinRetryTime
<1> DEFINE hit == tryDownload(current) /\ freshlyCached(current)
           d   == [importCached(config[current], data[current]) EXCEPT !.downloadAttempt = 0]
<1>1. /\ config' = IF hit THEN [config EXCEPT ![current] = d] ELSE config
      /\ NextConfig(hit \/ downloadedAnything)
      /\ UNCHANGED <<world, data, disk, limits, failedAt, deaths>>
  BY DEF skipDownload
<1>2. hit => current \in DOMAIN data
  BY DEF freshlyCached, Cached
<1>3. hit \in BOOLEAN
  BY DEF tryDownload
<1> HIDE DEF hit, d
<1>4. config \in [Ids -> Config] /\ current \in Ids /\ downloadedAnything \in BOOLEAN
  BY DEF Types
<1>5. (hit \/ downloadedAnything) \in BOOLEAN
  BY <1>3, <1>4
<1>6. /\ pc' \in {"test", "callbacks"} /\ current' \in Ids
      /\ requestStart' = 0 /\ downloadedAnything' = (hit \/ downloadedAnything)
  BY <1>1, <1>5, NextConfigTypes
<1>7. CASE hit
  <2>1. data[current] \in Entry /\ current \in DOMAIN data
    BY <1>2, <1>7 DEF Types, Entries
  <2>2. /\ d \in Config /\ d.version = data[current].version /\ d.expires = data[current].expires
        /\ d.downloadMinRetryTime = config[current].downloadMinRetryTime
    BY <2>1, <1>4, Imported DEF d
  <2>3. downloadedAnything' = TRUE
    BY <1>6, <1>7
  <2>4. config' = [config EXCEPT ![current] = d]
    BY <1>1, <1>7
  <2> QED BY <2>1, <2>2, <2>3, <2>4, <1>1, <1>4, <1>6
<1>8. CASE ~hit
  <2>1. downloadedAnything' = downloadedAnything
    BY <1>6, <1>8, <1>4
  <2>2. config' = config
    BY <1>1, <1>8
  <2> QED BY <2>1, <2>2, <1>1, <1>4, <1>6
<1> QED BY <1>7, <1>8

\* Every step keeps the types.
LEMMA TypesStep == Types /\ [Next]_vars => Types'
<1> SUFFICES ASSUME Types, [Next]_vars PROVE Types'
  OBVIOUS
<1>1. CASE tick
  BY <1>1 DEF tick, Types, locals, Entries
<1>2. ASSUME NEW i \in Ids, publish(i) PROVE Types'
  <2>1. version' \in [Ids -> 0..MaxVersion]
    BY <1>2, ConfigAssumption DEF publish, Types
  <2> QED BY <2>1, <1>2 DEF publish, Types, locals, Entries
<1>3. CASE construct
  <2>1. PICK e \in load : data' = e /\ config' = loadCachedConfigs(e)
    BY <1>3 DEF construct
  <2>2. Entries(data') /\ config' \in [Ids -> Config]
    BY <2>1, Loaded, LoadedConfigs DEF Types
  <2>3. Entries(disk'.entries)
    BY <1>3 DEF construct, Types
  <2>4. 1 \in Ids
    BY ConfigAssumption DEF Ids
  <2> QED BY <2>2, <2>3, <2>4, <1>3 DEF construct, Types, world, Entries
<1>4. CASE die
  BY <1>4, DieTypes DEF die
<1>5. CASE updateConfigIfNeeded
  <2>1. 1 \in Ids
    BY ConfigAssumption DEF Ids
  <2> QED BY <2>1, <1>5 DEF updateConfigIfNeeded, Types, world, Entries
<1>6. CASE skipDownload
  <2>1. /\ config' \in [Ids -> Config]
        /\ pc' \in {"test", "callbacks"} /\ current' \in Ids
        /\ requestStart' = 0 /\ downloadedAnything' \in BOOLEAN
        /\ UNCHANGED <<world, data, disk>>
    BY <1>6, SkipTypes
  <2> QED BY <2>1 DEF Types, world, Entries
<1>7. CASE request
  BY <1>7 DEF request, Types, world, Entries
<1>8. ASSUME NEW refresh \in Refresh, received(refresh) PROVE Types'
  BY <1>8, ReceivedTypes DEF Types, world, locals, Entries
<1>9. CASE notModified
  BY <1>9, RevalidateTypes DEF notModified, Types, world, locals, Entries
<1>10. CASE invalidJson
  BY <1>10, DieTypes DEF invalidJson, asIntThrows
<1>11. CASE rejected
  BY <1>11, PostponeTypes DEF rejected, Types, world, Entries
<1>12. CASE httpError
  <2>1. CASE Postpone
    BY <1>12, <2>1, PostponeTypes DEF httpError, Types, world, Entries
  <2>2. CASE Revalidate
    BY <1>12, <2>2, RevalidateTypes DEF httpError, Types, world, locals, Entries
  <2>3. CASE asIntThrows
    BY <2>3, DieTypes DEF asIntThrows
  <2> QED BY <1>12, <2>1, <2>2, <2>3 DEF httpError
<1>13. CASE truncate
  <2>1. CASE disk' = [entries |-> data, torn |-> TRUE] /\ pc' = "write" /\ UNCHANGED locals
    BY <1>13, <2>1 DEF truncate, Types, world, locals, Entries
  <2>2. CASE NextConfig(TRUE) /\ UNCHANGED disk
    <3>1. /\ pc' \in {"test", "callbacks"} /\ current' \in Ids
          /\ requestStart' = 0 /\ downloadedAnything' = TRUE
      BY <2>2, NextConfigTypes
    <3> QED BY <3>1, <1>13, <2>2 DEF truncate, Types, world, Entries
  <2> QED BY <1>13, <2>1, <2>2 DEF truncate
<1>14. CASE write
  <2>1. /\ pc' \in {"test", "callbacks"} /\ current' \in Ids
        /\ requestStart' = 0 /\ downloadedAnything' = TRUE
    BY <1>14, NextConfigTypes DEF write
  <2> QED BY <2>1, <1>14 DEF write, Types, world, Entries
<1>15. CASE callbacks
  BY <1>15 DEF callbacks, Types, world, locals, Entries
<1>16. CASE UNCHANGED vars
  BY <1>16 DEF vars, Types, world, locals, Entries
<1> QED BY <1>1, <1>2, <1>3, <1>4, <1>5, <1>6, <1>7, <1>8, <1>9, <1>10, <1>11, <1>12, <1>13,
           <1>14, <1>15, <1>16 DEF Next

-----------------------------------------------------------------------------
(* The limits *)

\* ConfigurationManager::get looks at the versions alone.
LEMMA GetByVersion ==
    ASSUME NEW c1, NEW c2, \A i \in Ids : c1[i].version = c2[i].version
    PROVE  get(c1) = get(c2)
<1> DEFINE S(c) == {i \in Ids : <<i, c[i].version>> \in IsSet}
<1>1. S(c1) = S(c2)
  OBVIOUS
<1>2. CASE S(c1) = {}
  BY <1>1, <1>2 DEF get
<1>3. CASE S(c1) # {}
  <2>1. Min(S(c1)) = Min(S(c2))
    BY <1>1
  <2>2. Min(S(c1)) \in Ids
    <3>1. S(c1) \subseteq Nat
      BY DEF Ids
    <3>2. \E x \in S(c1) : \A y \in S(c1) : x =< y
      BY <3>1, <1>3, Least
    <3> QED BY <3>2 DEF Min
  <2> QED BY <1>1, <1>3, <2>1, <2>2 DEF get
<1> QED BY <1>2, <1>3

\* EventManager's limits are those of the configurations it has, unless an update that is
\* under way has downloaded something: then its callbacks are still to come.
LimitsInv ==
    /\ LimitsAreApplied
    /\ pc \in {"test", "response", "callbacks"} =>
          downloadedAnything = TRUE \/ limits = get(config)

\* Every step keeps the limits.
LEMMA LimitsStep == Types /\ LimitsInv /\ [Next]_vars => LimitsInv'
<1> SUFFICES ASSUME Types, LimitsInv, [Next]_vars PROVE LimitsInv'
  OBVIOUS
<1> USE DEF LimitsInv, LimitsAreApplied
<1>1. CASE tick
  BY <1>1 DEF tick, locals
<1>2. ASSUME NEW i \in Ids, publish(i) PROVE LimitsInv'
  BY <1>2 DEF publish, locals
<1>3. CASE construct
  BY <1>3 DEF construct
<1>4. CASE die
  BY <1>4 DEF die, Die
<1>5. CASE updateConfigIfNeeded
  BY <1>5 DEF updateConfigIfNeeded
<1>6. CASE skipDownload
  <2>1. /\ pc = "test" /\ pc' \in {"test", "callbacks"} /\ limits' = limits
        /\ \/ config' = config /\ downloadedAnything' = downloadedAnything
           \/ downloadedAnything' = TRUE
    BY <1>6, SkipTypes DEF skipDownload
  <2> QED BY <2>1
<1>7. CASE request
  BY <1>7 DEF request
<1>8. ASSUME NEW refresh \in Refresh, received(refresh) PROVE LimitsInv'
  BY <1>8 DEF received
<1>9. CASE notModified
  BY <1>9 DEF notModified, Revalidate
<1>10. CASE invalidJson
  BY <1>10 DEF invalidJson, asIntThrows, Die
<1>11. ASSUME pc = "response", Postpone PROVE LimitsInv'
  <2>1. /\ pc' \in {"test", "callbacks"} /\ limits' = limits
        /\ downloadedAnything' = downloadedAnything
        /\ \A i \in Ids : config'[i].version = config[i].version
    BY <1>11, PostponeTypes
  <2>2. get(config') = get(config)
    BY <2>1, GetByVersion
  <2> QED BY <1>11, <2>1, <2>2
<1>12. CASE rejected
  BY <1>11, <1>12 DEF rejected
<1>13. CASE httpError
  <2>1. CASE Revalidate
    BY <2>1 DEF Revalidate
  <2>2. CASE asIntThrows
    BY <2>2 DEF asIntThrows, Die
  <2> QED BY <1>11, <1>13, <2>1, <2>2 DEF httpError
<1>14. CASE truncate
  <2>1. CASE pc' = "write"
    BY <2>1
  <2>2. CASE NextConfig(TRUE)
    BY <2>2 DEF NextConfig
  <2> QED BY <1>14, <2>1, <2>2 DEF truncate
<1>15. CASE write
  BY <1>15 DEF write, NextConfig
<1>16. CASE callbacks
  BY <1>16 DEF callbacks
<1>17. CASE UNCHANGED vars
  BY <1>17 DEF vars, locals
<1> QED BY <1>1, <1>2, <1>3, <1>4, <1>5, <1>6, <1>7, <1>8, <1>9, <1>10, <1>12, <1>13,
           <1>14, <1>15, <1>16, <1>17 DEF Next

\* Between two updates EventManager works with the limits of the configurations it has,
\* for any number of configurations and whatever response.status holds after an HttpError.
THEOREM LimitsHold == Spec => []LimitsAreApplied
<1>1. Init => Types /\ LimitsInv
  BY TypesInit DEF Init, LimitsInv, LimitsAreApplied
<1>2. Types /\ LimitsInv /\ [Next]_vars => Types' /\ LimitsInv'
  BY TypesStep, LimitsStep
<1>3. LimitsInv => LimitsAreApplied
  BY DEF LimitsInv
<1> QED BY <1>1, <1>2, <1>3, PTL DEF Spec

-----------------------------------------------------------------------------
(* The age of a configuration *)

\* The server remembers when each older version was replaced.
History ==
    /\ DOMAIN until = Ids
    /\ \A i \in Ids : /\ DOMAIN until[i] = 0..(version[i] - 1)
                      /\ \A v \in 0..(version[i] - 1) : until[i][v] \in Nat

\* Settings of this version may be used up to that time: the server still had them, or has
\* them, not more than its longest refresh interval before.
Good(i, v, expires) ==
    /\ v \in 0..version[i]
    /\ v = version[i] => expires <= now + Max(Refresh)
    /\ v < version[i] => expires <= until[i][v] + Max(Refresh)

GoodConfigs    == \A i \in Ids : config[i].downloaded = TRUE =>
                                    Good(i, config[i].version, config[i].expires)
GoodEntries(e) == \A i \in DOMAIN e : Good(i, e[i].version, e[i].expires)

\* Whatever is in the objects, in the cache and in its file may be used as long as it says.
FreshInv == History /\ GoodConfigs /\ GoodEntries(data) /\ GoodEntries(disk.entries)

\* Neither the clock nor the server ends the time for which settings may be used.
LEMMA StillGood ==
    ASSUME Types, History, tick \/ (\E j \in Ids : publish(j)) \/ UNCHANGED world
    PROVE  /\ History'
           /\ \A i \in Ids, v \in Versions, expires \in Nat :
                 Good(i, v, expires) => Good(i, v, expires)'
<1>0. Max(Refresh) \in Nat
  BY LongestRefresh
<1> DEFINE M == Max(Refresh)
<1> HIDE DEF M
<1>1. CASE tick
  BY <1>0, <1>1 DEF tick, Types, History, Good, M
<1>2. ASSUME NEW j \in Ids, publish(j)
      PROVE  /\ History'
             /\ \A i \in Ids, v \in Versions, expires \in Nat :
                   Good(i, v, expires) => Good(i, v, expires)'
  <2>1. /\ version[j] \in Nat /\ now \in Nat /\ now' = now
        /\ version'[j] = version[j] + 1
        /\ \A i \in Ids \ {j} : version'[i] = version[i] /\ until'[i] = until[i]
        /\ DOMAIN until' = Ids
        /\ until'[j] = Put(until[j], version[j], now)
    BY <1>2, ConfigAssumption DEF publish, Types, History
  <2>2. /\ DOMAIN until'[j] = 0..version[j]
        /\ until'[j][version[j]] = now
        /\ \A v \in 0..(version[j] - 1) : until'[j][v] = until[j][v]
    BY <2>1 DEF Put, History
  <2>3. History'
    BY <2>1, <2>2 DEF History
  <2>4. ASSUME NEW i \in Ids, NEW v \in Versions, NEW expires \in Nat, Good(i, v, expires)
        PROVE  Good(i, v, expires)'
    <3>1. CASE i # j
      BY <3>1, <2>1, <2>4 DEF Good
    <3>2. CASE i = j
      BY <3>2, <2>1, <2>2, <2>4, <1>0 DEF Good
    <3> QED BY <3>1, <3>2
  <2> QED BY <2>3, <2>4
<1>3. CASE UNCHANGED world
  BY <1>3 DEF world, History, Good
<1> QED BY <1>1, <1>2, <1>3

\* Settings the server has now may be used for a refresh interval from the request on.
LEMMA GoodFromNow ==
    ASSUME Types, History, NEW r \in Refresh \cup {0}
    PROVE  Good(current, version[current], requestStart + r)
<1>1. r \in Nat /\ r <= Max(Refresh) /\ Max(Refresh) \in Nat
  BY LongestRefresh, ConfigAssumption
<1>2. version[current] \in Nat /\ now \in Nat /\ requestStart \in Nat /\ requestStart <= now
  BY DEF Types
<1> QED BY <1>1, <1>2 DEF Good

\* What a 304 from the server does.
LEMMA NotModifiedGood ==
    ASSUME Types, History, GoodConfigs, GoodEntries(data), notModified
    PROVE  GoodConfigs' /\ GoodEntries(data)'
<1> DEFINE r == data[current].refresh
           e == [expires |-> requestStart + r, refresh |-> r, version |-> version[current]]
<1>1. current \in DOMAIN data /\ data[current] \in Entry /\ r \in Refresh \cup {0}
  BY DEF notModified, Cached, Types, Entries, Entry
<1>2. /\ config' = [config EXCEPT ![current] = importCached(config[current], e)]
      /\ data' = Put(data, current, e)
      /\ UNCHANGED world
  BY DEF notModified, Revalidate, Cached
<1>3. requestStart + r \in Nat /\ version[current] \in Versions
  BY <1>1, ConfigAssumption DEF Types, Versions
<1>4. e \in Entry /\ e.version = version[current] /\ e.expires = requestStart + r
  BY <1>1, <1>3 DEF Entry
<1>5. Good(current, e.version, e.expires)
  BY <1>1, <1>4, GoodFromNow
<1> HIDE DEF e, r
<1>6. config \in [Ids -> Config] /\ current \in Ids /\ Entries(data)
  BY DEF Types
<1> DEFINE d == importCached(config[current], e)
<1>7. d \in Config /\ d.version = e.version /\ d.expires = e.expires
  BY <1>4, <1>6, Imported
<1> HIDE DEF d
<1>8. \A i \in Ids : IF i = current THEN config'[i] = d ELSE config'[i] = config[i]
  BY <1>2, <1>6 DEF d
<1>9. /\ data'[current] = e
      /\ \A i \in DOMAIN data' : i = current \/ (i \in DOMAIN data /\ data'[i] = data[i])
  BY <1>2, <1>4, <1>6, PutEntry
<1>10. ASSUME NEW i, NEW v, NEW x PROVE Good(i, v, x)' <=> Good(i, v, x)
  BY <1>2 DEF Good, world
<1>11. GoodConfigs'
  BY <1>5, <1>7, <1>8, <1>10 DEF GoodConfigs
<1>12. GoodEntries(data)'
  BY <1>5, <1>9, <1>10 DEF GoodEntries
<1> QED BY <1>11, <1>12

\* Every step keeps it so, provided that no failed request is taken for a 304.
LEMMA FreshStep ==
    ASSUME "304" \notin GarbageStatus
    PROVE  Types /\ FreshInv /\ [Next]_vars => FreshInv'
<1> SUFFICES ASSUME Types, FreshInv, [Next]_vars PROVE FreshInv'
  OBVIOUS
<1>0. History /\ GoodConfigs /\ GoodEntries(data) /\ GoodEntries(disk.entries)
  BY DEF FreshInv
<1>t. /\ \A i \in Ids : config[i].version \in Versions /\ config[i].expires \in Nat
      /\ \A i \in DOMAIN data : i \in Ids /\ data[i].version \in Versions /\ data[i].expires \in Nat
      /\ \A i \in DOMAIN disk.entries : /\ i \in Ids /\ disk.entries[i].version \in Versions
                                        /\ disk.entries[i].expires \in Nat
  BY DEF Types, Config, Entries, Entry
<1>s. ASSUME tick \/ (\E j \in Ids : publish(j)) \/ UNCHANGED world
      PROVE  /\ History'
             /\ \A i \in Ids, v \in Versions, x \in Nat : Good(i, v, x) => Good(i, v, x)'
  BY <1>s, <1>0, StillGood
<1>w. ASSUME UNCHANGED world
      PROVE  History' /\ \A i, v, x : Good(i, v, x)' <=> Good(i, v, x)
  BY <1>w, <1>0 DEF world, History, Good
<1>c. ASSUME tick \/ (\E j \in Ids : publish(j)) \/ UNCHANGED world,
             \A i \in Ids : /\ config'[i].downloaded = config[i].downloaded
                            /\ config'[i].version = config[i].version
                            /\ config'[i].expires = config[i].expires
      PROVE  GoodConfigs'
  BY <1>c, <1>s, <1>0, <1>t DEF GoodConfigs
<1>d. ASSUME tick \/ (\E j \in Ids : publish(j)) \/ UNCHANGED world, data' = data
      PROVE  GoodEntries(data)'
  BY <1>d, <1>s, <1>0, <1>t DEF GoodEntries
<1>f. ASSUME tick \/ (\E j \in Ids : publish(j)) \/ UNCHANGED world, disk' = disk
      PROVE  GoodEntries(disk.entries)'
  BY <1>f, <1>s, <1>0, <1>t DEF GoodEntries
<1>1. CASE tick
  <2>1. UNCHANGED <<config, data, disk>>
    BY <1>1 DEF tick
  <2> QED BY <1>1, <2>1, <1>s, <1>c, <1>d, <1>f DEF FreshInv
<1>2. ASSUME NEW i \in Ids, publish(i) PROVE FreshInv'
  <2>1. UNCHANGED <<config, data, disk>>
    BY <1>2 DEF publish
  <2> QED BY <1>2, <2>1, <1>s, <1>c, <1>d, <1>f DEF FreshInv
<1>3. CASE construct
  <2>1. PICK e \in load : data' = e /\ config' = loadCachedConfigs(e)
    BY <1>3 DEF construct
  <2>2. UNCHANGED world /\ disk' = disk
    BY <1>3 DEF construct
  <2>3. /\ Entries(e)
        /\ \A i \in DOMAIN e : /\ i \in DOMAIN disk.entries
                               /\ e[i].version = disk.entries[i].version
                               /\ e[i].expires \in {disk.entries[i].expires, 0}
    BY <2>1, Loaded DEF Types
  <2>4. ASSUME NEW i \in DOMAIN e PROVE Good(i, e[i].version, e[i].expires)
    <3>1. /\ i \in DOMAIN disk.entries /\ i \in Ids
          /\ Good(i, disk.entries[i].version, disk.entries[i].expires)
          /\ disk.entries[i].version = e[i].version
          /\ disk.entries[i].expires = e[i].expires \/ e[i].expires = 0
      BY <2>3, <1>0, <1>t DEF GoodEntries
    <3>2. CASE disk.entries[i].expires = e[i].expires
      BY <3>1, <3>2
    <3>3. CASE e[i].expires = 0
      <4>1. now \in Nat /\ version[i] \in Nat /\ Max(Refresh) \in Nat
               /\ \A v \in 0..(version[i] - 1) : until[i][v] \in Nat
        BY <3>1, <1>0, LongestRefresh DEF Types, History
      <4> QED BY <3>1, <3>3, <4>1 DEF Good
    <3> QED BY <3>1, <3>2, <3>3
  <2>5. \A i \in Ids : \/ config'[i].downloaded = FALSE
                       \/ /\ i \in DOMAIN e /\ config'[i].version = e[i].version
                          /\ config'[i].expires = e[i].expires
    BY <2>1, <2>3, LoadedConfigs
  <2>6. GoodConfigs'
    BY <2>2, <2>4, <2>5, <1>w DEF GoodConfigs
  <2>7. GoodEntries(data)'
    BY <2>1, <2>2, <2>4, <1>w DEF GoodEntries
  <2> QED BY <2>2, <2>6, <2>7, <1>w, <1>f DEF FreshInv
<1>4. ASSUME NEW how, Die(how) PROVE FreshInv'
  <2>1. /\ UNCHANGED world /\ disk' = disk /\ data' = <<>>
        /\ \A i \in Ids : config'[i].downloaded = FALSE
    BY <1>4 DEF Die, NewConfig
  <2>2. GoodConfigs' /\ GoodEntries(data)'
    BY <2>1 DEF GoodConfigs, GoodEntries
  <2> QED BY <2>1, <2>2, <1>w, <1>f DEF FreshInv
<1>5. CASE updateConfigIfNeeded
  <2>1. UNCHANGED <<world, config, data, disk>>
    BY <1>5 DEF updateConfigIfNeeded
  <2> QED BY <2>1, <1>w, <1>c, <1>d, <1>f DEF FreshInv
<1>6. CASE skipDownload
  <2>1. /\ UNCHANGED <<world, data, disk>>
        /\ \/ config' = config
           \/ /\ current \in DOMAIN data
              /\ config'[current].version = data[current].version
              /\ config'[current].expires = data[current].expires
              /\ \A i \in Ids \ {current} : config'[i] = config[i]
    BY <1>6, SkipTypes
  <2>2. GoodConfigs'
    BY <2>1, <1>w, <1>0 DEF GoodConfigs, GoodEntries
  <2> QED BY <2>1, <2>2, <1>w, <1>d, <1>f DEF FreshInv
<1>7. CASE request
  <2>1. UNCHANGED <<world, config, data, disk>>
    BY <1>7 DEF request
  <2> QED BY <2>1, <1>w, <1>c, <1>d, <1>f DEF FreshInv
<1>8. ASSUME NEW refresh \in Refresh, received(refresh) PROVE FreshInv'
  <2>1. /\ UNCHANGED <<world, disk>>
        /\ config'[current].version = version[current]
        /\ config'[current].expires = requestStart + refresh
        /\ \A i \in Ids \ {current} : config'[i] = config[i]
        /\ data'[current].version = version[current]
        /\ data'[current].expires = requestStart + refresh
        /\ \A i \in DOMAIN data' : i = current \/ (i \in DOMAIN data /\ data'[i] = data[i])
    BY <1>8, ReceivedTypes
  <2>2. Good(current, version[current], requestStart + refresh)
    BY <1>0, GoodFromNow
  <2>3. GoodConfigs'
    BY <2>1, <2>2, <1>w, <1>0 DEF GoodConfigs
  <2>4. GoodEntries(data)'
    BY <2>1, <2>2, <1>w, <1>0 DEF GoodEntries
  <2> QED BY <2>1, <2>3, <2>4, <1>w, <1>f DEF FreshInv
<1>9. CASE notModified
  <2>1. UNCHANGED <<world, disk>>
    BY <1>9 DEF notModified, Revalidate
  <2>2. GoodConfigs' /\ GoodEntries(data)'
    BY <1>9, <1>0, NotModifiedGood
  <2> QED BY <2>1, <2>2, <1>w, <1>f DEF FreshInv
<1>10. CASE invalidJson
  BY <1>4, <1>10 DEF invalidJson, asIntThrows
<1>11. ASSUME Postpone, UNCHANGED world PROVE FreshInv'
  <2>1. /\ UNCHANGED <<data, disk>>
        /\ \A i \in Ids : /\ config'[i].version = config[i].version
                          /\ config'[i].expires = config[i].expires
                          /\ config'[i].downloaded = config[i].downloaded
    BY <1>11, PostponeTypes
  <2> QED BY <1>11, <2>1, <1>w, <1>c, <1>d, <1>f DEF FreshInv
<1>12. CASE rejected
  BY <1>11, <1>12 DEF rejected
<1>13. CASE httpError
  BY <1>4, <1>11, <1>13 DEF httpError, asIntThrows
<1>14. ASSUME truncate \/ write PROVE FreshInv'
  <2>1. UNCHANGED <<world, config, data>> /\ (disk' = disk \/ disk'.entries = data)
    <3>1. CASE truncate
      <4>1. disk' = disk \/ disk' = [entries |-> data, torn |-> TRUE]
        BY <3>1 DEF truncate, NextConfig
      <4> QED BY <3>1, <4>1 DEF truncate
    <3>2. CASE write
      BY <3>2 DEF write
    <3> QED BY <1>14, <3>1, <3>2
  <2>2. GoodEntries(disk.entries)'
    BY <2>1, <1>w, <1>0 DEF GoodEntries
  <2> QED BY <2>1, <2>2, <1>w, <1>c, <1>d DEF FreshInv
<1>15. CASE callbacks
  <2>1. UNCHANGED <<world, config, data, disk>>
    BY <1>15 DEF callbacks
  <2> QED BY <2>1, <1>w, <1>c, <1>d, <1>f DEF FreshInv
<1>16. CASE UNCHANGED vars
  <2>1. UNCHANGED <<world, config, data, disk>>
    BY <1>16 DEF vars
  <2> QED BY <2>1, <1>w, <1>c, <1>d, <1>f DEF FreshInv
<1>17. CASE die
  BY <1>4, <1>17 DEF die
<1> QED BY <1>1, <1>2, <1>3, <1>5, <1>6, <1>7, <1>8, <1>9, <1>10, <1>12, <1>13,
           <1>14, <1>15, <1>16, <1>17 DEF Next

\* A configuration that is not asked for again was the server's less than a refresh interval
\* ago, for any number of configurations, changes, deaths and refresh intervals.  Without the
\* hypothesis it is false: a request that failed while response.status, which nothing has
\* set, holds 304 makes an old configuration good for another interval.
THEOREM NotStaleHolds ==
    ASSUME "304" \notin GarbageStatus
    PROVE  Spec => []NotStale
<1>1. Init => Types /\ FreshInv
  <2> SUFFICES ASSUME Init PROVE FreshInv
    BY TypesInit
  <2>1. History
    BY DEF Init, History
  <2>2. GoodConfigs
    BY DEF Init, GoodConfigs, NewConfig
  <2>3. GoodEntries(data) /\ GoodEntries(disk.entries)
    BY DEF Init, GoodEntries
  <2> QED BY <2>1, <2>2, <2>3 DEF FreshInv
<1>2. Types /\ FreshInv /\ [Next]_vars => Types' /\ FreshInv'
  BY TypesStep, FreshStep
<1>3. Types /\ FreshInv => NotStale
  <2> SUFFICES ASSUME Types, FreshInv, NEW i \in Ids, ~needsRedownload(i)
               PROVE  Recent(i, config[i].version)
    BY DEF NotStale
  <2>1. config[i].downloaded = TRUE /\ ~(now >= config[i].expires)
    BY DEF needsRedownload, Types, Config
  <2>2. /\ config[i].expires \in Nat /\ now \in Nat /\ Max(Refresh) \in Nat
        /\ version[i] \in Nat /\ \A v \in 0..(version[i] - 1) : until[i][v] \in Nat
    BY LongestRefresh DEF Types, Config, FreshInv, History
  <2>3. Good(i, config[i].version, config[i].expires)
    BY <2>1 DEF FreshInv, GoodConfigs
  <2> QED BY <2>1, <2>2, <2>3 DEF Good, Recent
<1> QED BY <1>1, <1>2, <1>3, PTL DEF Spec

-----------------------------------------------------------------------------
(* The distance of retries *)

\* A configuration whose last request failed is not tried for at least two seconds from the
\* start of that request; a process that has not started has no failed requests.
SpacedInv ==
    /\ DOMAIN failedAt = Ids
    /\ \A i \in Ids : failedAt[i] # None =>
          /\ failedAt[i] \in Nat
          /\ config[i].downloadMinRetryTime >= failedAt[i] + 2
    /\ pc \in {"down", "terminated"} => \A i \in Ids : failedAt[i] = None

\* Every step keeps it so, provided that no failed request is taken for a 304.
LEMMA SpacedStep ==
    ASSUME "304" \notin GarbageStatus
    PROVE  Types /\ SpacedInv /\ [Next]_vars => SpacedInv'
<1> SUFFICES ASSUME Types, SpacedInv, [Next]_vars PROVE SpacedInv'
  OBVIOUS
<1>u. ASSUME failedAt' = failedAt, pc' \notin {"down", "terminated"} \/ pc' = pc,
             \A i \in Ids : config'[i].downloadMinRetryTime = config[i].downloadMinRetryTime
      PROVE  SpacedInv'
  BY <1>u DEF SpacedInv
<1>a. ASSUME failedAt' = [failedAt EXCEPT ![current] = None], pc' = "store",
             \A i \in Ids : config'[i].downloadMinRetryTime = config[i].downloadMinRetryTime
      PROVE  SpacedInv'
  BY <1>a DEF SpacedInv
<1>p. ASSUME Postpone, failedAt' = [failedAt EXCEPT ![current] = requestStart]
      PROVE  SpacedInv'
  <2>1. /\ pc' \in {"test", "callbacks"}
        /\ config'[current].downloadMinRetryTime >= requestStart + 2
        /\ \A i \in Ids \ {current} : config'[i] = config[i]
    BY <1>p, PostponeTypes
  <2>2. requestStart \in Nat /\ current \in Ids
    BY DEF Types
  <2> QED BY <1>p, <2>1, <2>2 DEF SpacedInv
<1>d. ASSUME NEW how, Die(how) PROVE SpacedInv'
  BY <1>d DEF Die, SpacedInv
<1>1. CASE tick
  BY <1>1, <1>u DEF tick
<1>2. ASSUME NEW i \in Ids, publish(i) PROVE SpacedInv'
  BY <1>2, <1>u DEF publish
<1>3. CASE construct
  BY <1>3 DEF construct, SpacedInv
<1>4. CASE die
  BY <1>4, <1>d DEF die
<1>5. CASE updateConfigIfNeeded
  BY <1>5, <1>u DEF updateConfigIfNeeded
<1>6. CASE skipDownload
  <2>1. /\ failedAt' = failedAt /\ pc' \in {"test", "callbacks"}
        /\ \A i \in Ids : config'[i].downloadMinRetryTime = config[i].downloadMinRetryTime
    BY <1>6, SkipTypes
  <2> QED BY <2>1, <1>u
<1>7. CASE request
  BY <1>7, <1>u DEF request
<1>8. ASSUME NEW refresh \in Refresh, received(refresh) PROVE SpacedInv'
  <2>1. \A i \in Ids : config'[i].downloadMinRetryTime = config[i].downloadMinRetryTime
    BY <1>8, ReceivedTypes
  <2> QED BY <2>1, <1>8, <1>a DEF received
<1>9. CASE notModified
  <2>1. PICK e : config' = [config EXCEPT ![current] = importCached(config[current], e)]
    BY <1>9 DEF notModified, Revalidate
  <2>2. \A i \in Ids : config'[i].downloadMinRetryTime = config[i].downloadMinRetryTime
    BY <2>1 DEF importCached, Types, Config
  <2> QED BY <2>2, <1>9, <1>a DEF notModified, Revalidate
<1>10. CASE invalidJson
  BY <1>10, <1>d DEF invalidJson, asIntThrows
<1>11. CASE rejected
  BY <1>11, <1>p DEF rejected
<1>12. CASE httpError
  BY <1>12, <1>p, <1>d DEF httpError, asIntThrows
<1>13. CASE truncate
  BY <1>13, <1>u DEF truncate, NextConfig
<1>14. CASE write
  BY <1>14, <1>u DEF write, NextConfig
<1>15. CASE callbacks
  BY <1>15, <1>u DEF callbacks
<1>16. CASE UNCHANGED vars
  BY <1>16, <1>u DEF vars
<1> QED BY <1>1, <1>2, <1>3, <1>4, <1>5, <1>6, <1>7, <1>8, <1>9, <1>10, <1>11, <1>12, <1>13,
           <1>14, <1>15, <1>16 DEF Next

\* A process that failed to download a configuration does not ask for it again sooner than
\* after two seconds, however often it has failed: the shift of the back-off neither wraps
\* around nor starts at one second.  A failed request that is taken for a 304 sets no back-off.
THEOREM RetriesHold ==
    ASSUME "304" \notin GarbageStatus
    PROVE  Spec => RetriesAreSpaced
<1>1. Init => Types /\ SpacedInv
  BY TypesInit DEF Init, SpacedInv, None
<1>2. Types /\ SpacedInv /\ [Next]_vars => Types' /\ SpacedInv'
  BY TypesStep, SpacedStep
<1>3. Types /\ SpacedInv /\ [Next]_vars =>
         [request => failedAt[current] = None \/ now >= failedAt[current] + 2]_vars
  <2> SUFFICES ASSUME Types, SpacedInv, request, failedAt[current] # None
               PROVE  now >= failedAt[current] + 2
    OBVIOUS
  <2>1. /\ current \in Ids /\ now \in Nat /\ config[current].downloadMinRetryTime \in Nat
        /\ failedAt[current] \in Nat
        /\ config[current].downloadMinRetryTime >= failedAt[current] + 2
    BY DEF Types, Config, SpacedInv
  <2>2. now >= config[current].downloadMinRetryTime
    BY DEF request, mustAsk, tryDownload
  <2> QED BY <2>1, <2>2
<1> QED BY <1>1, <1>2, <1>3, PTL DEF Spec, RetriesAreSpaced

=============================================================================
