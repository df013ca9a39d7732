---------------------------- MODULE Configuration ----------------------------
(***************************************************************************)
(* cll::Configuration, ConfigurationManager and FileConfigurationCache:    *)
(* two configurations are downloaded, cached on the disk and downloaded    *)
(* again when they expire; a failed download is retried after a back-off.  *)
(* EventManager calls updateConfigIfNeeded from its constructor and from   *)
(* both upload threads, under configUpdateMutex: one call at a time.       *)
(* Meanwhile the clock runs, the server's configurations change and the    *)
(* process may die at any point.                                           *)
(*                                                                         *)
(* The settings of a configuration are known by their version, which is    *)
(* also the ETag.                                                          *)
(***************************************************************************)
EXTENDS Integers, FiniteSetsExt, Functions

CONSTANTS
    Configs,        \* number of configurations; the first that has a property wins
    MaxVersion,     \* each configuration changes that often on the server
    IsSet,          \* the <<configuration, version>> that set the property
    Refresh,        \* the refresh intervals the server sends
    BackoffCap,     \* the cap of the exponent of the back-off (8 in the code)
    MaxTime,        \* the clock stops there
    MaxDeaths,      \* how often the process dies
    GarbageStatus   \* what the uninitialized response.status may be after an HttpError

ASSUME ConfigAssumption ==
    /\ Configs \in Nat \ {0} /\ MaxVersion \in Nat /\ MaxTime \in Nat /\ MaxDeaths \in Nat
    /\ IsSet \subseteq (1..Configs) \X (0..MaxVersion)
    /\ IsFiniteSet(Refresh) /\ Refresh # {} /\ Refresh \subseteq Nat \ {0}
    /\ BackoffCap \in 2..8
    /\ GarbageStatus # {} /\ GarbageStatus \subseteq {"200", "304", "other"}

VARIABLES
    now,        \* the clock
    version,    \* the server's version of each configuration
    until,      \* when each older version of each configuration was replaced
    config,     \* the Configuration objects
    data,       \* FileConfigurationCache::data: the entries, by configuration
    disk,       \* its file: the entries, and whether it is cut off
    limits,     \* the limits EventManager uses: <<configuration, version>> or Default
    pc,         \* where updateConfigIfNeeded is
    current,    \* the configuration it looks at
    requestStart, downloadedAnything,    \* its local variables
    failedAt,   \* start of the last request of each configuration if it failed, or None
    deaths      \* how often the process died

world  == <<now, version, until>>
locals == <<current, requestStart, downloadedAnything>>
vars   == <<world, config, data, disk, limits, pc, locals, failedAt, deaths>>

Ids     == 1..Configs
Default == <<0, 0>>
None    == -1

\* The function f with x mapped to v.
Put(f, x, v) == [y \in DOMAIN f \cup {x} |-> IF y = x THEN v ELSE f[y]]

\* A Configuration that was neither loaded nor downloaded.
NewConfig == [downloadMinRetryTime |-> 0, downloadAttempt |-> 0, downloaded |-> FALSE,
              expires |-> 0, version |-> None]

\* ConfigurationManager::get: the first configuration that sets the property.
get(cfg) ==
    LET set == {i \in Ids : <<i, cfg[i].version>> \in IsSet}
    IN  IF set = {} THEN Default ELSE <<Min(set), cfg[Min(set)].version>>

\* Mutant: the refresh interval is added again when an entry is imported.
importCached_Extends(cfg, entry) ==
    [cfg EXCEPT !.expires = entry.expires + entry.refresh, !.downloaded = TRUE,
                !.version = entry.version]

\* Configuration::importCached.
importCached(cfg, entry) == [cfg EXCEPT !.expires = entry.expires, !.downloaded = TRUE,
                                        !.version = entry.version]

\* ConfigurationManager::loadCachedConfigs after the cache was read.
loadCachedConfigs(entries) ==
    [i \in Ids |-> IF i \in DOMAIN entries THEN importCached(NewConfig, entries[i])
                   ELSE NewConfig]

Init ==
    /\ now = 0 /\ version = [i \in Ids |-> 0] /\ until = [i \in Ids |-> <<>>]
    /\ config = [i \in Ids |-> NewConfig]
    /\ data = <<>> /\ disk = [entries |-> <<>>, torn |-> FALSE]
    /\ limits = Default
    /\ pc = "down" /\ current = 1 /\ requestStart = 0 /\ downloadedAnything = FALSE
    /\ failedAt = [i \in Ids |-> None] /\ deaths = 0

-----------------------------------------------------------------------------
(* The clock, the server and the process *)

tick ==
    /\ now < MaxTime
    /\ now' = now + 1
    /\ UNCHANGED <<version, until, config, data, disk, limits, pc, locals, failedAt, deaths>>

\* The server gets new settings for configuration i.
publish(i) ==
    /\ version[i] < MaxVersion
    /\ version' = [version EXCEPT ![i] = @ + 1]
    /\ until' = [until EXCEPT ![i] = Put(@, version[i], now)]
    /\ UNCHANGED <<now, config, data, disk, limits, pc, locals, failedAt, deaths>>

\* FileConfigurationCache::load, with what json::operator>> makes of a cut off file: some
\* entries, and possibly one more that ends before "expires" and "refreshInterval".
CutEntry(entry) == [entry EXCEPT !.expires = 0, !.refresh = 0]
load ==
    IF ~disk.torn THEN {disk.entries}
    ELSE UNION {{Restrict(disk.entries, ids)}
                  \cup {Put(Restrict(disk.entries, ids), i, CutEntry(disk.entries[i])) :
                           i \in DOMAIN disk.entries \ ids} : ids \in SUBSET DOMAIN disk.entries}

\* EventManager's constructor up to its call of updateConfigIfNeeded.
construct ==
    /\ pc \in {"down", "terminated"}
    /\ \E entries \in load : /\ data' = entries
                             /\ config' = loadCachedConfigs(entries)
                             /\ limits' = get(loadCachedConfigs(entries))
    /\ pc' = "test" /\ current' = 1 /\ downloadedAnything' = FALSE
    /\ UNCHANGED <<world, disk, requestStart, failedAt, deaths>>

\* The objects are gone; the file is what it was.
Die(how) ==
    /\ deaths < MaxDeaths
    /\ deaths' = deaths + 1
    /\ pc' = how /\ current' = 1 /\ requestStart' = 0 /\ downloadedAnything' = FALSE
    /\ config' = [i \in Ids |-> NewConfig] /\ data' = <<>> /\ limits' = Default
    /\ failedAt' = [i \in Ids |-> None]
    /\ UNCHANGED <<world, disk>>

\* The process ends, or is killed.
die == pc \notin {"down", "terminated"} /\ Die("down")

-----------------------------------------------------------------------------
(* EventManager::updateConfigIfNeeded *)

updateConfigIfNeeded ==
    /\ pc = "idle"
    /\ pc' = "test" /\ current' = 1 /\ downloadedAnything' = FALSE
    /\ UNCHANGED <<world, config, data, disk, limits, requestStart, failedAt, deaths>>

needsRedownload(i) == ~config[i].downloaded \/ now >= config[i].expires

Cached(i) == i \in DOMAIN data

\* The early return of download, the look into the cache, and what is left.
tryDownload(i)   == needsRedownload(i) /\ now >= config[i].downloadMinRetryTime
freshlyCached(i) == Cached(i) /\ now < data[i].expires
mustAsk(i)       == tryDownload(i) /\ ~freshlyCached(i)

\* downloadConfigs goes on with the next configuration (requestStart is out of scope).
NextConfig(any) ==
    /\ downloadedAnything' = any /\ requestStart' = 0
    /\ IF current < Configs THEN current' = current + 1 /\ pc' = "test"
       ELSE pc' = "callbacks" /\ current' = 1

\* Mutant: the flag is assigned for every configuration, whether it was asked for or not.
skipDownload_ResetsFlag ==
    /\ pc = "test" /\ ~mustAsk(current)
    /\ NextConfig(FALSE)
    /\ UNCHANGED <<world, config, data, disk, limits, failedAt, deaths>>

\* Nothing is requested: it is not needed, too early, or the cache is fresh.  The last does
\* not happen here, as the configurations are loaded from the same cache.
skipDownload ==
    /\ pc = "test" /\ ~mustAsk(current)
    /\ LET hit == tryDownload(current) /\ freshlyCached(current)
       IN  /\ config' = IF hit THEN [config EXCEPT ![current] =
                                [importCached(@, data[current]) EXCEPT !.downloadAttempt = 0]]
                        ELSE config
           /\ NextConfig(hit \/ downloadedAnything)
    /\ UNCHANGED <<world, data, disk, limits, failedAt, deaths>>

\* Configuration::download sends its request.
request ==
    /\ pc = "test" /\ mustAsk(current)
    /\ requestStart' = now
    /\ pc' = "response"
    /\ UNCHANGED <<world, config, data, disk, limits, current, downloadedAnything, failedAt, deaths>>

\* 200: the settings are applied and cached.
received(refresh) ==
    /\ pc = "response"
    /\ LET entry == [expires |-> requestStart + refresh, refresh |-> refresh,
                     version |-> version[current]]
       IN  /\ config' = [config EXCEPT ![current] =
                            [importCached(@, entry) EXCEPT !.downloadAttempt = 0]]
           /\ data' = Put(data, current, entry)
    /\ pc' = "store"
    /\ failedAt' = [failedAt EXCEPT ![current] = None]
    /\ UNCHANGED <<world, disk, limits, locals, deaths>>

\* 200 with a body that is not JSON.  safeParseJson makes an empty object of it, whose
\* refreshInterval is null; asInt throws on null and nothing catches it.
asIntThrows == Die("terminated")

invalidJson == pc = "response" /\ asIntThrows

\* What is done for a 304: the cached entry is good for another refresh interval.  If there
\* is none (which a server does not answer) it is the uninitialized local `cached'.
Revalidate ==
    /\ \E refresh \in IF Cached(current) THEN {data[current].refresh} ELSE Refresh \cup {0} :
          LET entry == [expires |-> requestStart + refresh, refresh |-> refresh,
                        version |-> IF Cached(current) THEN data[current].version ELSE None]
          IN  /\ config' = [config EXCEPT ![current] = importCached(@, entry)]
              /\ data' = Put(data, current, entry)
    /\ pc' = "store"
    /\ UNCHANGED <<disk, limits, locals, deaths>>

\* The server answers 304 to the version it still has.
notModified ==
    /\ pc = "response"
    /\ Cached(current) /\ data[current].version = version[current]
    /\ Revalidate
    /\ failedAt' = [failedAt EXCEPT ![current] = None]
    /\ UNCHANGED world

\* Mutant: the shift is not capped and wraps around.
backoff_Wraps(attempt) == (2 ^ (attempt + 1)) % 2 ^ BackoffCap

\* 1 << std::min(downloadAttempt + 1, 8) seconds.
backoff(attempt) == 2 ^ Min({attempt + 1, BackoffCap})

\* The last lines of download.  From the cap on the counter makes no difference.
Postpone ==
    /\ LET attempt == Min({config[current].downloadAttempt + 1, BackoffCap})
       IN  config' = [config EXCEPT ![current] =
              [@ EXCEPT !.downloadAttempt = attempt,
                        !.downloadMinRetryTime = requestStart + backoff(attempt)]]
    /\ NextConfig(downloadedAnything)
    /\ UNCHANGED <<data, disk, limits, deaths>>

\* Another status.
rejected ==
    /\ pc = "response"
    /\ Postpone
    /\ failedAt' = [failedAt EXCEPT ![current] = requestStart]
    /\ UNCHANGED world

\* HttpError is caught and logged; response.status, which nothing has set, is tested.
httpError ==
    /\ pc = "response"
    /\ \/ /\ "other" \in GarbageStatus /\ Postpone
          /\ failedAt' = [failedAt EXCEPT ![current] = requestStart]
       \/ /\ "304" \in GarbageStatus /\ Revalidate
          /\ failedAt' = [failedAt EXCEPT ![current] = requestStart]
       \/ "200" \in GarbageStatus /\ asIntThrows
    /\ UNCHANGED world

\* FileConfigurationCache::store opens the file, which cuts it off, then writes it; if it
\* cannot be opened it stays as it was.
truncate ==
    /\ pc = "store"
    /\ \/ disk' = [entries |-> data, torn |-> TRUE] /\ pc' = "write"
          /\ UNCHANGED locals
       \/ NextConfig(TRUE) /\ UNCHANGED disk
    /\ UNCHANGED <<world, config, data, limits, failedAt, deaths>>

write ==
    /\ pc = "write"
    /\ disk' = [entries |-> data, torn |-> FALSE]
    /\ NextConfig(TRUE)
    /\ UNCHANGED <<world, config, data, limits, failedAt, deaths>>

\* The update callbacks: EventManager::onConfigurationUpdated.
callbacks ==
    /\ pc = "callbacks"
    /\ limits' = IF downloadedAnything THEN get(config) ELSE limits
    /\ pc' = "idle"
    /\ UNCHANGED <<world, config, data, disk, locals, failedAt, deaths>>

Next ==
    \/ tick \/ (\E i \in Ids : publish(i)) \/ construct \/ die
    \/ updateConfigIfNeeded \/ skipDownload \/ request
    \/ (\E refresh \in Refresh : received(refresh)) \/ notModified \/ invalidJson
    \/ rejected \/ httpError \/ truncate \/ write \/ callbacks

Spec == Init /\ [][Next]_vars

-----------------------------------------------------------------------------
(* Properties *)

\* The server had this version not longer ago than a refresh interval.
Recent(i, v) == v = version[i] \/ until[i][v] > now - Max(Refresh)

\* A configuration that is not asked for again was the server's less than a refresh
\* interval ago: whatever was cached, cut off, reloaded and revalidated, and in whatever
\* order the server changed and answered.
NotStale ==
    \A i \in Ids : ~needsRedownload(i) => Recent(i, config[i].version)

\* Between two updates EventManager works with the limits of the configurations it has:
\* no download, import or restart changes them behind its back.
LimitsAreApplied == pc = "idle" => limits = get(config)

\* "pick a time between <2 seconds, ~5 minutes>": a process that failed to download a
\* configuration does not ask for it again sooner than after two seconds.
RetriesAreSpaced ==
    [][request => failedAt[current] = None \/ now >= failedAt[current] + 2]_vars

==============================================================================
