---------------------------- MODULE ProfileCache ----------------------------
(***************************************************************************)
(* The profile cache of the user repository: a map in the memory of each   *)
(* backend process, filled after a query and emptied by an update at the   *)
(* same process. Entries expire after a minute. The lookup, the query and  *)
(* the fill are apart, and so are an update and its invalidation.          *)
(*                                                                         *)
(* One profile is followed, as a version number; time is counted in ticks, *)
(* Ttl of them to the minute.                                              *)
(***************************************************************************)
EXTENDS Platform

CONSTANTS
    Hosts,        \* backend processes
    Reads,        \* GET /v1/users/me, or the lookup of a PUT, in progress
    Ttl,          \* PROFILE_CACHE_TTL_MS
    MaxNow,       \* bound on time
    MaxVersion    \* bound on the updates

ASSUME ProfileAssumption ==
    Ttl \in Nat \ {0} /\ MaxNow \in Nat /\ MaxVersion \in Nat /\ None \notin Nat

VARIABLES
    now,
    row,          \* users.profiles: the version stored, None once erased
    replaced,     \* when each version stopped being the stored one (history)
    cache,        \* profileCache of each process
    read,         \* the lookups in progress
    invalidating, \* processes whose update has run and invalidation has not
    foreign       \* processes behind an update they did not see in time (history)

profileVars == <<now, row, replaced, cache, read, invalidating, foreign>>

-----------------------------------------------------------------------------
NoEntry == [version |-> None, until |-> 0]
NoRead == [stage |-> "idle", host |-> None, version |-> None, asked |-> 0]

ProfileInit ==
    /\ now = 0
    /\ row = 0
    /\ replaced = [v \in 0..MaxVersion |-> None]
    /\ cache = [h \in Hosts |-> NoEntry]
    /\ read = [q \in Reads |-> NoRead]
    /\ invalidating = {} /\ foreign = {}

\* BROKEN: an entry is used for as long as it is there.
ValidForever(h) == cache[h].version # None

Valid(h) == cache[h].version # None /\ cache[h].until > now

\* findByAuthId queries unless the entry is valid; a valid one is the answer.
FindByAuthId(q, h) ==
    /\ read[q].stage = "idle" /\ ~Valid(h)
    /\ read' = [read EXCEPT ![q] =
          [NoRead EXCEPT !.stage = "query", !.host = h, !.asked = now]]
    /\ UNCHANGED <<now, row, replaced, cache, invalidating, foreign>>

\* The database answers with the row as it is now.
QueryProfile(q) ==
    /\ read[q].stage = "query"
    /\ read' = [read EXCEPT ![q].stage = "fill", ![q].version = row]
    /\ UNCHANGED <<now, row, replaced, cache, invalidating, foreign>>

\* Lookups of a process that have their answer and not kept it yet.
Carriers(h) == {q \in Reads : read[q].host = h /\ read[q].stage = "fill"}

\* The answer arrives, is kept for a minute from now, and is served. An
\* account without a profile is not kept.
FillCache(q) ==
    LET h == read[q].host IN
    /\ read[q].stage = "fill"
    /\ cache' = IF read[q].version = None THEN cache
                ELSE [cache EXCEPT ![h] = [version |-> read[q].version, until |-> now + Ttl]]
    /\ read' = [read EXCEPT ![q] = NoRead]
    /\ foreign' = IF row # None /\ read[q].version = row /\ Carriers(h) = {q}
                THEN foreign \ {h}
                ELSE foreign
    /\ UNCHANGED <<now, row, replaced, invalidating>>

\* The processes that will not learn of a change: those it is not made at, and
\* the one it is made at when it holds the old row in a lookup under way.
Unaware(h) ==
    (Hosts \ {h}) \cup {g \in Hosts : Carriers(g) # {}}

Stored(version, h) ==
    /\ row' = version
    /\ replaced' = [replaced EXCEPT ![row] = now]
    /\ foreign' = foreign \cup Unaware(h)

\* update, of a profile that is there; then the invalidation.
UpdateProfile(h) ==
    /\ row # None /\ row < MaxVersion
    /\ Stored(row + 1, h)
    /\ invalidating' = invalidating \cup {h}
    /\ UNCHANGED <<now, cache, read>>

\* BROKEN: an update forgets the cache.
NotForgotten(h) == cache[h]

Forgotten(h) == NoEntry

Invalidate(h) ==
    /\ h \in invalidating
    /\ cache' = [cache EXCEPT ![h] = Forgotten(h)]
    /\ invalidating' = invalidating \ {h}
    /\ UNCHANGED <<now, row, replaced, read, foreign>>

\* The account is erased, or staff correct the profile, in another module: no
\* process invalidates its entry (external).
EraseProfile ==
    /\ row # None
    /\ row' = None
    /\ replaced' = [replaced EXCEPT ![row] = now]
    /\ foreign' = Hosts
    /\ UNCHANGED <<now, cache, read, invalidating>>

\* A query takes less than a tick and a half: time passes once at most while it runs.
TickProfile ==
    /\ now < MaxNow
    /\ \A q \in Reads : read[q].stage # "idle" => read[q].asked = now
    /\ now' = now + 1
    /\ UNCHANGED <<row, replaced, cache, read, invalidating, foreign>>

\* A process restarts with an empty map.
HostRestart(h) ==
    /\ cache' = [cache EXCEPT ![h] = NoEntry]
    /\ read' = [q \in Reads |-> IF read[q].host = h THEN NoRead ELSE read[q]]
    /\ invalidating' = invalidating \ {h}
    /\ foreign' = foreign \ {h}
    /\ UNCHANGED <<now, row, replaced>>

ProfileNext ==
    \/ \E q \in Reads :
          (\E h \in Hosts : FindByAuthId(q, h)) \/ QueryProfile(q) \/ FillCache(q)
    \/ \E h \in Hosts : UpdateProfile(h) \/ Invalidate(h) \/ HostRestart(h)
    \/ EraseProfile \/ TickProfile

ProfileSpec == ProfileInit /\ [][ProfileNext]_profileVars

-----------------------------------------------------------------------------
Versions == 0..MaxVersion
ProfileTypeOK ==
    /\ now \in 0..MaxNow
    /\ row \in Versions \cup {None}
    /\ replaced \in [Versions -> 0..MaxNow \cup {None}]
    /\ cache \in [Hosts -> [version : Versions \cup {None}, until : Nat]]
    /\ read \in [Reads -> [stage : {"idle", "query", "fill"}, host : Hosts \cup {None},
                           version : Versions \cup {None}, asked : 0..MaxNow]]
    /\ invalidating \subseteq Hosts /\ foreign \subseteq Hosts

\* What a process serves from its cache was the stored profile a minute and the
\* duration of a lookup ago at the earliest: updates at other processes,
\* erasures and lookups that were overtaken are out of date by no more.
StaleForAMinute ==
    \A h \in Hosts :
        LET v == cache[h].version IN
        Valid(h) /\ replaced[v] # None => now - replaced[v] <= Ttl

\* A process whose cache holds an old profile, with no invalidation to come,
\* missed the update: it was made elsewhere, or while a lookup was on its way.
OwnWriteSeen ==
    \A h \in Hosts : Valid(h) /\ h \notin invalidating =>
        cache[h].version = row \/ h \in foreign
=============================================================================
