----------------------------- MODULE ServerProofs ----------------------------
(***************************************************************************)
(* Theorems about EventBus, ProfileCache and UsageReporting, for every     *)
(* number of groups, processes, lookups, sessions and reports, every       *)
(* length of the topics and any time to live; and about the backend and    *)
(* the phone MCServer puts together.                                       *)
(*                                                                         *)
(* EventBus: a group's topic is in two parts at any time: what its         *)
(* consumer has passed, which is accounted for, and what is ahead of it,   *)
(* which has no effect yet unless the group has gone back.                 *)
(*                                                                         *)
(* ProfileCache: an entry or an answer on its way is the stored profile,   *)
(* or was until some time after its lookup began, and then its process is  *)
(* known to have missed the change or is about to drop the entry.          *)
(*                                                                         *)
(* UsageReporting: an open session that nothing took from the phone is the *)
(* only one the phone is at.                                               *)
(***************************************************************************)
EXTENDS MCServer, AuthProofs, SessionStoreProofs, PrivacyRequestsProofs, WalletOpsProofs, TLAPS

\* An event that took effect, or is known to have been passed over.
Accounted(g, e) == applied[g][e] > 0 \/ e \in swallowed[g] \cup missed[g]

Behind(g) ==
    /\ committed[g] # None =>
          /\ committed[g] <= log[g]
          /\ \A e \in Offsets : e < committed[g] => Accounted(g, e)
    /\ consumer[g].up =>
          /\ consumer[g].next <= log[g]
          /\ \A e \in Offsets : e < consumer[g].next => Accounted(g, e)

Ahead(g) ==
    /\ \A e \in Offsets : e >= log[g] => applied[g][e] = 0
    /\ \A e \in Offsets : applied[g][e] > 1 => e \in repeated[g]
    /\ consumer[g].up => \A e \in Offsets :
          e >= consumer[g].next /\ applied[g][e] > 0 => e \in repeated[g]

BusInv == BusTypeOK /\ \A g \in Groups : Behind(g) /\ Ahead(g)

-----------------------------------------------------------------------------
USE PlatformAssumption, BusAssumption

LEMMA BusInvInit == BusInit => BusInv
  BY DEF BusInit, BusInv, BusTypeOK, Behind, Ahead, Down, Offsets

LEMMA SendEventKeeps ==
    ASSUME BusInv, NEW g \in Groups, SendEvent(g)
    PROVE  BusInv'
  <1>1. BusTypeOK'
    BY DEF SendEvent, BusInv, BusTypeOK
  <1>2. ASSUME NEW h \in Groups PROVE Behind(h)' /\ Ahead(h)'
    <2>1. log'[h] \in {log[h], log[h] + 1} /\ log[h] \in Nat
      BY DEF SendEvent, BusInv, BusTypeOK
    <2>2. Behind(h) /\ Ahead(h) /\ BusTypeOK
      BY DEF BusInv
    <2>3. Behind(h)'
      BY <2>1, <2>2 DEF SendEvent, BusTypeOK, Behind, Accounted
    <2>4. Ahead(h)'
      BY <2>1, <2>2 DEF SendEvent, BusTypeOK, Ahead, Offsets
    <2> QED BY <2>3, <2>4
  <1> QED BY <1>1, <1>2 DEF BusInv

\* A consumer starts where everything before it is accounted for: at the last
\* commit, or, without one, at the end of the topic.
LEMMA RunConsumerKeeps ==
    ASSUME BusInv, NEW g \in Groups, RunConsumer(g)
    PROVE  BusInv'
  <1>1. BusTypeOK /\ \A h \in Groups : Behind(h) /\ Ahead(h)
    BY DEF BusInv
  <1>2. /\ UNCHANGED <<log, committed, applied, swallowed, gfaults>>
        /\ consumer' = [consumer EXCEPT ![g] = [up |-> TRUE, next |-> StartAt(g)]]
    BY DEF RunConsumer
  <1>3. CASE committed[g] = None
    <2>1. /\ missed' = [missed EXCEPT ![g] = @ \cup {e \in Offsets : e < log[g]}]
          /\ UNCHANGED repeated /\ StartAt(g) = log[g]
      BY <1>3 DEF RunConsumer, StartAt
    <2>2. BusTypeOK'
      BY <1>1, <1>2, <2>1 DEF BusTypeOK
    <2>3. \A h \in Groups : h # g => Behind(h)' /\ Ahead(h)'
      BY <1>1, <1>2, <2>1 DEF BusTypeOK, Behind, Ahead, Accounted
    <2>4. Behind(g)'
      BY <1>1, <1>2, <1>3, <2>1 DEF BusTypeOK, Behind, Accounted
    <2>5. Ahead(g)'
      BY <1>1, <1>2, <2>1 DEF BusTypeOK, Ahead
    <2> QED BY <2>2, <2>3, <2>4, <2>5 DEF BusInv
  <1>4. CASE committed[g] # None
    <2>1. /\ repeated' = [repeated EXCEPT ![g] =
                @ \cup {e \in Offsets : committed[g] <= e /\ applied[g][e] > 0}]
          /\ UNCHANGED missed /\ StartAt(g) = committed[g]
      BY <1>4 DEF RunConsumer, StartAt
    <2>2. BusTypeOK'
      BY <1>1, <1>2, <1>4, <2>1 DEF BusTypeOK
    <2>3. \A h \in Groups : h # g => Behind(h)' /\ Ahead(h)'
      BY <1>1, <1>2, <2>1 DEF BusTypeOK, Behind, Ahead, Accounted
    <2>4. Behind(g)'
      BY <1>1, <1>2, <1>4, <2>1 DEF BusTypeOK, Behind, Accounted
    <2>5. Ahead(g)'
      BY <1>1, <1>2, <1>4, <2>1 DEF BusTypeOK, Ahead
    <2> QED BY <2>2, <2>3, <2>4, <2>5 DEF BusInv
  <1> QED BY <1>3, <1>4

\* An event whose handler returns is accounted for; it takes effect for the
\* second time only if the group went back.
LEMMA EachMessageKeeps ==
    ASSUME BusInv, NEW g \in Groups, EachMessage(g)
    PROVE  BusInv'
  <1>1. PICK e \in Offsets :
            /\ e = consumer[g].next /\ consumer[g].up /\ e < log[g]
            /\ e \in Nat /\ e + 1 \in 0..MaxLog
    BY DEF EachMessage, BusInv, BusTypeOK, Offsets
  <1>2. /\ BusTypeOK /\ \A h \in Groups : Behind(h) /\ Ahead(h)
        /\ UNCHANGED <<log, committed, missed, repeated>>
    BY DEF EachMessage, BusInv
  <1>3. /\ consumer' \in [Groups -> [up : BOOLEAN, next : 0..MaxLog]]
        /\ \A h \in Groups : h # g => consumer'[h] = consumer[h]
        /\ consumer'[g].up /\ consumer'[g].next = e + 1
    BY <1>1, <1>2 DEF EachMessage, BusTypeOK
  <1>4. CASE /\ applied' = [applied EXCEPT ![g][e] = @ + 1]
             /\ UNCHANGED <<swallowed, gfaults>>
    <2>1. /\ applied' \in [Groups -> [Offsets -> Nat]]
          /\ \A h \in Groups : h # g => applied'[h] = applied[h]
          /\ applied'[g][e] = applied[g][e] + 1 /\ applied[g][e] \in Nat
          /\ \A d \in Offsets : d # e => applied'[g][d] = applied[g][d]
      <3>1. applied \in [Groups -> [Offsets -> Nat]]
        BY <1>2 DEF BusTypeOK
      <3> QED BY <1>4, <3>1
    <2>2. BusTypeOK'
      BY <1>2, <1>3, <1>4, <2>1 DEF BusTypeOK
    <2>3. \A h \in Groups : h # g => Behind(h)' /\ Ahead(h)'
      BY <1>2, <1>3, <1>4, <2>1 DEF Behind, Ahead, Accounted
    <2>4. ASSUME NEW d \in Offsets, d < e + 1 PROVE Accounted(g, d)'
      <3>1. CASE d = e
        BY <2>1, <3>1 DEF Accounted
      <3>2. CASE d # e
        <4>1. d < e
          BY <1>1, <2>4, <3>2 DEF Offsets
        <4>2. Accounted(g, d)
          BY <1>1, <1>2, <4>1 DEF Behind
        <4> QED BY <1>2, <1>4, <2>1, <3>2, <4>2 DEF Accounted
      <3> QED BY <3>1, <3>2
    <2>5. committed[g] # None => \A d \in Offsets : d < committed[g] => Accounted(g, d)'
      BY <1>2, <1>4, <2>1 DEF Behind, Accounted
    <2>6. Behind(g)'
      BY <1>1, <1>2, <1>3, <2>4, <2>5 DEF Behind, BusTypeOK
    <2>7. Ahead(g)'
      <3>1. /\ Ahead(g) /\ consumer[g].up /\ consumer[g].next = e /\ e < log[g]
            /\ log[g] \in Nat /\ \A d \in Offsets : applied[g][d] \in Nat
        BY <1>1, <1>2 DEF BusTypeOK
      <3>2. ASSUME NEW d \in Offsets, d # e
            PROVE  /\ d >= log[g] => applied'[g][d] = 0
                   /\ applied'[g][d] > 1 => d \in repeated[g]
                   /\ d >= e + 1 /\ applied'[g][d] > 0 => d \in repeated[g]
        <4>1. applied'[g][d] = applied[g][d] /\ d \in Nat
          BY <2>1, <3>2 DEF Offsets
        <4>2. d >= e + 1 => d >= e
          BY <1>1, <4>1
        <4> QED BY <3>1, <4>1, <4>2 DEF Ahead
      <3>3. applied[g][e] > 0 => e \in repeated[g]
        <4>1. e >= e
          BY <1>1
        <4> QED BY <3>1, <4>1 DEF Ahead
      <3>4. /\ ~(e >= log[g]) /\ ~(e >= e + 1)
            /\ applied'[g][e] > 1 => e \in repeated[g]
        BY <1>1, <2>1, <3>1, <3>3
      <3>5. /\ \A d \in Offsets : d >= log[g] => applied'[g][d] = 0
            /\ \A d \in Offsets : applied'[g][d] > 1 => d \in repeated[g]
            /\ \A d \in Offsets : d >= e + 1 /\ applied'[g][d] > 0 => d \in repeated[g]
        BY <3>2, <3>4
      <3> QED BY <1>2, <1>3, <3>5 DEF Ahead
    <2> QED BY <2>2, <2>3, <2>6, <2>7 DEF BusInv
  <1>5. CASE /\ BusFault
             /\ swallowed' = [swallowed EXCEPT ![g] = @ \cup {e}]
             /\ UNCHANGED applied
    <2>1. /\ swallowed' \in [Groups -> SUBSET Offsets]
          /\ \A h \in Groups : h # g => swallowed'[h] = swallowed[h]
          /\ swallowed'[g] = swallowed[g] \cup {e}
      BY <1>2, <1>5 DEF BusTypeOK
    <2>2. BusTypeOK'
      BY <1>2, <1>3, <1>5, <2>1 DEF BusTypeOK, BusFault
    <2>3. \A h \in Groups : h # g => Behind(h)' /\ Ahead(h)'
      BY <1>2, <1>3, <1>5, <2>1 DEF Behind, Ahead, Accounted
    <2>4. \A d \in Offsets : d < e + 1 => Accounted(g, d)'
      BY <1>1, <1>2, <1>5, <2>1 DEF Behind, Accounted, Offsets
    <2>5. committed[g] # None => \A d \in Offsets : d < committed[g] => Accounted(g, d)'
      BY <1>2, <1>5, <2>1 DEF Behind, Accounted
    <2>6. Behind(g)'
      BY <1>1, <1>2, <1>3, <2>4, <2>5 DEF Behind, BusTypeOK
    <2>7. Ahead(g)'
      BY <1>1, <1>2, <1>3, <1>5 DEF Ahead, BusTypeOK, Offsets
    <2> QED BY <2>2, <2>3, <2>6, <2>7 DEF BusInv
  <1> QED BY <1>1, <1>4, <1>5 DEF EachMessage

LEMMA CommitKeeps ==
    ASSUME BusInv, NEW g \in Groups, CommitOffsets(g)
    PROVE  BusInv'
  <1>1. BusTypeOK /\ \A h \in Groups : Behind(h) /\ Ahead(h)
    BY DEF BusInv
  <1>2. BusTypeOK'
    BY <1>1 DEF CommitOffsets, Returned, BusTypeOK
  <1>3. \A h \in Groups : Ahead(h)'
    BY <1>1 DEF CommitOffsets, Ahead
  <1>4. \A h \in Groups : Behind(h)'
    BY <1>1 DEF CommitOffsets, Returned, Behind, Accounted, BusTypeOK
  <1> QED BY <1>2, <1>3, <1>4 DEF BusInv

LEMMA ConsumerStopsKeeps ==
    ASSUME BusInv, NEW g \in Groups, ConsumerStops(g)
    PROVE  BusInv'
  <1>1. BusTypeOK /\ \A h \in Groups : Behind(h) /\ Ahead(h)
    BY DEF BusInv
  <1>2. BusTypeOK'
    BY <1>1 DEF ConsumerStops, BusFault, Down, BusTypeOK
  <1>3. \A h \in Groups : Behind(h)' /\ Ahead(h)'
    BY <1>1 DEF ConsumerStops, Down, Behind, Ahead, Accounted, BusTypeOK
  <1> QED BY <1>2, <1>3 DEF BusInv

THEOREM BusInvariant == BusSpec => []BusInv
  <1>1. BusInv /\ [BusNext]_busVars => BusInv'
    <2> SUFFICES ASSUME BusInv, [BusNext]_busVars PROVE BusInv'
      OBVIOUS
    <2>1. CASE UNCHANGED busVars
      BY <2>1 DEF busVars, BusInv, BusTypeOK, Behind, Ahead, Accounted
    <2>2. CASE BusNext
      BY <2>2, SendEventKeeps, RunConsumerKeeps, EachMessageKeeps, CommitKeeps,
         ConsumerStopsKeeps DEF BusNext
    <2> QED BY <2>1, <2>2
  <1> QED BY BusInvInit, <1>1, PTL DEF BusSpec

-----------------------------------------------------------------------------
\* The specification's variables keep their types.
THEOREM BusTypesHold == BusSpec => []BusTypeOK
  BY BusInvariant, PTL DEF BusInv

\* No event takes effect twice unless its consumer stopped after it and before
\* the next commit, and none before a commit is passed over unseen.
THEOREM TakesEffectOnceHolds == BusSpec => []TakesEffectOnce
  <1>1. BusInv => TakesEffectOnce
    BY DEF BusInv, Behind, Ahead, Accounted, TakesEffectOnce
  <1> QED BY <1>1, BusInvariant, PTL

-----------------------------------------------------------------------------
\* ProfileCache. Neither the stored profile nor a later one was ever replaced.
Current == row # None => \A v \in Versions : v >= row => replaced[v] = None

\* An answer on its way was the stored profile when its lookup began, or later.
ReadSound(q) ==
    LET r == read[q] IN
    /\ r.stage # "idle" => r.host \in Hosts /\ r.asked <= now /\ now <= r.asked + 1
    /\ r.stage = "fill" /\ r.version # None =>
          /\ r.version # row => replaced[r.version] # None
          /\ replaced[r.version] # None => replaced[r.version] >= r.asked
    /\ r.stage = "fill" /\ r.version # row => r.host \in foreign

\* An entry is kept for a minute after the lookup that was no longer than a
\* tick; one that is not the stored profile has its reason.
EntrySound(h) ==
    LET e == cache[h] IN
    e.version # None =>
        /\ e.until <= now + Ttl
        /\ e.version # row => replaced[e.version] # None /\ h \in foreign \cup invalidating
        /\ replaced[e.version] # None => e.until <= replaced[e.version] + Ttl + 1

ProfileInv ==
    /\ ProfileTypeOK /\ Current
    /\ \A q \in Reads : ReadSound(q)
    /\ \A h \in Hosts : EntrySound(h)

-----------------------------------------------------------------------------
USE ProfileAssumption

Reading == [stage : {"idle", "query", "fill"}, host : Hosts \cup {None},
            version : Versions \cup {None}, asked : 0..MaxNow]

Entries == [version : Versions \cup {None}, until : Nat]

LEMMA ProfileInvInit == ProfileInit => ProfileInv
  BY DEF ProfileInit, ProfileInv, ProfileTypeOK, Versions, NoEntry, NoRead, Current,
         ReadSound, EntrySound

\* Lookups begin, are answered and end.
LEMMA FindByAuthIdKeeps ==
    ASSUME ProfileInv, NEW q \in Reads, NEW h \in Hosts, FindByAuthId(q, h)
    PROVE  ProfileInv'
  <1> DEFINE new == [NoRead EXCEPT !.stage = "query", !.host = h, !.asked = now]
  <1>1. /\ UNCHANGED <<now, row, replaced, cache, invalidating, foreign>>
        /\ read' = [read EXCEPT ![q] = new]
    BY DEF FindByAuthId
  <1>2. new \in Reading /\ new.stage = "query" /\ new.host = h /\ new.asked = now
    <2>1. NoRead \in Reading
      BY DEF Reading, NoRead
    <2>2. now \in 0..MaxNow
      BY DEF ProfileInv, ProfileTypeOK
    <2> QED BY ONLY <2>1, <2>2, h \in Hosts DEF Reading
  <1> HIDE DEF new
  <1>3. ProfileTypeOK'
    BY <1>1, <1>2 DEF ProfileInv, ProfileTypeOK, Reading
  <1>4. \A p \in Reads : ReadSound(p)'
    BY <1>1, <1>2 DEF ProfileInv, ProfileTypeOK, ReadSound
  <1> QED BY <1>1, <1>3, <1>4 DEF ProfileInv, Current, EntrySound

LEMMA QueryProfileKeeps ==
    ASSUME ProfileInv, NEW q \in Reads, QueryProfile(q)
    PROVE  ProfileInv'
  <1>1. /\ UNCHANGED <<now, row, replaced, cache, invalidating, foreign>>
        /\ read \in [Reads -> Reading] /\ row \in Versions \cup {None}
        /\ read[q].stage = "query"
        /\ read' = [read EXCEPT ![q] = [read[q] EXCEPT !.stage = "fill", !.version = row]]
    BY DEF QueryProfile, ProfileInv, ProfileTypeOK, Reading
  <1>2. /\ \A p \in Reads : p # q => read'[p] = read[p]
        /\ read'[q].stage = "fill" /\ read'[q].version = row
        /\ read'[q].host = read[q].host /\ read'[q].asked = read[q].asked
    BY ONLY <1>1, q \in Reads DEF Reading
  <1>3. read' \in [Reads -> Reading]
    BY ONLY <1>1, q \in Reads DEF Reading
  <1>4. ProfileTypeOK'
    BY <1>1, <1>3 DEF ProfileInv, ProfileTypeOK, Reading
  <1>5. row # None => replaced[row] = None
    BY <1>1 DEF ProfileInv, Current, Versions
  <1>6. \A p \in Reads : ReadSound(p)'
    BY <1>1, <1>2, <1>5 DEF ProfileInv, ReadSound
  <1> QED BY <1>1, <1>4, <1>6 DEF ProfileInv, Current, EntrySound

LEMMA FillCacheKeeps ==
    ASSUME ProfileInv, NEW q \in Reads, FillCache(q)
    PROVE  ProfileInv'
  <1> DEFINE h == read[q].host
             v == read[q].version
             new == [version |-> v, until |-> now + Ttl]
  <1>1. /\ UNCHANGED <<now, row, replaced, invalidating>>
        /\ read[q].stage = "fill" /\ read' = [read EXCEPT ![q] = NoRead]
        /\ read \in [Reads -> Reading] /\ cache \in [Hosts -> Entries]
        /\ cache' = IF v = None THEN cache ELSE [cache EXCEPT ![h] = new]
        /\ foreign \subseteq Hosts /\ now \in 0..MaxNow
        /\ replaced \in [Versions -> 0..MaxNow \cup {None}]
    BY DEF FillCache, ProfileInv, ProfileTypeOK, Reading, Entries
  <1>2. foreign' = foreign \/ /\ row # None /\ v = row /\ Carriers(h) = {q}
                              /\ foreign' = foreign \ {h}
    BY DEF FillCache
  <1>3. h \in Hosts /\ now <= read[q].asked + 1 /\ ReadSound(q) /\ read[q].asked \in 0..MaxNow
    BY <1>1 DEF ProfileInv, ReadSound, Reading
  <1>4. v \in Versions \cup {None}
    BY <1>1 DEF Reading
  <1>5. NoRead \in Reading
    BY DEF Reading, NoRead
  <1>6. read' \in [Reads -> Reading]
    BY <1>1, <1>5
  <1>7. cache' \in [Hosts -> Entries]
    <2>1. now + Ttl \in Nat
      BY <1>1
    <2>2. CASE v = None
      BY <1>1, <2>2
    <2>3. CASE v # None
      <3>1. new \in Entries
        BY <1>4, <2>1, <2>3 DEF Entries
      <3> QED BY <1>1, <2>3, <3>1
    <2> QED BY <2>2, <2>3
  <1>8. ProfileTypeOK'
    BY <1>1, <1>2, <1>6, <1>7 DEF ProfileInv, ProfileTypeOK, Reading, Entries
  <1>9. \A p \in Reads : ReadSound(p)'
    <2> TAKE p \in Reads
    <2>1. CASE p = q
      BY <1>1, <2>1 DEF ReadSound, NoRead
    <2>2. CASE p # q
      <3>1. read'[p] = read[p] /\ ReadSound(p)
        BY <1>1, <2>2 DEF ProfileInv
      <3>2. (read[p].stage = "fill" /\ read[p].version # row) => read[p].host \in foreign'
        <4> SUFFICES ASSUME read[p].stage = "fill", read[p].version # row
                     PROVE  read[p].host \in foreign'
          OBVIOUS
        <4>1. read[p].host \in foreign
          BY <3>1 DEF ReadSound
        <4>2. Carriers(h) = {q} => read[p].host # h
          BY <2>2 DEF Carriers
        <4> QED BY <1>2, <4>1, <4>2
      <3> QED BY <1>1, <3>1, <3>2 DEF ReadSound
    <2> QED BY <2>1, <2>2
  <1>10. \A g \in Hosts : EntrySound(g)'
    <2> TAKE g \in Hosts
    <2>1. EntrySound(g)
      BY DEF ProfileInv
    <2>2. CASE g = h /\ v # None
      <3>1. cache'[g] = new
        BY <1>1, <1>3, <2>2
      <3>2. cache'[g].version = v /\ cache'[g].until = now + Ttl
        BY <3>1
      <3>3. v # row => replaced[v] # None /\ h \in foreign'
        BY <1>1, <1>2, <1>3, <2>2 DEF ReadSound
      <3>4. replaced[v] # None => now + Ttl <= replaced[v] + Ttl + 1
        <4> SUFFICES ASSUME replaced[v] # None PROVE now + Ttl <= replaced[v] + Ttl + 1
          OBVIOUS
        <4>1. replaced[v] >= read[q].asked
          BY <1>1, <1>3, <2>2 DEF ReadSound
        <4>2. replaced[v] \in Nat
          BY <1>1, <1>4, <2>2
        <4> QED BY <1>1, <1>3, <4>1, <4>2
      <3> HIDE DEF v, h, new
      <3> QED BY <1>1, <2>2, <3>2, <3>3, <3>4 DEF EntrySound
    <2>3. CASE v = None
      <3>1. foreign' = foreign /\ cache' = cache
        BY <1>1, <1>2, <2>3
      <3> QED BY <1>1, <2>1, <3>1 DEF EntrySound
    <2>4. CASE g # h
      <3>1. cache'[g] = cache[g]
        BY <1>1, <2>4
      <3>2. g \in foreign => g \in foreign'
        BY <1>2, <2>4
      <3> QED BY <1>1, <2>1, <3>1, <3>2 DEF EntrySound
    <2> QED BY <2>2, <2>3, <2>4
  <1> QED BY <1>1, <1>8, <1>9, <1>10 DEF ProfileInv, Current

\* The stored profile changes, at process h or elsewhere: every process that
\* will not see it is foreign from now on.
LEMMA ReplacedKeeps ==
    ASSUME ProfileInv, row # None, row' \in Versions \cup {None},
           row' # None => row' > row,
           replaced' = [replaced EXCEPT ![row] = now],
           UNCHANGED <<now, cache, read>>,
           foreign \subseteq foreign', foreign' \subseteq Hosts,
           invalidating \subseteq invalidating', invalidating' \subseteq Hosts,
           \A g \in Hosts : g \in foreign' \cup invalidating',
           \A g \in Hosts : Carriers(g) # {} => g \in foreign'
    PROVE  ProfileInv'
  <1>1. /\ row \in Versions /\ now \in 0..MaxNow /\ read \in [Reads -> Reading]
        /\ cache \in [Hosts -> Entries] /\ replaced \in [Versions -> 0..MaxNow \cup {None}]
    BY DEF ProfileInv, ProfileTypeOK, Reading, Entries
  <1>2. /\ replaced'[row] = now /\ now # None
        /\ \A v \in Versions : v # row => replaced'[v] = replaced[v]
    BY <1>1
  <1>3. ProfileTypeOK'
    BY <1>1 DEF ProfileInv, ProfileTypeOK
  <1>4. row # row'
    BY <1>1 DEF Versions
  <1>5. Current'
    <2> SUFFICES ASSUME row' # None, NEW v \in Versions, v >= row' PROVE replaced'[v] = None
      BY DEF Current, Versions
    <2>1. v >= row /\ v # row
      BY <1>1 DEF Versions
    <2> QED BY <1>2, <2>1 DEF ProfileInv, Current
  <1>6. \A q \in Reads : ReadSound(q)'
    <2> TAKE q \in Reads
    <2>1. ReadSound(q) /\ read[q] \in Reading
      BY <1>1 DEF ProfileInv
    <2>2. read[q].stage = "fill" => read[q].host \in foreign'
      BY <2>1 DEF ReadSound, Carriers
    <2>3. ASSUME read[q].stage = "fill", read[q].version # None
          PROVE  /\ replaced'[read[q].version] # None \/ read[q].version # row
                 /\ read[q].version # row => replaced'[read[q].version] # None
                 /\ replaced'[read[q].version] >= read[q].asked
      <3>1. read[q].version \in Versions
        BY <2>1, <2>3 DEF Reading
      <3>2. CASE read[q].version = row
        <4>1. read[q].asked <= now
          BY <2>1, <2>3 DEF ReadSound
        <4> QED BY <1>1, <1>2, <2>1, <3>2, <4>1 DEF Reading
      <3>3. CASE read[q].version # row
        BY <1>2, <2>1, <2>3, <3>1, <3>3 DEF ReadSound
      <3> QED BY <3>2, <3>3
    <2> QED BY <1>1, <1>2, <2>1, <2>2, <2>3 DEF ReadSound
  <1>7. \A h \in Hosts : EntrySound(h)'
    <2> TAKE h \in Hosts
    <2>1. EntrySound(h) /\ cache[h] \in Entries /\ h \in foreign' \cup invalidating'
      BY <1>1 DEF ProfileInv
    <2>2. CASE cache[h].version = None
      BY <2>2 DEF EntrySound
    <2>3. CASE cache[h].version = row
      BY <1>1, <1>2, <1>4, <2>1, <2>3 DEF EntrySound, Entries
    <2>4. CASE cache[h].version \notin {None, row}
      <3>1. cache[h].version \in Versions
        BY <2>1, <2>4 DEF Entries
      <3>2. replaced'[cache[h].version] = replaced[cache[h].version]
        BY <1>2, <2>4, <3>1
      <3> QED BY <2>1, <2>4, <3>2 DEF EntrySound
    <2> QED BY <2>2, <2>3, <2>4
  <1> QED BY <1>3, <1>5, <1>6, <1>7 DEF ProfileInv

LEMMA UpdateProfileKeeps ==
    ASSUME ProfileInv, NEW h \in Hosts, UpdateProfile(h)
    PROVE  ProfileInv'
  <1>1. row \in Versions /\ foreign \subseteq Hosts /\ invalidating \subseteq Hosts
    BY DEF UpdateProfile, ProfileInv, ProfileTypeOK
  <1>2. /\ row' = row + 1 /\ row < MaxVersion
        /\ replaced' = [replaced EXCEPT ![row] = now]
        /\ foreign' = foreign \cup (Hosts \ {h}) \cup {g \in Hosts : Carriers(g) # {}}
        /\ invalidating' = invalidating \cup {h}
        /\ UNCHANGED <<now, cache, read>>
    BY DEF UpdateProfile, Stored, Unaware
  <1>3. row' \in Versions \cup {None} /\ (row' # None => row' > row) /\ row # None
    BY <1>1, <1>2 DEF Versions
  <1>4. /\ foreign \subseteq foreign' /\ foreign' \subseteq Hosts
        /\ invalidating \subseteq invalidating' /\ invalidating' \subseteq Hosts
        /\ \A g \in Hosts : g \in foreign' \cup invalidating'
        /\ \A g \in Hosts : Carriers(g) # {} => g \in foreign'
    BY <1>1, <1>2
  <1> QED BY <1>2, <1>3, <1>4, ReplacedKeeps

LEMMA EraseProfileKeeps ==
    ASSUME ProfileInv, EraseProfile
    PROVE  ProfileInv'
  <1>1. foreign \subseteq Hosts /\ invalidating \subseteq Hosts
    BY DEF ProfileInv, ProfileTypeOK
  <1>2. /\ row # None /\ row' = None /\ replaced' = [replaced EXCEPT ![row] = now]
        /\ foreign' = Hosts /\ UNCHANGED <<now, cache, read, invalidating>>
    BY DEF EraseProfile
  <1> QED BY <1>1, <1>2, ReplacedKeeps

LEMMA InvalidateKeeps ==
    ASSUME ProfileInv, NEW h \in Hosts, Invalidate(h)
    PROVE  ProfileInv'
  <1>1. /\ cache' = [cache EXCEPT ![h] = NoEntry] /\ invalidating' = invalidating \ {h}
        /\ UNCHANGED <<now, row, replaced, read, foreign>>
    BY DEF Invalidate, Forgotten
  <1>2. ProfileTypeOK'
    BY <1>1 DEF ProfileInv, ProfileTypeOK, NoEntry
  <1>3. \A g \in Hosts : EntrySound(g)'
    <2> TAKE g \in Hosts
    <2>1. CASE g = h
      BY <1>1, <2>1 DEF ProfileInv, ProfileTypeOK, EntrySound, NoEntry
    <2>2. CASE g # h
      <3>1. cache'[g] = cache[g] /\ EntrySound(g)
        BY <1>1, <2>2 DEF ProfileInv, ProfileTypeOK
      <3> QED BY <1>1, <2>2, <3>1 DEF EntrySound
    <2> QED BY <2>1, <2>2
  <1> QED BY <1>1, <1>2, <1>3 DEF ProfileInv, Current, ReadSound

LEMMA HostRestartKeeps ==
    ASSUME ProfileInv, NEW h \in Hosts, HostRestart(h)
    PROVE  ProfileInv'
  <1>1. /\ cache' = [cache EXCEPT ![h] = NoEntry]
        /\ read' = [q \in Reads |-> IF read[q].host = h THEN NoRead ELSE read[q]]
        /\ invalidating' = invalidating \ {h} /\ foreign' = foreign \ {h}
        /\ UNCHANGED <<now, row, replaced>>
    BY DEF HostRestart
  <1>2. ProfileTypeOK'
    BY <1>1 DEF ProfileInv, ProfileTypeOK, NoEntry, NoRead
  <1>3. \A g \in Hosts : EntrySound(g)'
    <2> TAKE g \in Hosts
    <2>1. CASE g = h
      BY <1>1, <2>1 DEF ProfileInv, ProfileTypeOK, EntrySound, NoEntry
    <2>2. CASE g # h
      <3>1. cache'[g] = cache[g] /\ EntrySound(g)
        BY <1>1, <2>2 DEF ProfileInv, ProfileTypeOK
      <3> QED BY <1>1, <2>2, <3>1 DEF EntrySound
    <2> QED BY <2>1, <2>2
  <1>4. \A q \in Reads : ReadSound(q)'
    <2> TAKE q \in Reads
    <2>1. CASE read[q].host = h
      BY <1>1, <2>1 DEF ReadSound, NoRead
    <2>2. CASE read[q].host # h
      <3>1. read'[q] = read[q] /\ ReadSound(q)
        BY <1>1, <2>2 DEF ProfileInv
      <3> QED BY <1>1, <2>2, <3>1 DEF ReadSound
    <2> QED BY <2>1, <2>2
  <1> QED BY <1>1, <1>2, <1>3, <1>4 DEF ProfileInv, Current

LEMMA TickProfileKeeps ==
    ASSUME ProfileInv, TickProfile
    PROVE  ProfileInv'
  <1>1. /\ now \in 0..MaxNow /\ now < MaxNow /\ now' = now + 1
        /\ \A q \in Reads : read[q].stage # "idle" => read[q].asked = now
        /\ UNCHANGED <<row, replaced, cache, read, invalidating, foreign>>
    BY DEF TickProfile, ProfileInv, ProfileTypeOK
  <1>2. ProfileTypeOK'
    BY <1>1 DEF ProfileInv, ProfileTypeOK
  <1>3. \A h \in Hosts : EntrySound(h)'
    <2> TAKE h \in Hosts
    <2>1. EntrySound(h) /\ cache[h].until \in Nat
      BY DEF ProfileInv, ProfileTypeOK
    <2> QED BY <1>1, <2>1 DEF EntrySound
  <1>4. \A q \in Reads : ReadSound(q)'
    BY <1>1 DEF ProfileInv, ReadSound
  <1> QED BY <1>1, <1>2, <1>3, <1>4 DEF ProfileInv, Current

THEOREM ProfileInvariant == ProfileSpec => []ProfileInv
  <1>1. ProfileInv /\ [ProfileNext]_profileVars => ProfileInv'
    <2> SUFFICES ASSUME ProfileInv, [ProfileNext]_profileVars PROVE ProfileInv'
      OBVIOUS
    <2>1. CASE UNCHANGED profileVars
      BY <2>1 DEF profileVars, ProfileInv, ProfileTypeOK, Current, ReadSound, EntrySound
    <2>2. CASE ProfileNext
      BY <2>2, FindByAuthIdKeeps, QueryProfileKeeps, FillCacheKeeps, UpdateProfileKeeps,
         InvalidateKeeps, HostRestartKeeps, EraseProfileKeeps, TickProfileKeeps
         DEF ProfileNext
    <2> QED BY <2>1, <2>2
  <1> QED BY <1>1, ProfileInvInit, PTL DEF ProfileSpec

THEOREM ProfileTypesHold == ProfileSpec => []ProfileTypeOK
  BY ProfileInvariant, PTL DEF ProfileInv

\* What is served was the stored profile a minute and a lookup ago at the
\* earliest, for every number of processes, lookups and updates.
THEOREM StaleForAMinuteHolds == ProfileSpec => []StaleForAMinute
  <1>1. ProfileInv => StaleForAMinute
    <2> SUFFICES ASSUME ProfileInv, NEW h \in Hosts, Valid(h),
                        replaced[cache[h].version] # None
                 PROVE  now - replaced[cache[h].version] <= Ttl
      BY DEF StaleForAMinute
    <2> DEFINE gone == replaced[cache[h].version]
               until == cache[h].until
    <2>1. cache[h].version \in Versions /\ until \in Nat /\ now \in Nat
      BY DEF ProfileInv, ProfileTypeOK, Valid
    <2>2. gone \in Nat
      BY <2>1 DEF ProfileInv, ProfileTypeOK
    <2>3. until > now /\ until <= gone + Ttl + 1
      BY DEF ProfileInv, EntrySound, Valid
    <2> HIDE DEF gone, until
    <2>4. now - gone <= Ttl
      BY <2>1, <2>2, <2>3
    <2> QED BY <2>4 DEF gone
  <1> QED BY <1>1, ProfileInvariant, PTL

\* An update is seen at the process it was made at, once its invalidation has
\* run, unless a lookup was on its way with the old profile.
THEOREM OwnWriteSeenHolds == ProfileSpec => []OwnWriteSeen
  <1>1. ProfileInv => OwnWriteSeen
    BY DEF ProfileInv, EntrySound, OwnWriteSeen, Valid
  <1> QED BY <1>1, ProfileInvariant, PTL

-----------------------------------------------------------------------------
\* UsageReporting. A counter reads no more than its session carried.
CounterSound(counter) ==
    IF counter.ride = None THEN counter.bytes = 0 ELSE counter.bytes <= used[counter.ride]

LetterSound(r) ==
    letter[r].ride # None =>
        letter[r].ride \in mixed \/ letter[r].bytes <= used[letter[r].ride]

\* What a report says was read beyond what the service remembers of the counter.
BytesSound ==
    /\ CounterSound(tunnel) /\ CounterSound(tick) /\ vpn.seen <= vpn.last
    /\ \A r \in Letters : LetterSound(r)
    /\ CountedIsUsed

\* An open session that no failure, restart, sign-out or older call took.
RideHeld(s) == server[s].state = "open" /\ s \notin abandoned \cup astray

\* It is the only one the phone is at, and no Disconnect is past its end.
RideCarried(s) ==
    /\ vpn.up /\ signed
    /\ \A x \in Rides : x # s => joining[x] = "no"
    /\ \A t \in Taps : /\ ending[t].stage # "down"
                       /\ ending[t].stage = "end" => ending[t].ride = s
    /\ \/ /\ joining[s] # "no" /\ connecting = s /\ shown = None
          /\ \A t \in Taps : ending[t].stage # "end"
          /\ joining[s] = "track" => tunnel.ride = s
       \/ /\ joining[s] = "no" /\ shown = s /\ tunnel.ride = s
          /\ vpn.ride = s /\ vpn.on /\ vpn.timer

HeldAreCarried == \A s \in Rides : RideHeld(s) => RideCarried(s)

\* A press of Disconnect is for a session.
TapsAreForRides == \A t \in Taps : ending[t].stage = "end" => ending[t].ride # None

RideInv == RideTypeOK /\ BytesSound /\ HeldAreCarried /\ TapsAreForRides

USE PlatformAssumption, RideAssumption

Tunnels == [ride : Rides \cup {None}, bytes : Nat]
Vpns == [up : BOOLEAN, on : BOOLEAN, ride : Rides \cup {None}, timer : BOOLEAN,
         last : Nat, seen : Nat]
Ticks == [pending : BOOLEAN, ride : Rides \cup {None}, bytes : Nat]
Endings == [stage : {"new", "end", "down", "done"}, ride : Rides \cup {None}]
BillingRows == [state : {"none", "open", "closed"}, counted : Nat]

LEMMA RideParts ==
    ASSUME RideTypeOK
    PROVE  /\ tunnel \in Tunnels /\ vpn \in Vpns /\ tick \in Ticks
           /\ ending \in [Taps -> Endings] /\ joining \in [Rides -> {"no", "tunnel", "track"}]
           /\ letter \in [Letters -> Tunnels] /\ server \in [Rides -> BillingRows]
           /\ \A s \in Rides : used[s] \in Nat
  BY DEF RideTypeOK, Tunnels, Vpns, Ticks, Endings, BillingRows

\* The records the actions set.
LEMMA NewRecords ==
    /\ NoTunnel \in Tunnels /\ NoTunnel.ride = None /\ NoTunnel.bytes = 0
    /\ NoLetter = NoTunnel
    /\ NoTick \in Ticks /\ NoTick.ride = None /\ NoTick.bytes = 0
    /\ NewTap \in Endings /\ NewTap.stage = "new"
    /\ TapDone \in Endings /\ TapDone.stage = "done"
    /\ Stopped \in Vpns /\ Stopped.ride = None /\ Stopped.last = 0 /\ Stopped.seen = 0
    /\ ~ Stopped.up
  BY DEF NoTunnel, NoLetter, NoTick, NewTap, TapDone, Stopped, Tunnels, Vpns, Ticks, Endings

LEMMA RideInvInit == RideInit => RideInv
  <1> SUFFICES ASSUME RideInit PROVE RideInv
    OBVIOUS
  <1>1. vpn \in Vpns /\ vpn.up /\ vpn.ride = None /\ vpn.last = 0 /\ vpn.seen = 0
    BY NewRecords DEF RideInit, Vpns
  <1>2. tunnel \in Tunnels /\ tick \in Ticks /\ ending \in [Taps -> Endings]
    BY NewRecords DEF RideInit
  <1>3. letter \in [Letters -> Tunnels]
    BY NewRecords DEF RideInit
  <1>4. /\ server \in [Rides -> BillingRows]
        /\ \A s \in Rides : server[s].state = "none" /\ server[s].counted = 0
    BY DEF RideInit, BillingRows
  <1>5. used \in [Rides -> 0..MaxTraffic] /\ \A s \in Rides : used[s] = 0
    BY DEF RideInit
  <1>6. RideTypeOK
    BY <1>1, <1>2, <1>3, <1>4, <1>5
       DEF RideInit, RideTypeOK, Tunnels, Vpns, Ticks, Endings, BillingRows
  <1>7. /\ CounterSound(tunnel) /\ CounterSound(tick) /\ vpn.seen <= vpn.last
        /\ \A r \in Letters : LetterSound(r)
    BY <1>1, NewRecords DEF RideInit, CounterSound, LetterSound
  <1>8. CountedIsUsed
    BY <1>4, <1>5 DEF CountedIsUsed
  <1>9. HeldAreCarried /\ TapsAreForRides
    BY <1>4, NewRecords DEF HeldAreCarried, RideHeld, TapsAreForRides, RideInit
  <1> QED BY <1>6, <1>7, <1>8, <1>9 DEF RideInv, BytesSound

-----------------------------------------------------------------------------
\* A session opens held only when the phone is at no other; and no other is held,
\* for the screen would connect to it or show it.
LEMMA OpenRideKeeps ==
    ASSUME RideInv, NEW s \in Rides, OpenRide(s)
    PROVE  RideInv'
  <1>1. /\ UNCHANGED <<tunnel, tick, signed, shown, ending, saved, letter, used, mixed,
                       abandoned, rfaults>>
        /\ server' = [server EXCEPT ![s].state = "open"]
        /\ joining' = [joining EXCEPT ![s] = "tunnel"] /\ connecting' = s
        /\ vpn' = [vpn EXCEPT !.on = FALSE]
        /\ astray' = IF Joining \cup Ending = {} THEN astray ELSE astray \cup {s}
        /\ vpn.up /\ signed /\ connecting = None /\ shown = None
    BY DEF OpenRide, ConnectEnabled
  <1>2. /\ vpn \in Vpns /\ server \in [Rides -> BillingRows]
        /\ joining \in [Rides -> {"no", "tunnel", "track"}] /\ ending \in [Taps -> Endings]
    BY RideParts DEF RideInv
  <1>3. /\ server' \in [Rides -> BillingRows]
        /\ \A x \in Rides : server'[x].counted = server[x].counted
        /\ \A x \in Rides : x # s => server'[x] = server[x]
    BY <1>1, <1>2 DEF BillingRows
  <1>4. /\ vpn' \in Vpns /\ vpn'.up /\ vpn'.seen = vpn.seen /\ vpn'.last = vpn.last
    BY <1>1, <1>2 DEF Vpns
  <1>5. /\ joining' \in [Rides -> {"no", "tunnel", "track"}] /\ joining'[s] = "tunnel"
        /\ \A x \in Rides : x # s => joining'[x] = joining[x]
    BY <1>1, <1>2
  <1>6. astray \subseteq astray' /\ astray' \subseteq Rides
    BY <1>1 DEF RideInv, RideTypeOK
  <1>7. RideTypeOK'
    BY <1>1, <1>3, <1>4, <1>5, <1>6 DEF RideInv, RideTypeOK, BillingRows, Vpns
  <1>8. BytesSound'
    BY <1>1, <1>3, <1>4 DEF RideInv, BytesSound, CounterSound, LetterSound, CountedIsUsed
  <1>9. ASSUME NEW x \in Rides, RideHeld(x)' PROVE RideCarried(x)'
    <2>1. CASE x # s
      <3>1. RideHeld(x)
        BY <1>1, <1>3, <1>6, <1>9, <2>1 DEF RideHeld
      <3>2. connecting = x \/ shown = x
        BY <3>1 DEF RideInv, HeldAreCarried, RideCarried
      <3> QED BY <1>1, <3>2
    <2>2. CASE x = s
      <3>1. Joining \cup Ending = {}
        BY <1>1, <1>9, <2>2 DEF RideHeld
      <3>2. /\ \A y \in Rides : joining[y] = "no"
            /\ \A t \in Taps : ending[t].stage \notin {"end", "down"}
        BY <3>1 DEF Joining, Ending
      <3> QED BY <1>1, <1>4, <1>5, <2>2, <3>2 DEF RideCarried
    <2> QED BY <2>1, <2>2
  <1>10. TapsAreForRides'
    BY <1>1 DEF RideInv, TapsAreForRides
  <1> QED BY <1>7, <1>8, <1>9, <1>10 DEF RideInv, HeldAreCarried

\* A session that connects is the only one held, if it is held.
LEMMA JoinedParts ==
    ASSUME RideInv, NEW s \in Rides, joining[s] # "no", Joined(s)
    PROVE  /\ joining' \in [Rides -> {"no", "tunnel", "track"}] /\ joining'[s] = "no"
           /\ \A x \in Rides : x # s => joining'[x] = joining[x]
           /\ connecting' \in Rides \cup {None}
           /\ \A x \in Rides : RideHeld(x) => x = s /\ connecting = s
  BY DEF RideInv, RideTypeOK, Joined, HeldAreCarried, RideCarried

LEMMA RaiseTunnelKeeps ==
    ASSUME RideInv, NEW s \in Rides, RaiseTunnel(s)
    PROVE  RideInv'
  <1>1. /\ UNCHANGED <<tick, signed, ending, saved, letter, server, used, mixed, astray>>
        /\ joining[s] = "tunnel"
    BY DEF RaiseTunnel
  <1>2. /\ vpn \in Vpns /\ joining \in [Rides -> {"no", "tunnel", "track"}]
        /\ \A x \in Rides : used[x] \in Nat
    BY RideParts DEF RideInv
  <1>3. CASE /\ tunnel' = [ride |-> s, bytes |-> 0]
             /\ joining' = [joining EXCEPT ![s] = "track"]
             /\ UNCHANGED <<vpn, connecting, shown, abandoned, rfaults>>
    <2>1. /\ joining' \in [Rides -> {"no", "tunnel", "track"}] /\ joining'[s] = "track"
          /\ \A x \in Rides : x # s => joining'[x] = joining[x]
      BY <1>2, <1>3
    <2>2. tunnel' \in Tunnels /\ tunnel'.ride = s /\ tunnel'.bytes = 0
      BY <1>3 DEF Tunnels
    <2>3. RideTypeOK'
      BY <1>1, <1>3, <2>1, <2>2 DEF RideInv, RideTypeOK, Tunnels
    <2>4. CounterSound(tunnel)'
      BY <1>1, <1>2, <2>2 DEF CounterSound
    <2>5. BytesSound'
      BY <1>1, <1>3, <2>4 DEF RideInv, BytesSound, CounterSound, LetterSound, CountedIsUsed
    <2>6. ASSUME NEW x \in Rides, RideHeld(x)' PROVE RideCarried(x)'
      <3>1. RideCarried(x)
        BY <1>1, <1>3, <2>6 DEF RideInv, HeldAreCarried, RideHeld
      <3>2. x = s
        BY <1>1, <3>1 DEF RideCarried
      <3> QED BY <1>1, <1>3, <2>1, <2>2, <3>1, <3>2 DEF RideCarried
    <2>7. TapsAreForRides'
      BY <1>1 DEF RideInv, TapsAreForRides
    <2> QED BY <2>3, <2>5, <2>6, <2>7 DEF RideInv, HeldAreCarried
  <1>4. CASE /\ RideFault /\ Joined(s)
             /\ vpn' = [vpn EXCEPT !.on = FALSE] /\ shown' = None
             /\ abandoned' = abandoned \cup {s}
             /\ UNCHANGED tunnel
    <2>1. vpn' \in Vpns /\ vpn'.seen = vpn.seen /\ vpn'.last = vpn.last
      BY <1>2, <1>4 DEF Vpns
    <2>2. RideTypeOK'
      BY <1>1, <1>4, <2>1, JoinedParts DEF RideInv, RideTypeOK, Vpns, RideFault
    <2>3. BytesSound'
      BY <1>1, <1>4, <2>1 DEF RideInv, BytesSound, CounterSound, LetterSound, CountedIsUsed
    <2>4. \A x \in Rides : ~RideHeld(x)'
      <3>1. \A x \in Rides : RideHeld(x)' => RideHeld(x) /\ x # s
        BY <1>1, <1>4 DEF RideHeld
      <3> QED BY <1>1, <1>4, <3>1, JoinedParts
    <2>5. TapsAreForRides'
      BY <1>1 DEF RideInv, TapsAreForRides
    <2> QED BY <2>2, <2>3, <2>4, <2>5 DEF RideInv, HeldAreCarried
  <1> QED BY <1>3, <1>4 DEF RaiseTunnel

LEMMA TrackRideKeeps ==
    ASSUME RideInv, NEW s \in Rides, TrackRide(s)
    PROVE  RideInv'
  <1>1. /\ UNCHANGED <<tunnel, tick, signed, ending, letter, server, used, mixed, abandoned,
                       astray, rfaults>>
        /\ joining[s] = "track" /\ Joined(s)
        /\ vpn' = [vpn EXCEPT !.on = TRUE, !.ride = s, !.timer = TRUE, !.last = 0, !.seen = 0]
        /\ saved' = s /\ shown' = IF connecting = s THEN s ELSE shown
    BY DEF TrackRide
  <1>2. vpn \in Vpns
    BY RideParts DEF RideInv
  <1>3. /\ vpn' \in Vpns /\ vpn'.up = vpn.up /\ vpn'.on /\ vpn'.ride = s /\ vpn'.timer
        /\ vpn'.last = 0 /\ vpn'.seen = 0
    BY <1>1, <1>2 DEF Vpns
  <1>4. RideTypeOK'
    BY <1>1, <1>3, JoinedParts DEF RideInv, RideTypeOK, Vpns
  <1>5. BytesSound'
    BY <1>1, <1>3 DEF RideInv, BytesSound, CounterSound, LetterSound, CountedIsUsed
  <1>6. ASSUME NEW x \in Rides, RideHeld(x)' PROVE RideCarried(x)'
    <2>1. RideHeld(x)
      BY <1>1, <1>6 DEF RideHeld
    <2>2. RideCarried(x) /\ x = s /\ connecting = s
      BY <1>1, <2>1, JoinedParts DEF RideInv, HeldAreCarried
    <2>3. shown' = x /\ joining'[x] = "no" /\ \A y \in Rides : y # x => joining'[y] = "no"
      BY <1>1, <2>2, JoinedParts DEF RideCarried
    <2> QED BY <1>1, <1>3, <2>2, <2>3 DEF RideCarried
  <1>7. TapsAreForRides'
    BY <1>1 DEF RideInv, TapsAreForRides
  <1> QED BY <1>4, <1>5, <1>6, <1>7 DEF RideInv, HeldAreCarried

\* What a session carried only grows.
LEMMA TrafficKeeps ==
    ASSUME RideInv, Traffic
    PROVE  RideInv'
  <1> DEFINE s == tunnel.ride
  <1>1. /\ UNCHANGED <<vpn, tick, signed, joining, connecting, shown, ending, saved, letter,
                       server, mixed, abandoned, astray, rfaults>>
        /\ s # None /\ used[s] < MaxTraffic
        /\ tunnel' = [tunnel EXCEPT !.bytes = @ + 1] /\ used' = [used EXCEPT ![s] = @ + 1]
    BY DEF Traffic
  <1>2. /\ tunnel \in Tunnels /\ vpn \in Vpns /\ tick \in Ticks
        /\ server \in [Rides -> BillingRows]
        /\ letter \in [Letters -> Tunnels] /\ used \in [Rides -> 0..MaxTraffic]
    BY RideParts DEF RideInv, RideTypeOK
  <1>3. s \in Rides
    BY <1>1, <1>2 DEF Tunnels
  <1>4. tunnel' \in Tunnels /\ tunnel'.ride = s /\ tunnel'.bytes = tunnel.bytes + 1
    BY <1>1, <1>2 DEF Tunnels
  <1>5. /\ used'[s] = used[s] + 1 /\ \A x \in Rides : x # s => used'[x] = used[x]
        /\ used' \in [Rides -> 0..MaxTraffic]
    BY ONLY <1>1, <1>2, <1>3, RideAssumption
  <1>6. \A x \in Rides : used[x] \in Nat /\ used'[x] \in Nat /\ used[x] <= used'[x]
    BY ONLY <1>2, <1>3, <1>5, RideAssumption
  <1>7. RideTypeOK'
    BY <1>1, <1>4, <1>5 DEF RideInv, RideTypeOK, Tunnels
  <1>8. HeldAreCarried'
    BY <1>1, <1>4 DEF RideInv, HeldAreCarried, RideHeld, RideCarried
  <1>14. TapsAreForRides'
    BY <1>1 DEF RideInv, TapsAreForRides
  <1>9. CounterSound(tunnel)'
    <2>1. tunnel.bytes <= used[s]
      BY <1>1 DEF RideInv, BytesSound, CounterSound
    <2> QED BY <1>1, <1>2, <1>3, <1>4, <1>5, <1>6, <2>1 DEF CounterSound, Tunnels
  <1>10. CounterSound(tick)'
    BY <1>1, <1>2, <1>6 DEF RideInv, BytesSound, CounterSound, Ticks
  <1>11. ASSUME NEW r \in Letters PROVE LetterSound(r)'
    <2>1. LetterSound(r) /\ letter[r] \in Tunnels
      BY <1>2 DEF RideInv, BytesSound
    <2> QED BY <1>1, <1>6, <2>1 DEF LetterSound, Tunnels
  <1>12. CountedIsUsed'
    BY <1>1, <1>2, <1>6 DEF RideInv, BytesSound, CountedIsUsed, BillingRows
  <1>13. vpn'.seen <= vpn'.last
    BY <1>1 DEF RideInv, BytesSound
  <1> QED BY <1>7, <1>8, <1>9, <1>10, <1>11, <1>12, <1>13, <1>14 DEF RideInv, BytesSound

LEMMA ReadCounterKeeps ==
    ASSUME RideInv, ReadCounter
    PROVE  RideInv'
  <1>1. /\ UNCHANGED <<tunnel, vpn, signed, joining, connecting, shown, ending, saved, letter,
                       server, used, mixed, abandoned, astray, rfaults>>
        /\ tick' = [pending |-> TRUE, ride |-> tunnel.ride, bytes |-> tunnel.bytes]
    BY DEF ReadCounter
  <1>2. tunnel \in Tunnels
    BY RideParts DEF RideInv
  <1>3. tick' \in Ticks /\ tick'.ride = tunnel.ride /\ tick'.bytes = tunnel.bytes
    BY <1>1, <1>2 DEF Tunnels, Ticks
  <1>4. RideTypeOK'
    BY <1>1, <1>3 DEF RideInv, RideTypeOK, Ticks
  <1>5. CounterSound(tick)'
    BY <1>1, <1>3 DEF RideInv, BytesSound, CounterSound
  <1>6. BytesSound'
    BY <1>1, <1>5 DEF RideInv, BytesSound, CounterSound, LetterSound, CountedIsUsed
  <1>7. HeldAreCarried' /\ TapsAreForRides'
    BY <1>1 DEF RideInv, HeldAreCarried, RideHeld, RideCarried, TapsAreForRides
  <1> QED BY <1>4, <1>6, <1>7 DEF RideInv

\* What is reported is what the counter read beyond the last report, and the
\* counter is that of the session it is reported for unless that is mixed.
LEMMA ReportUsageKeeps ==
    ASSUME RideInv, NEW r \in Letters, ReportUsage(r)
    PROVE  RideInv'
  <1> DEFINE current == IF tick.bytes = 0 THEN vpn.seen ELSE tick.bytes
             more == current > vpn.last
             sends == more /\ vpn.ride # None /\ signed
             note == [ride |-> vpn.ride, bytes |-> ReportedBytes(current, vpn.last)]
  <1>1. /\ UNCHANGED <<tunnel, signed, joining, connecting, shown, ending, saved, server, used,
                       abandoned, astray, rfaults>>
        /\ tick' = NoTick
        /\ vpn' = [vpn EXCEPT !.seen = current, !.last = IF more THEN current ELSE @]
        /\ letter' = IF sends THEN [letter EXCEPT ![r] = note] ELSE letter
        /\ mixed' = IF sends /\ tick.ride # vpn.ride THEN mixed \cup {vpn.ride} ELSE mixed
    BY DEF ReportUsage
  <1>2. /\ vpn \in Vpns /\ tick \in Ticks /\ letter \in [Letters -> Tunnels]
        /\ \A x \in Rides : used[x] \in Nat
    BY RideParts DEF RideInv
  <1>3. /\ current \in Nat /\ vpn.last \in Nat /\ vpn.seen \in Nat /\ tick.bytes \in Nat
        /\ vpn.ride \in Rides \cup {None} /\ vpn.seen <= vpn.last
    BY <1>2 DEF Vpns, Ticks, RideInv, BytesSound
  <1>4. more => tick.bytes = current
    BY <1>3
  <1>5. /\ vpn' \in Vpns /\ vpn'.up = vpn.up /\ vpn'.ride = vpn.ride /\ vpn'.seen = current
        /\ vpn'.last = (IF more THEN current ELSE vpn.last)
        /\ vpn'.on = vpn.on /\ vpn'.timer = vpn.timer
    BY ONLY <1>1, <1>2, <1>3 DEF Vpns
  <1>6. vpn'.seen <= vpn'.last
    BY <1>3, <1>5
  <1>7. mixed \subseteq mixed' /\ mixed' \subseteq Rides
    BY <1>1, <1>3 DEF RideInv, RideTypeOK
  <1> HIDE DEF current
  <1>8. sends => note \in Tunnels /\ note.ride = vpn.ride
                 /\ (vpn.ride \notin mixed' => note.bytes <= used[vpn.ride])
    <2> SUFFICES ASSUME sends PROVE note \in Tunnels /\ note.ride = vpn.ride
                 /\ (vpn.ride \notin mixed' => note.bytes <= used[vpn.ride])
      OBVIOUS
    <2>1. note.bytes = current - vpn.last /\ note.bytes \in Nat /\ note.ride = vpn.ride
          /\ note.bytes <= current
      BY <1>3 DEF ReportedBytes
    <2>2. note \in Tunnels
      BY <1>3, <2>1 DEF Tunnels
    <2>3. ASSUME vpn.ride \notin mixed' PROVE note.bytes <= used[vpn.ride]
      <3>1. tick.ride = vpn.ride /\ vpn.ride \in Rides
        BY <1>1, <1>3, <2>3
      <3>2. current <= used[vpn.ride] /\ used[vpn.ride] \in Nat
        BY <1>2, <1>4, <3>1 DEF RideInv, BytesSound, CounterSound
      <3> QED BY <1>3, <2>1, <3>2
    <2> QED BY <2>1, <2>2, <2>3
  <1> HIDE DEF note, sends, more
  <1>9. /\ letter' \in [Letters -> Tunnels]
        /\ \A q \in Letters : letter'[q] = letter[q] \/ (q = r /\ sends /\ letter'[q] = note)
    BY <1>1, <1>2, <1>8
  <1>10. RideTypeOK'
    BY <1>1, <1>5, <1>7, <1>9, NewRecords DEF RideInv, RideTypeOK, Vpns, Ticks, Tunnels
  <1>11. HeldAreCarried' /\ TapsAreForRides'
    BY <1>1, <1>5 DEF RideInv, HeldAreCarried, RideHeld, RideCarried, TapsAreForRides
  <1>12. CounterSound(tunnel)' /\ CounterSound(tick)'
    BY <1>1, NewRecords DEF RideInv, BytesSound, CounterSound
  <1>13. ASSUME NEW q \in Letters PROVE LetterSound(q)'
    <2>1. CASE letter'[q] = letter[q]
      BY <1>1, <1>7, <2>1 DEF RideInv, BytesSound, LetterSound
    <2>2. CASE q = r /\ sends /\ letter'[q] = note
      BY <1>1, <1>8, <2>2 DEF LetterSound
    <2> QED BY <1>9, <2>1, <2>2
  <1>14. CountedIsUsed'
    BY <1>1, <1>7 DEF RideInv, BytesSound, CountedIsUsed
  <1> QED BY <1>6, <1>10, <1>11, <1>12, <1>13, <1>14 DEF RideInv, BytesSound

LEMMA LetterGone ==
    ASSUME RideInv, NEW r \in Letters, letter' = [letter EXCEPT ![r] = NoLetter],
           UNCHANGED <<used, mixed>>
    PROVE  letter' \in [Letters -> Tunnels] /\ \A q \in Letters : LetterSound(q)'
  <1>1. letter \in [Letters -> Tunnels]
    BY RideParts DEF RideInv
  <1>2. /\ letter' \in [Letters -> Tunnels] /\ letter'[r] = NoLetter
        /\ \A q \in Letters : q # r => letter'[q] = letter[q]
    BY <1>1, NewRecords
  <1> QED BY <1>2, NewRecords DEF RideInv, BytesSound, LetterSound

\* What is counted is what a report said.
LEMMA CountReportKeeps ==
    ASSUME RideInv, NEW r \in Letters, CountReport(r)
    PROVE  RideInv'
  <1> DEFINE s == letter[r].ride
  <1>1. /\ UNCHANGED <<tunnel, vpn, tick, signed, joining, connecting, shown, ending, saved,
                       used, mixed, abandoned, astray, rfaults>>
        /\ letter' = [letter EXCEPT ![r] = NoLetter] /\ s # None
        /\ \/ server' = server
           \/ server' = [server EXCEPT ![s].counted = letter[r].bytes]
    BY DEF CountReport
  <1>2. letter \in [Letters -> Tunnels] /\ server \in [Rides -> BillingRows]
    BY RideParts DEF RideInv
  <1>3. s \in Rides /\ letter[r].bytes \in Nat
    BY <1>1, <1>2 DEF Tunnels
  <1>4. letter' \in [Letters -> Tunnels] /\ \A q \in Letters : LetterSound(q)'
    BY <1>1, LetterGone
  <1>5. /\ server' \in [Rides -> BillingRows]
        /\ \A x \in Rides : server'[x].state = server[x].state
        /\ \A x \in Rides : \/ server'[x].counted = server[x].counted
                            \/ x = s /\ server'[x].counted = letter[r].bytes
    BY <1>1, <1>2, <1>3 DEF BillingRows
  <1>6. RideTypeOK'
    BY <1>1, <1>4, <1>5 DEF RideInv, RideTypeOK, Tunnels, BillingRows
  <1>7. CounterSound(tunnel)' /\ CounterSound(tick)' /\ vpn'.seen <= vpn'.last
    BY <1>1 DEF RideInv, BytesSound, CounterSound
  <1>8. HeldAreCarried' /\ TapsAreForRides'
    BY <1>1, <1>5 DEF RideInv, HeldAreCarried, RideHeld, RideCarried, TapsAreForRides
  <1>9. CountedIsUsed'
    BY <1>1, <1>3, <1>5 DEF RideInv, BytesSound, CountedIsUsed, LetterSound
  <1> QED BY <1>4, <1>6, <1>7, <1>8, <1>9 DEF RideInv, BytesSound

LEMMA LoseReportKeeps ==
    ASSUME RideInv, NEW r \in Letters, LoseReport(r)
    PROVE  RideInv'
  <1>1. /\ UNCHANGED <<tunnel, vpn, tick, signed, joining, connecting, shown, ending, saved,
                       server, used, mixed, abandoned, astray>>
        /\ letter' = [letter EXCEPT ![r] = NoLetter] /\ rfaults' = rfaults + 1
    BY DEF LoseReport, RideFault
  <1>2. letter' \in [Letters -> Tunnels] /\ \A q \in Letters : LetterSound(q)'
    BY <1>1, LetterGone
  <1>3. RideTypeOK'
    BY <1>1, <1>2 DEF RideInv, RideTypeOK, Tunnels
  <1>4. BytesSound'
    BY <1>1, <1>2 DEF RideInv, BytesSound, CounterSound, CountedIsUsed
  <1>5. HeldAreCarried' /\ TapsAreForRides'
    BY <1>1 DEF RideInv, HeldAreCarried, RideHeld, RideCarried, TapsAreForRides
  <1> QED BY <1>3, <1>4, <1>5 DEF RideInv

-----------------------------------------------------------------------------
\* A press of Disconnect is for the session that is held, if one is.
LEMMA PressDisconnectKeeps ==
    ASSUME RideInv, NEW t \in Taps, PressDisconnect(t)
    PROVE  RideInv'
  <1>1. /\ UNCHANGED <<tunnel, vpn, tick, signed, joining, connecting, shown, saved, letter,
                       server, used, mixed, abandoned, astray, rfaults>>
        /\ shown # None
        /\ ending' = [ending EXCEPT ![t] = [stage |-> "end", ride |-> shown]]
    BY DEF PressDisconnect
  <1>2. ending \in [Taps -> Endings] /\ shown \in Rides
    BY <1>1, RideParts DEF RideInv, RideTypeOK
  <1>3. /\ ending' \in [Taps -> Endings]
        /\ ending'[t].stage = "end" /\ ending'[t].ride = shown
        /\ \A x \in Taps : x # t => ending'[x] = ending[x]
    BY <1>1, <1>2 DEF Endings
  <1>4. RideTypeOK'
    BY <1>1, <1>3 DEF RideInv, RideTypeOK, Endings
  <1>5. BytesSound'
    BY <1>1 DEF RideInv, BytesSound, CounterSound, LetterSound, CountedIsUsed
  <1>6. ASSUME NEW x \in Rides, RideHeld(x)' PROVE RideCarried(x)'
    <2>1. RideCarried(x)
      BY <1>1, <1>6 DEF RideInv, HeldAreCarried, RideHeld
    <2>2. shown = x
      BY <1>1, <2>1 DEF RideCarried
    <2> QED BY <1>1, <1>3, <2>1, <2>2 DEF RideCarried
  <1>7. TapsAreForRides'
    BY <1>1, <1>3 DEF RideInv, TapsAreForRides
  <1> QED BY <1>4, <1>5, <1>6, <1>7 DEF RideInv, HeldAreCarried

\* The session a press ends is held no more: it is closed, or the failure is on
\* record.
LEMMA EndRideKeeps ==
    ASSUME RideInv, NEW t \in Taps, EndRide(t)
    PROVE  RideInv'
  <1> DEFINE s == ending[t].ride
  <1>1. /\ UNCHANGED <<tunnel, tick, signed, joining, connecting, shown, saved, letter, used,
                       mixed, astray>>
        /\ ending[t].stage = "end"
        /\ ending' = [ending EXCEPT ![t].stage = "down"]
        /\ vpn' = [vpn EXCEPT !.timer = FALSE]
        /\ \/ server' = [server EXCEPT ![s].state = "closed"] /\ UNCHANGED <<abandoned, rfaults>>
           \/ /\ RideFault \/ UNCHANGED rfaults
              /\ abandoned' = abandoned \cup {s} /\ server' = server
    BY DEF EndRide
  <1>2. /\ server \in [Rides -> BillingRows] /\ vpn \in Vpns /\ ending \in [Taps -> Endings]
        /\ s \in Rides
    BY <1>1, RideParts DEF RideInv, TapsAreForRides, Endings
  <1>3. /\ server' \in [Rides -> BillingRows]
        /\ \A x \in Rides : server'[x].counted = server[x].counted
        /\ \A x \in Rides : x # s => server'[x].state = server[x].state
        /\ server'[s].state = "closed" \/ s \in abandoned'
    BY <1>1, <1>2 DEF BillingRows
  <1>4. vpn' \in Vpns /\ vpn'.seen = vpn.seen /\ vpn'.last = vpn.last
    BY <1>1, <1>2 DEF Vpns
  <1>5. /\ ending' \in [Taps -> Endings] /\ ending'[t].stage = "down"
        /\ ending'[t].ride = ending[t].ride
        /\ \A x \in Taps : x # t => ending'[x] = ending[x]
    BY <1>1, <1>2 DEF Endings
  <1>6. /\ abandoned \subseteq abandoned' /\ abandoned' \subseteq Rides /\ rfaults' \in Nat
    BY <1>1, <1>2 DEF RideInv, RideTypeOK, RideFault
  <1>7. RideTypeOK'
    BY <1>1, <1>3, <1>4, <1>5, <1>6 DEF RideInv, RideTypeOK, BillingRows, Vpns, Endings
  <1>8. BytesSound'
    BY <1>1, <1>3, <1>4 DEF RideInv, BytesSound, CounterSound, LetterSound, CountedIsUsed
  <1>9. ASSUME NEW x \in Rides PROVE ~RideHeld(x)'
    <2> SUFFICES ASSUME RideHeld(x)' PROVE FALSE
      OBVIOUS
    <2>1. x # s
      BY <1>3 DEF RideHeld
    <2>2. RideHeld(x)
      BY <1>1, <1>3, <1>6, <2>1 DEF RideHeld
    <2> QED BY <1>1, <2>1, <2>2 DEF RideInv, HeldAreCarried, RideCarried
  <1>10. TapsAreForRides'
    BY <1>5 DEF RideInv, TapsAreForRides
  <1> QED BY <1>7, <1>8, <1>9, <1>10 DEF RideInv, HeldAreCarried

\* A Disconnect past its end finds no session held.
LEMMA DisconnectKeeps ==
    ASSUME RideInv, NEW t \in Taps, Disconnect(t)
    PROVE  RideInv'
  <1>1. /\ UNCHANGED <<tick, signed, joining, connecting, letter, server, used, mixed,
                       abandoned, astray>>
        /\ ending[t].stage = "down" /\ tunnel' \in {tunnel, NoTunnel}
        /\ vpn' = [vpn EXCEPT !.on = FALSE, !.ride = None]
        /\ shown' = None /\ saved' = None /\ ending' = [ending EXCEPT ![t] = TapDone]
    BY DEF Disconnect
  <1>2. tunnel \in Tunnels /\ vpn \in Vpns /\ ending \in [Taps -> Endings] /\ rfaults' \in Nat
    BY RideParts DEF RideInv, RideTypeOK, Disconnect, RideFault
  <1>3. vpn' \in Vpns /\ vpn'.seen = vpn.seen /\ vpn'.last = vpn.last
    BY <1>1, <1>2 DEF Vpns
  <1>4. /\ ending' \in [Taps -> Endings] /\ ending'[t].stage = "done"
        /\ \A x \in Taps : x # t => ending'[x] = ending[x]
    BY <1>1, <1>2, NewRecords
  <1>5. RideTypeOK'
    BY <1>1, <1>2, <1>3, <1>4, NewRecords DEF RideInv, RideTypeOK, Vpns, Tunnels, Endings
  <1>6. BytesSound'
    <2>1. CounterSound(tunnel)'
      BY <1>1, NewRecords DEF RideInv, BytesSound, CounterSound
    <2> QED BY <1>1, <1>3, <2>1 DEF RideInv, BytesSound, CounterSound, LetterSound, CountedIsUsed
  <1>7. \A x \in Rides : ~RideHeld(x)'
    BY <1>1 DEF RideInv, HeldAreCarried, RideHeld, RideCarried
  <1>8. TapsAreForRides'
    BY <1>4 DEF RideInv, TapsAreForRides
  <1> QED BY <1>5, <1>6, <1>7, <1>8 DEF RideInv, HeldAreCarried

\* The sessions the phone has to do with are the only ones that may be held.
LEMMA HeldOnPhone ==
    ASSUME RideInv, NEW s \in Rides, RideHeld(s)
    PROVE  s \in OnPhone
  BY DEF RideInv, HeldAreCarried, RideCarried, OnPhone, Joining

LEMMA OnPhoneRides ==
    ASSUME RideTypeOK
    PROVE  OnPhone \subseteq Rides
  BY RideParts DEF OnPhone, Joining, Vpns

\* A sign-out takes every session that was held.
LEMMA SignOutKeeps ==
    ASSUME RideInv, SignOut
    PROVE  RideInv'
  <1>1. /\ UNCHANGED <<tunnel, vpn, tick, joining, ending, saved, letter, server, used, mixed,
                       abandoned>>
        /\ signed' = FALSE /\ connecting' = None /\ shown' = None
        /\ astray' = astray \cup OnPhone /\ rfaults' = rfaults + 1
    BY DEF SignOut, RideFault
  <1>2. RideTypeOK'
    <2>1. OnPhone \subseteq Rides
      BY OnPhoneRides DEF RideInv
    <2>2. astray' \subseteq Rides
      BY <1>1, <2>1 DEF RideInv, RideTypeOK
    <2>3. RideTypeOK /\ {connecting', shown', saved'} \subseteq Rides \cup {None}
      BY <1>1 DEF RideInv, RideTypeOK
    <2>4. signed' \in BOOLEAN
      BY <1>1, Zenon
    <2>5. rfaults' \in Nat
      BY <1>1, <2>3 DEF RideTypeOK
    <2> QED BY <1>1, <2>2, <2>3, <2>4, <2>5 DEF RideTypeOK
  <1>3. BytesSound' /\ TapsAreForRides'
    BY <1>1 DEF RideInv, BytesSound, CounterSound, LetterSound, CountedIsUsed, TapsAreForRides
  <1>4. \A x \in Rides : ~RideHeld(x)'
    <2>1. \A x \in Rides : RideHeld(x)' => RideHeld(x) /\ x \notin OnPhone
      BY <1>1 DEF RideHeld
    <2> QED BY <2>1, HeldOnPhone
  <1> QED BY <1>2, <1>3, <1>4 DEF RideInv, HeldAreCarried

LEMMA LoginKeeps ==
    ASSUME RideInv, Login
    PROVE  RideInv'
  <1>1. /\ UNCHANGED <<tunnel, vpn, tick, joining, connecting, shown, ending, saved, letter,
                       server, used, mixed, abandoned, astray, rfaults>>
        /\ ~signed /\ signed' = TRUE
    BY DEF Login
  <1>2. RideTypeOK'
    BY <1>1 DEF RideInv, RideTypeOK
  <1>3. BytesSound' /\ TapsAreForRides'
    BY <1>1 DEF RideInv, BytesSound, CounterSound, LetterSound, CountedIsUsed, TapsAreForRides
  <1>4. HeldAreCarried'
    BY <1>1 DEF RideInv, HeldAreCarried, RideHeld, RideCarried
  <1> QED BY <1>2, <1>3, <1>4 DEF RideInv

\* What a stopped app leaves open is on record.
LEMMA AppStopsKeeps ==
    ASSUME RideInv, AppStops
    PROVE  RideInv'
  <1>1. /\ UNCHANGED <<signed, saved, letter, server, used, mixed, astray>>
        /\ abandoned' = abandoned \cup OnPhone
        /\ vpn' = Stopped /\ tick' = NoTick /\ connecting' = None /\ shown' = None
        /\ joining' = [s \in Rides |-> "no"]
        /\ ending' = [t \in Taps |-> IF t \in Ending THEN TapDone ELSE ending[t]]
        /\ tunnel' \in {tunnel, NoTunnel} /\ rfaults' = rfaults + 1
    BY DEF AppStops, RideFault
  <1>2. tunnel \in Tunnels /\ ending \in [Taps -> Endings]
    BY RideParts DEF RideInv
  <1>3. ending' \in [Taps -> Endings] /\ \A t \in Taps : ending'[t].stage # "end"
    BY <1>1, <1>2, NewRecords DEF Ending
  <1>4. RideTypeOK'
    BY <1>1, <1>2, <1>3, OnPhoneRides, NewRecords
       DEF RideInv, RideTypeOK, Vpns, Tunnels, Endings, Ticks
  <1>5. BytesSound'
    <2>1. CounterSound(tunnel)' /\ CounterSound(tick)' /\ vpn'.seen <= vpn'.last
      BY <1>1, NewRecords DEF RideInv, BytesSound, CounterSound
    <2> QED BY <1>1, <2>1 DEF RideInv, BytesSound, LetterSound, CountedIsUsed
  <1>6. \A x \in Rides : ~RideHeld(x)'
    <2>1. \A x \in Rides : RideHeld(x)' => RideHeld(x) /\ x \notin OnPhone
      BY <1>1 DEF RideHeld
    <2> QED BY <2>1, HeldOnPhone
  <1>7. TapsAreForRides'
    BY <1>3 DEF TapsAreForRides
  <1> QED BY <1>4, <1>5, <1>6, <1>7 DEF RideInv, HeldAreCarried

\* No session is held while the app is closed.
LEMMA AppStartsKeeps ==
    ASSUME RideInv, AppStarts
    PROVE  RideInv'
  <1>1. /\ UNCHANGED <<tunnel, tick, signed, joining, connecting, shown, ending, saved, letter,
                       server, used, mixed, abandoned, astray, rfaults>>
        /\ ~vpn.up
        /\ \/ /\ saved # None
              /\ vpn' = [Stopped EXCEPT !.up = TRUE, !.on = TRUE, !.ride = saved, !.timer = TRUE]
           \/ vpn' = [Stopped EXCEPT !.up = TRUE]
    BY DEF AppStarts
  <1>2. saved \in Rides \cup {None} /\ Stopped \in Vpns
    BY NewRecords DEF RideInv, RideTypeOK
  <1>3. vpn' \in Vpns /\ vpn'.last = 0 /\ vpn'.seen = 0
    BY <1>1, <1>2, NewRecords DEF Vpns
  <1>4. RideTypeOK'
    BY <1>1, <1>3 DEF RideInv, RideTypeOK, Vpns
  <1>5. BytesSound'
    BY <1>1, <1>3 DEF RideInv, BytesSound, CounterSound, LetterSound, CountedIsUsed
  <1>6. HeldAreCarried' /\ TapsAreForRides'
    BY <1>1 DEF RideInv, HeldAreCarried, RideHeld, RideCarried, TapsAreForRides
  <1> QED BY <1>4, <1>5, <1>6 DEF RideInv

\* The inductive invariant of the phone: a session that is open, and that neither
\* a failure, a restart, a sign-out nor an older call took, is the only one the
\* phone is at.
THEOREM RideInvariant == RideSpec => []RideInv
  <1>1. RideInv /\ [RideNext]_rideVars => RideInv'
    <2> SUFFICES ASSUME RideInv, [RideNext]_rideVars PROVE RideInv'
      OBVIOUS
    <2>1. CASE UNCHANGED rideVars
      BY <2>1 DEF rideVars, RideInv, RideTypeOK, BytesSound, CounterSound, LetterSound,
                  CountedIsUsed, HeldAreCarried, RideHeld, RideCarried, TapsAreForRides
    <2>2. CASE RideNext
      <3>1. CASE \E s \in Rides : OpenRide(s) \/ RaiseTunnel(s) \/ TrackRide(s)
        BY <3>1, OpenRideKeeps, RaiseTunnelKeeps, TrackRideKeeps
      <3>2. CASE \E r \in Letters : ReportUsage(r) \/ CountReport(r) \/ LoseReport(r)
        BY <3>2, ReportUsageKeeps, CountReportKeeps, LoseReportKeeps
      <3>3. CASE \E t \in Taps : PressDisconnect(t) \/ EndRide(t) \/ Disconnect(t)
        BY <3>3, PressDisconnectKeeps, EndRideKeeps, DisconnectKeeps
      <3> QED BY <2>2, <3>1, <3>2, <3>3, TrafficKeeps, ReadCounterKeeps, SignOutKeeps,
                 LoginKeeps, AppStopsKeeps, AppStartsKeeps DEF RideNext
    <2> QED BY <2>1, <2>2
  <1> QED BY <1>1, RideInvInit, PTL DEF RideSpec

THEOREM RideTypesHold == RideSpec => []RideTypeOK
  BY RideInvariant, PTL DEF RideInv

\* The server counts no more than a session's tunnel carried, unless a counter
\* read from one tunnel was reported for the next session.
THEOREM CountedIsUsedHolds == RideSpec => []CountedIsUsed
  BY RideInvariant, PTL DEF RideInv, BytesSound

\* A session that is open at the server is in the phone's hands, however many
\* sessions and presses there are, unless a failure, a restart, a sign-out or an
\* older call took it.
THEOREM OpenRideIsCarriedHolds == RideSpec => []OpenRideIsCarried
  <1>1. RideInv => OpenRideIsCarried
    BY DEF RideInv, HeldAreCarried, RideHeld, RideCarried, OpenRideIsCarried, InHand
  <1> QED BY <1>1, RideInvariant, PTL

-----------------------------------------------------------------------------
\* The backend and the phone. Whatever MCServer's components do together is, for each of
\* them, something it may do alone: what is proved of one holds of the whole.
LEMMA PartsBehave ==
    ServerSpec => /\ TokenSpec /\ LinkSpec /\ AskSpec /\ WalletSpec
                  /\ EnrolSpec /\ ProfileSpec /\ BusSpec /\ RideSpec
  <1>1. ServerInit => /\ TokenInit /\ LinkInit /\ AskInit /\ WalletInit
                      /\ EnrolInit /\ ProfileInit /\ BusInit /\ RideInit
    BY DEF ServerInit
  <1>2. [ServerNext]_ServerVars => [TokenNext]_tokenVars
    BY DEF ServerNext, ServerVars
  <1>3. [ServerNext]_ServerVars => [LinkNext]_linkVars
    BY DEF ServerNext, ServerVars
  <1>4. [ServerNext]_ServerVars => [AskNext]_askVars
    BY DEF ServerNext, ServerVars
  <1>5. [ServerNext]_ServerVars => [WalletNext]_walletVars
    BY DEF ServerNext, ServerVars
  <1>6. [ServerNext]_ServerVars => [EnrolNext]_enrolVars
    BY DEF ServerNext, ServerVars
  <1>7. [ServerNext]_ServerVars => [ProfileNext]_profileVars
    BY DEF ServerNext, ServerVars
  <1>8. [ServerNext]_ServerVars => [BusNext]_busVars
    BY DEF ServerNext, ServerVars
  <1>9. [ServerNext]_ServerVars => [RideNext]_rideVars
    BY DEF ServerNext, ServerVars
  <1> QED BY <1>1, <1>2, <1>3, <1>4, <1>5, <1>6, <1>7, <1>8, <1>9, PTL
          DEF ServerSpec, TokenSpec, LinkSpec, AskSpec, WalletSpec, EnrolSpec, ProfileSpec,
              BusSpec, RideSpec

\* Every component of the backend, and the phone, keeps its types.
THEOREM ServerTypesHold == ServerSpec => []ServerTypeOK
  <1>1. ServerTypeOK <=> /\ TokenTypeOK /\ LinkTypeOK /\ AskTypeOK /\ WalletTypeOK
                         /\ EnrolTypeOK /\ ProfileTypeOK /\ BusTypeOK /\ RideTypeOK
    BY DEF ServerTypeOK
  <1> QED BY <1>1, PartsBehave, TokenTypesHold, LinkTypesHold, AskTypesHold, WalletTypesHold,
             EnrolTypesHold, ProfileTypesHold, BusTypesHold, RideTypesHold, PTL

\* What the runs check of the backend, for every value of the constants at once.
THEOREM ServerIsSafe ==
    ServerSpec => /\ [](OneLinePerSignIn /\ LogoutIsFinal /\ SignedInStays)
                  /\ [](RecordIsKept /\ CompletedDeletionErased /\ ErasedHadAsked)
                  /\ [](WalletAccounts /\ DeductionsAreReal)
                  /\ [](EveryAccountHasProfile /\ OneAccountPerIdentity /\ OpenedStays)
                  /\ [](StaleForAMinute /\ OwnWriteSeen /\ TakesEffectOnce)
                  /\ [](CountedIsUsed /\ OpenRideIsCarried)
                  /\ TerminalIsFinal
  BY PartsBehave, OneLineHolds, LogoutHolds, SignedInHolds, RecordIsKeptHolds,
     CompletedDeletionErasedHolds, ErasedHadAskedHolds, WalletAccountsHolds,
     DeductionsAreRealHolds, CountedIsUsedHolds, OpenRideIsCarriedHolds,
     EveryAccountHasProfileHolds, OneAccountPerIdentityHolds, OpenedStaysHolds,
     StaleForAMinuteHolds, OwnWriteSeenHolds, TakesEffectOnceHolds, TerminalIsFinalHolds, PTL
=============================================================================
