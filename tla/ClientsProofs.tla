---------------------------- MODULE ClientsProofs ----------------------------
(***************************************************************************)
(* Theorems about the clients: SellerListing, WebClient and DepositWatch,  *)
(* for every number of sellers, pages, requests and payments, each by an   *)
(* inductive invariant of its own; and about MCClients, which runs one of  *)
(* them.                                                                   *)
(***************************************************************************)
EXTENDS MCClients, TLAPS

-----------------------------------------------------------------------------
\* SellerListing. The invariant ties the screen of a seller to the one heartbeat
\* it waits for, and that heartbeat to what is stored, as long as no abandoned
\* heartbeat was stored after it and Redis was ready for it.
Awaited(h, v) == beat[h].shop = v /\ beat[h].awaited
ActiveIn(v) == shop[v] # None /\ shop[v].status = "active"

\* A heartbeat in progress is some seller's; a seller waits for one at most, and
\* its screen says which.
OneAwaited ==
    /\ \A h \in Beats : IF beat[h].stage = "idle" THEN beat[h] = NoBeat
                        ELSE beat[h].shop \in Shops /\ beat[h].status \in {"active", "offline"}
    /\ \A v \in Shops, h1, h2 \in Beats : Awaited(h1, v) /\ Awaited(h2, v) => h1 = h2
    /\ \A v \in Shops, h \in Beats : Awaited(h, v) =>
          \/ screen[v] = "starting" /\ beat[h].status = "active"
          \/ screen[v] = "stopping" /\ beat[h].status = "offline"

\* An awaited "offline" that has been stored is still what is stored, and stays
\* so once the screen has said so.
StoppedStays ==
    /\ \A v \in Shops \ (overtaken \cup ignored) :
          /\ \A h \in Beats : Awaited(h, v) /\ beat[h].stage = "expire"
                              /\ beat[h].status = "offline" => ~ActiveIn(v)
          /\ v \in stopped => ~ActiveIn(v)
    /\ \A v \in stopped : screen[v] # "starting"

ShopInv == ShopTypeOK /\ OneAwaited /\ StoppedStays /\ ListingsExpire

-----------------------------------------------------------------------------
USE PlatformAssumption, ShopAssumption

LEMMA ShopInvInit == ShopInit => ShopInv
  BY DEF ShopInit, ShopInv, ShopTypeOK, OneAwaited, StoppedStays, ListingsExpire, NoBeat,
         Awaited, ActiveIn, FindById

LEMMA StartSharingKeeps ==
    ASSUME ShopInv, NEW h \in Beats, NEW v \in Shops, StartSharing(h, v)
    PROVE  ShopInv'
  <1>1. ShopTypeOK'
    BY DEF ShopInv, ShopTypeOK, StartSharing, Send
  <1>2. /\ ShopTypeOK /\ OneAwaited /\ StoppedStays /\ beat[h] = NoBeat /\ screen[v] = "init"
        /\ UNCHANGED <<shop, overtaken, ignored, cut>> /\ stopped' = stopped \ {v}
        /\ \A g \in Beats : beat'[g] = IF g = h
              THEN [stage |-> "geo", shop |-> v, status |-> "active", awaited |-> TRUE]
              ELSE beat[g]
        /\ \A w \in Shops : screen'[w] = IF w = v THEN "starting" ELSE screen[w]
    BY DEF ShopInv, ShopTypeOK, OneAwaited, StartSharing, Send
  <1>3. OneAwaited'
    <2>1. NoBeat.shop = None /\ ~NoBeat.awaited /\ v # None
      BY DEF NoBeat
    <2>2. \A g \in Beats : ~Awaited(g, v)
      BY <1>2 DEF OneAwaited
    <2>3. beat'[h].stage # "idle" /\ beat'[h].shop = v /\ beat'[h].status \in {"active", "offline"}
      BY <1>2
    <2> QED BY <1>2, <2>1, <2>2, <2>3 DEF OneAwaited, Awaited
  <1>4. StoppedStays'
    <2>1. \A w \in stopped' : screen'[w] # "starting"
      BY <1>2 DEF StoppedStays, ShopTypeOK
    <2> QED BY <1>2, <2>1 DEF StoppedStays, Awaited, ActiveIn, NoBeat
  <1>5. ListingsExpire'
    BY <1>2 DEF ShopInv, ListingsExpire, FindById, NoBeat
  <1> QED BY <1>1, <1>3, <1>4, <1>5 DEF ShopInv

LEMMA StopSharingKeeps ==
    ASSUME ShopInv, NEW h \in Beats, NEW v \in Shops, StopSharing(h, v)
    PROVE  ShopInv'
  <1>1. ShopTypeOK'
    BY DEF ShopInv, ShopTypeOK, StopSharing, Send
  <1>2. /\ ShopTypeOK /\ OneAwaited /\ StoppedStays /\ beat[h] = NoBeat /\ screen[v] = "active"
        /\ UNCHANGED <<shop, overtaken, ignored, cut, stopped>>
        /\ \A g \in Beats : beat'[g] = IF g = h
              THEN [stage |-> "geo", shop |-> v, status |-> "offline", awaited |-> TRUE]
              ELSE beat[g]
        /\ \A w \in Shops : screen'[w] = IF w = v THEN "stopping" ELSE screen[w]
    BY DEF ShopInv, ShopTypeOK, OneAwaited, StopSharing, Send
  <1>3. OneAwaited'
    <2>1. NoBeat.shop = None /\ ~NoBeat.awaited /\ v # None
      BY DEF NoBeat
    <2>2. \A g \in Beats : ~Awaited(g, v)
      BY <1>2 DEF OneAwaited
    <2>3. beat'[h].stage # "idle" /\ beat'[h].shop = v /\ beat'[h].status \in {"active", "offline"}
      BY <1>2
    <2> QED BY <1>2, <2>1, <2>2, <2>3 DEF OneAwaited, Awaited
  <1>4. StoppedStays'
    <2>1. \A w \in stopped' : screen'[w] # "starting"
      BY <1>2 DEF StoppedStays, ShopTypeOK
    <2> QED BY <1>2, <2>1 DEF StoppedStays, Awaited, ActiveIn, NoBeat
  <1>5. ListingsExpire'
    BY <1>2 DEF ShopInv, ListingsExpire, FindById, NoBeat
  <1> QED BY <1>1, <1>3, <1>4, <1>5 DEF ShopInv

\* A screen that said "no longer listed" finds its seller unlisted.
LEMMA FetchKeeps ==
    ASSUME ShopInv, NEW v \in Shops, FetchNodeStatus(v)
    PROVE  ShopInv'
  <1>1. ShopTypeOK'
    BY DEF ShopInv, ShopTypeOK, FetchNodeStatus, BeatFault
  <1>2. /\ OneAwaited /\ StoppedStays /\ screen[v] \in {"init", "active"}
        /\ UNCHANGED <<shop, beat, stopped, overtaken, ignored, cut>>
        /\ \A w \in Shops : w # v => screen'[w] = screen[w]
        /\ screen'[v] # "starting"
    BY DEF ShopInv, ShopTypeOK, FetchNodeStatus
  <1>3. OneAwaited'
    BY <1>2 DEF OneAwaited, Awaited
  <1>4. StoppedStays'
    <2>1. \A w \in stopped' : screen'[w] # "starting"
      BY <1>2 DEF StoppedStays, ShopInv, ShopTypeOK
    <2> QED BY <1>2, <2>1 DEF StoppedStays, Awaited, ActiveIn
  <1>5. ListingsExpire'
    BY <1>2 DEF ShopInv, ListingsExpire, FindById
  <1> QED BY <1>1, <1>3, <1>4, <1>5 DEF ShopInv

LEMMA AbandonedParts ==
    ASSUME ShopTypeOK, NEW v \in Shops
    PROVE  /\ Abandoned(v) \in [Beats -> [stage : {"idle", "geo", "hash", "expire"},
                                          shop : Shops \cup {None},
                                          status : {"active", "offline", None},
                                          awaited : BOOLEAN]]
           /\ \A h \in Beats :
                 /\ Abandoned(v)[h].stage = beat[h].stage /\ Abandoned(v)[h].shop = beat[h].shop
                 /\ Abandoned(v)[h].status = beat[h].status
                 /\ Abandoned(v)[h].awaited <=> beat[h].awaited /\ beat[h].shop # v
                 /\ beat[h].shop # v => Abandoned(v)[h] = beat[h]
  <1> DEFINE R == [stage : {"idle", "geo", "hash", "expire"}, shop : Shops \cup {None},
                   status : {"active", "offline", None}, awaited : BOOLEAN]
             new(h) == IF beat[h].shop = v THEN [beat[h] EXCEPT !.awaited = FALSE] ELSE beat[h]
  <1>1. Abandoned(v) = [h \in Beats |-> new(h)]
    BY DEF Abandoned
  <1>2. ASSUME NEW h \in Beats
        PROVE  /\ new(h) \in R
               /\ new(h).stage = beat[h].stage /\ new(h).shop = beat[h].shop
               /\ new(h).status = beat[h].status
               /\ new(h).awaited <=> beat[h].awaited /\ beat[h].shop # v
               /\ beat[h].shop # v => new(h) = beat[h]
    <2>1. beat[h] \in R
      BY DEF ShopTypeOK
    <2> QED BY <2>1
  <1> HIDE DEF new
  <1> QED BY <1>1, <1>2

\* A heartbeat that is sent again is awaited instead of the first.
LEMMA RetryKeeps ==
    ASSUME ShopInv, NEW h \in Beats, NEW v \in Shops, RetryBeat(h, v)
    PROVE  ShopInv'
  <1> DEFINE status == IF screen[v] = "starting" THEN "active" ELSE "offline"
             new == [stage |-> "geo", shop |-> v, awaited |-> TRUE, status |-> status]
  <1>1. /\ ShopTypeOK /\ OneAwaited /\ StoppedStays /\ beat[h] = NoBeat
        /\ UNCHANGED <<shop, geo, screen, stopped, overtaken, ignored, cut>> /\ bfaults' \in Nat
        /\ beat' = [Abandoned(v) EXCEPT ![h] = new]
    BY DEF ShopInv, ShopTypeOK, OneAwaited, RetryBeat, BeatFault
  <1>2. screen[v] \in {"starting", "stopping"}
    <2>1. PICK g \in Beats : Awaited(g, v)
      BY DEF RetryBeat, Waiting, Awaited
    <2> QED BY <1>1, <2>1 DEF OneAwaited
  <1>3. status \in {"active", "offline"} /\ (status = "active" <=> screen[v] = "starting")
    OBVIOUS
  <1> HIDE DEF status
  <1>4. ShopTypeOK'
    BY <1>1, <1>3, AbandonedParts DEF ShopTypeOK
  <1>5. /\ beat'[h].stage = "geo" /\ beat'[h].shop = v /\ beat'[h].awaited
        /\ beat'[h].status = status
        /\ \A g \in Beats : g # h =>
              /\ beat'[g].stage = beat[g].stage /\ beat'[g].shop = beat[g].shop
              /\ beat'[g].status = beat[g].status
              /\ beat'[g].awaited <=> beat[g].awaited /\ beat[g].shop # v
              /\ beat[g].shop # v => beat'[g] = beat[g]
    BY <1>1, AbandonedParts
  <1>6. NoBeat.shop = None /\ NoBeat.stage = "idle" /\ v # None
    BY DEF NoBeat
  <1>7. OneAwaited'
    BY <1>1, <1>2, <1>3, <1>5, <1>6 DEF OneAwaited, Awaited
  <1>8. StoppedStays'
    BY <1>1, <1>5 DEF StoppedStays, Awaited, ActiveIn
  <1>9. ListingsExpire'
    BY <1>1, <1>5, <1>6 DEF ShopInv, ListingsExpire, FindById
  <1> QED BY <1>4, <1>7, <1>8, <1>9 DEF ShopInv

LEMMA ActionFailedKeeps ==
    ASSUME ShopInv, NEW v \in Shops, ActionFailed(v)
    PROVE  ShopInv'
  <1>1. /\ ShopTypeOK /\ OneAwaited /\ StoppedStays
        /\ UNCHANGED <<shop, geo, stopped, overtaken, ignored, cut>> /\ bfaults' \in Nat
        /\ beat' = Abandoned(v) /\ screen' \in [Shops -> {"init", "starting", "active", "stopping"}]
        /\ \A w \in Shops : w # v => screen'[w] = screen[w]
        /\ screen'[v] # "starting"
    BY DEF ShopInv, ShopTypeOK, ActionFailed, BeatFault
  <1>2. /\ beat' \in [Beats -> [stage : {"idle", "geo", "hash", "expire"},
                                shop : Shops \cup {None},
                                status : {"active", "offline", None}, awaited : BOOLEAN]]
        /\ \A g \in Beats :
              /\ beat'[g].stage = beat[g].stage /\ beat'[g].shop = beat[g].shop
              /\ beat'[g].status = beat[g].status
              /\ beat'[g].awaited <=> beat[g].awaited /\ beat[g].shop # v
              /\ beat[g].shop # v => beat'[g] = beat[g]
    BY <1>1, AbandonedParts
  <1>3. NoBeat.shop = None /\ v # None
    BY DEF NoBeat
  <1>4. ShopTypeOK'
    BY <1>1, <1>2 DEF ShopTypeOK
  <1>5. OneAwaited'
    BY <1>1, <1>2, <1>3 DEF OneAwaited, Awaited
  <1>6. StoppedStays'
    <2>1. \A w \in stopped' : screen'[w] # "starting"
      BY <1>1 DEF StoppedStays, ShopTypeOK
    <2> QED BY <1>1, <1>2, <2>1 DEF StoppedStays, Awaited, ActiveIn
  <1>7. ListingsExpire'
    BY <1>1, <1>2 DEF ShopInv, ListingsExpire, FindById
  <1> QED BY <1>4, <1>5, <1>6, <1>7 DEF ShopInv

LEMMA StoreGeoKeeps ==
    ASSUME ShopInv, NEW h \in Beats, StoreGeo(h)
    PROVE  ShopInv'
  <1>1. /\ ShopTypeOK /\ OneAwaited /\ StoppedStays /\ beat[h].stage = "geo"
        /\ UNCHANGED <<shop, screen, stopped, overtaken, ignored, cut>>
        /\ beat' = [beat EXCEPT ![h].stage = "hash"] /\ beat[h].shop \in Shops
    BY DEF ShopInv, OneAwaited, StoreGeo
  <1>2. ShopTypeOK'
    BY <1>1 DEF ShopTypeOK, StoreGeo
  <1>3. OneAwaited'
    BY <1>1 DEF ShopTypeOK, OneAwaited, Awaited
  <1>4. StoppedStays'
    BY <1>1 DEF ShopTypeOK, StoppedStays, Awaited, ActiveIn
  <1>5. ListingsExpire'
    BY <1>1 DEF ShopInv, ShopTypeOK, ListingsExpire, FindById
  <1> QED BY <1>2, <1>3, <1>4, <1>5 DEF ShopInv

LEMMA StoreHashKeeps ==
    ASSUME ShopInv, NEW h \in Beats, StoreHash(h)
    PROVE  ShopInv'
  <1>1. PICK v \in Shops :
            /\ v = beat[h].shop /\ beat[h].stage = "hash"
            /\ ShopTypeOK /\ OneAwaited /\ StoppedStays /\ ListingsExpire
            /\ beat[h].status \in {"active", "offline"}
    BY DEF ShopInv, ShopTypeOK, OneAwaited, StoreHash
  <1>2. /\ UNCHANGED <<geo, screen, stopped, cut, bfaults>>
        /\ beat' = [beat EXCEPT ![h].stage = "expire"]
        /\ shop' = [shop EXCEPT ![v] = [status |-> beat[h].status,
                                        expires |-> FindById(v) /\ shop[v].expires]]
        /\ overtaken' = IF beat[h].awaited THEN overtaken \ {v} ELSE overtaken \cup {v}
        /\ ignored' = IF beat[h].awaited THEN ignored \ {v} ELSE ignored
    BY <1>1 DEF StoreHash
  <1>4. ShopTypeOK'
    <2> DEFINE x == FindById(v) /\ shop[v].expires
    <2>1. x \in BOOLEAN
      OBVIOUS
    <2>2. shop' = [shop EXCEPT ![v] = [status |-> beat[h].status, expires |-> x]]
      BY <1>2
    <2> HIDE DEF x
    <2> QED BY <1>1, <1>2, <2>1, <2>2 DEF ShopTypeOK
  <1>5. /\ \A g \in Beats : g # h => beat'[g] = beat[g]
        /\ beat'[h].stage = "expire" /\ beat'[h].shop = v
        /\ beat'[h].status = beat[h].status /\ beat'[h].awaited = beat[h].awaited
        /\ \A w \in Shops : w # v => shop'[w] = shop[w]
        /\ shop'[v].status = beat[h].status
    BY <1>1, <1>2 DEF ShopTypeOK
  <1>6. OneAwaited'
    BY <1>1, <1>2, <1>5 DEF OneAwaited, Awaited
  <1>7. StoppedStays'
    <2> SUFFICES ASSUME NEW w \in Shops, w \notin overtaken' \cup ignored'
                 PROVE  /\ \A g \in Beats : Awaited(g, w)' /\ beat'[g].stage = "expire"
                              /\ beat'[g].status = "offline" => ~ActiveIn(w)'
                        /\ w \in stopped => ~ActiveIn(w)'
      BY <1>1, <1>2 DEF StoppedStays, ShopTypeOK
    <2>1. CASE w # v
      <3>1. w \notin overtaken \cup ignored
        BY <1>2, <2>1
      <3> QED BY <1>1, <1>5, <2>1, <3>1 DEF StoppedStays, Awaited, ActiveIn
    <2>2. CASE w = v
      <3>1. Awaited(h, v)
        BY <1>1, <1>2, <2>2 DEF Awaited
      <3>2. CASE beat[h].status = "offline"
        BY <1>5, <2>2, <3>2 DEF ActiveIn
      <3>3. CASE beat[h].status = "active"
        <4>1. v \notin stopped
          BY <1>1, <3>1, <3>3 DEF OneAwaited, StoppedStays
        <4>2. \A g \in Beats : Awaited(g, v)' => g = h
          BY <1>1, <1>5, <3>1 DEF OneAwaited, Awaited
        <4> QED BY <1>5, <2>2, <3>3, <4>1, <4>2
      <3> QED BY <1>1, <3>2, <3>3
    <2> QED BY <2>1, <2>2
  <1>8. ListingsExpire'
    BY <1>1, <1>2, <1>5 DEF ListingsExpire, FindById
  <1> QED BY <1>4, <1>6, <1>7, <1>8 DEF ShopInv

\* A heartbeat that is answered is no longer in progress; its seller's screen says
\* what it was for, if it waited for it.
LEMMA BeatAnsweredParts ==
    ASSUME ShopTypeOK, OneAwaited, NEW h \in Beats, beat[h].stage # "idle", BeatAnswered(h)
    PROVE  LET v == beat[h].shop IN
           /\ \A g \in Beats : g # h => beat'[g] = beat[g]
           /\ beat'[h] = NoBeat
           /\ beat' \in [Beats -> [stage : {"idle", "geo", "hash", "expire"},
                                    shop : Shops \cup {None},
                                    status : {"active", "offline", None}, awaited : BOOLEAN]]
           /\ screen' \in [Shops -> {"init", "starting", "active", "stopping"}]
           /\ stopped' \subseteq Shops
           /\ \A w \in Shops : w # v => screen'[w] = screen[w]
           /\ screen'[v] # screen[v] => beat[h].awaited
           /\ \A w \in Shops : w # v => (w \in stopped' <=> w \in stopped)
           /\ v \in stopped' =>
                 \/ v \in stopped
                 \/ beat[h].awaited /\ beat[h].status = "offline"
           /\ (\A w \in stopped : screen[w] # "starting") =>
                 \A w \in stopped' : screen'[w] # "starting"
           /\ OneAwaited'
  <1>1. PICK v \in Shops : v = beat[h].shop /\ beat[h].status \in {"active", "offline"}
    BY DEF OneAwaited
  <1>2. /\ beat' = [beat EXCEPT ![h] = NoBeat]
        /\ IF beat[h].awaited
           THEN /\ screen' = [screen EXCEPT ![v] =
                      IF beat[h].status = "active" THEN "active" ELSE "init"]
                /\ stopped' = IF beat[h].status = "active" THEN stopped ELSE stopped \cup {v}
           ELSE UNCHANGED <<screen, stopped>>
    BY <1>1 DEF BeatAnswered, StepAfter
  <1>3. /\ \A g \in Beats : g # h => beat'[g] = beat[g]
        /\ beat'[h] = NoBeat
        /\ NoBeat.shop = None /\ NoBeat.stage = "idle" /\ v # None
        /\ beat' \in [Beats -> [stage : {"idle", "geo", "hash", "expire"},
                                 shop : Shops \cup {None},
                                 status : {"active", "offline", None}, awaited : BOOLEAN]]
    BY <1>1, <1>2 DEF ShopTypeOK, NoBeat
  <1>4. /\ screen' \in [Shops -> {"init", "starting", "active", "stopping"}]
        /\ stopped' \subseteq Shops
        /\ \A w \in Shops : w # v => screen'[w] = screen[w]
        /\ screen'[v] # screen[v] => beat[h].awaited
        /\ beat[h].awaited => screen'[v] # "starting"
        /\ \A w \in Shops : w # v => (w \in stopped' <=> w \in stopped)
        /\ v \in stopped' => v \in stopped \/ (beat[h].awaited /\ beat[h].status = "offline")
    <2>1. CASE ~beat[h].awaited
      BY <1>2, <2>1 DEF ShopTypeOK
    <2>2. CASE beat[h].awaited
      <3> DEFINE next == IF beat[h].status = "active" THEN "active" ELSE "init"
      <3>1. next \in {"init", "active"}
        OBVIOUS
      <3>2. screen' = [screen EXCEPT ![v] = next]
        BY <1>2, <2>2
      <3> HIDE DEF next
      <3>3. /\ screen'[v] = next /\ \A w \in Shops : w # v => screen'[w] = screen[w]
            /\ screen' \in [Shops -> {"init", "starting", "active", "stopping"}]
        BY <3>1, <3>2 DEF ShopTypeOK
      <3>4. CASE beat[h].status = "active"
        BY <1>1, <1>2, <2>2, <3>1, <3>3, <3>4 DEF ShopTypeOK
      <3>5. CASE beat[h].status = "offline"
        BY <1>1, <1>2, <2>2, <3>1, <3>3, <3>5 DEF ShopTypeOK
      <3> QED BY <1>1, <3>4, <3>5
    <2> QED BY <2>1, <2>2
  <1>5. OneAwaited'
    <2>1. \A g \in Beats, w \in Shops : Awaited(g, w)' => Awaited(g, w) /\ beat'[g] = beat[g]
      BY <1>3 DEF Awaited
    <2>2. \A g \in Beats, w \in Shops : Awaited(g, w)' => screen'[w] = screen[w]
      BY <1>1, <1>3, <1>4, <2>1 DEF OneAwaited, Awaited
    <2> QED BY <1>3, <2>1, <2>2 DEF OneAwaited
  <1>6. (\A w \in stopped : screen[w] # "starting") => \A w \in stopped' : screen'[w] # "starting"
    BY <1>4 DEF ShopTypeOK
  <1> QED BY <1>1, <1>3, <1>4, <1>5, <1>6

LEMMA StoreExpiryKeeps ==
    ASSUME ShopInv, NEW h \in Beats, StoreExpiry(h)
    PROVE  ShopInv'
  <1>1. PICK v \in Shops :
            /\ v = beat[h].shop /\ beat[h].stage = "expire"
            /\ ShopTypeOK /\ OneAwaited /\ StoppedStays /\ ListingsExpire
            /\ beat[h].status \in {"active", "offline"}
    BY DEF ShopInv, ShopTypeOK, OneAwaited, StoreExpiry
  <1>2. /\ UNCHANGED <<geo, overtaken, ignored, cut, bfaults>> /\ BeatAnswered(h)
        /\ shop' = IF FindById(v) THEN [shop EXCEPT ![v].expires = TRUE] ELSE shop
    BY <1>1 DEF StoreExpiry, SetsExpiry
  <1>3. /\ shop' \in [Shops -> [status : {"active", "offline"}, expires : BOOLEAN] \cup {None}]
        /\ \A w \in Shops : w # v => shop'[w] = shop[w]
        /\ shop'[v] # None <=> shop[v] # None
        /\ shop[v] # None => shop'[v].expires /\ shop'[v].status = shop[v].status
    <2>1. CASE shop[v] = None
      BY <1>1, <1>2, <2>1 DEF ShopTypeOK, FindById
    <2>2. CASE shop[v] # None
      <3> DEFINE new == [shop[v] EXCEPT !.expires = TRUE]
      <3>1. shop[v] \in [status : {"active", "offline"}, expires : BOOLEAN]
        BY <1>1, <2>2 DEF ShopTypeOK
      <3>2. /\ new \in [status : {"active", "offline"}, expires : BOOLEAN]
            /\ new.expires /\ new.status = shop[v].status /\ new # None
        BY <3>1
      <3>3. shop' = [shop EXCEPT ![v] = new]
        BY <1>2, <2>2 DEF FindById
      <3> HIDE DEF new
      <3> QED BY <1>1, <2>2, <3>2, <3>3 DEF ShopTypeOK
    <2> QED BY <2>1, <2>2
  <1>4. /\ \A g \in Beats : g # h => beat'[g] = beat[g]
        /\ beat'[h] = NoBeat
        /\ \A w \in Shops : w # v => (w \in stopped' <=> w \in stopped)
        /\ v \in stopped' => v \in stopped \/ (beat[h].awaited /\ beat[h].status = "offline")
        /\ \A w \in stopped' : screen'[w] # "starting"
        /\ OneAwaited'
    BY <1>1, <1>2, BeatAnsweredParts DEF StoppedStays
  <1>5. ShopTypeOK'
    BY <1>1, <1>2, <1>3, BeatAnsweredParts DEF ShopTypeOK
  <1>6. NoBeat.shop = None /\ ~NoBeat.awaited /\ v # None
    BY DEF NoBeat
  <1>8. StoppedStays'
    <2> SUFFICES ASSUME NEW w \in Shops, w \notin overtaken \cup ignored
                 PROVE  /\ \A g \in Beats : Awaited(g, w)' /\ beat'[g].stage = "expire"
                              /\ beat'[g].status = "offline" => ~ActiveIn(w)'
                        /\ w \in stopped' => ~ActiveIn(w)'
      BY <1>2, <1>4 DEF StoppedStays
    <2>1. ActiveIn(w)' <=> ActiveIn(w)
      BY <1>3 DEF ActiveIn
    <2>2. \A g \in Beats : Awaited(g, w)' => Awaited(g, w) /\ beat'[g] = beat[g]
      BY <1>4, <1>6 DEF Awaited
    <2>3. CASE w # v
      BY <1>1, <1>4, <2>1, <2>2, <2>3 DEF StoppedStays
    <2>4. CASE w = v
      BY <1>1, <1>4, <2>1, <2>2, <2>4 DEF StoppedStays, Awaited
    <2> QED BY <2>3, <2>4
  <1>9. ListingsExpire'
    BY <1>1, <1>2, <1>3, <1>4 DEF ListingsExpire, FindById
  <1> QED BY <1>4, <1>5, <1>8, <1>9 DEF ShopInv

\* A heartbeat that is not stored, though it is answered, leaves what is stored
\* as it is; its seller is among the ignored.
LEMMA HeartbeatIgnoredKeeps ==
    ASSUME ShopInv, NEW h \in Beats, HeartbeatIgnored(h)
    PROVE  ShopInv'
  <1>1. PICK v \in Shops :
            /\ v = beat[h].shop /\ beat[h].stage = "geo"
            /\ ShopTypeOK /\ OneAwaited /\ StoppedStays /\ ListingsExpire
    BY DEF ShopInv, OneAwaited, HeartbeatIgnored
  <1>2. /\ UNCHANGED <<shop, geo, overtaken, cut>> /\ BeatAnswered(h) /\ bfaults' \in Nat
        /\ ignored' = IF beat[h].awaited THEN ignored \cup {v} ELSE ignored
    BY <1>1 DEF HeartbeatIgnored, BeatFault, ShopTypeOK
  <1>3. /\ \A g \in Beats : g # h => beat'[g] = beat[g]
        /\ beat'[h] = NoBeat
        /\ \A w \in Shops : w # v => (w \in stopped' <=> w \in stopped)
        /\ v \in stopped' => v \in stopped \/ (beat[h].awaited /\ beat[h].status = "offline")
        /\ \A w \in stopped' : screen'[w] # "starting"
        /\ OneAwaited'
    BY <1>1, <1>2, BeatAnsweredParts DEF StoppedStays
  <1>4. ShopTypeOK'
    BY <1>1, <1>2, BeatAnsweredParts DEF ShopTypeOK
  <1>5. NoBeat.shop = None /\ ~NoBeat.awaited /\ v # None
    BY DEF NoBeat
  <1>6. StoppedStays'
    BY <1>1, <1>2, <1>3, <1>5 DEF StoppedStays, Awaited, ActiveIn
  <1>7. ListingsExpire'
    BY <1>1, <1>2, <1>3 DEF ListingsExpire, FindById
  <1> QED BY <1>3, <1>4, <1>6, <1>7 DEF ShopInv

LEMMA BeatFailsKeeps ==
    ASSUME ShopInv, NEW h \in Beats, BeatFails(h)
    PROVE  ShopInv'
  <1>1. PICK v \in Shops :
            /\ v = beat[h].shop /\ beat[h].stage # "idle"
            /\ ShopTypeOK /\ OneAwaited /\ StoppedStays /\ ListingsExpire
    BY DEF ShopInv, OneAwaited, BeatFails
  <1>2. /\ UNCHANGED <<shop, geo, stopped, overtaken, ignored>> /\ bfaults' \in Nat
        /\ beat' = [beat EXCEPT ![h] = NoBeat]
        /\ cut' = IF beat[h].stage = "expire" THEN cut \cup {v} ELSE cut
        /\ screen' = IF beat[h].awaited
                     THEN [screen EXCEPT ![v] = IF @ = "starting" THEN "init" ELSE "active"]
                     ELSE screen
    BY <1>1 DEF BeatFails, BeatFault, ShopTypeOK
  <1>3. /\ \A g \in Beats : g # h => beat'[g] = beat[g]
        /\ beat'[h] = NoBeat
        /\ NoBeat.shop = None /\ NoBeat.stage = "idle" /\ v # None
    BY <1>1, <1>2 DEF ShopTypeOK, NoBeat
  <1>4. ShopTypeOK'
    BY <1>1, <1>2 DEF ShopTypeOK, NoBeat
  <1>5. /\ \A w \in Shops : w # v => screen'[w] = screen[w]
        /\ screen'[v] # screen[v] => beat[h].awaited /\ screen'[v] # "starting"
    BY <1>1, <1>2 DEF ShopTypeOK
  <1>6. OneAwaited'
    <2>1. \A g \in Beats, w \in Shops : Awaited(g, w)' => Awaited(g, w) /\ beat'[g] = beat[g]
      BY <1>3 DEF Awaited
    <2>2. \A g \in Beats, w \in Shops : Awaited(g, w)' => screen'[w] = screen[w]
      BY <1>1, <1>3, <1>5, <2>1 DEF OneAwaited, Awaited
    <2> QED BY <1>1, <1>3, <2>1, <2>2 DEF OneAwaited
  <1>7. StoppedStays'
    BY <1>1, <1>2, <1>3, <1>5 DEF StoppedStays, Awaited, ActiveIn
  <1>8. ListingsExpire'
    BY <1>1, <1>2, <1>3 DEF ListingsExpire, FindById
  <1> QED BY <1>4, <1>6, <1>7, <1>8 DEF ShopInv

LEMMA ListingExpiresKeeps ==
    ASSUME ShopInv, NEW v \in Shops, ListingExpires(v)
    PROVE  ShopInv'
  <1>1. /\ UNCHANGED <<geo, beat, screen, stopped, overtaken, ignored, cut, bfaults>>
        /\ shop' = [shop EXCEPT ![v] = None] /\ ShopTypeOK
    BY DEF ListingExpires, ShopInv
  <1>2. ShopTypeOK'
    BY <1>1 DEF ShopTypeOK
  <1>3. \A w \in Shops : shop'[w] = IF w = v THEN None ELSE shop[w]
    BY <1>1 DEF ShopTypeOK
  <1>4. OneAwaited'
    BY <1>1 DEF ShopInv, OneAwaited, Awaited
  <1>5. StoppedStays'
    BY <1>1, <1>3 DEF ShopInv, StoppedStays, Awaited, ActiveIn
  <1>6. ListingsExpire'
    BY <1>1, <1>3 DEF ShopInv, ListingsExpire, FindById
  <1> QED BY <1>2, <1>4, <1>5, <1>6 DEF ShopInv

THEOREM ShopInvariant == ShopSpec => []ShopInv
  <1>1. ShopInv /\ [ShopNext]_shopVars => ShopInv'
    <2> SUFFICES ASSUME ShopInv, [ShopNext]_shopVars PROVE ShopInv'
      OBVIOUS
    <2>1. CASE UNCHANGED shopVars
      BY <2>1 DEF shopVars, ShopInv, ShopTypeOK, OneAwaited, StoppedStays, ListingsExpire,
                  Awaited, ActiveIn, FindById
    <2>2. CASE ShopNext
      BY <2>2, StartSharingKeeps, StopSharingKeeps, RetryKeeps, StoreGeoKeeps, StoreHashKeeps,
         StoreExpiryKeeps, HeartbeatIgnoredKeeps, BeatFailsKeeps, FetchKeeps, ActionFailedKeeps,
         ListingExpiresKeeps
         DEF ShopNext
    <2> QED BY <2>1, <2>2
  <1> QED BY ShopInvInit, <1>1, PTL DEF ShopSpec

-----------------------------------------------------------------------------
\* The specification's variables keep their types.
THEOREM ShopTypesHold == ShopSpec => []ShopTypeOK
  BY ShopInvariant, PTL DEF ShopInv

\* A seller told "no longer listed" is in nobody's list, for every number of
\* sellers and of repeats, unless an abandoned heartbeat was stored since or Redis
\* was not ready for the one that was answered.
THEOREM StoppedIsUnlistedHolds == ShopSpec => []StoppedIsUnlisted
  <1>1. ShopInv => StoppedIsUnlisted
    BY DEF ShopInv, ShopTypeOK, StoppedStays, StoppedIsUnlisted, ActiveIn, Listed, FindById
  <1> QED BY <1>1, ShopInvariant, PTL

\* No listing stays without an expiry but one whose heartbeat was cut short.
THEOREM ListingsExpireHolds == ShopSpec => []ListingsExpire
  BY ShopInvariant, PTL DEF ShopInv

-----------------------------------------------------------------------------
\* WebClient. A request in progress is some page's, and somebody was shown on
\* it when it was sent.
FetchSound ==
    \A f \in Fetches : fetch[f].stage # "idle" =>
        fetch[f].page \in Pages /\ fetch[f].user \in Users

\* A page that shows somebody has a timer that will end a dead sign-in, unless a
\* late answer set its user after a sign-out (schedule at sign-in and restore,
\* clear at handleLogout, in auth-context.tsx).
ShownIsTimed == \A p \in Pages : Shown(p) => page[p].timer \/ page[p].revived

ClientInv == ClientTypeOK /\ FetchSound /\ ShownIsTimed

Screen == [user : Users \cup {None}, timer : BOOLEAN, entering : Passes \cup {None},
           revived : BOOLEAN]
Requests == [stage : {"idle", "refresh", "sent"}, page : Pages \cup {None},
             sent : Passes \cup {None}, user : Users \cup {None}]
Stored == [token : Passes \cup {None}, user : Users \cup {None}]
Tokens == [user : Users \cup {None}, good : BOOLEAN]

LEMMA ClientRecords ==
    /\ SignedOut \in Screen /\ SignedOut.user = None /\ SignedOut.entering = None
    /\ ~ SignedOut.revived
    /\ NoFetch \in Requests /\ NoFetch.stage = "idle"
    /\ NothingKept \in Stored
  BY DEF SignedOut, NoFetch, NothingKept, Screen, Requests, Stored

LEMMA ClientInvInit == ClientInit => ClientInv
  <1> SUFFICES ASSUME ClientInit PROVE ClientInv
    OBVIOUS
  <1>1. ClientTypeOK
    BY ClientRecords DEF ClientInit, ClientTypeOK, Screen, Requests, Stored
  <1>2. FetchSound /\ ShownIsTimed
    BY ClientRecords DEF ClientInit, FetchSound, ShownIsTimed, Shown
  <1> QED BY <1>1, <1>2 DEF ClientInv

\* A page shows nobody once it has been left.
LEMMA LeavePageSound ==
    ASSUME ClientInv, NEW p \in Pages, LeavePage(p)
    PROVE  kept' \in Stored /\ page' \in [Pages -> Screen] /\ ShownIsTimed'
  <1> DEFINE new == [SignedOut EXCEPT !.entering = page[p].entering]
  <1>1. page \in [Pages -> Screen] /\ kept' = NothingKept /\ page' = [page EXCEPT ![p] = new]
    BY DEF LeavePage, ClientInv, ClientTypeOK, Screen
  <1>2. new \in Screen /\ new.user = None
    BY <1>1, ClientRecords DEF Screen
  <1> HIDE DEF new
  <1>3. page' \in [Pages -> Screen] /\ page'[p].user = None
        /\ \A q \in Pages : q # p => page'[q] = page[q]
    BY <1>1, <1>2
  <1>4. ShownIsTimed'
    BY <1>3 DEF ClientInv, ShownIsTimed, Shown
  <1> QED BY <1>1, <1>3, <1>4, ClientRecords

\* A renewal keeps the page's sign-in or ends it.
LEMMA RenewSound ==
    ASSUME ClientInv, NEW p \in Pages, Renew(p)
    PROVE  /\ kept' \in Stored /\ page' \in [Pages -> Screen] /\ ShownIsTimed'
           /\ pass' \in [Passes -> Tokens]
  <1>1. pass \in [Passes -> Tokens] /\ kept \in Stored /\ page \in [Pages -> Screen]
    BY DEF ClientInv, ClientTypeOK, Screen, Stored, Tokens
  <1>2. CASE kept.token # None /\ RefreshRouteAccepts(RefreshBody)
    BY <1>1, <1>2 DEF Renew, RefreshRouteAccepts, RefreshBody
  <1>3. CASE ~ (kept.token # None /\ RefreshRouteAccepts(RefreshBody))
    <2>1. LeavePage(p) /\ pass' = pass
      BY <1>3 DEF Renew
    <2> QED BY <1>1, <2>1, LeavePageSound
  <1> QED BY <1>2, <1>3

LEMMA ClientTypes ==
    ClientTypeOK <=> /\ pass \in [Passes -> Tokens] /\ kept \in Stored
                     /\ page \in [Pages -> Screen] /\ fetch \in [Fetches -> Requests]
                     /\ cfaults \in Nat
  BY DEF ClientTypeOK, Tokens, Stored, Screen, Requests

LEMMA ClientTypesNext ==
    ASSUME /\ pass' \in [Passes -> Tokens] /\ kept' \in Stored
           /\ page' \in [Pages -> Screen] /\ fetch' \in [Fetches -> Requests]
           /\ cfaults' \in Nat
    PROVE  ClientTypeOK'
  BY DEF ClientTypeOK, Tokens, Stored, Screen, Requests

\* A request leaves, or goes on.
LEMMA FetchSoundNext ==
    ASSUME ClientInv, NEW f \in Fetches, NEW new \in Requests,
           fetch' = [fetch EXCEPT ![f] = new],
           new.stage # "idle" => new.page \in Pages /\ new.user \in Users
    PROVE  fetch' \in [Fetches -> Requests] /\ FetchSound'
  <1>1. fetch \in [Fetches -> Requests]
    BY ClientTypes DEF ClientInv
  <1>2. /\ fetch' \in [Fetches -> Requests] /\ fetch'[f] = new
        /\ \A g \in Fetches : g # f => fetch'[g] = fetch[g]
    BY <1>1
  <1> QED BY <1>2 DEF ClientInv, FetchSound

LEMMA SignInKeeps ==
    ASSUME ClientInv, NEW p \in Pages,
           (\E t \in Passes, u \in Users : SignInPage(p, t, u)) \/ SignInDone(p) \/ Logout(p)
    PROVE  ClientInv'
  <1>1. /\ pass \in [Passes -> Tokens] /\ kept \in Stored /\ page \in [Pages -> Screen]
        /\ fetch \in [Fetches -> Requests] /\ cfaults \in Nat
    BY ClientTypes DEF ClientInv
  <1>2. UNCHANGED <<fetch, cfaults>>
    BY DEF SignInPage, SignInDone, Logout
  <1>3. FetchSound'
    BY <1>2 DEF ClientInv, FetchSound
  <1>4. ASSUME NEW t \in Passes, NEW u \in Users, SignInPage(p, t, u) PROVE ClientInv'
    <2>1. /\ pass' = [pass EXCEPT ![t] = [user |-> u, good |-> TRUE]]
          /\ kept' = [kept EXCEPT !.token = t] /\ page' = [page EXCEPT ![p].entering = t]
      BY <1>4 DEF SignInPage
    <2>2. pass' \in [Passes -> Tokens] /\ kept' \in Stored
      BY <1>1, <2>1 DEF Tokens, Stored
    <2>3. page' \in [Pages -> Screen]
          /\ \A q \in Pages : /\ page'[q].user = page[q].user /\ page'[q].timer = page[q].timer
                              /\ page'[q].revived = page[q].revived
      BY <1>1, <2>1 DEF Screen
    <2>4. ShownIsTimed'
      BY <2>3 DEF ClientInv, ShownIsTimed, Shown
    <2> QED BY <1>1, <1>2, <1>3, <2>2, <2>3, <2>4, ClientTypesNext DEF ClientInv
  <1>5. ASSUME SignInDone(p) PROVE ClientInv'
    <2> DEFINE t == page[p].entering
               new == [page[p] EXCEPT !.user = pass[t].user, !.entering = None,
                                      !.timer = TRUE, !.revived = FALSE]
    <2>1. /\ t \in Passes /\ pass' = pass
          /\ kept' = [kept EXCEPT !.user = pass[t].user]
          /\ page' = [page EXCEPT ![p].user = pass[t].user, ![p].entering = None,
                                  ![p].timer = TRUE, ![p].revived = FALSE]
      BY <1>1, <1>5 DEF SignInDone, ScheduleTokenRefresh, Screen
    <2>2. kept' \in Stored
      BY <1>1, <2>1 DEF Tokens, Stored
    <2>3. /\ page' \in [Pages -> Screen] /\ page'[p].timer
          /\ \A q \in Pages : q # p => page'[q] = page[q]
      <3>1. pass[t].user \in Users \cup {None} /\ page[p] \in Screen
        BY <1>1, <2>1 DEF Tokens
      <3>2. new \in Screen /\ new.timer
        BY <3>1 DEF Screen
      <3>3. page' = [page EXCEPT ![p] = new]
        BY ONLY <1>1, <2>1, <3>1 DEF Screen
      <3> HIDE DEF new
      <3> QED BY <1>1, <3>2, <3>3
    <2>4. ShownIsTimed'
      BY <2>3 DEF ClientInv, ShownIsTimed, Shown
    <2> QED BY <1>1, <1>2, <1>3, <2>1, <2>2, <2>3, <2>4, ClientTypesNext DEF ClientInv
  <1>6. ASSUME Logout(p) PROVE ClientInv'
    <2>1. LeavePage(p) /\ pass' = pass
      BY <1>6 DEF Logout
    <2> QED BY <1>1, <1>2, <1>3, <2>1, LeavePageSound, ClientTypesNext DEF ClientInv
  <1> QED BY <1>4, <1>5, <1>6

LEMMA ReloadKeeps ==
    ASSUME ClientInv, NEW p \in Pages, Reload(p)
    PROVE  ClientInv'
  <1>1. /\ pass \in [Passes -> Tokens] /\ kept \in Stored /\ page \in [Pages -> Screen]
        /\ fetch \in [Fetches -> Requests] /\ cfaults \in Nat
    BY ClientTypes DEF ClientInv
  <1>2. UNCHANGED <<pass, cfaults>> /\ kept' \in Stored
    BY <1>1, ClientRecords DEF Reload
  <1>3. fetch' \in [Fetches -> Requests] /\ FetchSound'
    <2>1. fetch' = [f \in Fetches |-> IF fetch[f].page = p THEN NoFetch ELSE fetch[f]]
      BY DEF Reload
    <2> QED BY <1>1, <2>1, ClientRecords DEF ClientInv, FetchSound
  <1>4. PICK new \in {SignedOut, [SignedOut EXCEPT !.user = kept.user, !.timer = TRUE]} :
            page' = [page EXCEPT ![p] = new]
    BY DEF Reload, ScheduleTokenRefresh
  <1>5. new \in Screen /\ (new.user = None \/ new.timer)
    <2>1. CASE new = SignedOut
      BY <2>1, ClientRecords
    <2>2. CASE new = [SignedOut EXCEPT !.user = kept.user, !.timer = TRUE]
      <3>1. kept.user \in Users \cup {None}
        BY <1>1 DEF Stored
      <3> QED BY <2>2, <3>1, ClientRecords DEF Screen
    <2> QED BY <2>1, <2>2
  <1>6. /\ page' \in [Pages -> Screen] /\ page'[p] = new
        /\ \A q \in Pages : q # p => page'[q] = page[q]
    BY <1>1, <1>4, <1>5
  <1>7. ShownIsTimed'
    BY <1>5, <1>6 DEF ClientInv, ShownIsTimed, Shown
  <1> QED BY <1>1, <1>2, <1>3, <1>6, <1>7, ClientTypesNext DEF ClientInv

LEMMA ExecuteKeeps ==
    ASSUME ClientInv, NEW f \in Fetches, NEW p \in Pages, ExecuteRequest(f, p)
    PROVE  ClientInv'
  <1>1. /\ pass \in [Passes -> Tokens] /\ kept \in Stored /\ page \in [Pages -> Screen]
        /\ fetch \in [Fetches -> Requests] /\ cfaults \in Nat
    BY ClientTypes DEF ClientInv
  <1>2. UNCHANGED <<pass, kept, page, cfaults>> /\ Shown(p)
    BY DEF ExecuteRequest
  <1> DEFINE stage == IF kept.token # None /\ ~Good(kept.token) THEN "refresh" ELSE "sent"
             new == [stage |-> stage, page |-> p, sent |-> kept.token, user |-> page[p].user]
  <1>3. fetch' = [fetch EXCEPT ![f] = new]
    BY DEF ExecuteRequest
  <1>4. new \in Requests /\ new.page \in Pages /\ new.user \in Users
    BY <1>1, <1>2 DEF Requests, Stored, Screen, Shown
  <1> HIDE DEF new
  <1>5. fetch' \in [Fetches -> Requests] /\ FetchSound'
    BY <1>3, <1>4, FetchSoundNext
  <1>6. ShownIsTimed'
    BY <1>2 DEF ClientInv, ShownIsTimed, Shown
  <1> QED BY <1>1, <1>2, <1>5, <1>6, ClientTypesNext DEF ClientInv

\* A late profile answer sets the user of its page, who was shown or is revived.
LEMMA AnsweredKeeps ==
    ASSUME ClientInv, NEW f \in Fetches, Answered(f)
    PROVE  ClientInv'
  <1> DEFINE p == fetch[f].page
  <1>1. /\ pass \in [Passes -> Tokens] /\ kept \in Stored /\ page \in [Pages -> Screen]
        /\ fetch \in [Fetches -> Requests] /\ cfaults \in Nat
    BY ClientTypes DEF ClientInv
  <1>2. UNCHANGED <<pass, cfaults>> /\ p \in Pages /\ fetch[f].user \in Users
    BY DEF Answered, ClientInv, FetchSound
  <1>3. fetch' \in [Fetches -> Requests] /\ FetchSound'
    <2>1. PICK new \in {NoFetch, [fetch[f] EXCEPT !.stage = "refresh"]} :
              fetch' = [fetch EXCEPT ![f] = new]
      BY DEF Answered
    <2>2. new \in Requests /\ (new.stage # "idle" => new.page \in Pages /\ new.user \in Users)
      <3>1. fetch[f] \in Requests
        BY <1>1
      <3> QED BY <1>2, <2>1, <3>1, ClientRecords DEF Requests
    <2> QED BY <2>1, <2>2, FetchSoundNext
  <1>4. CASE UNCHANGED <<kept, page>>
    <2>1. ShownIsTimed'
      BY <1>4 DEF ClientInv, ShownIsTimed, Shown
    <2> QED BY <1>1, <1>2, <1>3, <1>4, <2>1, ClientTypesNext DEF ClientInv
  <1>5. CASE /\ kept' = [kept EXCEPT !.user = fetch[f].user]
             /\ page' = [page EXCEPT ![p].user = fetch[f].user, ![p].revived = @ \/ ~Shown(p)]
    <2>1. kept' \in Stored
      BY <1>1, <1>2, <1>5 DEF Stored
    <2>2. Shown(p) \in BOOLEAN /\ page[p] \in Screen
      BY <1>1, <1>2 DEF Shown
    <2>3. /\ page' \in [Pages -> Screen]
          /\ page'[p].timer = page[p].timer
          /\ page'[p].revived = (page[p].revived \/ ~Shown(p))
          /\ \A q \in Pages : q # p => page'[q] = page[q]
      BY <1>1, <1>2, <1>5, <2>2 DEF Screen
    <2>4. ShownIsTimed'
      BY <1>2, <2>3 DEF ClientInv, ShownIsTimed, Shown
    <2> QED BY <1>1, <1>2, <1>3, <2>1, <2>3, <2>4, ClientTypesNext DEF ClientInv
  <1> QED BY <1>4, <1>5 DEF Answered

LEMMA RenewalKeeps ==
    ASSUME ClientInv,
           \/ \E f \in Fetches : RefreshAccessToken(f) \/ FetchFails(f)
           \/ \E p \in Pages : TimerFires(p)
    PROVE  ClientInv'
  <1>1. /\ pass \in [Passes -> Tokens] /\ kept \in Stored /\ page \in [Pages -> Screen]
        /\ fetch \in [Fetches -> Requests] /\ cfaults \in Nat
    BY ClientTypes DEF ClientInv
  <1>2. ASSUME NEW f \in Fetches, fetch' = [fetch EXCEPT ![f] = NoFetch]
        PROVE  fetch' \in [Fetches -> Requests] /\ FetchSound'
    BY <1>2, FetchSoundNext, ClientRecords
  <1>3. ASSUME NEW f \in Fetches, RefreshAccessToken(f) PROVE ClientInv'
    <2>1. /\ fetch[f].page \in Pages /\ Renew(fetch[f].page)
          /\ fetch' = [fetch EXCEPT ![f] = NoFetch] /\ cfaults' = cfaults
      BY <1>3 DEF RefreshAccessToken, ClientInv, FetchSound
    <2> QED BY <1>1, <1>2, <2>1, RenewSound, ClientTypesNext DEF ClientInv
  <1>4. ASSUME NEW f \in Fetches, FetchFails(f) PROVE ClientInv'
    <2>1. /\ fetch[f].page \in Pages /\ pass' = pass
          /\ fetch' = [fetch EXCEPT ![f] = NoFetch] /\ cfaults' \in Nat
      BY <1>1, <1>4 DEF FetchFails, ClientFault, ClientInv, FetchSound
    <2>2. CASE LeavePage(fetch[f].page)
      BY <1>1, <1>2, <2>1, <2>2, LeavePageSound, ClientTypesNext DEF ClientInv
    <2>3. CASE UNCHANGED <<kept, page>>
      <3>1. ShownIsTimed'
        BY <2>3 DEF ClientInv, ShownIsTimed, Shown
      <3> QED BY <1>1, <1>2, <2>1, <2>3, <3>1, ClientTypesNext DEF ClientInv
    <2> QED BY <1>4, <2>2, <2>3 DEF FetchFails
  <1>5. ASSUME NEW p \in Pages, TimerFires(p) PROVE ClientInv'
    <2>1. Renew(p) /\ UNCHANGED <<fetch, cfaults>>
      BY <1>5 DEF TimerFires
    <2>2. FetchSound'
      BY <2>1 DEF ClientInv, FetchSound
    <2> QED BY <1>1, <2>1, <2>2, RenewSound, ClientTypesNext DEF ClientInv
  <1> QED BY <1>3, <1>4, <1>5

LEMMA PassExpiresKeeps ==
    ASSUME ClientInv, NEW t \in Passes, PassExpires(t)
    PROVE  ClientInv'
  <1>1. /\ pass \in [Passes -> Tokens] /\ kept \in Stored /\ page \in [Pages -> Screen]
        /\ fetch \in [Fetches -> Requests] /\ cfaults \in Nat
    BY ClientTypes DEF ClientInv
  <1>2. pass' = [pass EXCEPT ![t].good = FALSE] /\ UNCHANGED <<kept, page, fetch, cfaults>>
    BY DEF PassExpires
  <1>3. pass' \in [Passes -> Tokens]
    BY <1>1, <1>2 DEF Tokens
  <1>4. FetchSound' /\ ShownIsTimed'
    BY <1>2 DEF ClientInv, FetchSound, ShownIsTimed, Shown
  <1> QED BY <1>1, <1>2, <1>3, <1>4, ClientTypesNext DEF ClientInv

THEOREM ClientInvariant == ClientSpec => []ClientInv
  <1>1. ClientInv /\ [ClientNext]_clientVars => ClientInv'
    <2> SUFFICES ASSUME ClientInv, [ClientNext]_clientVars PROVE ClientInv'
      OBVIOUS
    <2>1. CASE UNCHANGED clientVars
      BY <2>1 DEF clientVars, ClientInv, ClientTypeOK, FetchSound, ShownIsTimed, Shown
    <2>2. CASE ClientNext
      BY <2>2, SignInKeeps, ReloadKeeps, ExecuteKeeps, AnsweredKeeps, RenewalKeeps,
         PassExpiresKeeps DEF ClientNext
    <2> QED BY <2>1, <2>2
  <1> QED BY <1>1, ClientInvInit, PTL DEF ClientSpec

THEOREM ClientTypesHold == ClientSpec => []ClientTypeOK
  BY ClientInvariant, PTL DEF ClientInv

\* A page that shows somebody has a timer that will end a dead sign-in, but for
\* one a late answer revived: what DeadSignInEnds counts on.
THEOREM ShownIsTimedHolds == ClientSpec => []ShownIsTimed
  BY ClientInvariant, PTL DEF ClientInv

-----------------------------------------------------------------------------
\* DepositWatch. What the page said of a payment is what became of it, however
\* old the answer it had (the status handling of wallet/page.tsx).
ToldIsTrue == \A d \in Deposits : told[d] # None => told[d] = pay[d] /\ Settled(pay[d])

\* A settled status is final, so that it is true wherever it is kept.
KeptIsTrue ==
    \A k \in Deposits :
        /\ Settled(entry[k].status) => entry[k].status = pay[k]
        /\ query[k].stage = "answered" /\ Settled(query[k].status) => query[k].status = pay[k]
        /\ query[k].waiting \subseteq {k}

DepositInv == DepositTypeOK /\ KeptIsTrue /\ ToldIsTrue

USE DepositAssumption

Questions == [stage : {"idle", "sent", "answered"}, status : Statuses, waiting : SUBSET Deposits]

LEMMA DepositInvInit == DepositInit => DepositInv
  BY DEF DepositInit, DepositInv, DepositTypeOK, KeptIsTrue, ToldIsTrue, Statuses, NoQuery,
         NoStatus, Settled

LEMMA NoQueryOK == NoQuery \in Questions
  BY DEF NoQuery, Questions, Statuses

\* A payment starts or settles: none that was told of changes.
LEMMA PayKeeps ==
    ASSUME DepositInv, NEW d \in Deposits, StartDeposit(d) \/ SettleDeposit(d)
    PROVE  DepositInv'
  <1>0. pay \in [Deposits -> Statuses] /\ UNCHANGED <<entry, query, told, dfaults>>
    BY DEF StartDeposit, SettleDeposit, DepositInv, DepositTypeOK
  <1>a. PICK x \in {"PENDING", "COMPLETED", "FAILED"} :
            pay' = [pay EXCEPT ![d] = x] /\ pay[d] \in {None, "PENDING"}
    BY DEF StartDeposit, SettleDeposit
  <1>b. x \in Statuses /\ ~ Settled(pay[d])
    BY <1>a DEF Statuses, Settled
  <1>c. /\ pay' \in [Deposits -> Statuses]
        /\ \A e \in Deposits : e # d => pay'[e] = pay[e]
    BY ONLY <1>0, <1>a, <1>b, d \in Deposits
  <1>1. /\ pay \in [Deposits -> Statuses] /\ pay' \in [Deposits -> Statuses]
        /\ UNCHANGED <<entry, query, told, dfaults>>
        /\ ~ Settled(pay[d])
        /\ \A e \in Deposits : e # d => pay'[e] = pay[e]
    BY <1>0, <1>b, <1>c
  <1>2. DepositTypeOK'
    BY <1>1 DEF StartDeposit, SettleDeposit, DepositInv, DepositTypeOK, Unfollowed
  <1>3. KeptIsTrue'
    BY <1>1 DEF DepositInv, KeptIsTrue
  <1>4. ToldIsTrue'
    BY <1>1 DEF DepositInv, ToldIsTrue, Settled
  <1> QED BY <1>2, <1>3, <1>4 DEF DepositInv

\* A true status is told truly.
LEMMA TakeKeeps ==
    ASSUME DepositInv, pay' = pay, NEW ds \in SUBSET Deposits, NEW status \in Statuses,
           \A d \in ds : Settled(status) => status = pay[d], Take(ds, status)
    PROVE  /\ ToldIsTrue' /\ told' \in [Deposits -> Statuses]
           /\ pending' \in Deposits \cup {None} /\ dropped' \subseteq Deposits
  <1>1. CASE Settled(status) /\ ds # {}
    <2>1. /\ told' = [d \in Deposits |-> IF d \in ds THEN status ELSE told[d]]
          /\ pending' = None
          /\ dropped' = dropped \cup Unfollowed({pending} \ ({None} \cup ds))
      BY <1>1 DEF Take
    <2>2. told' \in [Deposits -> Statuses] /\ dropped' \subseteq Deposits
      BY <2>1 DEF DepositInv, DepositTypeOK, Unfollowed
    <2>3. ToldIsTrue'
      BY <1>1, <2>1 DEF DepositInv, ToldIsTrue
    <2> QED BY <2>1, <2>2, <2>3
  <1>2. CASE ~ (Settled(status) /\ ds # {})
    <2>1. UNCHANGED <<told, pending, dropped>>
      BY <1>2 DEF Take
    <2> QED BY <2>1 DEF DepositInv, DepositTypeOK, ToldIsTrue
  <1> QED BY <1>1, <1>2

LEMMA PollKeeps ==
    ASSUME DepositInv, NEW d \in Deposits, Poll(d)
    PROVE  DepositInv'
  <1>1. /\ query \in [Deposits -> Questions] /\ UNCHANGED <<pay, entry, dfaults>>
        /\ entry[d].status \in Statuses /\ query[d] \in Questions
    BY DEF Poll, DepositInv, DepositTypeOK, Questions
  <1>2. ASSUME NEW new \in Questions, query' = [query EXCEPT ![d] = new],
               new.stage # "answered", new.waiting \subseteq {d}
        PROVE  KeptIsTrue' /\ query' \in [Deposits -> Questions]
    BY <1>1, <1>2 DEF DepositInv, KeptIsTrue
  <1>3. ASSUME KeptIsTrue', query' \in [Deposits -> Questions],
               UNCHANGED <<told, pending, dropped>>
        PROVE  DepositInv'
    BY <1>1, <1>3 DEF DepositInv, DepositTypeOK, ToldIsTrue, Questions
  <1>4. CASE query[d].stage # "idle"
    <2>1. /\ query' = [query EXCEPT ![d] = [query[d] EXCEPT !.waiting = @ \cup {d}]]
          /\ UNCHANGED <<told, pending, dropped>>
      BY <1>1, <1>4 DEF Poll, DedupeKey
    <2>2. query' \in [Deposits -> Questions]
      BY <1>1, <2>1 DEF Questions
    <2>3. /\ query'[d].stage = query[d].stage /\ query'[d].status = query[d].status
          /\ query'[d].waiting = query[d].waiting \cup {d}
      BY <1>1, <2>1 DEF Questions
    <2>4. KeptIsTrue'
      BY <1>1, <2>1, <2>3 DEF DepositInv, KeptIsTrue
    <2> QED BY <1>3, <2>1, <2>2, <2>4
  <1>5. CASE query[d].stage = "idle" /\ entry[d].status = None
    <2> DEFINE new == [NoQuery EXCEPT !.stage = "sent", !.waiting = {d}]
    <2>1. query' = [query EXCEPT ![d] = new] /\ UNCHANGED <<told, pending, dropped>>
      BY <1>5 DEF Poll, DedupeKey
    <2>2. new \in Questions /\ new.stage = "sent" /\ new.waiting = {d}
      BY NoQueryOK DEF Questions
    <2> HIDE DEF new
    <2> QED BY <1>2, <1>3, <2>1, <2>2
  <1>6. CASE query[d].stage = "idle" /\ entry[d].status # None
    <2>1. Take({d}, entry[d].status)
      BY <1>6 DEF Poll, DedupeKey
    <2>2. Settled(entry[d].status) => entry[d].status = pay[d]
      BY DEF DepositInv, KeptIsTrue
    <2>3. /\ ToldIsTrue' /\ told' \in [Deposits -> Statuses]
          /\ pending' \in Deposits \cup {None} /\ dropped' \subseteq Deposits
      <3> DEFINE ds == {d}
      <3>1. ds \in SUBSET Deposits
        OBVIOUS
      <3>2. \A e \in ds : Settled(entry[d].status) => entry[d].status = pay[e]
        BY <2>2
      <3>3. Take(ds, entry[d].status)
        BY <2>1
      <3> HIDE DEF ds
      <3> QED BY <1>1, <3>1, <3>2, <3>3, TakeKeeps
    <2>4. KeptIsTrue' /\ query' \in [Deposits -> Questions]
      <3> DEFINE new == [query[d] EXCEPT !.stage = "sent"]
      <3>1. query' = [query EXCEPT ![d] = new] \/ query' = query
        BY <1>1, <1>6 DEF Poll, DedupeKey
      <3>2. new \in Questions /\ new.stage = "sent" /\ new.waiting = query[d].waiting
        BY <1>1 DEF Questions
      <3>3. query[d].waiting \subseteq {d}
        BY DEF DepositInv, KeptIsTrue
      <3> HIDE DEF new
      <3>4. CASE query' = query
        BY <1>1, <3>4 DEF DepositInv, KeptIsTrue
      <3> QED BY <1>2, <3>1, <3>2, <3>3, <3>4
    <2> QED BY <1>1, <2>3, <2>4 DEF DepositInv, DepositTypeOK, Questions
  <1> QED BY <1>4, <1>5, <1>6

LEMMA AnswerKeeps ==
    ASSUME DepositInv, NEW d \in Deposits, ReadStatus(d) \/ StatusArrives(d)
    PROVE  DepositInv'
  <1>1. /\ query \in [Deposits -> Questions] /\ pay' = pay /\ dfaults' = dfaults
        /\ query[d] \in Questions /\ pay[d] \in Statuses
    BY DEF ReadStatus, StatusArrives, DepositInv, DepositTypeOK, Questions
  <1>2. CASE ReadStatus(d)
    <2>1. /\ query' = [query EXCEPT ![d] =
                         [query[d] EXCEPT !.stage = "answered", !.status = pay[d]]]
          /\ UNCHANGED <<entry, pending, told, dropped>>
      BY <1>1, <1>2 DEF ReadStatus, DedupeKey
    <2>2. query' \in [Deposits -> Questions]
      BY <1>1, <2>1 DEF Questions
    <2>3. query'[d].status = pay[d] /\ query'[d].waiting = query[d].waiting
      BY <1>1, <2>1 DEF Questions
    <2>4. KeptIsTrue'
      BY <1>1, <2>1, <2>3 DEF DepositInv, KeptIsTrue
    <2> QED BY <1>1, <2>1, <2>2, <2>4 DEF DepositInv, DepositTypeOK, ToldIsTrue, Questions
  <1>3. CASE StatusArrives(d)
    <2> DEFINE status == query[d].status
               ds == query[d].waiting
    <2>1. /\ query' = [query EXCEPT ![d] = NoQuery] /\ query[d].stage = "answered"
          /\ entry' = [entry EXCEPT ![d] = [status |-> status, stale |-> FALSE]]
          /\ Take(ds, status)
      BY <1>3 DEF StatusArrives
    <2>2. status \in Statuses /\ ds \in SUBSET Deposits
      BY <1>1 DEF Questions
    <2>3. (Settled(status) => status = pay[d]) /\ ds \subseteq {d}
      BY <2>1 DEF DepositInv, KeptIsTrue
    <2>4. \A e \in ds : Settled(status) => status = pay[e]
      BY <2>3
    <2>5. /\ ToldIsTrue' /\ told' \in [Deposits -> Statuses]
          /\ pending' \in Deposits \cup {None} /\ dropped' \subseteq Deposits
      BY <1>1, <2>1, <2>2, <2>4, TakeKeeps
    <2>6. query' \in [Deposits -> Questions]
      BY <1>1, <2>1, NoQueryOK
    <2>7. entry' \in [Deposits -> [status : Statuses, stale : BOOLEAN]]
      BY <2>1, <2>2 DEF DepositInv, DepositTypeOK
    <2>8. KeptIsTrue'
      <3>1. NoQuery.stage = "idle" /\ NoQuery.waiting = {}
        BY DEF NoQuery
      <3>2. entry'[d].status = status /\ \A k \in Deposits : k # d => entry'[k] = entry[k]
        BY <2>1 DEF DepositInv, DepositTypeOK
      <3> QED BY <1>1, <2>1, <2>3, <3>1, <3>2 DEF DepositInv, KeptIsTrue
    <2> QED BY <1>1, <2>5, <2>6, <2>7, <2>8 DEF DepositInv, DepositTypeOK, Questions
  <1> QED BY <1>2, <1>3

LEMMA WatchRestKeeps ==
    ASSUME DepositInv,
           \/ \E d \in Deposits : QueryIsLost(d) \/ EntryAges(d)
           \/ StopPolling
    PROVE  DepositInv'
  <1>1. query \in [Deposits -> Questions]
    BY DEF DepositInv, DepositTypeOK, Questions
  <1>2. ASSUME NEW d \in Deposits, QueryIsLost(d) PROVE DepositInv'
    <2>1. /\ query' = [query EXCEPT ![d] = NoQuery] /\ dfaults' = dfaults + 1
          /\ UNCHANGED <<pay, entry, pending, told, dropped>>
      BY <1>2 DEF QueryIsLost, DepositFault
    <2>2. query' \in [Deposits -> Questions]
      BY <1>1, <2>1, NoQueryOK
    <2>3. NoQuery.stage = "idle" /\ NoQuery.waiting = {}
      BY DEF NoQuery
    <2>4. KeptIsTrue'
      BY <1>1, <2>1, <2>3 DEF DepositInv, KeptIsTrue
    <2> QED BY <2>1, <2>2, <2>4 DEF DepositInv, DepositTypeOK, ToldIsTrue, Questions
  <1>3. ASSUME NEW d \in Deposits, EntryAges(d) PROVE DepositInv'
    <2>1. /\ entry' = [entry EXCEPT ![d].stale = TRUE]
          /\ UNCHANGED <<pay, query, pending, told, dropped, dfaults>>
      BY <1>3 DEF EntryAges
    <2>2. entry \in [Deposits -> [status : Statuses, stale : BOOLEAN]]
      BY DEF DepositInv, DepositTypeOK
    <2>3. /\ entry' \in [Deposits -> [status : Statuses, stale : BOOLEAN]]
          /\ \A k \in Deposits : entry'[k].status = entry[k].status
      BY ONLY <2>1, <2>2, d \in Deposits
    <2> QED BY <2>1, <2>3 DEF DepositInv, DepositTypeOK, KeptIsTrue, ToldIsTrue
  <1>4. ASSUME StopPolling PROVE DepositInv'
    BY <1>4 DEF StopPolling, DepositInv, DepositTypeOK, KeptIsTrue, ToldIsTrue, Unfollowed
  <1> QED BY <1>2, <1>3, <1>4

THEOREM DepositInvariant == DepositSpec => []DepositInv
  <1>1. DepositInv /\ [DepositNext]_depositVars => DepositInv'
    <2> SUFFICES ASSUME DepositInv, [DepositNext]_depositVars PROVE DepositInv'
      OBVIOUS
    <2>1. CASE UNCHANGED depositVars
      BY <2>1 DEF depositVars, DepositInv, DepositTypeOK, KeptIsTrue, ToldIsTrue
    <2>2. CASE DepositNext
      BY <2>2, PayKeeps, PollKeeps, AnswerKeeps, WatchRestKeeps DEF DepositNext
    <2> QED BY <2>1, <2>2
  <1> QED BY <1>1, DepositInvInit, PTL DEF DepositSpec

THEOREM DepositTypesHold == DepositSpec => []DepositTypeOK
  BY DepositInvariant, PTL DEF DepositInv

\* The page says of a payment what became of it and nothing else, through the
\* cache, joined questions, late answers and lost ones.
THEOREM ToldIsTrueHolds == DepositSpec => []ToldIsTrue
  BY DepositInvariant, PTL DEF DepositInv

-----------------------------------------------------------------------------
\* The clients. Whatever MCClients does is, for each of them, something it may
\* do alone, or a stutter: what is proved of one holds of the whole.
LEMMA ClientsBehave == ClientsSpec => ShopSpec /\ ClientSpec /\ DepositSpec
  <1>1. ClientsInit => ShopInit /\ ClientInit /\ DepositInit
    BY DEF ClientsInit
  <1>2. [ClientsNext]_ClientsVars => [ShopNext]_shopVars
    BY DEF ClientsNext, ClientsVars
  <1>3. [ClientsNext]_ClientsVars => [ClientNext]_clientVars
    BY DEF ClientsNext, ClientsVars
  <1>4. [ClientsNext]_ClientsVars => [DepositNext]_depositVars
    BY DEF ClientsNext, ClientsVars
  <1> QED BY <1>1, <1>2, <1>3, <1>4, PTL DEF ClientsSpec, ShopSpec, ClientSpec, DepositSpec

\* Every client keeps its types.
THEOREM ClientsTypesHold == ClientsSpec => []ClientsTypeOK
  <1>1. ClientsTypeOK <=> ShopTypeOK /\ ClientTypeOK /\ DepositTypeOK
    BY DEF ClientsTypeOK
  <1> QED BY <1>1, ClientsBehave, ShopTypesHold, ClientTypesHold, DepositTypesHold, PTL

\* What the run checks of the clients' safety, for every value of the constants
\* at once, and what the liveness it checks counts on.
THEOREM ClientsAreSafe ==
    ClientsSpec => /\ [](StoppedIsUnlisted /\ ListingsExpire)
                   /\ [](ShownIsTimed /\ ToldIsTrue)
  BY ClientsBehave, StoppedIsUnlistedHolds, ListingsExpireHolds, ShownIsTimedHolds,
     ToldIsTrueHolds, PTL
=============================================================================
