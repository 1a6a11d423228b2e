---------------------------- MODULE SellerListing ----------------------------
(***************************************************************************)
(* A seller's listing: the heartbeat the Relay screen sends when sharing   *)
(* starts and when it stops, and the three Redis commands that store it    *)
(* (GEOADD, HSET, EXPIRE), each a step of its own. The mobile client       *)
(* repeats a request whose answer is lost, so two copies of one heartbeat  *)
(* may run, and an earlier one may be overtaken by a later one. A          *)
(* heartbeat that finds Redis not ready is answered as if it was stored.   *)
(*                                                                         *)
(* Left out: price, speed and place of a listing (the schema requires a    *)
(* price), and its relay (SessionStore).                                   *)
(***************************************************************************)
EXTENDS Platform

CONSTANTS
    Shops,      \* sellers
    Beats       \* heartbeats that may be in progress at the same time

ASSUME ShopAssumption ==
    None \notin Shops /\ None \notin [status : {"active", "offline"}, expires : BOOLEAN]

VARIABLES
    shop,       \* seller:<id>
    geo,        \* active_sellers_geo
    beat,       \* the heartbeats in progress on the server
    screen,     \* the Relay screen of each seller
    stopped,    \* sellers whose screen said "no longer listed" last
    overtaken,  \* sellers whose last heartbeat stored was an abandoned one (history)
    ignored,    \* sellers told of a heartbeat that was not stored, since the last
                \* one that was (history)
    cut,        \* sellers one of whose heartbeats was cut short (history)
    bfaults     \* faults so far

shopVars == <<shop, geo, beat, screen, stopped, overtaken, ignored, cut, bfaults>>

-----------------------------------------------------------------------------
NoBeat == [stage |-> "idle", shop |-> None, status |-> None, awaited |-> FALSE]

ShopInit ==
    /\ shop = [v \in Shops |-> None]
    /\ geo = {}
    /\ beat = [h \in Beats |-> NoBeat]
    /\ screen = [v \in Shops |-> "init"]
    /\ stopped = {} /\ overtaken = {} /\ ignored = {} /\ cut = {}
    /\ bfaults = 0

BeatFault == bfaults < MaxFaults /\ bfaults' = bfaults + 1

\* A listing with a price, whatever its status: what a session is opened with.
FindById(v) == shop[v] # None

\* BROKEN: an idle seller and an offline one are listed as well.
ListedWhateverStatus == {v \in Shops : FindById(v)}

\* GET /v1/marketplace/sellers: the active ones.
Listed == {v \in Shops : FindById(v) /\ shop[v].status = "active"}

-----------------------------------------------------------------------------
\* The Relay screen. A press sends one heartbeat and waits for its answer.
Send(h, v, status) ==
    beat' = [beat EXCEPT
        ![h] = [stage |-> "geo", shop |-> v, status |-> status, awaited |-> TRUE]]

StartSharing(h, v) ==
    /\ beat[h].stage = "idle" /\ screen[v] = "init"
    /\ Send(h, v, "active")
    /\ screen' = [screen EXCEPT ![v] = "starting"]
    /\ stopped' = stopped \ {v}
    /\ UNCHANGED <<shop, geo, overtaken, ignored, cut, bfaults>>

StopSharing(h, v) ==
    /\ beat[h].stage = "idle" /\ screen[v] = "active"
    /\ Send(h, v, "offline")
    /\ screen' = [screen EXCEPT ![v] = "stopping"]
    /\ UNCHANGED <<shop, geo, stopped, overtaken, ignored, cut, bfaults>>

\* fetchNodeStatus, when the screen opens. A list that cannot be had, or that is
\* empty because Redis is not ready, finds the node off.
FetchNodeStatus(v) ==
    /\ screen[v] \in {"init", "active"}
    /\ \/ /\ screen' = [screen EXCEPT ![v] = IF v \in Listed THEN "active" ELSE "init"]
          /\ UNCHANGED bfaults
       \/ BeatFault /\ screen' = [screen EXCEPT ![v] = "init"]
    /\ UNCHANGED <<shop, geo, beat, stopped, overtaken, ignored, cut>>

\* The answer does not come within ten seconds: the first copy goes on running,
\* a second one is sent, and when that fails too the screen shows an error.
Abandoned(v) == [h \in Beats |-> IF beat[h].shop = v
                                 THEN [beat[h] EXCEPT !.awaited = FALSE] ELSE beat[h]]

Waiting(v) == {h \in Beats : beat[h].shop = v /\ beat[h].awaited}

RetryBeat(h, v) ==
    /\ BeatFault
    /\ beat[h].stage = "idle" /\ Waiting(v) # {}
    /\ beat' = [Abandoned(v) EXCEPT ![h] =
          [stage |-> "geo", shop |-> v, awaited |-> TRUE,
           status |-> IF screen[v] = "starting" THEN "active" ELSE "offline"]]
    /\ UNCHANGED <<shop, geo, screen, stopped, overtaken, ignored, cut>>

ActionFailed(v) ==
    /\ BeatFault
    /\ screen[v] \in {"starting", "stopping"}
    /\ beat' = Abandoned(v)
    /\ screen' = [screen EXCEPT ![v] = IF @ = "starting" THEN "init" ELSE "active"]
    /\ UNCHANGED <<shop, geo, stopped, overtaken, ignored, cut>>

-----------------------------------------------------------------------------
\* updateHeartbeat.
StoreGeo(h) ==
    /\ beat[h].stage = "geo"
    /\ geo' = geo \cup {beat[h].shop}
    /\ beat' = [beat EXCEPT ![h].stage = "hash"]
    /\ UNCHANGED <<shop, screen, stopped, overtaken, ignored, cut, bfaults>>

\* HSET leaves the key's expiry as it is; a new key has none.
StoreHash(h) ==
    LET v == beat[h].shop IN
    /\ beat[h].stage = "hash"
    /\ shop' = [shop EXCEPT ![v] =
          [status |-> beat[h].status, expires |-> FindById(v) /\ shop[v].expires]]
    /\ overtaken' = IF beat[h].awaited THEN overtaken \ {v} ELSE overtaken \cup {v}
    /\ ignored' = IF beat[h].awaited THEN ignored \ {v} ELSE ignored
    /\ beat' = [beat EXCEPT ![h].stage = "expire"]
    /\ UNCHANGED <<geo, screen, stopped, cut, bfaults>>

\* BROKEN: a listing that is not active is stored without an expiry.
ExpiresWhenActive(h) == beat[h].status = "active"

\* Every heartbeat ends with EXPIRE, whatever it says.
SetsExpiry(h) == TRUE

\* BROKEN: the screen's step is the status that was sent.
ShowsStatus(h) == beat[h].status

\* The step the screen goes to: its first one, once it has stopped.
StepAfter(h) == IF beat[h].status = "active" THEN "active" ELSE "init"

\* The answer { success: true }: the screen of an awaited heartbeat says what the
\* heartbeat was for.
BeatAnswered(h) ==
    LET v == beat[h].shop IN
    /\ beat' = [beat EXCEPT ![h] = NoBeat]
    /\ IF beat[h].awaited
       THEN /\ screen' = [screen EXCEPT ![v] = StepAfter(h)]
            /\ stopped' = IF beat[h].status = "active" THEN stopped ELSE stopped \cup {v}
       ELSE UNCHANGED <<screen, stopped>>

\* updateHeartbeat returns at once when the Redis connection is not ready.
HeartbeatIgnored(h) ==
    /\ BeatFault
    /\ beat[h].stage = "geo"
    /\ BeatAnswered(h)
    /\ ignored' = IF beat[h].awaited THEN ignored \cup {beat[h].shop} ELSE ignored
    /\ UNCHANGED <<shop, geo, overtaken, cut>>

\* EXPIRE (nothing happens to a key that is gone), and the answer.
StoreExpiry(h) ==
    LET v == beat[h].shop IN
    /\ beat[h].stage = "expire"
    /\ shop' = IF FindById(v) /\ SetsExpiry(h) THEN [shop EXCEPT ![v].expires = TRUE] ELSE shop
    /\ BeatAnswered(h)
    /\ UNCHANGED <<geo, overtaken, ignored, cut, bfaults>>

\* A Redis command fails: the route answers 500 and stores nothing further.
BeatFails(h) ==
    LET v == beat[h].shop IN
    /\ BeatFault
    /\ beat[h].stage # "idle"
    /\ beat' = [beat EXCEPT ![h] = NoBeat]
    /\ cut' = IF beat[h].stage = "expire" THEN cut \cup {v} ELSE cut
    /\ screen' = IF beat[h].awaited
                 THEN [screen EXCEPT ![v] = IF @ = "starting" THEN "init" ELSE "active"]
                 ELSE screen
    /\ UNCHANGED <<shop, geo, stopped, overtaken, ignored>>

\* Five minutes without a heartbeat (Redis).
ListingExpires(v) ==
    /\ FindById(v) /\ shop[v].expires
    /\ shop' = [shop EXCEPT ![v] = None]
    /\ UNCHANGED <<geo, beat, screen, stopped, overtaken, ignored, cut, bfaults>>

ShopNext ==
    \/ \E h \in Beats :
          \/ \E v \in Shops : StartSharing(h, v) \/ StopSharing(h, v) \/ RetryBeat(h, v)
          \/ StoreGeo(h) \/ StoreHash(h) \/ StoreExpiry(h)
          \/ HeartbeatIgnored(h) \/ BeatFails(h)
    \/ \E v \in Shops : FetchNodeStatus(v) \/ ActionFailed(v) \/ ListingExpires(v)

\* Redis expires its keys, and Node.js runs the handlers that have begun.
ShopFairness ==
    /\ \A v \in Shops : WF_shopVars(ListingExpires(v))
    /\ \A h \in Beats : WF_shopVars(StoreGeo(h) \/ StoreHash(h) \/ StoreExpiry(h))

ShopSpec == ShopInit /\ [][ShopNext]_shopVars

-----------------------------------------------------------------------------
ShopTypeOK ==
    /\ shop \in [Shops -> [status : {"active", "offline"}, expires : BOOLEAN] \cup {None}]
    /\ geo \subseteq Shops
    /\ beat \in [Beats -> [stage : {"idle", "geo", "hash", "expire"},
                           shop : Shops \cup {None},
                           status : {"active", "offline", None}, awaited : BOOLEAN]]
    /\ screen \in [Shops -> {"init", "starting", "active", "stopping"}]
    /\ stopped \subseteq Shops /\ overtaken \subseteq Shops
    /\ ignored \subseteq Shops /\ cut \subseteq Shops
    /\ bfaults \in Nat

\* A seller whose screen said that the node is no longer listed is not in the
\* sellers list, unless a heartbeat the client had given up on was stored since,
\* or Redis was not ready for the one that was to stop it. A heartbeat that is
\* stored and answered puts either right.
StoppedIsUnlisted ==
    \A v \in stopped : v \in Listed => v \in overtaken \cup ignored

\* No listing is immortal: one without an expiry is about to get it, or a
\* heartbeat of its seller was cut short between HSET and EXPIRE.
ListingsExpire ==
    \A v \in Shops : FindById(v) /\ ~shop[v].expires =>
        v \in cut \/ \E h \in Beats : beat[h].shop = v /\ beat[h].stage = "expire"

\* A seller who sends nothing any more leaves the market: no buyer finds the
\* listing for ever after.
SilentSellerLeaves ==
    \A v \in Shops :
        []([](v \notin cut /\ \A h \in Beats : beat[h].shop # v) => <>~FindById(v))
=============================================================================
