---------------------------- MODULE SessionStore ----------------------------
(***************************************************************************)
(* The Redis record of a VPN session, session:<id>, which two modules      *)
(* share: the session routes keep a routing record there (who buys, who    *)
(* sells, ACTIVE or COMPLETED), and the billing module writes its own      *)
(* record under the same key and updates its counters. Every update is a   *)
(* read, an await and a write of the whole record; an end through billing  *)
(* is a read and a delete.                                                 *)
(*                                                                         *)
(* Two paths open a session: POST /v1/sessions ("direct"), and the billing *)
(* module ("billed"), which calls createVpnSession and replaces the        *)
(* routing record. UsageBilling models what the counters are worth; here   *)
(* they are a count, and the question is whose write survives.             *)
(***************************************************************************)
EXTENDS Platform

CONSTANTS
    Links,      \* VPN sessions that may be opened
    Vendors,    \* sellers
    LinkCalls,  \* updates of a record that may be in progress at a time
    MaxCount    \* bound on the bytes a session reports

ASSUME LinkAssumption ==
    None \notin Vendors /\ None \notin LinkCalls /\ MaxCount \in Nat

VARIABLES
    rec,        \* session:<id>
    start,      \* each opening
    upd,        \* the updates in progress
    relay,      \* what each seller has listed (external: the marketplace)
    announced,  \* sessions with a dm.session.started event
    finished,   \* sessions somebody ended (history)
    counted,    \* the last count written for each session (history)
    crossed,    \* sessions written while another update held a copy (history)
    lfaults     \* faults so far

linkVars == <<rec, start, upd, relay, announced, finished, counted, crossed, lfaults>>

-----------------------------------------------------------------------------
Route(b, v) == [buyer |-> b, seller |-> v, status |-> "ACTIVE",
                count |-> 0, priced |-> FALSE, expires |-> TRUE]

\* The billing record names neither buyer_id nor seller_id, has no status and
\* no expiry.
Bill == [buyer |-> None, seller |-> None, status |-> "NONE",
         count |-> 0, priced |-> TRUE, expires |-> FALSE]

Records == [buyer : Users \cup {None}, seller : Vendors \cup {None},
            status : {"ACTIVE", "COMPLETED", "NONE"}, count : 0..MaxCount,
            priced : BOOLEAN, expires : BOOLEAN]

Unopened == [stage |-> "new", path |-> None, buyer |-> None, vendor |-> None,
             keyed |-> FALSE]
NoUpdate == [stage |-> "idle", op |-> None, link |-> None, copy |-> None, to |-> None]

Running(s) == rec[s] # None /\ rec[s].status # "COMPLETED"

LinkInit ==
    /\ rec = [s \in Links |-> None]
    /\ start = [s \in Links |-> Unopened]
    /\ upd = [c \in LinkCalls |-> NoUpdate]
    /\ relay = [v \in Vendors |-> "keyed"]
    /\ announced = {} /\ finished = {} /\ crossed = {}
    /\ counted = [s \in Links |-> 0]
    /\ lfaults = 0

LinkFault == lfaults < MaxFaults /\ lfaults' = lfaults + 1

\* Who else is in the middle of something that will write the record of s.
Holders(s) == {c \in LinkCalls : upd[c].link = s}
OpeningHolds(s) ==
    start[s].path = "billed" /\ start[s].stage \in {"announce", "row", "bill"}

\* A write to the record of s, by update c or by its opening (None).
Crossing(s, c) ==
    crossed' = IF Holders(s) \ {c} # {} \/ (c # None /\ OpeningHolds(s))
               THEN crossed \cup {s} ELSE crossed

-----------------------------------------------------------------------------
\* resolveSellerRelay. The direct path builds the configuration at once and is
\* refused without a relay; the billed path builds it last.
StartLink(s, path, b, v) ==
    /\ start[s].stage = "new"
    /\ start' = [start EXCEPT ![s] =
          [stage |-> IF relay[v] = "unlisted" \/ (path = "direct" /\ relay[v] = "keyless")
                     THEN "failed" ELSE "write",
           path |-> path, buyer |-> b, vendor |-> v, keyed |-> relay[v] = "keyed"]]
    /\ UNCHANGED <<rec, upd, relay, announced, finished, counted, crossed, lfaults>>

WriteRoute(s) ==
    /\ start[s].stage = "write"
    /\ \/ /\ rec' = [rec EXCEPT ![s] = Route(start[s].buyer, start[s].vendor)]
          /\ start' = [start EXCEPT ![s].stage = "announce"]
          /\ UNCHANGED lfaults
       \/ /\ LinkFault
          /\ start' = [start EXCEPT ![s].stage = "failed"]
          /\ UNCHANGED rec
    /\ UNCHANGED <<upd, relay, announced, finished, counted, crossed>>

\* sendEvent swallows a broker's failure; then the path's next step.
Announce(s) ==
    /\ start[s].stage = "announce"
    /\ \/ announced' = announced \cup {s} /\ UNCHANGED lfaults
       \/ LinkFault /\ UNCHANGED announced
    /\ start' = [start EXCEPT ![s].stage =
          CASE start[s].path = "direct" -> "live"
            [] start[s].path = "billed" /\ start[s].keyed -> "row"
            [] OTHER -> "failed"]
    /\ UNCHANGED <<rec, upd, relay, finished, counted, crossed>>

\* sessionRepository.createSession, then the billing record. A database error
\* ends the call; a Redis error is swallowed and the routing record stays.
OpenBilled(s) ==
    /\ \/ /\ start[s].stage = "row"
          /\ \/ start' = [start EXCEPT ![s].stage = "bill"] /\ UNCHANGED lfaults
             \/ LinkFault /\ start' = [start EXCEPT ![s].stage = "failed"]
          /\ UNCHANGED <<rec, crossed>>
       \/ /\ start[s].stage = "bill"
          /\ start' = [start EXCEPT ![s].stage = "live"]
          /\ \/ rec' = [rec EXCEPT ![s] = Bill] /\ Crossing(s, None) /\ UNCHANGED lfaults
             \/ LinkFault /\ UNCHANGED <<rec, crossed>>
    /\ UNCHANGED <<upd, relay, announced, finished, counted>>

-----------------------------------------------------------------------------
\* canAccessSession.
CanAccess(r, who) == r.buyer = who \/ who \in Admins

Held(op, s, to, stage) ==
    [stage |-> stage, op |-> op, link |-> s, copy |-> rec[s], to |-> to]

\* The routes read the record and check the caller; the billing module reads it
\* and checks nobody. A report on a routing record is not counted (UsageBilling).
ReadRecord(c, s) ==
    /\ upd[c].stage = "idle" /\ rec[s] # None
    /\ \/ /\ \E who \in Users : CanAccess(rec[s], who)
          /\ \/ upd' = [upd EXCEPT ![c] = Held("end", s, None, "write")]
             \/ \E v \in Vendors :
                   upd' = [upd EXCEPT ![c] = Held("handoff", s, v, "resolve")]
       \/ upd' = [upd EXCEPT ![c] = Held("remove", s, None, "write")]
       \/ /\ rec[s].priced /\ rec[s].count < MaxCount
          /\ upd' = [upd EXCEPT ![c] = Held("count", s, None, "write")]
    /\ UNCHANGED <<rec, start, relay, announced, finished, counted, crossed, lfaults>>

\* Handoff looks the new seller up, and refuses one without a relay.
ResolveVendor(c) ==
    /\ upd[c].stage = "resolve"
    /\ upd' = IF relay[upd[c].to] = "keyed" THEN [upd EXCEPT ![c].stage = "write"]
              ELSE [upd EXCEPT ![c] = NoUpdate]
    /\ UNCHANGED <<rec, start, relay, announced, finished, counted, crossed, lfaults>>

\* BROKEN: a handoff starts the record anew.
UpdatedFromScratch(u) ==
    CASE u.op = "end" -> [u.copy EXCEPT !.status = "COMPLETED", !.expires = TRUE]
      [] u.op = "handoff" -> Route(u.copy.buyer, u.to)
      [] u.op = "count" -> [u.copy EXCEPT !.count = @ + 1, !.expires = FALSE]
      [] u.op = "remove" -> None

\* What an update writes over the record: its copy with one field changed.
Updated(u) ==
    CASE u.op = "end" -> [u.copy EXCEPT !.status = "COMPLETED", !.expires = TRUE]
      [] u.op = "handoff" -> [u.copy EXCEPT !.seller = u.to, !.expires = TRUE]
      [] u.op = "count" -> [u.copy EXCEPT !.count = @ + 1, !.expires = FALSE]
      [] u.op = "remove" -> None

WriteRecord(c) ==
    LET u == upd[c] IN
    /\ u.stage = "write"
    /\ upd' = [upd EXCEPT ![c] = NoUpdate]
    /\ \/ /\ rec' = [rec EXCEPT ![u.link] = Updated(u)]
          /\ Crossing(u.link, c)
          /\ finished' = finished \cup IF u.op \in {"end", "remove"} THEN {u.link} ELSE {}
          /\ counted' = IF u.op = "count" THEN [counted EXCEPT ![u.link] = u.copy.count + 1]
                        ELSE counted
          /\ UNCHANGED lfaults
       \/ LinkFault /\ UNCHANGED <<rec, crossed, finished, counted>>
    /\ UNCHANGED <<start, relay, announced>>

-----------------------------------------------------------------------------
\* A record the session routes wrote last expires after a day (external).
RecordExpires(s) ==
    /\ rec[s] # None /\ rec[s].expires
    /\ rec' = [rec EXCEPT ![s] = None]
    /\ Crossing(s, None)
    /\ UNCHANGED <<start, upd, relay, announced, finished, counted, lfaults>>

\* A seller registers or loses a relay (external).
RelayChanges(v) ==
    /\ \E listed \in {"unlisted", "keyless", "keyed"} \ {relay[v]} :
          relay' = [relay EXCEPT ![v] = listed]
    /\ UNCHANGED <<rec, start, upd, announced, finished, counted, crossed, lfaults>>

\* The process stops: openings and updates in progress end where they are.
LinkRestart ==
    /\ LinkFault
    /\ start' = [s \in Links |-> IF start[s].stage \in {"new", "live", "failed"}
                                 THEN start[s] ELSE [start[s] EXCEPT !.stage = "failed"]]
    /\ upd' = [c \in LinkCalls |-> NoUpdate]
    /\ UNCHANGED <<rec, relay, announced, finished, counted, crossed>>

LinkNext ==
    \/ \E s \in Links :
          \/ \E path \in {"direct", "billed"}, b \in Users \ Admins, v \in Vendors :
                StartLink(s, path, b, v)
          \/ WriteRoute(s) \/ Announce(s) \/ OpenBilled(s) \/ RecordExpires(s)
    \/ \E c \in LinkCalls :
          (\E s \in Links : ReadRecord(c, s)) \/ ResolveVendor(c) \/ WriteRecord(c)
    \/ \E v \in Vendors : RelayChanges(v)
    \/ LinkRestart

LinkSpec == LinkInit /\ [][LinkNext]_linkVars

-----------------------------------------------------------------------------
LinkTypeOK ==
    /\ rec \in [Links -> Records \cup {None}]
    /\ start \in [Links ->
          [stage : {"new", "write", "announce", "row", "bill", "live", "failed"},
           path : {"direct", "billed", None}, buyer : Users \cup {None},
           vendor : Vendors \cup {None}, keyed : BOOLEAN]]
    /\ upd \in [LinkCalls ->
          [stage : {"idle", "resolve", "write"},
           op : {"end", "handoff", "remove", "count", None}, link : Links \cup {None},
           copy : Records \cup {None}, to : Vendors \cup {None}]]
    /\ relay \in [Vendors -> {"unlisted", "keyless", "keyed"}]
    /\ announced \subseteq Links /\ finished \subseteq Links /\ crossed \subseteq Links
    /\ counted \in [Links -> 0..MaxCount]
    /\ lfaults \in Nat

\* What was written to a session's record stays written: an ended session does
\* not run again, and the record carries the last count billing wrote, whatever
\* ends, handoffs and openings rewrote it since (a count that falls back is
\* usage billed twice), unless one of them had read the record, or was an
\* opening still to replace it, when another wrote it.
RecordIsKept ==
    \A s \in Links : s \notin crossed =>
        /\ s \in finished => ~Running(s)
        /\ rec[s] # None => rec[s].count = counted[s]
=============================================================================
