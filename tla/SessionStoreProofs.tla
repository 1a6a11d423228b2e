-------------------------- MODULE SessionStoreProofs --------------------------
(***************************************************************************)
(* Theorems about SessionStore, for every number of sessions, sellers and  *)
(* updates in progress. As long as a session was not crossed, whoever      *)
(* holds a copy of its record holds the record, and an opening that is     *)
(* still to replace it has nothing to lose.                                *)
(***************************************************************************)
EXTENDS SessionStore, TLAPS

Busy(c) == upd[c].stage # "idle"

\* An update in progress holds a record of a session, and a count goes up by one.
UpdatesSound ==
    \A c \in LinkCalls : Busy(c) =>
        /\ upd[c].link \in Links /\ upd[c].copy \in Records /\ upd[c].copy # None
        /\ upd[c].op \in {"end", "handoff", "remove", "count"}
        /\ upd[c].op = "handoff" => upd[c].to \in Vendors
        /\ upd[c].op = "count" => upd[c].copy.count < MaxCount

\* The copy is the record.
Fresh ==
    \A c \in LinkCalls : Busy(c) /\ upd[c].link \notin crossed =>
        rec[upd[c].link] = upd[c].copy

\* Nothing is stored of a session before its opening writes, and nothing is
\* lost when the billing record replaces the routing record.
OpeningLink ==
    \A s \in Links :
        /\ start[s].stage \in {"new", "write"} =>
              /\ rec[s] = None /\ \A c \in LinkCalls : Busy(c) => upd[c].link # s
        /\ start[s].stage \in {"new", "write"} \/ (s \notin crossed /\ OpeningHolds(s)) =>
              s \notin finished /\ counted[s] = 0
        /\ start[s].stage = "write" => start[s].buyer \in Users /\ start[s].vendor \in Vendors
        /\ start[s].stage \in {"write", "announce"} => start[s].path \in {"direct", "billed"}
        /\ start[s].stage \in {"row", "bill"} => start[s].path = "billed"

LinkInv == LinkTypeOK /\ UpdatesSound /\ Fresh /\ OpeningLink /\ RecordIsKept

-----------------------------------------------------------------------------
USE PlatformAssumption, LinkAssumption

LEMMA LinkInvInit == LinkInit => LinkInv
  BY DEF LinkInit, LinkInv, LinkTypeOK, UpdatesSound, Fresh, OpeningLink, RecordIsKept, Unopened,
         NoUpdate, Busy, OpeningHolds, Running

\* A session that is crossed after a write was, or is now held by another.
LEMMA CrossingParts ==
    ASSUME LinkInv, NEW s \in Links, NEW c, c = None \/ c \in LinkCalls, Crossing(s, c)
    PROVE  /\ crossed' \subseteq Links /\ crossed \subseteq crossed'
           /\ \A r \in Links : r # s /\ r \in crossed' => r \in crossed
           /\ s \notin crossed' => /\ s \notin crossed
                                   /\ \A d \in LinkCalls : upd[d].link = s => d = c
                                   /\ c # None => ~OpeningHolds(s)
  BY DEF LinkInv, LinkTypeOK, Crossing, Holders

LEMMA StartLinkKeeps ==
    ASSUME LinkInv, NEW s \in Links, NEW path \in {"direct", "billed"}, NEW b \in Users \ Admins,
           NEW v \in Vendors, StartLink(s, path, b, v)
    PROVE  LinkInv'
  <1> DEFINE stage == IF relay[v] = "unlisted" \/ (path = "direct" /\ relay[v] = "keyless")
                      THEN "failed" ELSE "write"
             keyed == relay[v] = "keyed"
             new == [stage |-> stage, path |-> path, buyer |-> b, vendor |-> v, keyed |-> keyed]
  <1>1. /\ UNCHANGED <<rec, upd, relay, announced, finished, counted, crossed, lfaults>>
        /\ start' = [start EXCEPT ![s] = new] /\ start[s].stage = "new" /\ LinkTypeOK
    BY DEF StartLink, LinkInv
  <1>2. stage \in {"failed", "write"} /\ keyed \in BOOLEAN
    OBVIOUS
  <1> HIDE DEF stage, keyed
  <1>3. LinkTypeOK'
    BY <1>1, <1>2 DEF LinkTypeOK
  <1>4. \A r \in Links : start'[r] = IF r = s THEN new ELSE start[r]
    BY <1>1 DEF LinkTypeOK
  <1>5. UpdatesSound' /\ Fresh' /\ RecordIsKept'
    BY <1>1 DEF LinkInv, UpdatesSound, Fresh, RecordIsKept, Busy, Running
  <1>6. OpeningLink'
    BY <1>1, <1>2, <1>4 DEF LinkInv, OpeningLink, OpeningHolds, Busy
  <1> QED BY <1>3, <1>5, <1>6 DEF LinkInv

LEMMA WriteRouteKeeps ==
    ASSUME LinkInv, NEW s \in Links, WriteRoute(s)
    PROVE  LinkInv'
  <1>1. /\ UNCHANGED <<upd, relay, announced, finished, counted, crossed>>
        /\ start[s].stage = "write" /\ LinkTypeOK
    BY DEF WriteRoute, LinkInv
  <1>2. /\ rec[s] = None /\ \A c \in LinkCalls : Busy(c) => upd[c].link # s
        /\ s \notin finished /\ counted[s] = 0 /\ start[s].path \in {"direct", "billed"}
        /\ start[s].buyer \in Users /\ start[s].vendor \in Vendors
    BY <1>1 DEF LinkInv, OpeningLink
  <1>3. CASE /\ rec' = [rec EXCEPT ![s] = Route(start[s].buyer, start[s].vendor)]
             /\ start' = [start EXCEPT ![s].stage = "announce"]
             /\ UNCHANGED lfaults
    <2> DEFINE new == Route(start[s].buyer, start[s].vendor)
    <2>1. new \in Records /\ new.count = 0
      BY <1>2 DEF Route, Records
    <2> HIDE DEF new
    <2>2. LinkTypeOK'
      <3>1. /\ rec' \in [Links -> Records \cup {None}]
            /\ start' \in [Links ->
                  [stage : {"new", "write", "announce", "row", "bill", "live", "failed"},
                   path : {"direct", "billed", None}, buyer : Users \cup {None},
                   vendor : Vendors \cup {None}, keyed : BOOLEAN]]
        <4>1. rec' = [rec EXCEPT ![s] = new]
          BY <1>3 DEF new
        <4>2. rec' \in [Links -> Records \cup {None}]
          BY <1>1, <2>1, <4>1 DEF LinkTypeOK
        <4> QED BY <1>1, <1>3, <4>2 DEF LinkTypeOK
      <3> QED BY <1>1, <1>3, <3>1 DEF LinkTypeOK
    <2>3. /\ rec'[s] = new /\ start'[s].stage = "announce"
          /\ start'[s].path = start[s].path
          /\ \A r \in Links : r # s => rec'[r] = rec[r] /\ start'[r] = start[r]
      BY <1>1, <1>3 DEF LinkTypeOK, new
    <2>4. UpdatesSound' /\ Fresh'
      BY <1>1, <1>2, <2>3 DEF LinkInv, UpdatesSound, Fresh, Busy
    <2>5. OpeningLink'
      BY <1>1, <1>2, <2>3 DEF LinkInv, OpeningLink, OpeningHolds, Busy
    <2>6. RecordIsKept'
      BY <1>1, <1>2, <2>1, <2>3 DEF LinkInv, RecordIsKept, Running
    <2> QED BY <2>2, <2>4, <2>5, <2>6 DEF LinkInv
  <1>4. CASE /\ LinkFault
             /\ start' = [start EXCEPT ![s].stage = "failed"]
             /\ UNCHANGED rec
    <2>0. lfaults' \in Nat
      BY <1>1, <1>4 DEF LinkTypeOK, LinkFault
    <2> DEFINE new == [start[s] EXCEPT !.stage = "failed"]
    <2>5. start' = [start EXCEPT ![s] = new] /\ new.stage = "failed"
      BY <1>1, <1>4 DEF LinkTypeOK
    <2>6. new \in [stage : {"new", "write", "announce", "row", "bill", "live", "failed"},
                   path : {"direct", "billed", None}, buyer : Users \cup {None},
                   vendor : Vendors \cup {None}, keyed : BOOLEAN]
      BY <1>1 DEF LinkTypeOK
    <2> HIDE DEF new
    <2>1. LinkTypeOK'
      <3>1. start' \in [Links ->
                [stage : {"new", "write", "announce", "row", "bill", "live", "failed"},
                 path : {"direct", "billed", None}, buyer : Users \cup {None},
                 vendor : Vendors \cup {None}, keyed : BOOLEAN]]
        BY <1>1, <2>5, <2>6 DEF LinkTypeOK
      <3> QED BY <1>1, <1>4, <2>0, <3>1 DEF LinkTypeOK
    <2>2. /\ start'[s].stage = "failed"
          /\ \A r \in Links : r # s => start'[r] = start[r]
      BY <1>1, <1>4 DEF LinkTypeOK
    <2>3. UpdatesSound' /\ Fresh' /\ RecordIsKept'
      BY <1>1, <1>4 DEF LinkInv, UpdatesSound, Fresh, RecordIsKept, Busy, Running
    <2>4. OpeningLink'
      BY <1>1, <1>4, <2>2 DEF LinkInv, OpeningLink, OpeningHolds, Busy
    <2> QED BY <2>1, <2>3, <2>4 DEF LinkInv
  <1> QED BY <1>3, <1>4 DEF WriteRoute

LEMMA AnnounceKeeps ==
    ASSUME LinkInv, NEW s \in Links, Announce(s)
    PROVE  LinkInv'
  <1> DEFINE stage == CASE start[s].path = "direct" -> "live"
                        [] start[s].path = "billed" /\ start[s].keyed -> "row"
                        [] OTHER -> "failed"
  <1>1. /\ UNCHANGED <<rec, upd, relay, finished, counted, crossed>>
        /\ start' = [start EXCEPT ![s].stage = stage] /\ start[s].stage = "announce"
        /\ LinkTypeOK /\ announced' \subseteq Links /\ lfaults' \in Nat
    BY DEF Announce, LinkInv, LinkTypeOK, LinkFault
  <1>0. start[s].path \in {"direct", "billed"}
    BY <1>1 DEF LinkInv, OpeningLink
  <1>2. stage \in {"live", "row", "failed"} /\ (stage = "row" => start[s].path = "billed")
    <2>1. CASE start[s].path = "direct"
      BY <2>1
    <2>2. CASE start[s].path = "billed" /\ start[s].keyed
      <3>1. stage = "row"
        BY <2>2
      <3> QED BY <2>2, <3>1
    <2>3. CASE start[s].path = "billed" /\ ~start[s].keyed
      <3>1. stage = "failed"
        BY <2>3
      <3> QED BY <3>1
    <2> QED BY <1>0, <2>1, <2>2, <2>3
  <1> HIDE DEF stage
  <1>3. LinkTypeOK'
    BY <1>1, <1>2 DEF LinkTypeOK
  <1>4. /\ start'[s].stage = stage /\ start'[s].path = start[s].path
        /\ \A r \in Links : r # s => start'[r] = start[r]
    BY <1>1 DEF LinkTypeOK
  <1>5. UpdatesSound' /\ Fresh' /\ RecordIsKept'
    BY <1>1 DEF LinkInv, UpdatesSound, Fresh, RecordIsKept, Busy, Running
  <1>6. OpeningLink'
    BY <1>1, <1>2, <1>4 DEF LinkInv, OpeningLink, OpeningHolds, Busy
  <1> QED BY <1>3, <1>5, <1>6 DEF LinkInv

\* The billing record replaces a routing record nobody ended or counted on.
LEMMA OpenBilledKeeps ==
    ASSUME LinkInv, NEW s \in Links, OpenBilled(s)
    PROVE  LinkInv'
  <1>1. /\ UNCHANGED <<upd, relay, announced, finished, counted>> /\ LinkTypeOK
        /\ start[s].stage \in {"row", "bill"}
    BY DEF OpenBilled, LinkInv
  <1>2. CASE UNCHANGED <<rec, crossed>>
    <2>1. /\ start' \in [Links ->
                [stage : {"new", "write", "announce", "row", "bill", "live", "failed"},
                 path : {"direct", "billed", None}, buyer : Users \cup {None},
                 vendor : Vendors \cup {None}, keyed : BOOLEAN]]
          /\ \A r \in Links : r # s => start'[r] = start[r]
          /\ start'[s].path = start[s].path
          /\ start'[s].stage \in {"bill", "live", "failed"}
          /\ lfaults' \in Nat
      BY <1>1 DEF OpenBilled, LinkTypeOK, LinkFault
    <2>2. LinkTypeOK'
      BY <1>1, <1>2, <2>1 DEF LinkTypeOK
    <2>3. UpdatesSound' /\ Fresh' /\ RecordIsKept'
      BY <1>1, <1>2 DEF LinkInv, UpdatesSound, Fresh, RecordIsKept, Busy, Running
    <2>4. OpeningLink'
      BY <1>1, <1>2, <2>1 DEF LinkInv, OpeningLink, OpeningHolds, Busy
    <2> QED BY <2>2, <2>3, <2>4 DEF LinkInv
  <1>3. CASE /\ rec' = [rec EXCEPT ![s] = Bill] /\ Crossing(s, None) /\ UNCHANGED lfaults
             /\ start' = [start EXCEPT ![s].stage = "live"]
    <2>1. Bill \in Records /\ Bill.count = 0
      BY DEF Bill, Records
    <2>2. /\ crossed' \subseteq Links /\ crossed \subseteq crossed'
          /\ \A r \in Links : r # s /\ r \in crossed' => r \in crossed
          /\ s \notin crossed' =>
                s \notin crossed /\ \A d \in LinkCalls : upd[d].link = s => d = None
      BY <1>3, CrossingParts
    <2>3. LinkTypeOK'
      BY <1>1, <1>3, <2>1, <2>2 DEF LinkTypeOK
    <2>4. /\ rec'[s] = Bill /\ start'[s].stage = "live"
          /\ \A r \in Links : r # s => rec'[r] = rec[r] /\ start'[r] = start[r]
      BY <1>1, <1>3 DEF LinkTypeOK
    <2>5. UpdatesSound'
      BY <1>1 DEF LinkInv, UpdatesSound, Busy
    <2>6. Fresh'
      BY <1>1, <2>2, <2>4 DEF LinkInv, UpdatesSound, Fresh, Busy
    <2>7. OpeningLink'
      BY <1>1, <2>2, <2>4 DEF LinkInv, OpeningLink, OpeningHolds, Busy
    <2>8. RecordIsKept'
      <3>1. ASSUME s \notin crossed' PROVE s \notin finished /\ counted[s] = 0
        <4>1. OpeningHolds(s)
          BY <1>1 DEF LinkInv, OpeningLink, OpeningHolds
        <4> QED BY <2>2, <3>1, <4>1 DEF LinkInv, OpeningLink
      <3> QED BY <1>1, <2>1, <2>2, <2>4, <3>1 DEF LinkInv, RecordIsKept, Running
    <2> QED BY <2>3, <2>5, <2>6, <2>7, <2>8 DEF LinkInv
  <1> QED BY <1>1, <1>2, <1>3 DEF OpenBilled

\* What a new update holds is the record as it is.
LEMMA ReadRecordKeeps ==
    ASSUME LinkInv, NEW c \in LinkCalls, NEW s \in Links, ReadRecord(c, s)
    PROVE  LinkInv'
  <1>1. /\ UNCHANGED <<rec, start, relay, announced, finished, counted, crossed, lfaults>>
        /\ LinkTypeOK /\ rec[s] \in Records /\ rec[s] # None
    BY DEF ReadRecord, LinkInv, LinkTypeOK
  <1>2. PICK op \in {"end", "handoff", "remove", "count"}, to \in Vendors \cup {None},
             stage \in {"resolve", "write"} :
            /\ upd' = [upd EXCEPT ![c] = Held(op, s, to, stage)]
            /\ op = "handoff" => to \in Vendors
            /\ op = "count" => rec[s].count < MaxCount
    BY DEF ReadRecord
  <1> DEFINE new == Held(op, s, to, stage)
  <1>3. new = [stage |-> stage, op |-> op, link |-> s, copy |-> rec[s], to |-> to]
    BY DEF Held
  <1> HIDE DEF new
  <1>4. upd' = [upd EXCEPT ![c] = new]
    BY <1>2 DEF new
  <1>5. LinkTypeOK'
    BY <1>1, <1>3, <1>4 DEF LinkTypeOK
  <1>6. \A d \in LinkCalls : upd'[d] = IF d = c THEN new ELSE upd[d]
    BY <1>1, <1>4 DEF LinkTypeOK
  <1>7. start[s].stage \notin {"new", "write"}
    <2>1. rec[s] # None
      BY DEF ReadRecord
    <2> QED BY <2>1 DEF LinkInv, OpeningLink
  <1>8. UpdatesSound'
    BY <1>1, <1>2, <1>3, <1>6 DEF LinkInv, UpdatesSound, Busy
  <1>9. Fresh'
    BY <1>1, <1>3, <1>6 DEF LinkInv, Fresh, Busy
  <1>10. OpeningLink'
    BY <1>1, <1>3, <1>6, <1>7 DEF LinkInv, OpeningLink, OpeningHolds, Busy
  <1>11. RecordIsKept'
    BY <1>1 DEF LinkInv, RecordIsKept, Running
  <1> QED BY <1>5, <1>8, <1>9, <1>10, <1>11 DEF LinkInv

LEMMA ResolveKeeps ==
    ASSUME LinkInv, NEW c \in LinkCalls, ResolveVendor(c)
    PROVE  LinkInv'
  <1>1. /\ UNCHANGED <<rec, start, relay, announced, finished, counted, crossed, lfaults>>
        /\ LinkTypeOK /\ Busy(c)
    BY DEF ResolveVendor, LinkInv, Busy
  <1>2. CASE upd' = [upd EXCEPT ![c].stage = "write"]
    <2>1. LinkTypeOK'
      <3>1. upd' \in [LinkCalls ->
                [stage : {"idle", "resolve", "write"},
                 op : {"end", "handoff", "remove", "count", None}, link : Links \cup {None},
                 copy : Records \cup {None}, to : Vendors \cup {None}]]
        <4>1. upd \in [LinkCalls ->
                  [stage : {"idle", "resolve", "write"},
                   op : {"end", "handoff", "remove", "count", None}, link : Links \cup {None},
                   copy : Records \cup {None}, to : Vendors \cup {None}]]
          BY <1>1 DEF LinkTypeOK
        <4> QED BY ONLY <1>2, <4>1
      <3> QED BY <1>1, <3>1 DEF LinkTypeOK
    <2>2. \A d \in LinkCalls :
              /\ Busy(d)' <=> Busy(d)
              /\ upd'[d].link = upd[d].link /\ upd'[d].copy = upd[d].copy
              /\ upd'[d].op = upd[d].op /\ upd'[d].to = upd[d].to
      <3>1. upd[c] \in [stage : {"idle", "resolve", "write"},
                        op : {"end", "handoff", "remove", "count", None},
                        link : Links \cup {None}, copy : Records \cup {None},
                        to : Vendors \cup {None}]
        BY <1>1 DEF LinkTypeOK
      <3>2. /\ upd'[c] = [upd[c] EXCEPT !.stage = "write"]
            /\ \A d \in LinkCalls : d # c => upd'[d] = upd[d]
        BY <1>1, <1>2 DEF LinkTypeOK
      <3> QED BY <1>1, <3>1, <3>2 DEF Busy
    <2>4. UpdatesSound' /\ Fresh'
      BY <1>1, <2>2 DEF LinkInv, UpdatesSound, Fresh
    <2>5. OpeningLink'
      BY <1>1, <2>2 DEF LinkInv, OpeningLink, OpeningHolds
    <2>3. RecordIsKept'
      BY <1>1 DEF LinkInv, RecordIsKept, Running
    <2> QED BY <2>1, <2>3, <2>4, <2>5 DEF LinkInv
  <1>3. CASE upd' = [upd EXCEPT ![c] = NoUpdate]
    <2>1. LinkTypeOK'
      BY <1>1, <1>3 DEF LinkTypeOK, NoUpdate
    <2>2. \A d \in LinkCalls : Busy(d)' => Busy(d) /\ upd'[d] = upd[d]
      BY <1>1, <1>3 DEF LinkTypeOK, NoUpdate, Busy
    <2>3. UpdatesSound' /\ Fresh' /\ OpeningLink'
      BY <1>1, <2>2 DEF LinkInv, UpdatesSound, Fresh, OpeningLink, OpeningHolds
    <2>4. RecordIsKept'
      BY <1>1 DEF LinkInv, RecordIsKept, Running
    <2> QED BY <2>1, <2>3, <2>4 DEF LinkInv
  <1> QED BY <1>2, <1>3 DEF ResolveVendor

\* What an update makes of its copy.
LEMMA UpdatedParts ==
    ASSUME LinkInv, NEW c \in LinkCalls, Busy(c)
    PROVE  LET u == upd[c] IN
           /\ Updated(u) \in Records \cup {None}
           /\ u.op = "remove" => Updated(u) = None
           /\ u.op = "end" => Updated(u).status = "COMPLETED"
           /\ u.op # "remove" => /\ Updated(u) \in Records
                                 /\ u.op # "end" => Updated(u).status = u.copy.status
                                 /\ u.op # "count" => Updated(u).count = u.copy.count
           /\ u.op = "count" => Updated(u).count = u.copy.count + 1
  <1> DEFINE u == upd[c]
  <1>1. /\ u.copy \in Records /\ u.op \in {"end", "handoff", "remove", "count"}
        /\ u.op = "handoff" => u.to \in Vendors
        /\ u.op = "count" => u.copy.count < MaxCount
    BY DEF LinkInv, UpdatesSound
  <1>2. CASE u.op = "end"
    <2>1. Updated(u) = [u.copy EXCEPT !.status = "COMPLETED", !.expires = TRUE]
      BY <1>2 DEF Updated
    <2> QED BY <1>1, <1>2, <2>1 DEF Records
  <1>3. CASE u.op = "handoff"
    <2>1. Updated(u) = [u.copy EXCEPT !.seller = u.to, !.expires = TRUE]
      BY <1>3 DEF Updated
    <2> QED BY <1>1, <1>3, <2>1 DEF Records
  <1>4. CASE u.op = "count"
    <2>1. Updated(u) = [u.copy EXCEPT !.count = @ + 1, !.expires = FALSE]
      BY <1>4 DEF Updated
    <2>2. u.copy.count + 1 \in 0..MaxCount
      BY <1>1, <1>4 DEF Records
    <2> QED BY <1>1, <1>4, <2>1, <2>2 DEF Records
  <1>5. CASE u.op = "remove"
    <2>1. Updated(u) = None
      BY <1>5 DEF Updated
    <2> QED BY <1>5, <2>1
  <1> QED BY <1>1, <1>2, <1>3, <1>4, <1>5

LEMMA WriteRecordKeeps ==
    ASSUME LinkInv, NEW c \in LinkCalls, WriteRecord(c)
    PROVE  LinkInv'
  <1>1. PICK s \in Links :
            /\ s = upd[c].link /\ Busy(c) /\ upd[c].copy \in Records /\ upd[c].copy # None
            /\ upd[c].op \in {"end", "handoff", "remove", "count"}
            /\ upd[c].op = "count" => upd[c].copy.count < MaxCount
    BY DEF WriteRecord, LinkInv, UpdatesSound, Busy
  <1>2. /\ LinkTypeOK /\ UNCHANGED <<start, relay, announced>>
        /\ upd' = [upd EXCEPT ![c] = NoUpdate]
    BY DEF WriteRecord, LinkInv
  <1>3. \A d \in LinkCalls : Busy(d)' => d # c /\ Busy(d) /\ upd'[d] = upd[d]
    BY <1>2 DEF LinkTypeOK, NoUpdate, Busy
  <1>4. UpdatesSound'
    BY <1>3 DEF LinkInv, UpdatesSound
  <1>5. CASE LinkFault /\ UNCHANGED <<rec, crossed, finished, counted>>
    <2>1. LinkTypeOK'
      BY <1>2, <1>5 DEF LinkTypeOK, LinkFault, NoUpdate
    <2>2. Fresh' /\ OpeningLink' /\ RecordIsKept'
      BY <1>2, <1>3, <1>5 DEF LinkInv, Fresh, OpeningLink, OpeningHolds, RecordIsKept, Running
    <2> QED BY <1>4, <2>1, <2>2 DEF LinkInv
  <1>6. CASE /\ rec' = [rec EXCEPT ![s] = Updated(upd[c])] /\ Crossing(s, c)
             /\ finished' = finished \cup IF upd[c].op \in {"end", "remove"} THEN {s} ELSE {}
             /\ counted' = IF upd[c].op = "count"
                           THEN [counted EXCEPT ![s] = upd[c].copy.count + 1] ELSE counted
             /\ UNCHANGED lfaults
    <2> DEFINE new == Updated(upd[c])
    <2>1. /\ new \in Records \cup {None}
          /\ upd[c].op = "remove" => new = None
          /\ upd[c].op = "end" => new.status = "COMPLETED"
          /\ upd[c].op # "remove" =>
                /\ new \in Records
                /\ upd[c].op # "end" => new.status = upd[c].copy.status
                /\ upd[c].op # "count" => new.count = upd[c].copy.count
          /\ upd[c].op = "count" => new.count = upd[c].copy.count + 1
      BY <1>1, UpdatedParts
    <2>2. rec' = [rec EXCEPT ![s] = new]
      BY <1>6
    <2> HIDE DEF new
    <2>3. /\ crossed' \subseteq Links /\ crossed \subseteq crossed'
          /\ \A r \in Links : r # s /\ r \in crossed' => r \in crossed
          /\ s \notin crossed' => /\ s \notin crossed
                                  /\ \A d \in LinkCalls : upd[d].link = s => d = c
                                  /\ ~OpeningHolds(s)
      BY <1>6, CrossingParts
    <2>4. /\ finished' \subseteq Links /\ counted' \in [Links -> 0..MaxCount]
          /\ \A r \in Links : r # s => counted'[r] = counted[r]
          /\ \A r \in Links : r # s /\ r \in finished' => r \in finished
          /\ s \in finished' => s \in finished \/ upd[c].op \in {"end", "remove"}
          /\ counted'[s] = IF upd[c].op = "count" THEN upd[c].copy.count + 1 ELSE counted[s]
      <3>1. upd[c].op = "count" => upd[c].copy.count + 1 \in 0..MaxCount
        BY <1>1 DEF Records
      <3> QED BY <1>2, <1>6, <3>1 DEF LinkTypeOK
    <2>5. LinkTypeOK'
      BY <1>2, <1>6, <2>1, <2>2, <2>3, <2>4 DEF LinkTypeOK, NoUpdate
    <2>6. rec'[s] = new /\ \A r \in Links : r # s => rec'[r] = rec[r]
      BY <1>2, <2>2 DEF LinkTypeOK
    <2>7. Fresh'
      BY <1>3, <2>3, <2>6 DEF LinkInv, UpdatesSound, Fresh
    <2>8. start[s].stage \notin {"new", "write"}
      BY <1>1 DEF LinkInv, OpeningLink
    <2>9. OpeningLink'
      BY <1>2, <1>3, <2>3, <2>4, <2>6, <2>8 DEF LinkInv, OpeningLink, OpeningHolds
    <2>10. RecordIsKept'
      <3> SUFFICES ASSUME NEW r \in Links, r \notin crossed'
                   PROVE  /\ r \in finished' => ~Running(r)'
                          /\ rec'[r] # None => rec'[r].count = counted'[r]
        BY DEF RecordIsKept
      <3>1. CASE r # s
        BY <2>3, <2>4, <2>6, <3>1 DEF LinkInv, RecordIsKept, Running
      <3>2. CASE r = s
        <4>1. rec[s] = upd[c].copy /\ s \notin crossed
          BY <1>1, <2>3, <3>2 DEF LinkInv, Fresh
        <4>2. /\ s \in finished => rec[s] = None \/ rec[s].status = "COMPLETED"
              /\ rec[s] # None => rec[s].count = counted[s]
          BY <4>1 DEF LinkInv, RecordIsKept, Running
        <4>3. CASE upd[c].op = "remove"
          BY <2>1, <2>6, <3>2, <4>3 DEF Running
        <4>4. CASE upd[c].op = "end"
          <5>1. new.status = "COMPLETED" /\ new.count = counted[s]
            BY <1>1, <2>1, <4>1, <4>2, <4>4
          <5>2. counted'[s] = counted[s]
            BY <2>4, <4>4
          <5> QED BY <2>6, <3>2, <5>1, <5>2 DEF Running
        <4>5. CASE upd[c].op \in {"handoff", "count"}
          <5>1. new.status = upd[c].copy.status
            BY <2>1, <4>5
          <5>2. s \in finished' => new.status = "COMPLETED"
            BY <1>1, <2>4, <4>1, <4>2, <4>5, <5>1
          <5>3. new.count = counted'[s]
            BY <1>1, <2>1, <2>4, <4>1, <4>2, <4>5
          <5> QED BY <2>6, <3>2, <5>2, <5>3 DEF Running
        <4> QED BY <1>1, <4>3, <4>4, <4>5
      <3> QED BY <3>1, <3>2
    <2> QED BY <1>4, <2>5, <2>7, <2>9, <2>10 DEF LinkInv
  <1> QED BY <1>1, <1>5, <1>6 DEF WriteRecord

LEMMA RecordExpiresKeeps ==
    ASSUME LinkInv, NEW s \in Links, RecordExpires(s)
    PROVE  LinkInv'
  <1>1. /\ UNCHANGED <<start, upd, relay, announced, finished, counted, lfaults>>
        /\ rec' = [rec EXCEPT ![s] = None] /\ Crossing(s, None) /\ LinkTypeOK
    BY DEF RecordExpires, LinkInv
  <1>2. /\ crossed' \subseteq Links /\ crossed \subseteq crossed'
        /\ \A r \in Links : r # s /\ r \in crossed' => r \in crossed
        /\ s \notin crossed' => s \notin crossed /\ \A d \in LinkCalls : upd[d].link = s => d = None
    BY <1>1, CrossingParts
  <1>3. rec'[s] = None /\ \A r \in Links : r # s => rec'[r] = rec[r]
    BY <1>1 DEF LinkTypeOK
  <1>4. LinkTypeOK'
    BY <1>1, <1>2 DEF LinkTypeOK
  <1>5. UpdatesSound'
    BY <1>1 DEF LinkInv, UpdatesSound, Busy
  <1>6. Fresh'
    BY <1>1, <1>2, <1>3 DEF LinkInv, UpdatesSound, Fresh, Busy
  <1>7. OpeningLink'
    BY <1>1, <1>2, <1>3 DEF LinkInv, OpeningLink, OpeningHolds, Busy
  <1>8. RecordIsKept'
    BY <1>1, <1>2, <1>3 DEF LinkInv, RecordIsKept, Running
  <1> QED BY <1>4, <1>5, <1>6, <1>7, <1>8 DEF LinkInv

LEMMA RelayKeeps ==
    ASSUME LinkInv, NEW v \in Vendors, RelayChanges(v)
    PROVE  LinkInv'
  <1>1. UNCHANGED <<rec, start, upd, announced, finished, counted, crossed, lfaults>>
    BY DEF RelayChanges
  <1>2. LinkTypeOK'
    BY DEF RelayChanges, LinkInv, LinkTypeOK
  <1> QED BY <1>1, <1>2 DEF LinkInv, UpdatesSound, Fresh, OpeningLink, OpeningHolds, RecordIsKept,
                            Running, Busy

LEMMA LinkRestartKeeps ==
    ASSUME LinkInv, LinkRestart
    PROVE  LinkInv'
  <1> DEFINE Starts == [stage : {"new", "write", "announce", "row", "bill", "live", "failed"},
                        path : {"direct", "billed", None}, buyer : Users \cup {None},
                        vendor : Vendors \cup {None}, keyed : BOOLEAN]
             after(s) == IF start[s].stage \in {"new", "live", "failed"}
                         THEN start[s] ELSE [start[s] EXCEPT !.stage = "failed"]
  <1>1. /\ UNCHANGED <<rec, relay, announced, finished, counted, crossed>> /\ LinkTypeOK
        /\ start' = [s \in Links |-> after(s)] /\ upd' = [c \in LinkCalls |-> NoUpdate]
    BY DEF LinkRestart, LinkInv
  <1>2. lfaults' \in Nat
    BY <1>1 DEF LinkRestart, LinkFault, LinkTypeOK
  <1>3. ASSUME NEW s \in Links
        PROVE  /\ after(s) \in Starts /\ after(s).path = start[s].path
               /\ after(s).stage \in {"new", "live", "failed"}
               /\ after(s).stage = "new" => start[s].stage = "new"
    <2>1. start[s] \in Starts
      BY <1>1 DEF LinkTypeOK
    <2> QED BY <2>1
  <1> HIDE DEF after
  <1>4. LinkTypeOK'
    BY <1>1, <1>2, <1>3 DEF LinkTypeOK, NoUpdate
  <1>5. \A c \in LinkCalls : ~Busy(c)'
    BY <1>1 DEF Busy, NoUpdate
  <1>6. UpdatesSound' /\ Fresh'
    BY <1>5 DEF UpdatesSound, Fresh
  <1>7. OpeningLink'
    BY <1>1, <1>3, <1>5 DEF LinkInv, OpeningLink, OpeningHolds
  <1>8. RecordIsKept'
    BY <1>1 DEF LinkInv, RecordIsKept, Running
  <1> QED BY <1>4, <1>6, <1>7, <1>8 DEF LinkInv

THEOREM LinkInvariant == LinkSpec => []LinkInv
  <1>1. LinkInv /\ [LinkNext]_linkVars => LinkInv'
    <2> SUFFICES ASSUME LinkInv, [LinkNext]_linkVars PROVE LinkInv'
      OBVIOUS
    <2>1. CASE UNCHANGED linkVars
      BY <2>1 DEF linkVars, LinkInv, LinkTypeOK, UpdatesSound, Fresh, OpeningLink, OpeningHolds,
                  RecordIsKept, Running, Busy
    <2>2. CASE LinkNext
      BY <2>2, StartLinkKeeps, WriteRouteKeeps, AnnounceKeeps, OpenBilledKeeps,
         RecordExpiresKeeps, ReadRecordKeeps, ResolveKeeps, WriteRecordKeeps, RelayKeeps,
         LinkRestartKeeps DEF LinkNext
    <2> QED BY <2>1, <2>2
  <1> QED BY LinkInvInit, <1>1, PTL DEF LinkSpec

-----------------------------------------------------------------------------
\* The specification's variables keep their types.
THEOREM LinkTypesHold == LinkSpec => []LinkTypeOK
  BY LinkInvariant, PTL DEF LinkInv

\* A session that no two writers crossed on stays ended and keeps its count,
\* however many updates read and write its record.
THEOREM RecordIsKeptHolds == LinkSpec => []RecordIsKept
  BY LinkInvariant, PTL DEF LinkInv
=============================================================================
