--------------------------- MODULE UsageReporting ---------------------------
(***************************************************************************)
(* How the bytes of a tunnel get from a phone to the bill: the Marketplace *)
(* screen that opens and ends billing sessions, the VPN service that reads *)
(* the tunnel's counter every five seconds and reports what was added, and *)
(* what the server makes of a report. Reading the counter is asynchronous, *)
(* and so are the calls that open, report and end.                         *)
(*                                                                         *)
(* Bytes in and out are one number; its price is UsageBilling's subject.   *)
(***************************************************************************)
EXTENDS Platform

CONSTANTS
    Rides,       \* billing sessions a phone may open
    Taps,        \* presses of Disconnect
    Letters,     \* usage reports on their way at a time
    MaxTraffic   \* bound on the bytes of a session

ASSUME RideAssumption == None \notin Rides /\ MaxTraffic \in Nat

VARIABLES
    tunnel,      \* the native tunnel: the session it carries, its counter
    vpn,         \* vpnService; on: its status is "connected"
    tick,        \* the interval's callback, between the reading and what follows
    signed,      \* somebody is signed in: the Marketplace screen is there
    joining,     \* how far the connect of each session has got
    connecting,  \* connectingId of the screen
    shown,       \* activeSessionId of the screen
    ending,      \* how far each press of Disconnect has got
    saved,       \* dravio_active_session in storage
    letter,      \* the reports on their way
    server,      \* each session at the server, and the bytes it has counted
    used,        \* bytes each session carried
    mixed,       \* sessions that were sent another tunnel's bytes (history)
    abandoned,   \* sessions a failure or a restart took from the screen (history)
    astray,      \* sessions a sign-out or a call still in progress took (history)
    rfaults      \* faults so far

rideVars == <<tunnel, vpn, tick, signed, joining, connecting, shown, ending, saved,
              letter, server, used, mixed, abandoned, astray, rfaults>>

-----------------------------------------------------------------------------
NoTunnel == [ride |-> None, bytes |-> 0]
NoTick == [pending |-> FALSE, ride |-> None, bytes |-> 0]
NoLetter == [ride |-> None, bytes |-> 0]
NewTap == [stage |-> "new", ride |-> None]
TapDone == [stage |-> "done", ride |-> None]
Stopped == [up |-> FALSE, on |-> FALSE, ride |-> None, timer |-> FALSE, last |-> 0, seen |-> 0]

RideInit ==
    /\ tunnel = NoTunnel
    /\ vpn = [Stopped EXCEPT !.up = TRUE]
    /\ tick = NoTick
    /\ signed = TRUE
    /\ joining = [s \in Rides |-> "no"] /\ ending = [t \in Taps |-> NewTap]
    /\ connecting = None /\ shown = None /\ saved = None
    /\ letter = [r \in Letters |-> NoLetter]
    /\ server = [s \in Rides |-> [state |-> "none", counted |-> 0]]
    /\ used = [s \in Rides |-> 0]
    /\ mixed = {} /\ abandoned = {} /\ astray = {}
    /\ rfaults = 0

RideFault == rfaults < MaxFaults /\ rfaults' = rfaults + 1

\* The sessions whose connect goes on, whatever became of the screen it began on.
Joining == {s \in Rides : joining[s] # "no"}
Ending == {t \in Taps : ending[t].stage \in {"end", "down"}}

-----------------------------------------------------------------------------
\* BROKEN: another seller can be connected to while a session is on.
ConnectsAnyTime == connecting = None

\* The Connect buttons are disabled while the screen connects or shows a session.
ConnectEnabled == connecting = None /\ shown = None

\* handleConnect: the server opens a billing session and vpnService begins to
\* connect. A call begun earlier may go on: a Disconnect pressed twice, or a
\* connect or a Disconnect of the screen there was before a sign-out.
OpenRide(s) ==
    /\ vpn.up /\ signed /\ ConnectEnabled
    /\ server[s].state = "none"
    /\ server' = [server EXCEPT ![s].state = "open"]
    /\ joining' = [joining EXCEPT ![s] = "tunnel"] /\ connecting' = s
    /\ vpn' = [vpn EXCEPT !.on = FALSE]
    /\ astray' = IF Joining \cup Ending = {} THEN astray ELSE astray \cup {s}
    /\ UNCHANGED <<tunnel, tick, signed, shown, ending, saved, letter, used, mixed,
                   abandoned, rfaults>>

\* The connect of s is over: the screen it began on, if it is still there, can
\* connect again.
Joined(s) ==
    /\ joining' = [joining EXCEPT ![s] = "no"]
    /\ connecting' = IF connecting = s THEN None ELSE connecting

\* Wireguard.connect replaces the tunnel there is, or fails: whatever session the
\* screen shows, it is told that there is no connection.
RaiseTunnel(s) ==
    /\ joining[s] = "tunnel"
    /\ \/ /\ tunnel' = [ride |-> s, bytes |-> 0]
          /\ joining' = [joining EXCEPT ![s] = "track"]
          /\ UNCHANGED <<vpn, connecting, shown, abandoned, rfaults>>
       \/ /\ RideFault /\ Joined(s)
          /\ vpn' = [vpn EXCEPT !.on = FALSE] /\ shown' = None
          /\ abandoned' = abandoned \cup {s}
          /\ UNCHANGED tunnel
    /\ UNCHANGED <<tick, signed, ending, saved, letter, server, used, mixed, astray>>

\* connect goes on: its counters start at 0; a timer that runs is kept. The
\* screen it began on shows the session.
TrackRide(s) ==
    /\ joining[s] = "track" /\ Joined(s)
    /\ vpn' = [vpn EXCEPT !.on = TRUE, !.ride = s, !.timer = TRUE, !.last = 0, !.seen = 0]
    /\ saved' = s
    /\ shown' = IF connecting = s THEN s ELSE shown
    /\ UNCHANGED <<tunnel, tick, signed, ending, letter, server, used, mixed, abandoned,
                   astray, rfaults>>

Traffic ==
    LET s == tunnel.ride IN
    /\ s # None /\ used[s] < MaxTraffic
    /\ tunnel' = [tunnel EXCEPT !.bytes = @ + 1]
    /\ used' = [used EXCEPT ![s] = @ + 1]
    /\ UNCHANGED <<vpn, tick, signed, joining, connecting, shown, ending, saved, letter, server,
                   mixed, abandoned, astray, rfaults>>

-----------------------------------------------------------------------------
\* Every five seconds, while connected: the counter is asked for.
ReadCounter ==
    /\ vpn.timer /\ vpn.on /\ ~tick.pending
    /\ tick' = [pending |-> TRUE, ride |-> tunnel.ride, bytes |-> tunnel.bytes]
    /\ UNCHANGED <<tunnel, vpn, signed, joining, connecting, shown, ending, saved, letter,
                   server, used, mixed, abandoned, astray, rfaults>>

\* BROKEN: the counter itself is added to what was reported.
WholeCounter(current, last) == current + last

\* What a report says: the bytes since the last one.
ReportedBytes(current, last) == current - last

\* The answer: the session of the moment is sent what was added to the counter.
\* A counter that reads 0 is taken for the last one seen. While nobody is signed
\* in the report is refused (401), and what it said is not said again.
ReportUsage(r) ==
    LET current == IF tick.bytes = 0 THEN vpn.seen ELSE tick.bytes
        more == current > vpn.last
        sends == more /\ vpn.ride # None /\ signed IN
    /\ tick.pending
    /\ letter[r] = NoLetter
    /\ tick' = NoTick
    /\ vpn' = [vpn EXCEPT !.seen = current, !.last = IF more THEN current ELSE @]
    /\ letter' = IF sends THEN [letter EXCEPT ![r] =
                                   [ride |-> vpn.ride, bytes |-> ReportedBytes(current, vpn.last)]]
                 ELSE letter
    /\ mixed' = IF sends /\ tick.ride # vpn.ride THEN mixed \cup {vpn.ride} ELSE mixed
    /\ UNCHANGED <<tunnel, signed, joining, connecting, shown, ending, saved, server, used,
                   abandoned, astray, rfaults>>

\* processUsageUpdate takes the number for the session's total so far: one that
\* does not exceed what is committed is a replay. A closed session is ignored.
CountReport(r) ==
    LET s == letter[r].ride IN
    /\ s # None
    /\ server' = IF server[s].state = "open" /\ letter[r].bytes > server[s].counted
                 THEN [server EXCEPT ![s].counted = letter[r].bytes] ELSE server
    /\ letter' = [letter EXCEPT ![r] = NoLetter]
    /\ UNCHANGED <<tunnel, vpn, tick, signed, joining, connecting, shown, ending, saved, used,
                   mixed, abandoned, astray, rfaults>>

LoseReport(r) ==
    /\ letter[r] # NoLetter /\ RideFault
    /\ letter' = [letter EXCEPT ![r] = NoLetter]
    /\ UNCHANGED <<tunnel, vpn, tick, signed, joining, connecting, shown, ending, saved,
                   server, used, mixed, abandoned, astray>>

-----------------------------------------------------------------------------
\* handleDisconnect, on the session the screen shows. Nothing keeps the button
\* from being pressed again before the first press is done.
PressDisconnect(t) ==
    /\ vpn.up /\ shown # None /\ ending[t].stage = "new"
    /\ ending' = [ending EXCEPT ![t] = [stage |-> "end", ride |-> shown]]
    /\ UNCHANGED <<tunnel, vpn, tick, signed, joining, connecting, shown, saved, letter,
                   server, used, mixed, abandoned, astray, rfaults>>

\* The server ends the session, best effort (it may refuse who is signed out),
\* and vpnService.disconnect begins: the timer stops.
EndRide(t) ==
    LET s == ending[t].ride IN
    /\ ending[t].stage = "end"
    /\ \/ /\ server' = [server EXCEPT ![s].state = "closed"]
          /\ UNCHANGED <<abandoned, rfaults>>
       \/ /\ RideFault \/ (~signed /\ UNCHANGED rfaults)
          /\ abandoned' = abandoned \cup {s}
          /\ UNCHANGED server
    /\ ending' = [ending EXCEPT ![t].stage = "down"]
    /\ vpn' = [vpn EXCEPT !.timer = FALSE]
    /\ UNCHANGED <<tunnel, tick, signed, joining, connecting, shown, saved, letter, used,
                   mixed, astray>>

\* The rest of disconnect, whichever session is on by now. The tunnel may stay
\* up: its failure is not looked at. A callback that has begun goes on.
Disconnect(t) ==
    /\ ending[t].stage = "down"
    /\ \/ tunnel' = NoTunnel /\ UNCHANGED rfaults
       \/ RideFault /\ UNCHANGED tunnel
    /\ vpn' = [vpn EXCEPT !.on = FALSE, !.ride = None]
    /\ shown' = None /\ saved' = None
    /\ ending' = [ending EXCEPT ![t] = TapDone]
    /\ UNCHANGED <<tick, signed, joining, connecting, letter, server, used, mixed, abandoned,
                   astray>>

\* The sessions the phone has to do with.
OnPhone == Joining \cup ({vpn.ride} \ {None})

\* logout, or SESSION_EXPIRED: the Marketplace screen goes, and what it showed
\* with it. vpnService, the tunnel and the calls in progress go on. (Sign-outs
\* are bounded as the faults are.)
SignOut ==
    /\ vpn.up /\ signed /\ RideFault
    /\ signed' = FALSE
    /\ connecting' = None /\ shown' = None
    /\ astray' = astray \cup OnPhone
    /\ UNCHANGED <<tunnel, vpn, tick, joining, ending, saved, letter, server, used, mixed,
                   abandoned>>

\* login: a new screen, which knows of no session.
Login ==
    /\ vpn.up /\ ~signed
    /\ signed' = TRUE
    /\ UNCHANGED <<tunnel, vpn, tick, joining, connecting, shown, ending, saved, letter,
                   server, used, mixed, abandoned, astray, rfaults>>

\* The app is closed: the tunnel goes on, or it does not.
AppStops ==
    /\ vpn.up /\ RideFault
    /\ abandoned' = abandoned \cup OnPhone
    /\ vpn' = Stopped
    /\ tick' = NoTick /\ connecting' = None /\ shown' = None
    /\ joining' = [s \in Rides |-> "no"]
    /\ ending' = [t \in Taps |-> IF t \in Ending THEN TapDone ELSE ending[t]]
    /\ tunnel' \in {tunnel, NoTunnel}
    /\ UNCHANGED <<signed, saved, letter, server, used, mixed, astray>>

\* It is opened again: recoverSession takes up the session it had saved, if
\* there is a tunnel and somebody was signed in. The screen does not show it.
AppStarts ==
    /\ ~vpn.up
    /\ vpn' = IF signed /\ tunnel.ride # None /\ saved # None
              THEN [Stopped EXCEPT !.up = TRUE, !.on = TRUE, !.ride = saved, !.timer = TRUE]
              ELSE [Stopped EXCEPT !.up = TRUE]
    /\ UNCHANGED <<tunnel, tick, signed, joining, connecting, shown, ending, saved, letter,
                   server, used, mixed, abandoned, astray, rfaults>>

RideNext ==
    \/ \E s \in Rides : OpenRide(s) \/ RaiseTunnel(s) \/ TrackRide(s)
    \/ Traffic \/ ReadCounter
    \/ \E r \in Letters : ReportUsage(r) \/ CountReport(r) \/ LoseReport(r)
    \/ \E t \in Taps : PressDisconnect(t) \/ EndRide(t) \/ Disconnect(t)
    \/ SignOut \/ Login \/ AppStops \/ AppStarts

RideSpec == RideInit /\ [][RideNext]_rideVars

-----------------------------------------------------------------------------
RideTypeOK ==
    /\ tunnel \in [ride : Rides \cup {None}, bytes : Nat]
    /\ vpn \in [up : BOOLEAN, on : BOOLEAN, ride : Rides \cup {None}, timer : BOOLEAN,
                last : Nat, seen : Nat]
    /\ tick \in [pending : BOOLEAN, ride : Rides \cup {None}, bytes : Nat]
    /\ signed \in BOOLEAN
    /\ joining \in [Rides -> {"no", "tunnel", "track"}]
    /\ {connecting, shown, saved} \subseteq Rides \cup {None}
    /\ ending \in [Taps -> [stage : {"new", "end", "down", "done"}, ride : Rides \cup {None}]]
    /\ letter \in [Letters -> [ride : Rides \cup {None}, bytes : Nat]]
    /\ server \in [Rides -> [state : {"none", "open", "closed"}, counted : Nat]]
    /\ used \in [Rides -> 0..MaxTraffic]
    /\ mixed \cup abandoned \cup astray \subseteq Rides
    /\ rfaults \in Nat

\* Nobody is charged for bytes that were not carried: the server counts no more
\* than the session's tunnel moved, whatever is lost, repeated or late, unless
\* the counter was read from one tunnel and reported for the next session.
CountedIsUsed ==
    \A s \in Rides : server[s].counted <= used[s] \/ s \in mixed

\* The phone has session s in hand: it is about to be shown, or the screen shows
\* it and can end it, the tunnel carries it, and vpnService reports what it uses.
InHand(s) ==
    \/ joining[s] # "no"
    \/ /\ shown = s /\ tunnel.ride = s
       /\ vpn.ride = s /\ vpn.on /\ vpn.timer

\* A billing session that is open at the server is in the phone's hands, unless a
\* failure or a restart took it from them, it was on when its owner was signed
\* out, or it was opened while an earlier connect or Disconnect was going on:
\* the second of two presses takes down the session that follows.
OpenRideIsCarried ==
    \A s \in Rides : server[s].state = "open" =>
        InHand(s) \/ s \in abandoned \cup astray

\* While a session is on, once everything its tunnel carried has been reported
\* and every report has arrived, the server has counted it (VpnService.ts: the
\* "billing service will reconcile"; architecture-audit.md: a usage report
\* "bills only the delta since the last committed counter").
UsageIsReconciled ==
    \A s \in Rides :
        /\ rfaults = 0 /\ s \notin astray
        /\ server[s].state = "open" /\ vpn.ride = s
        /\ ~tick.pending /\ vpn.last = used[s]
        /\ letter = [r \in Letters |-> NoLetter]
        => server[s].counted = used[s]
=============================================================================
