----------------------------- MODULE WebClient -----------------------------
(***************************************************************************)
(* A browser signed in to the buyer's web application: the pages open in   *)
(* it (React state of the auth context, its refresh timer), the token and  *)
(* the user kept in localStorage, which they share, and the requests on    *)
(* their way. The server's part is what its refresh route answers.         *)
(*                                                                         *)
(* One tick separates a token that is good from one that is spent (expired *)
(* or about to expire). What a request asks for is left out, but for the   *)
(* profile, whose answer sets the user of the page.                        *)
(***************************************************************************)
EXTENDS Platform

CONSTANTS
    Pages,     \* tabs
    Passes,    \* access tokens, one for each sign-in
    Fetches    \* requests in progress at a time

VARIABLES
    pass,      \* each access token: whose it is, whether it is good
    kept,      \* localStorage: dravio_access_token, dravio_user
    page,      \* each page
    fetch,     \* the requests in progress
    cfaults    \* faults so far

clientVars == <<pass, kept, page, fetch, cfaults>>

-----------------------------------------------------------------------------
SignedOut == [user |-> None, timer |-> FALSE, entering |-> None, revived |-> FALSE]
NoFetch == [stage |-> "idle", page |-> None, sent |-> None, user |-> None]
NothingKept == [token |-> None, user |-> None]

ClientInit ==
    /\ pass = [t \in Passes |-> [user |-> None, good |-> FALSE]]
    /\ kept = NothingKept
    /\ page = [p \in Pages |-> SignedOut]
    /\ fetch = [f \in Fetches |-> NoFetch]
    /\ cfaults = 0

ClientFault == cfaults < MaxFaults /\ cfaults' = cfaults + 1
Good(t) == t # None /\ pass[t].good
Shown(p) == page[p].user # None

\* handleLogout: timer, storage, state. A sign-in of the page goes on.
LeavePage(p) ==
    /\ kept' = NothingKept
    /\ page' = [page EXCEPT ![p] = [SignedOut EXCEPT !.entering = page[p].entering]]

\* BROKEN: the timer is not set.
NoTimer == FALSE

\* scheduleTokenRefresh, a minute before the token expires.
ScheduleTokenRefresh == TRUE

-----------------------------------------------------------------------------
\* The server accepted the credentials: the token is stored, then the profile
\* is awaited, then the user is stored and the timer set.
SignInPage(p, t, u) ==
    /\ pass[t].user = None /\ page[p].entering = None
    /\ pass' = [pass EXCEPT ![t] = [user |-> u, good |-> TRUE]]
    /\ kept' = [kept EXCEPT !.token = t]
    /\ page' = [page EXCEPT ![p].entering = t]
    /\ UNCHANGED <<fetch, cfaults>>

SignInDone(p) ==
    LET t == page[p].entering IN
    /\ t # None
    /\ kept' = [kept EXCEPT !.user = pass[t].user]
    /\ page' = [page EXCEPT ![p].user = pass[t].user, ![p].entering = None,
                            ![p].timer = ScheduleTokenRefresh, ![p].revived = FALSE]
    /\ UNCHANGED <<pass, fetch, cfaults>>

Logout(p) ==
    /\ Shown(p)
    /\ LeavePage(p)
    /\ UNCHANGED <<pass, fetch, cfaults>>

\* The page is loaded again: its timer and its requests are gone, and what is
\* stored is restored unless the token has expired.
Reload(p) ==
    LET restored == kept.token # None /\ kept.user # None /\ Good(kept.token) IN
    /\ kept' = IF kept.token # None /\ kept.user # None /\ ~Good(kept.token)
               THEN NothingKept ELSE kept
    /\ page' = [page EXCEPT ![p] =
          IF restored THEN [SignedOut EXCEPT !.user = kept.user,
                                             !.timer = ScheduleTokenRefresh]
          ELSE SignedOut]
    /\ fetch' = [f \in Fetches |-> IF fetch[f].page = p THEN NoFetch ELSE fetch[f]]
    /\ UNCHANGED <<pass, cfaults>>

-----------------------------------------------------------------------------
\* A request takes the token of the moment, whoever stored it. A token about to
\* expire is renewed first, which ends the page's sign-in (RefreshAccessToken).
ExecuteRequest(f, p) ==
    /\ fetch[f].stage = "idle" /\ Shown(p)
    /\ fetch' = [fetch EXCEPT ![f] =
          [stage |-> IF kept.token # None /\ ~Good(kept.token) THEN "refresh" ELSE "sent",
           page |-> p, sent |-> kept.token, user |-> page[p].user]]
    /\ UNCHANGED <<pass, kept, page, cfaults>>

\* What the client sends to POST /v1/auth/refresh, besides the access token.
RefreshBody == {}

\* The route wants the refresh token; an access token renews nothing.
RefreshRouteAccepts(body) == "refresh_token" \in body

\* The server answers: a request with a good token succeeds, and the profile
\* effect stores its user with the answer; another one is refused.
Answered(f) ==
    LET p == fetch[f].page IN
    /\ fetch[f].stage = "sent"
    /\ \/ /\ Good(fetch[f].sent)
          /\ fetch' = [fetch EXCEPT ![f] = NoFetch]
          /\ \/ UNCHANGED <<kept, page>>
             \/ /\ kept' = [kept EXCEPT !.user = fetch[f].user]
                /\ page' = [page EXCEPT ![p].user = fetch[f].user,
                                        ![p].revived = @ \/ ~Shown(p)]
       \/ /\ ~Good(fetch[f].sent)
          /\ fetch' = [fetch EXCEPT ![f].stage = "refresh"]
          /\ UNCHANGED <<kept, page>>
    /\ UNCHANGED <<pass, cfaults>>

\* A refresh with what is stored by now: the token is renewed, or the sign-in of
\* the page ends and the storage is cleared, whatever was stored since.
Renew(p) ==
    IF kept.token # None /\ RefreshRouteAccepts(RefreshBody)
    THEN pass' = [pass EXCEPT ![kept.token].good = TRUE] /\ UNCHANGED <<kept, page>>
    ELSE LeavePage(p) /\ UNCHANGED pass

\* refreshAccessToken, for a request that is about to be sent or was refused.
RefreshAccessToken(f) ==
    /\ fetch[f].stage = "refresh"
    /\ Renew(fetch[f].page)
    /\ fetch' = [fetch EXCEPT ![f] = NoFetch]
    /\ UNCHANGED cfaults

\* A request fails on its way; while it renews, that is a sign-out as well.
FetchFails(f) ==
    /\ fetch[f].stage # "idle" /\ ClientFault
    /\ IF fetch[f].stage = "refresh" THEN LeavePage(fetch[f].page)
       ELSE UNCHANGED <<kept, page>>
    /\ fetch' = [fetch EXCEPT ![f] = NoFetch]
    /\ UNCHANGED pass

\* The timer of a page calls api.auth.refresh.
TimerFires(p) ==
    /\ page[p].timer
    /\ Renew(p)
    /\ UNCHANGED <<fetch, cfaults>>

\* Fifteen minutes pass.
PassExpires(t) ==
    /\ pass[t].good
    /\ pass' = [pass EXCEPT ![t].good = FALSE]
    /\ UNCHANGED <<kept, page, fetch, cfaults>>

ClientNext ==
    \/ \E p \in Pages :
          \/ \E t \in Passes, u \in Users : SignInPage(p, t, u)
          \/ SignInDone(p) \/ Logout(p) \/ Reload(p) \/ TimerFires(p)
    \/ \E f \in Fetches :
          (\E p \in Pages : ExecuteRequest(f, p)) \/ Answered(f)
          \/ RefreshAccessToken(f) \/ FetchFails(f)
    \/ \E t \in Passes : PassExpires(t)

\* A browser runs the timers of an open page, and tokens expire.
ClientFairness ==
    /\ \A p \in Pages : WF_clientVars(TimerFires(p))
    /\ \A t \in Passes : WF_clientVars(PassExpires(t))

ClientSpec == ClientInit /\ [][ClientNext]_clientVars
-----------------------------------------------------------------------------
ClientTypeOK ==
    /\ pass \in [Passes -> [user : Users \cup {None}, good : BOOLEAN]]
    /\ kept \in [token : Passes \cup {None}, user : Users \cup {None}]
    /\ page \in [Pages -> [user : Users \cup {None}, timer : BOOLEAN,
                           entering : Passes \cup {None}, revived : BOOLEAN]]
    /\ fetch \in [Fetches -> [stage : {"idle", "refresh", "sent"}, page : Pages \cup {None},
                              sent : Passes \cup {None}, user : Users \cup {None}]]
    /\ cfaults \in Nat

\* A page that shows somebody while the browser keeps no good token, because it
\* expired or another page signed out, signs out or is signed in again; but for
\* a page on which the answer to an earlier request set the user after a
\* sign-out, which has no timer and waits for its next request.
DeadSignInEnds ==
    \A p \in Pages :
        Shown(p) /\ ~Good(kept.token) ~> ~Shown(p) \/ Good(kept.token) \/ page[p].revived
=============================================================================
