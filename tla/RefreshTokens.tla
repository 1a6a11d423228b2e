---------------------------- MODULE RefreshTokens ----------------------------
(***************************************************************************)
(* The refresh tokens of auth.refresh_tokens: every sign-in (register,     *)
(* login, OAuth, one-time password) starts a line of tokens, a refresh     *)
(* revokes the token it was given and issues the line's next one, a logout *)
(* revokes. Each query is a step of its own: a refresh looks its token up, *)
(* revokes it and issues in three, and nothing holds a row in between.     *)
(*                                                                         *)
(* Access tokens are not stored and are left out: one stays valid for its  *)
(* fifteen minutes whatever happens here.                                  *)
(***************************************************************************)
EXTENDS Platform

CONSTANTS
    Tokens,      \* refresh tokens that may ever be issued
    SignIns,     \* sign-ins, each the start of a line of tokens
    TokenCalls   \* requests that may be in progress at the same time

ASSUME TokenAssumption == None \notin SignIns \cup Tokens

VARIABLES
    token,       \* auth.refresh_tokens
    line,        \* what became of each sign-in (history)
    tcall,       \* the requests in progress
    members,     \* auth.users
    tfaults      \* faults so far

tokenVars == <<token, line, tcall, members, tfaults>>

-----------------------------------------------------------------------------
TokenStates == {"unissued", "live", "revoked", "expired", "deleted"}
TokenIdle == [stage |-> "idle", line |-> None, given |-> None]

\* What can happen to a line: two refreshes held the same token ("forked"), it
\* was logged out while nothing was in progress on it ("closed"), or something
\* ended it: a logout, an expiry, an erasure, a failed query ("ended").
LineMarks == {"forked", "closed", "ended"}

Live(t) == token[t].state = "live"
LiveOf(l) == {t \in Tokens : Live(t) /\ token[t].line = l}
Working(l) == {c \in TokenCalls : tcall[c].line = l}
LinesOf(u) == {l \in SignIns : line[l].user = u}

Mark(lines, marks) ==
    line' = [l \in SignIns |->
        IF l \in lines THEN [line[l] EXCEPT !.marks = @ \cup marks] ELSE line[l]]

TokenFault(c) ==
    /\ tfaults < MaxFaults /\ tfaults' = tfaults + 1
    /\ Mark({tcall[c].line}, {"ended"})
    /\ tcall' = [tcall EXCEPT ![c] = TokenIdle]
    /\ UNCHANGED <<token, members>>

TokenInit ==
    /\ token = [t \in Tokens |-> [state |-> "unissued", line |-> None]]
    /\ line = [l \in SignIns |-> [user |-> None, marks |-> {}]]
    /\ tcall = [c \in TokenCalls |-> TokenIdle]
    /\ members = Users
    /\ tfaults = 0

-----------------------------------------------------------------------------
\* The credentials were accepted; issueSession is about to run.
SignIn(c, l, u) ==
    /\ tcall[c].stage = "idle" /\ line[l].user = None /\ u \in members
    /\ line' = [line EXCEPT ![l].user = u]
    /\ tcall' = [tcall EXCEPT ![c] = [stage |-> "issue", line |-> l, given |-> None]]
    /\ UNCHANGED <<token, members, tfaults>>

\* BROKEN: the revoked flag is not looked at.
UsableUnlessExpired(t) == token[t].state \in {"live", "revoked"}

\* A row joined to its user, neither revoked nor expired.
Usable(t) == Live(t)

RefreshFind(c, t) ==
    /\ tcall[c].stage = "idle" /\ Usable(t)
    /\ tcall' = [tcall EXCEPT
          ![c] = [stage |-> "revoke", line |-> token[t].line, given |-> t]]
    /\ IF \E d \in TokenCalls : tcall[d].given = t /\ tcall[d].stage = "revoke"
       THEN Mark({token[t].line}, {"forked"}) ELSE UNCHANGED line
    /\ UNCHANGED <<token, members, tfaults>>

\* UPDATE ... SET revoked = TRUE; the number of rows it matched is not looked at.
Revoked(ts) ==
    [t \in Tokens |-> IF t \in ts /\ token[t].state \in {"live", "expired"}
                      THEN [token[t] EXCEPT !.state = "revoked"] ELSE token[t]]

\* BROKEN: a refresh revokes every token of the account.
RefreshScopeAll(t) == {s \in Tokens : token[s].line \in LinesOf(line[token[t].line].user)}

RefreshScope(t) == {t}

RefreshRevoke(c) ==
    /\ tcall[c].stage = "revoke"
    /\ \/ /\ token' = Revoked(RefreshScope(tcall[c].given))
          /\ tcall' = [tcall EXCEPT ![c].stage = "issue"]
          /\ UNCHANGED <<line, members, tfaults>>
       \/ TokenFault(c)

\* createRefreshToken. The foreign key refuses a token for an erased account.
Issue(c, t) ==
    LET l == tcall[c].line IN
    /\ tcall[c].stage = "issue"
    /\ \/ /\ line[l].user \in members /\ token[t].state = "unissued"
          /\ token' = [token EXCEPT ![t] = [state |-> "live", line |-> l]]
          /\ tcall' = [tcall EXCEPT ![c] = TokenIdle]
          /\ UNCHANGED <<line, members, tfaults>>
       \/ /\ line[l].user \notin members
          /\ tcall' = [tcall EXCEPT ![c] = TokenIdle]
          /\ UNCHANGED <<token, line, members, tfaults>>
       \/ TokenFault(c)

\* Logout with a token in the body: whoever's it is, and only that one.
LogoutOne(t) ==
    LET l == token[t].line IN
    /\ token[t].state # "unissued"
    /\ token' = Revoked({t})
    /\ IF Live(t)
       THEN Mark({l}, {"ended"} \cup
                IF Working(l) = {} /\ "forked" \notin line[l].marks
                THEN {"closed"} ELSE {})
       ELSE UNCHANGED line
    /\ UNCHANGED <<tcall, members, tfaults>>

\* BROKEN: only the most recent sign-in is closed.
LogoutScopeOne(u) ==
    {t \in Tokens : token[t].line = CHOOSE l \in SignIns : line[l].user = u}

\* revokeAllUserTokens: every token of the account.
LogoutScope(u) == {t \in Tokens : token[t].line \in LinesOf(u)}

\* Logout without a token in the body.
LogoutAll(u) ==
    /\ u \in members /\ LinesOf(u) # {}
    /\ token' = Revoked(LogoutScope(u))
    /\ line' = [l \in SignIns |->
          IF line[l].user # u THEN line[l]
          ELSE [line[l] EXCEPT !.marks =
                  @ \cup {"ended"} \cup IF Working(l) = {} THEN {"closed"} ELSE {}]]
    /\ UNCHANGED <<tcall, members, tfaults>>

\* Thirty days pass (external).
Expire(t) ==
    /\ Live(t)
    /\ token' = [token EXCEPT ![t].state = "expired"]
    /\ Mark({token[t].line}, {"ended"})
    /\ UNCHANGED <<tcall, members, tfaults>>

\* The account is deleted, its tokens with it (ON DELETE CASCADE).
EraseAccount(u) ==
    /\ u \in members
    /\ members' = members \ {u}
    /\ token' = [t \in Tokens |-> IF token[t].line \in LinesOf(u)
                                  THEN [token[t] EXCEPT !.state = "deleted"]
                                  ELSE token[t]]
    /\ Mark(LinesOf(u), {"ended"})
    /\ UNCHANGED <<tcall, tfaults>>

\* The process stops: no request of its lives on.
TokenRestart ==
    /\ tfaults < MaxFaults /\ tfaults' = tfaults + 1
    /\ Mark({l \in SignIns : Working(l) # {}}, {"ended"})
    /\ tcall' = [c \in TokenCalls |-> TokenIdle]
    /\ UNCHANGED <<token, members>>

TokenNext ==
    \/ \E c \in TokenCalls :
          \/ \E l \in SignIns, u \in Users : SignIn(c, l, u)
          \/ \E t \in Tokens : RefreshFind(c, t) \/ Issue(c, t)
          \/ RefreshRevoke(c)
    \/ \E t \in Tokens : LogoutOne(t) \/ Expire(t)
    \/ \E u \in Users : LogoutAll(u) \/ EraseAccount(u)
    \/ TokenRestart

TokenSpec == TokenInit /\ [][TokenNext]_tokenVars

-----------------------------------------------------------------------------
TokenTypeOK ==
    /\ token \in [Tokens -> [state : TokenStates, line : SignIns \cup {None}]]
    /\ line \in [SignIns -> [user : Users \cup {None}, marks : SUBSET LineMarks]]
    /\ tcall \in [TokenCalls -> [stage : {"idle", "revoke", "issue"},
                                 line : SignIns \cup {None},
                                 given : Tokens \cup {None}]]
    /\ members \subseteq Users
    /\ tfaults \in Nat

\* A sign-in has at most one usable refresh token at a time, unless two of its
\* refreshes presented the same token at the same time: the lookup and the
\* revocation are two queries, and the second refresh passes the lookup before
\* the first one revokes.
OneLinePerSignIn ==
    \A t1, t2 \in Tokens :
        Live(t1) /\ Live(t2) /\ token[t1].line = token[t2].line /\ t1 # t2
            => "forked" \in line[token[t1].line].marks

\* A logout ends the sign-in for good when no refresh of it was half-way: no
\* token of the line is usable again, whatever refreshes are tried afterwards.
LogoutIsFinal ==
    \A t \in Tokens : Live(t) => "closed" \notin line[token[t].line].marks

\* Nobody is signed out by refreshing: a sign-in that was not logged out, did
\* not expire, and lost no query or process, has a usable token or a request
\* about to issue it.
SignedInStays ==
    \A l \in SignIns : line[l].user # None /\ "ended" \notin line[l].marks =>
        \/ LiveOf(l) # {}
        \/ \E c \in TokenCalls : tcall[c].stage = "issue" /\ tcall[c].line = l
=============================================================================
