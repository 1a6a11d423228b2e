------------------------------ MODULE AuthProofs -----------------------------
(***************************************************************************)
(* Theorems about RefreshTokens and SignUp, for every number of tokens,    *)
(* sign-ins, identities, addresses, accounts and calls in progress.        *)
(*                                                                         *)
(* RefreshTokens: the inductive invariant says who may still bring a line  *)
(* forward: as long as it has not forked, one token or one request.        *)
(*                                                                         *)
(* SignUp: an identity whose calls never overlapped is linked to whatever  *)
(* it was let into, and a call on its way to a link still finds none; an   *)
(* account that was let into while its creator was busy is early.          *)
(***************************************************************************)
EXTENDS RefreshTokens, SignUp, TLAPS

\* Tokens and requests belong to a sign-in that has happened.
Placed ==
    /\ \A t \in Tokens :
          IF token[t].state = "unissued" THEN token[t].line = None
          ELSE token[t].line \in SignIns /\ line[token[t].line].user # None
    /\ \A c \in TokenCalls :
          IF tcall[c].stage = "idle" THEN tcall[c].line = None
          ELSE tcall[c].line \in SignIns /\ line[tcall[c].line].user # None
    /\ \A c \in TokenCalls : tcall[c].stage = "revoke" =>
          /\ tcall[c].given \in Tokens
          /\ token[tcall[c].given].state # "unissued"
          /\ token[tcall[c].given].line = tcall[c].line

\* A line that has not forked has one live token at most, and one request at
\* most; a request that has found a token holds the live one, if there is one,
\* and while it issues there is none.
OneCarrier(l) ==
    /\ \A t1, t2 \in Tokens : Live(t1) /\ Live(t2) /\ token[t1].line = l
                              /\ token[t2].line = l => t1 = t2
    /\ \A c, d \in TokenCalls : tcall[c].line = l /\ tcall[d].line = l => c = d
    /\ \A c \in TokenCalls, t \in Tokens :
          tcall[c].line = l /\ Live(t) /\ token[t].line = l =>
              tcall[c].stage = "revoke" /\ tcall[c].given = t

UnforkedCarry == \A l \in SignIns : "forked" \notin line[l].marks => OneCarrier(l)

\* Nothing is left of a line that was closed.
ClosedIsEmpty ==
    \A l \in SignIns : "closed" \in line[l].marks =>
        /\ line[l].user # None
        /\ \A t \in Tokens : Live(t) => token[t].line # l
        /\ \A c \in TokenCalls : tcall[c].line # l

TokenInv == TokenTypeOK /\ Placed /\ UnforkedCarry /\ ClosedIsEmpty

-----------------------------------------------------------------------------
USE PlatformAssumption, TokenAssumption

LEMMA TokenInvInit == TokenInit => TokenInv
  BY DEF TokenInit, TokenInv, TokenTypeOK, Placed, UnforkedCarry, OneCarrier,
         ClosedIsEmpty, TokenStates, TokenIdle, LineMarks, Live

LEMMA SignInKeeps ==
    ASSUME TokenInv, NEW c \in TokenCalls, NEW l \in SignIns, NEW u \in Users,
           SignIn(c, l, u)
    PROVE  TokenInv'
  <1>1. TokenTypeOK'
    BY DEF TokenInv, TokenTypeOK, SignIn
  <1>2. Placed'
    BY DEF TokenInv, TokenTypeOK, Placed, SignIn
  <1>3. UnforkedCarry'
    BY DEF TokenInv, TokenTypeOK, Placed, UnforkedCarry, OneCarrier, SignIn, Live
  <1>4. ClosedIsEmpty'
    BY DEF TokenInv, TokenTypeOK, Placed, ClosedIsEmpty, SignIn, Live
  <1> QED BY <1>1, <1>2, <1>3, <1>4 DEF TokenInv


\* Marking adds marks to the lines given and changes nothing else of any.
LEMMA MarkParts ==
    ASSUME TokenTypeOK, NEW lines, NEW marks \in SUBSET LineMarks, Mark(lines, marks)
    PROVE  /\ line' \in [SignIns -> [user : Users \cup {None}, marks : SUBSET LineMarks]]
           /\ \A l \in SignIns :
                 /\ line'[l].user = line[l].user
                 /\ line'[l].marks = IF l \in lines THEN line[l].marks \cup marks
                                     ELSE line[l].marks
  <1> DEFINE new(l) == IF l \in lines THEN [line[l] EXCEPT !.marks = @ \cup marks]
                       ELSE line[l]
  <1>1. line' = [l \in SignIns |-> new(l)]
    BY DEF Mark
  <1>2. ASSUME NEW l \in SignIns
        PROVE  /\ new(l) \in [user : Users \cup {None}, marks : SUBSET LineMarks]
               /\ new(l).user = line[l].user
               /\ new(l).marks = IF l \in lines THEN line[l].marks \cup marks
                                 ELSE line[l].marks
    BY DEF TokenTypeOK
  <1> QED BY <1>1, <1>2

\* The mark "ended" is no other mark.
LEMMA MarkEnded ==
    ASSUME TokenTypeOK, NEW lines, Mark(lines, {"ended"})
    PROVE  /\ line' \in [SignIns -> [user : Users \cup {None}, marks : SUBSET LineMarks]]
           /\ \A l \in SignIns : line'[l].user = line[l].user
           /\ \A l \in SignIns :
                 /\ "forked" \in line'[l].marks <=> "forked" \in line[l].marks
                 /\ "closed" \in line'[l].marks <=> "closed" \in line[l].marks
  <1>1. {"ended"} \in SUBSET LineMarks
    BY DEF LineMarks
  <1>2. /\ line' \in [SignIns -> [user : Users \cup {None}, marks : SUBSET LineMarks]]
        /\ \A l \in SignIns :
              /\ line'[l].user = line[l].user
              /\ line'[l].marks = IF l \in lines THEN line[l].marks \cup {"ended"}
                                  ELSE line[l].marks
    BY <1>1, MarkParts
  <1>3. ASSUME NEW l \in SignIns
        PROVE  /\ "forked" \in line'[l].marks <=> "forked" \in line[l].marks
               /\ "closed" \in line'[l].marks <=> "closed" \in line[l].marks
    <2>1. CASE l \in lines
      <3>1. line'[l].marks = line[l].marks \cup {"ended"}
        BY <1>2, <2>1
      <3>2. "forked" # "ended" /\ "closed" # "ended"
        OBVIOUS
      <3> QED BY <3>1, <3>2
    <2>2. CASE l \notin lines
      BY <1>2, <2>2
    <2> QED BY <2>1, <2>2
  <1> QED BY <1>2, <1>3

\* What every step keeps of the tokens, given what it does to their states.
LEMMA RefreshFindKeeps ==
    ASSUME TokenInv, NEW c \in TokenCalls, NEW t \in Tokens, RefreshFind(c, t)
    PROVE  TokenInv'
  <1> DEFINE k == token[t].line
  <1>1. /\ TokenTypeOK /\ Placed /\ UnforkedCarry /\ ClosedIsEmpty
        /\ Live(t) /\ k \in SignIns /\ line[k].user # None
        /\ tcall[c].stage = "idle" /\ token' = token
        /\ members' = members /\ tfaults' = tfaults
        /\ tcall' = [tcall EXCEPT ![c] = [stage |-> "revoke", line |-> k, given |-> t]]
    BY DEF TokenInv, Placed, RefreshFind, Usable, Live
  <1>2. /\ line' \in [SignIns -> [user : Users \cup {None}, marks : SUBSET LineMarks]]
        /\ \A l \in SignIns : line'[l].user = line[l].user
        /\ \A l \in SignIns : l # k => line'[l].marks = line[l].marks
        /\ line'[k].marks \in {line[k].marks, line[k].marks \cup {"forked"}}
        /\ (\E d \in TokenCalls : tcall[d].given = t /\ tcall[d].stage = "revoke")
              => "forked" \in line'[k].marks
    <2>1. CASE \E d \in TokenCalls : tcall[d].given = t /\ tcall[d].stage = "revoke"
      <3>1. Mark({k}, {"forked"}) /\ {"forked"} \in SUBSET LineMarks
        BY <2>1 DEF RefreshFind, LineMarks
      <3>2. /\ line' \in [SignIns -> [user : Users \cup {None}, marks : SUBSET LineMarks]]
            /\ \A l \in SignIns :
                  /\ line'[l].user = line[l].user
                  /\ line'[l].marks = IF l \in {k} THEN line[l].marks \cup {"forked"}
                                      ELSE line[l].marks
        BY <1>1, <3>1, MarkParts
      <3> QED BY <1>1, <3>2
    <2>2. CASE ~ \E d \in TokenCalls : tcall[d].given = t /\ tcall[d].stage = "revoke"
      <3>1. line' = line
        BY <2>2 DEF RefreshFind
      <3> QED BY <1>1, <2>2, <3>1 DEF TokenTypeOK
    <2> QED BY <2>1, <2>2
  <1>3. TokenTypeOK'
    BY <1>1, <1>2 DEF TokenTypeOK
  <1>4. Placed'
    BY <1>1, <1>2 DEF TokenTypeOK, Placed, Live
  <1>5. UnforkedCarry'
    <2> SUFFICES ASSUME NEW l \in SignIns, "forked" \notin line'[l].marks
                 PROVE  OneCarrier(l)'
      BY DEF UnforkedCarry
    <2>1. OneCarrier(l)
      BY <1>1, <1>2 DEF UnforkedCarry
    <2>2. CASE l # k
      BY <1>1, <2>1, <2>2 DEF OneCarrier, TokenTypeOK, Live
    <2>3. CASE l = k
      <3>1. \A d \in TokenCalls : tcall[d].line # k
        BY <1>1, <1>2, <2>1, <2>3 DEF OneCarrier, Live
      <3> QED BY <1>1, <2>1, <2>3, <3>1 DEF OneCarrier, TokenTypeOK, Live
    <2> QED BY <2>2, <2>3
  <1>6. ClosedIsEmpty'
    BY <1>1, <1>2 DEF TokenTypeOK, ClosedIsEmpty, Live
  <1> QED BY <1>3, <1>4, <1>5, <1>6 DEF TokenInv

LEMMA RevokedParts ==
    ASSUME TokenTypeOK, NEW ts, token' = Revoked(ts)
    PROVE  /\ token' \in [Tokens -> [state : TokenStates, line : SignIns \cup {None}]]
           /\ \A t \in Tokens :
                 /\ token'[t].line = token[t].line
                 /\ token'[t].state = "unissued" <=> token[t].state = "unissued"
                 /\ Live(t)' <=> Live(t) /\ t \notin ts
  BY DEF Revoked, TokenTypeOK, TokenStates, Live

\* Live tokens that stop being live, and marks "ended", disturb nothing.
LEMMA LosingKeeps ==
    ASSUME TokenInv,
           token' \in [Tokens -> [state : TokenStates, line : SignIns \cup {None}]],
           line' \in [SignIns -> [user : Users \cup {None}, marks : SUBSET LineMarks]],
           UNCHANGED tcall, members' \subseteq Users, tfaults' \in Nat,
           \A t \in Tokens : token'[t].line = token[t].line,
           \A t \in Tokens : token'[t].state = "unissued" <=> token[t].state = "unissued",
           \A t \in Tokens : Live(t)' => Live(t),
           \A l \in SignIns : line'[l].user = line[l].user,
           \A l \in SignIns : "forked" \in line'[l].marks <=> "forked" \in line[l].marks,
           \A l \in SignIns : "closed" \in line'[l].marks =>
               \/ "closed" \in line[l].marks
               \/ /\ line[l].user # None
                  /\ \A t \in Tokens : Live(t)' => token[t].line # l
                  /\ \A c \in TokenCalls : tcall[c].line # l
    PROVE  TokenInv'
  <1>1. TokenTypeOK'
    BY DEF TokenInv, TokenTypeOK
  <1>2. Placed'
    BY DEF TokenInv, TokenTypeOK, Placed
  <1>3. UnforkedCarry'
    BY DEF TokenInv, TokenTypeOK, UnforkedCarry, OneCarrier
  <1>4. ClosedIsEmpty'
    BY DEF TokenInv, TokenTypeOK, ClosedIsEmpty
  <1> QED BY <1>1, <1>2, <1>3, <1>4 DEF TokenInv

\* A request that ends keeps the invariant.
LEMMA FaultKeeps ==
    ASSUME TokenInv, NEW c \in TokenCalls, TokenFault(c)
    PROVE  TokenInv'
  <1>1. /\ line' \in [SignIns -> [user : Users \cup {None}, marks : SUBSET LineMarks]]
        /\ \A l \in SignIns : line'[l].user = line[l].user
        /\ \A l \in SignIns :
              /\ "forked" \in line'[l].marks <=> "forked" \in line[l].marks
              /\ "closed" \in line'[l].marks <=> "closed" \in line[l].marks
    BY MarkEnded DEF TokenInv, TokenFault
  <1>2. TokenTypeOK'
    BY <1>1 DEF TokenInv, TokenTypeOK, TokenFault, TokenIdle
  <1>3. Placed'
    BY <1>1 DEF TokenInv, TokenTypeOK, Placed, TokenFault, TokenIdle
  <1>4. UnforkedCarry'
    BY <1>1 DEF TokenInv, TokenTypeOK, UnforkedCarry, OneCarrier, TokenFault, TokenIdle, Live
  <1>5. ClosedIsEmpty'
    BY <1>1 DEF TokenInv, TokenTypeOK, ClosedIsEmpty, TokenFault, TokenIdle, Live
  <1> QED BY <1>2, <1>3, <1>4, <1>5 DEF TokenInv

LEMMA RefreshRevokeKeeps ==
    ASSUME TokenInv, NEW c \in TokenCalls, RefreshRevoke(c)
    PROVE  TokenInv'
  <1>1. CASE TokenFault(c)
    BY <1>1, FaultKeeps
  <1>2. CASE /\ token' = Revoked(RefreshScope(tcall[c].given))
             /\ tcall' = [tcall EXCEPT ![c].stage = "issue"]
             /\ UNCHANGED <<line, members, tfaults>>
    <2>1. /\ tcall[c].stage = "revoke" /\ TokenTypeOK /\ Placed /\ UnforkedCarry
          /\ ClosedIsEmpty
      BY DEF RefreshRevoke, TokenInv
    <2>2. /\ token' \in [Tokens -> [state : TokenStates, line : SignIns \cup {None}]]
          /\ \A t \in Tokens :
                /\ token'[t].line = token[t].line
                /\ token'[t].state = "unissued" <=> token[t].state = "unissued"
                /\ Live(t)' <=> Live(t) /\ t # tcall[c].given
      BY <1>2, <2>1, RevokedParts DEF RefreshScope
    <2>3. TokenTypeOK'
      <3>1. tcall' \in [TokenCalls -> [stage : {"idle", "revoke", "issue"},
                                       line : SignIns \cup {None},
                                       given : Tokens \cup {None}]]
        BY <1>2, <2>1 DEF TokenTypeOK
      <3> QED BY <1>2, <2>1, <2>2, <3>1 DEF TokenTypeOK
    <2>4. Placed'
      BY <1>2, <2>1, <2>2 DEF TokenTypeOK, Placed
    <2>5. UnforkedCarry'
      BY <1>2, <2>1, <2>2 DEF TokenTypeOK, UnforkedCarry, OneCarrier
    <2>6. ClosedIsEmpty'
      BY <1>2, <2>1, <2>2 DEF TokenTypeOK, ClosedIsEmpty
    <2> QED BY <2>3, <2>4, <2>5, <2>6 DEF TokenInv
  <1> QED BY <1>1, <1>2 DEF RefreshRevoke

LEMMA IssueKeeps ==
    ASSUME TokenInv, NEW c \in TokenCalls, NEW t \in Tokens, Issue(c, t)
    PROVE  TokenInv'
  <1> DEFINE l == tcall[c].line
  <1>1. CASE TokenFault(c)
    BY <1>1, FaultKeeps
  <1>2. CASE /\ line[l].user \notin members
             /\ tcall' = [tcall EXCEPT ![c] = TokenIdle]
             /\ UNCHANGED <<token, line, members, tfaults>>
    BY <1>2 DEF TokenInv, TokenTypeOK, Placed, UnforkedCarry, OneCarrier, ClosedIsEmpty,
                TokenIdle, Live
  <1>3. CASE /\ line[l].user \in members /\ token[t].state = "unissued"
             /\ token' = [token EXCEPT ![t] = [state |-> "live", line |-> l]]
             /\ tcall' = [tcall EXCEPT ![c] = TokenIdle]
             /\ UNCHANGED <<line, members, tfaults>>
    <2>1. /\ tcall[c].stage = "issue" /\ TokenTypeOK /\ Placed /\ UnforkedCarry
          /\ ClosedIsEmpty /\ l \in SignIns /\ line[l].user # None
      BY DEF Issue, TokenInv, Placed
    <2>2. TokenTypeOK'
      BY <1>3, <2>1 DEF TokenTypeOK, TokenIdle, TokenStates
    <2>3. Placed'
      BY <1>3, <2>1 DEF TokenTypeOK, Placed, TokenIdle
    <2>4. UnforkedCarry'
      BY <1>3, <2>1 DEF TokenTypeOK, Placed, UnforkedCarry, OneCarrier, TokenIdle, Live
    <2>5. ClosedIsEmpty'
      BY <1>3, <2>1 DEF TokenTypeOK, ClosedIsEmpty, TokenIdle, Live
    <2> QED BY <2>2, <2>3, <2>4, <2>5 DEF TokenInv
  <1> QED BY <1>1, <1>2, <1>3 DEF Issue

LEMMA LogoutOneKeeps ==
    ASSUME TokenInv, NEW t \in Tokens, LogoutOne(t)
    PROVE  TokenInv'
  <1> DEFINE l == token[t].line
             closing == Live(t) /\ Working(l) = {} /\ "forked" \notin line[l].marks
  <1>1. /\ TokenTypeOK /\ Placed /\ UnforkedCarry /\ l \in SignIns /\ line[l].user # None
        /\ UNCHANGED <<tcall, members, tfaults>>
    BY DEF LogoutOne, TokenInv, Placed
  <1>2. /\ token' \in [Tokens -> [state : TokenStates, line : SignIns \cup {None}]]
        /\ \A s \in Tokens :
              /\ token'[s].line = token[s].line
              /\ token'[s].state = "unissued" <=> token[s].state = "unissued"
              /\ Live(s)' <=> Live(s) /\ s # t
    <2>1. token' = Revoked({t})
      BY DEF LogoutOne
    <2>2. /\ token' \in [Tokens -> [state : TokenStates, line : SignIns \cup {None}]]
          /\ \A s \in Tokens :
                /\ token'[s].line = token[s].line
                /\ token'[s].state = "unissued" <=> token[s].state = "unissued"
                /\ Live(s)' <=> Live(s) /\ s \notin {t}
      BY <1>1, <2>1, RevokedParts
    <2> QED BY <2>2
  <1>3. /\ line' \in [SignIns -> [user : Users \cup {None}, marks : SUBSET LineMarks]]
        /\ \A k \in SignIns : line'[k].user = line[k].user
        /\ \A k \in SignIns : "forked" \in line'[k].marks <=> "forked" \in line[k].marks
        /\ \A k \in SignIns : "closed" \in line'[k].marks =>
              "closed" \in line[k].marks \/ (k = l /\ closing)
    <2>1. CASE ~Live(t)
      BY <1>1, <2>1 DEF LogoutOne, TokenTypeOK
    <2>2. CASE Live(t)
      <3> DEFINE marks == {"ended"} \cup
                   IF Working(l) = {} /\ "forked" \notin line[l].marks THEN {"closed"} ELSE {}
      <3>1. Mark({l}, marks) /\ marks \in SUBSET LineMarks
        BY <2>2 DEF LogoutOne, LineMarks
      <3>3. "forked" \notin marks
        OBVIOUS
      <3>4. "closed" \in marks => closing
        BY <2>2
      <3> HIDE DEF marks, closing, l
      <3>2. /\ line' \in [SignIns -> [user : Users \cup {None}, marks : SUBSET LineMarks]]
            /\ \A k \in SignIns :
                 /\ line'[k].user = line[k].user
                 /\ line'[k].marks = IF k \in {l} THEN line[k].marks \cup marks
                                     ELSE line[k].marks
        <4>1. TokenTypeOK
          BY <1>1
        <4> QED BY ONLY <3>1, <4>1, MarkParts
      <3>5. ASSUME NEW k \in SignIns
            PROVE  /\ "forked" \in line'[k].marks <=> "forked" \in line[k].marks
                   /\ "closed" \in line'[k].marks =>
                         "closed" \in line[k].marks \/ (k = l /\ closing)
        BY <3>2, <3>3, <3>4
      <3> QED BY <3>2, <3>5
    <2> QED BY <2>1, <2>2
  <1>4. ASSUME closing
        PROVE  /\ \A s \in Tokens : Live(s)' => token[s].line # l
               /\ \A c \in TokenCalls : tcall[c].line # l
    BY <1>1, <1>2, <1>4 DEF UnforkedCarry, OneCarrier, Working
  <1> QED BY <1>1, <1>2, <1>3, <1>4, LosingKeeps DEF TokenTypeOK

LEMMA LogoutAllKeeps ==
    ASSUME TokenInv, NEW u \in Users, LogoutAll(u)
    PROVE  TokenInv'
  <1>1. /\ TokenTypeOK /\ UNCHANGED <<tcall, members, tfaults>>
    BY DEF LogoutAll, TokenInv
  <1>2. /\ token' \in [Tokens -> [state : TokenStates, line : SignIns \cup {None}]]
        /\ \A s \in Tokens :
              /\ token'[s].line = token[s].line
              /\ token'[s].state = "unissued" <=> token[s].state = "unissued"
              /\ Live(s)' <=> Live(s) /\ s \notin LogoutScope(u)
    BY <1>1, RevokedParts DEF LogoutAll
  <1>3. /\ line' \in [SignIns -> [user : Users \cup {None}, marks : SUBSET LineMarks]]
        /\ \A k \in SignIns : line'[k].user = line[k].user
        /\ \A k \in SignIns : "forked" \in line'[k].marks <=> "forked" \in line[k].marks
        /\ \A k \in SignIns : "closed" \in line'[k].marks =>
              "closed" \in line[k].marks \/ (line[k].user = u /\ Working(k) = {})
    BY <1>1 DEF LogoutAll, TokenTypeOK, LineMarks
  <1>4. ASSUME NEW k \in SignIns, line[k].user = u, Working(k) = {}
        PROVE  /\ \A s \in Tokens : Live(s)' => token[s].line # k
               /\ \A c \in TokenCalls : tcall[c].line # k
               /\ line[k].user # None
    BY <1>1, <1>2, <1>4 DEF Working, LogoutScope, LinesOf
  <1> QED BY <1>1, <1>2, <1>3, <1>4, LosingKeeps DEF TokenTypeOK

LEMMA ExpireKeeps ==
    ASSUME TokenInv, NEW t \in Tokens, Expire(t)
    PROVE  TokenInv'
  <1>1. /\ TokenTypeOK /\ UNCHANGED <<tcall, members, tfaults>>
    BY DEF Expire, TokenInv
  <1>2. /\ token' \in [Tokens -> [state : TokenStates, line : SignIns \cup {None}]]
        /\ \A s \in Tokens :
              /\ token'[s].line = token[s].line
              /\ token'[s].state = "unissued" <=> token[s].state = "unissued"
              /\ Live(s)' => Live(s)
    BY <1>1 DEF Expire, TokenTypeOK, TokenStates, Live
  <1>3. /\ line' \in [SignIns -> [user : Users \cup {None}, marks : SUBSET LineMarks]]
        /\ \A k \in SignIns : line'[k].user = line[k].user
        /\ \A k \in SignIns :
              /\ "forked" \in line'[k].marks <=> "forked" \in line[k].marks
              /\ "closed" \in line'[k].marks <=> "closed" \in line[k].marks
    BY <1>1, MarkEnded DEF Expire
  <1> QED BY <1>1, <1>2, <1>3, LosingKeeps DEF TokenTypeOK

LEMMA EraseKeeps ==
    ASSUME TokenInv, NEW u \in Users, EraseAccount(u)
    PROVE  TokenInv'
  <1>1. TokenTypeOK /\ Placed /\ UNCHANGED <<tcall, tfaults>> /\ members' \subseteq Users
    BY DEF EraseAccount, TokenInv, TokenTypeOK
  <1>2. /\ token' \in [Tokens -> [state : TokenStates, line : SignIns \cup {None}]]
        /\ \A s \in Tokens :
              /\ token'[s].line = token[s].line
              /\ token'[s].state = "unissued" <=> token[s].state = "unissued"
              /\ Live(s)' => Live(s)
    BY <1>1 DEF EraseAccount, TokenTypeOK, TokenStates, Live, Placed, LinesOf
  <1>3. /\ line' \in [SignIns -> [user : Users \cup {None}, marks : SUBSET LineMarks]]
        /\ \A k \in SignIns : line'[k].user = line[k].user
        /\ \A k \in SignIns :
              /\ "forked" \in line'[k].marks <=> "forked" \in line[k].marks
              /\ "closed" \in line'[k].marks <=> "closed" \in line[k].marks
    BY <1>1, MarkEnded DEF EraseAccount
  <1> QED BY <1>1, <1>2, <1>3, LosingKeeps DEF TokenTypeOK

LEMMA RestartKeeps ==
    ASSUME TokenInv, TokenRestart
    PROVE  TokenInv'
  <1>1. TokenTypeOK /\ UNCHANGED <<token, members>> /\ tfaults' \in Nat
    BY DEF TokenRestart, TokenInv, TokenTypeOK
  <1>2. /\ line' \in [SignIns -> [user : Users \cup {None}, marks : SUBSET LineMarks]]
        /\ \A k \in SignIns : line'[k].user = line[k].user
        /\ \A k \in SignIns :
              /\ "forked" \in line'[k].marks <=> "forked" \in line[k].marks
              /\ "closed" \in line'[k].marks <=> "closed" \in line[k].marks
    BY <1>1, MarkEnded DEF TokenRestart
  <1>3. tcall' = [c \in TokenCalls |-> TokenIdle]
    BY DEF TokenRestart
  <1> QED BY <1>1, <1>2, <1>3 DEF TokenInv, TokenTypeOK, Placed, UnforkedCarry, OneCarrier,
                                  ClosedIsEmpty, TokenIdle, Live

THEOREM TokenInvariant == TokenSpec => []TokenInv
  <1>1. TokenInv /\ [TokenNext]_tokenVars => TokenInv'
    <2> SUFFICES ASSUME TokenInv, [TokenNext]_tokenVars PROVE TokenInv'
      OBVIOUS
    <2>1. CASE UNCHANGED tokenVars
      BY <2>1 DEF tokenVars, TokenInv, TokenTypeOK, Placed, UnforkedCarry, OneCarrier,
                  ClosedIsEmpty, Live
    <2>2. CASE TokenNext
      BY <2>2, SignInKeeps, RefreshFindKeeps, IssueKeeps, RefreshRevokeKeeps, LogoutOneKeeps,
         ExpireKeeps, LogoutAllKeeps, EraseKeeps, RestartKeeps DEF TokenNext
    <2> QED BY <2>1, <2>2
  <1> QED BY TokenInvInit, <1>1, PTL DEF TokenSpec

-----------------------------------------------------------------------------
\* The specification's variables keep their types.
THEOREM TokenTypesHold == TokenSpec => []TokenTypeOK
  BY TokenInvariant, PTL DEF TokenInv

\* A sign-in has one usable refresh token at most, for every number of tokens
\* and of requests in progress, unless two refreshes presented the same one.
THEOREM OneLineHolds == TokenSpec => []OneLinePerSignIn
  <1>1. TokenInv => OneLinePerSignIn
    <2> SUFFICES ASSUME TokenInv, NEW t1 \in Tokens, NEW t2 \in Tokens, Live(t1), Live(t2),
                        token[t1].line = token[t2].line,
                        "forked" \notin line[token[t1].line].marks
                 PROVE  t1 = t2
      BY DEF OneLinePerSignIn
    <2>1. token[t1].line \in SignIns
      BY DEF TokenInv, Placed, Live
    <2> QED BY <2>1 DEF TokenInv, UnforkedCarry, OneCarrier
  <1> QED BY <1>1, TokenInvariant, PTL

\* Nothing of a line that was logged out with no refresh half-way is usable
\* again.
THEOREM LogoutHolds == TokenSpec => []LogoutIsFinal
  <1>1. TokenInv => LogoutIsFinal
    <2> SUFFICES ASSUME TokenInv, NEW t \in Tokens, Live(t)
                 PROVE  "closed" \notin line[token[t].line].marks
      BY DEF LogoutIsFinal
    <2>1. token[t].line \in SignIns
      BY DEF TokenInv, Placed, Live
    <2> QED BY <2>1 DEF TokenInv, ClosedIsEmpty
  <1> QED BY <1>1, TokenInvariant, PTL

-----------------------------------------------------------------------------
\* A sign-in nothing has ended is carried, and its account exists: an erasure,
\* which would make the next token impossible to issue, ends it.
Carried(l) ==
    \/ \E t \in Tokens : Live(t) /\ token[t].line = l
    \/ \E c \in TokenCalls : tcall[c].stage = "issue" /\ tcall[c].line = l

StaysInv ==
    \A l \in SignIns : line[l].user # None /\ "ended" \notin line[l].marks =>
        line[l].user \in members /\ Carried(l)

LEMMA StaysInit == TokenInit => StaysInv
  BY DEF TokenInit, StaysInv

\* Steps that end the lines they hurt.
LEMMA EndingKeeps ==
    ASSUME TokenInv, StaysInv, NEW hurt, Mark(hurt, {"ended"}),
           \A l \in SignIns \ hurt : line[l].user \in members => line[l].user \in members',
           \A l \in SignIns \ hurt : Carried(l) => Carried(l)'
    PROVE  StaysInv'
  <1> SUFFICES ASSUME NEW l \in SignIns, line'[l].user # None, "ended" \notin line'[l].marks
               PROVE  line'[l].user \in members' /\ Carried(l)'
    BY DEF StaysInv
  <1>1. {"ended"} \in SUBSET LineMarks /\ TokenTypeOK
    BY DEF LineMarks, TokenInv
  <1>2. /\ line'[l].user = line[l].user
        /\ line'[l].marks = IF l \in hurt THEN line[l].marks \cup {"ended"}
                            ELSE line[l].marks
    BY <1>1, MarkParts
  <1> QED BY <1>2 DEF StaysInv

LEMMA FaultStays ==
    ASSUME TokenInv, StaysInv, NEW c \in TokenCalls, TokenFault(c)
    PROVE  StaysInv'
  <1> DEFINE hurt == {tcall[c].line}
  <1>1. Mark(hurt, {"ended"}) /\ UNCHANGED <<token, members>>
    BY DEF TokenFault
  <1>2. \A l \in SignIns \ hurt : Carried(l) => Carried(l)'
    BY <1>1 DEF TokenFault, Carried, Live, TokenInv, TokenTypeOK
  <1> QED BY <1>1, <1>2, EndingKeeps

LEMMA SignInStays ==
    ASSUME TokenInv, StaysInv, NEW c \in TokenCalls, NEW k \in SignIns, NEW u \in Users,
           SignIn(c, k, u)
    PROVE  StaysInv'
  <1> SUFFICES ASSUME NEW l \in SignIns, line'[l].user # None, "ended" \notin line'[l].marks
               PROVE  line'[l].user \in members' /\ Carried(l)'
    BY DEF StaysInv
  <1>1. CASE l = k
    BY <1>1 DEF SignIn, Carried, TokenInv, TokenTypeOK
  <1>2. CASE l # k
    BY <1>2 DEF SignIn, StaysInv, Carried, Live, TokenInv, TokenTypeOK
  <1> QED BY <1>1, <1>2

\* Nor is the mark "forked".
LEMMA MarkForked ==
    ASSUME TokenTypeOK, NEW lines, Mark(lines, {"forked"})
    PROVE  \A l \in SignIns : /\ line'[l].user = line[l].user
                              /\ "ended" \in line'[l].marks <=> "ended" \in line[l].marks
  <1>1. {"forked"} \in SUBSET LineMarks
    BY DEF LineMarks
  <1>2. \A l \in SignIns :
            /\ line'[l].user = line[l].user
            /\ line'[l].marks = IF l \in lines THEN line[l].marks \cup {"forked"}
                                ELSE line[l].marks
    BY <1>1, MarkParts
  <1>3. ASSUME NEW l \in SignIns
        PROVE  "ended" \in line'[l].marks <=> "ended" \in line[l].marks
    <2>1. CASE l \in lines
      <3>1. line'[l].marks = line[l].marks \cup {"forked"} /\ "ended" # "forked"
        BY <1>2, <2>1
      <3> QED BY <3>1
    <2>2. CASE l \notin lines
      BY <1>2, <2>2
    <2> QED BY <2>1, <2>2
  <1> QED BY <1>2, <1>3

LEMMA RefreshFindStays ==
    ASSUME TokenInv, StaysInv, NEW c \in TokenCalls, NEW t \in Tokens, RefreshFind(c, t)
    PROVE  StaysInv'
  <1> DEFINE k == token[t].line
  <1>1. UNCHANGED <<token, members>> /\ tcall[c].stage = "idle" /\ TokenTypeOK
    BY DEF RefreshFind, TokenInv
  <1>2. \A l \in SignIns : Carried(l) => Carried(l)'
    BY <1>1 DEF RefreshFind, Carried, Live, TokenTypeOK
  <1>3. CASE Mark({k}, {"forked"})
    <2>1. \A l \in SignIns : /\ line'[l].user = line[l].user
                             /\ "ended" \in line'[l].marks <=> "ended" \in line[l].marks
      BY <1>1, <1>3, MarkForked
    <2> QED BY <1>1, <1>2, <2>1 DEF StaysInv
  <1>4. CASE UNCHANGED line
    BY <1>1, <1>2, <1>4 DEF StaysInv
  <1> QED BY <1>3, <1>4 DEF RefreshFind

\* The request that revokes a token goes on to issue the line's next one.
LEMMA RefreshRevokeStays ==
    ASSUME TokenInv, StaysInv, NEW c \in TokenCalls, RefreshRevoke(c)
    PROVE  StaysInv'
  <1>1. CASE TokenFault(c)
    BY <1>1, FaultStays
  <1>2. CASE /\ token' = Revoked(RefreshScope(tcall[c].given))
             /\ tcall' = [tcall EXCEPT ![c].stage = "issue"]
             /\ UNCHANGED <<line, members, tfaults>>
    <2>1. TokenTypeOK /\ tcall[c].stage = "revoke"
          /\ token[tcall[c].given].line = tcall[c].line
      BY DEF TokenInv, Placed, RefreshRevoke
    <2>2. \A t \in Tokens :
              /\ token'[t].line = token[t].line
              /\ Live(t)' <=> Live(t) /\ t \notin {tcall[c].given}
      BY <1>2, <2>1, RevokedParts DEF RefreshScope
    <2>3. ASSUME NEW l \in SignIns, Carried(l) PROVE Carried(l)'
      <3>1. CASE l = tcall[c].line
        <4>1. tcall'[c].stage = "issue" /\ tcall'[c].line = l
          BY <1>2, <2>1, <3>1 DEF TokenTypeOK
        <4> QED BY <4>1 DEF Carried
      <3>2. CASE l # tcall[c].line
        BY <1>2, <2>1, <2>2, <2>3, <3>2 DEF Carried, TokenTypeOK
      <3> QED BY <3>1, <3>2
    <2> QED BY <1>2, <2>3 DEF StaysInv
  <1> QED BY <1>1, <1>2 DEF RefreshRevoke

LEMMA IssueStays ==
    ASSUME TokenInv, StaysInv, NEW c \in TokenCalls, NEW t \in Tokens, Issue(c, t)
    PROVE  StaysInv'
  <1> DEFINE k == tcall[c].line
  <1>1. CASE TokenFault(c)
    BY <1>1, FaultStays
  <1>2. TokenTypeOK /\ tcall[c].stage = "issue" /\ k \in SignIns /\ line[k].user # None
    BY DEF Issue, TokenInv, Placed
  <1>3. CASE /\ line[k].user \notin members
             /\ tcall' = [tcall EXCEPT ![c] = TokenIdle]
             /\ UNCHANGED <<token, line, members, tfaults>>
    <2>1. ASSUME NEW l \in SignIns, l # k, Carried(l) PROVE Carried(l)'
      BY <1>2, <1>3, <2>1 DEF Carried, Live, TokenTypeOK
    <2> QED BY <1>2, <1>3, <2>1 DEF StaysInv
  <1>4. CASE /\ line[k].user \in members /\ token[t].state = "unissued"
             /\ token' = [token EXCEPT ![t] = [state |-> "live", line |-> k]]
             /\ tcall' = [tcall EXCEPT ![c] = TokenIdle]
             /\ UNCHANGED <<line, members, tfaults>>
    <2>1. ASSUME NEW l \in SignIns, Carried(l) PROVE Carried(l)'
      <3>1. CASE l = k
        <4>1. token'[t].state = "live" /\ token'[t].line = l
          BY <1>2, <1>4, <3>1 DEF TokenTypeOK
        <4> QED BY <4>1 DEF Carried, Live
      <3>2. CASE l # k
        BY <1>2, <1>4, <2>1, <3>2 DEF Carried, Live, TokenTypeOK
      <3> QED BY <3>1, <3>2
    <2> QED BY <1>4, <2>1 DEF StaysInv
  <1> QED BY <1>1, <1>3, <1>4 DEF Issue

LEMMA LogoutOneStays ==
    ASSUME TokenInv, StaysInv, NEW t \in Tokens, LogoutOne(t)
    PROVE  StaysInv'
  <1> DEFINE k == token[t].line
             marks == {"ended"} \cup
                IF Working(k) = {} /\ "forked" \notin line[k].marks THEN {"closed"} ELSE {}
  <1>1. TokenTypeOK /\ token' = Revoked({t}) /\ UNCHANGED <<tcall, members>>
    BY DEF LogoutOne, TokenInv
  <1>2. \A s \in Tokens :
            /\ token'[s].line = token[s].line
            /\ Live(s)' <=> Live(s) /\ s \notin {t}
    BY <1>1, RevokedParts
  <1>3. CASE ~Live(t)
    <2>1. UNCHANGED line
      BY <1>3 DEF LogoutOne
    <2> QED BY <1>1, <1>2, <1>3, <2>1 DEF StaysInv, Carried
  <1>4. CASE Live(t)
    <2>1. Mark({k}, marks) /\ marks \in SUBSET LineMarks
      BY <1>4 DEF LogoutOne, LineMarks
    <2>2. "ended" \in marks
      OBVIOUS
    <2> HIDE DEF marks, k
    <2>3. \A l \in SignIns :
              /\ line'[l].user = line[l].user
              /\ line'[l].marks = IF l \in {k} THEN line[l].marks \cup marks
                                  ELSE line[l].marks
      <3>1. TokenTypeOK
        BY <1>1
      <3> QED BY ONLY <2>1, <3>1, MarkParts
    <2>4. ASSUME NEW l \in SignIns, l # k, Carried(l) PROVE Carried(l)'
      BY <1>1, <1>2, <2>4 DEF Carried, k
    <2> QED BY <1>1, <2>2, <2>3, <2>4 DEF StaysInv
  <1> QED BY <1>3, <1>4

LEMMA LogoutAllStays ==
    ASSUME TokenInv, StaysInv, NEW u \in Users, LogoutAll(u)
    PROVE  StaysInv'
  <1>1. TokenTypeOK /\ token' = Revoked(LogoutScope(u)) /\ UNCHANGED <<tcall, members>>
    BY DEF LogoutAll, TokenInv
  <1>2. \A s \in Tokens :
            /\ token'[s].line = token[s].line
            /\ Live(s)' <=> Live(s) /\ s \notin LogoutScope(u)
    BY <1>1, RevokedParts
  <1>3. \A l \in SignIns : IF line[l].user # u THEN line'[l] = line[l]
                           ELSE "ended" \in line'[l].marks
    BY <1>1 DEF LogoutAll, TokenTypeOK
  <1>4. ASSUME NEW l \in SignIns, line[l].user # u, Carried(l) PROVE Carried(l)'
    BY <1>1, <1>2, <1>4 DEF Carried, LogoutScope, LinesOf
  <1> QED BY <1>1, <1>3, <1>4 DEF StaysInv

LEMMA ExpireStays ==
    ASSUME TokenInv, StaysInv, NEW t \in Tokens, Expire(t)
    PROVE  StaysInv'
  <1> DEFINE hurt == {token[t].line}
  <1>1. Mark(hurt, {"ended"}) /\ UNCHANGED <<tcall, members>>
    BY DEF Expire
  <1>2. \A l \in SignIns \ hurt : Carried(l) => Carried(l)'
    BY <1>1 DEF Expire, Carried, Live, TokenInv, TokenTypeOK
  <1> QED BY <1>1, <1>2, EndingKeeps

LEMMA EraseStays ==
    ASSUME TokenInv, StaysInv, NEW u \in Users, EraseAccount(u)
    PROVE  StaysInv'
  <1> DEFINE hurt == LinesOf(u)
  <1>1. Mark(hurt, {"ended"}) /\ UNCHANGED tcall /\ members' = members \ {u}
    BY DEF EraseAccount
  <1>2. \A l \in SignIns \ hurt : line[l].user \in members => line[l].user \in members'
    BY <1>1 DEF LinesOf
  <1>3. \A l \in SignIns \ hurt : Carried(l) => Carried(l)'
    BY <1>1 DEF EraseAccount, Carried, Live, TokenInv, TokenTypeOK
  <1> QED BY <1>1, <1>2, <1>3, EndingKeeps

LEMMA RestartStays ==
    ASSUME TokenInv, StaysInv, TokenRestart
    PROVE  StaysInv'
  <1> DEFINE hurt == {l \in SignIns : Working(l) # {}}
  <1>1. Mark(hurt, {"ended"}) /\ UNCHANGED <<token, members>>
    BY DEF TokenRestart
  <1>2. \A l \in SignIns \ hurt : Carried(l) => Carried(l)'
    BY <1>1 DEF Carried, Live, Working
  <1> HIDE DEF hurt
  <1> QED BY <1>1, <1>2, EndingKeeps

\* Nobody is signed out by refreshing, for every number of requests and every
\* bound on the faults.
THEOREM SignedInHolds == TokenSpec => []SignedInStays
  <1>1. TokenInv /\ StaysInv /\ [TokenNext]_tokenVars => StaysInv'
    <2> SUFFICES ASSUME TokenInv, StaysInv, [TokenNext]_tokenVars PROVE StaysInv'
      OBVIOUS
    <2>1. CASE UNCHANGED tokenVars
      BY <2>1 DEF tokenVars, StaysInv, Carried, Live
    <2>2. CASE TokenNext
      BY <2>2, SignInStays, RefreshFindStays, IssueStays, RefreshRevokeStays, LogoutOneStays,
         ExpireStays, LogoutAllStays, EraseStays, RestartStays DEF TokenNext
    <2> QED BY <2>1, <2>2
  <1>2. StaysInv => SignedInStays
    BY DEF StaysInv, SignedInStays, Carried, LiveOf
  <1> QED BY StaysInit, <1>1, <1>2, TokenInvariant, PTL DEF TokenSpec

-----------------------------------------------------------------------------
\* SignUp.
CallRecords ==
    [stage : {"idle", "provider", "lookup", "create", "profile", "rollback", "reread", "link"},
     ident : Idents \cup {None}, email : Emails \cup {None}, acct : Accounts \cup {None}]

Creating == {"profile", "rollback", "reread"}

\* A call that opens or undoes an account has one, for an identity it knows.
EnrolCallsSound ==
    \A c \in EnrolCalls :
        /\ ecall[c].stage \in {"provider", "reread", "link"} => ecall[c].ident \in Idents
        /\ ecall[c].stage \in Creating \cup {"link"} => ecall[c].acct \in Accounts

LinksSound == \A i \in Idents : link[i] # None => Present(link[i])

\* Nobody is let into an account that does not exist yet, and whoever is let
\* into one whose creator is busy is early.
OpenedSound ==
    \A i \in Idents : \A a \in opened[i] :
        /\ acct[a].state # "free"
        /\ \A c \in EnrolCalls :
              ecall[c].acct = a /\ ecall[c].stage \in Creating => a \in early

\* The calls of an identity whose calls do not overlap: one at a time, which
\* finds no link until it makes one, to the only account it opens.
OneAtATime ==
    \A i \in Idents : i \notin tangled =>
        /\ \A c, d \in EnrolCalls : ecall[c].ident = i /\ ecall[d].ident = i => c = d
        /\ \A c \in EnrolCalls :
              ecall[c].ident = i /\ ecall[c].stage \notin {"idle", "provider"} => link[i] = None
        /\ \A a \in opened[i] : Present(a) => link[i] = a

EnrolInv ==
    /\ EnrolTypeOK /\ EnrolCallsSound /\ LinksSound /\ OpenedSound /\ OneAtATime
    /\ EveryAccountHasProfile /\ OpenedStays

-----------------------------------------------------------------------------
USE PlatformAssumption, EnrolAssumption

LEMMA EnrolInvInit == EnrolInit => EnrolInv
  BY DEF EnrolInit, EnrolInv, EnrolTypeOK, EnrolCallsSound, LinksSound, OpenedSound, OneAtATime,
         EveryAccountHasProfile, OpenedStays, NoAcct, NoEnrol, Present, Creating

\* What one step does to the calls.
LEMMA StepParts ==
    ASSUME EnrolInv, NEW c \in EnrolCalls, NEW new \in CallRecords, EnrolStep(c, new)
    PROVE  /\ ecall' \in [EnrolCalls -> CallRecords]
           /\ \A d \in EnrolCalls : ecall'[d] = IF d = c THEN new ELSE ecall[d]
  BY DEF EnrolInv, EnrolTypeOK, EnrolStep, CallRecords

LEMMA IdleCall ==
    /\ NoEnrol \in CallRecords
    /\ NoEnrol.stage = "idle" /\ NoEnrol.ident = None /\ NoEnrol.acct = None
  BY DEF NoEnrol, CallRecords

LEMMA EnrolFaultType == ASSUME EnrolInv, EnrolFault PROVE efaults' \in Nat
  BY DEF EnrolInv, EnrolTypeOK, EnrolFault

\* A step of call c that only moves the call, and leaves it at no stage that
\* owes anything, or one it may be at.
LEMMA MoveKeeps ==
    ASSUME EnrolInv, NEW c \in EnrolCalls, NEW new \in CallRecords, EnrolStep(c, new),
           UNCHANGED <<acct, link, opened, early>>,
           spoiled' \subseteq Accounts, spoiled \subseteq spoiled', efaults' \in Nat,
           tangled' \subseteq Idents, tangled \subseteq tangled',
           new.stage \in {"provider", "reread", "link"} => new.ident \in Idents,
           new.stage \in Creating \cup {"link"} => new.acct \in Accounts,
           new.stage \in Creating => ecall[c].stage \in Creating /\ new.acct = ecall[c].acct,
           \/ new.ident = None
           \/ new.ident = ecall[c].ident
           \/ \A d \in EnrolCalls : ecall[d].ident = new.ident => new.ident \in tangled',
           \/ new.ident = None \/ new.stage \in {"idle", "provider"}
           \/ new.ident = ecall[c].ident /\ ecall[c].stage \notin {"idle", "provider"}
           \/ link[new.ident] = None,
           ecall[c].stage \in {"profile", "rollback"} =>
              \/ new.acct = ecall[c].acct /\ new.stage \in {"profile", "rollback"}
              \/ ecall[c].acct \in spoiled'
              \/ ~Present(ecall[c].acct) \/ acct[ecall[c].acct].profile
    PROVE  EnrolInv'
  <1>1. /\ ecall' \in [EnrolCalls -> CallRecords]
        /\ \A d \in EnrolCalls : ecall'[d] = IF d = c THEN new ELSE ecall[d]
    BY StepParts
  <1>2. EnrolTypeOK'
    BY <1>1 DEF EnrolInv, EnrolTypeOK, CallRecords
  <1>3. EnrolCallsSound'
    BY <1>1 DEF EnrolInv, EnrolCallsSound
  <1>4. LinksSound' /\ OpenedStays'
    BY DEF EnrolInv, LinksSound, OpenedStays, Present
  <1>5. OpenedSound'
    BY <1>1 DEF EnrolInv, OpenedSound
  <1>6. OneAtATime'
    <2> SUFFICES ASSUME NEW i \in Idents, i \notin tangled'
                 PROVE  /\ \A b, d \in EnrolCalls :
                              ecall'[b].ident = i /\ ecall'[d].ident = i => b = d
                        /\ \A b \in EnrolCalls :
                              ecall'[b].ident = i /\ ecall'[b].stage \notin {"idle", "provider"}
                                 => link[i] = None
                        /\ \A a \in opened[i] : Present(a) => link[i] = a
      BY DEF OneAtATime, Present
    <2>1. /\ i \notin tangled /\ i # None
          /\ \A b, d \in EnrolCalls : ecall[b].ident = i /\ ecall[d].ident = i => b = d
          /\ \A b \in EnrolCalls :
                ecall[b].ident = i /\ ecall[b].stage \notin {"idle", "provider"} => link[i] = None
          /\ \A a \in opened[i] : Present(a) => link[i] = a
      BY DEF EnrolInv, OneAtATime
    <2>2. \A b, d \in EnrolCalls : ecall'[b].ident = i /\ ecall'[d].ident = i => b = d
      BY <1>1, <2>1
    <2>3. \A b \in EnrolCalls :
             ecall'[b].ident = i /\ ecall'[b].stage \notin {"idle", "provider"} => link[i] = None
      BY <1>1, <2>1
    <2> QED BY <2>1, <2>2, <2>3
  <1>7. EveryAccountHasProfile'
    <2> SUFFICES ASSUME NEW a \in Accounts, Present(a), ~acct[a].profile, a \notin spoiled'
                 PROVE  \E d \in EnrolCalls :
                           ecall'[d].acct = a /\ ecall'[d].stage \in {"profile", "rollback"}
      BY DEF EveryAccountHasProfile, Present
    <2>1. PICK d \in EnrolCalls : ecall[d].acct = a /\ ecall[d].stage \in {"profile", "rollback"}
      BY DEF EnrolInv, EveryAccountHasProfile
    <2>2. CASE d # c
      BY <1>1, <2>1, <2>2
    <2>3. CASE d = c
      BY <1>1, <2>1, <2>3
    <2> QED BY <2>2, <2>3
  <1> QED BY <1>2, <1>3, <1>4, <1>5, <1>6, <1>7 DEF EnrolInv

\* A call that ends let into the account its identity is linked to by then,
\* and does so unless another call overlapped.
LEMMA OpensKeeps ==
    ASSUME EnrolInv, NEW c \in EnrolCalls, NEW i \in Idents, NEW a \in Accounts, Present(a),
           ecall[c].ident = i, ecall[c].stage \notin Creating, Opens(c, i, a),
           link' = [link EXCEPT ![i] = IF @ = None THEN a ELSE @],
           i \notin tangled => link[i] \in {None, a},
           UNCHANGED <<acct, spoiled, tangled>>, efaults' \in Nat
    PROVE  EnrolInv'
  <1>1. /\ ecall' \in [EnrolCalls -> CallRecords]
        /\ \A d \in EnrolCalls : ecall'[d] = IF d = c THEN NoEnrol ELSE ecall[d]
    BY StepParts, IdleCall DEF Opens
  <1>2. /\ link' \in [Idents -> Accounts \cup {None}]
        /\ \A j \in Idents : j # i => link'[j] = link[j]
        /\ link'[i] = IF link[i] = None THEN a ELSE link[i]
    BY DEF EnrolInv, EnrolTypeOK
  <1>3. /\ opened' \in [Idents -> SUBSET Accounts]
        /\ \A j \in Idents : j # i => opened'[j] = opened[j]
        /\ opened'[i] = opened[i] \cup {a}
    BY DEF Opens, EnrolInv, EnrolTypeOK
  <1>4. /\ early' \subseteq Accounts /\ early \subseteq early'
        /\ \A d \in EnrolCalls : d # c /\ ecall[d].acct = a /\ ecall[d].stage \in Creating
              => a \in early'
    BY DEF Opens, EnrolInv, EnrolTypeOK, Creating
  <1>5. EnrolTypeOK'
    BY <1>1, <1>2, <1>3, <1>4 DEF EnrolInv, EnrolTypeOK, CallRecords
  <1>6. EnrolCallsSound'
    BY <1>1, IdleCall DEF EnrolInv, EnrolCallsSound, Creating
  <1>7. LinksSound'
    BY <1>2 DEF EnrolInv, LinksSound, Present
  <1>8. OpenedSound'
    <2> SUFFICES ASSUME NEW j \in Idents, NEW b \in opened'[j]
                 PROVE  /\ acct[b].state # "free"
                        /\ \A d \in EnrolCalls :
                              ecall'[d].acct = b /\ ecall'[d].stage \in Creating => b \in early'
      BY DEF OpenedSound
    <2>1. CASE j = i /\ b = a
      BY <1>1, <1>4, <2>1, IdleCall DEF Present, Creating
    <2>2. CASE b \in opened[j]
      BY <1>1, <1>4, <2>2, IdleCall DEF EnrolInv, OpenedSound, Creating
    <2> QED BY <1>3, <2>1, <2>2
  <1>9. OneAtATime'
    <2> SUFFICES ASSUME NEW j \in Idents, j \notin tangled
                 PROVE  /\ \A b, d \in EnrolCalls :
                              ecall'[b].ident = j /\ ecall'[d].ident = j => b = d
                        /\ \A b \in EnrolCalls :
                              ecall'[b].ident = j /\ ecall'[b].stage \notin {"idle", "provider"}
                                 => link'[j] = None
                        /\ \A b \in opened'[j] : Present(b) => link'[j] = b
      BY DEF OneAtATime, Present
    <2>1. /\ \A b, d \in EnrolCalls : ecall[b].ident = j /\ ecall[d].ident = j => b = d
          /\ \A b \in EnrolCalls :
                ecall[b].ident = j /\ ecall[b].stage \notin {"idle", "provider"} => link[j] = None
          /\ \A b \in opened[j] : Present(b) => link[j] = b
          /\ opened[j] \subseteq Accounts
      BY DEF EnrolInv, OneAtATime, EnrolTypeOK
    <2>2. CASE j # i
      BY <1>1, <1>2, <1>3, <2>1, <2>2, IdleCall
    <2>3. CASE j = i
      <3>1. \A b \in EnrolCalls : ecall'[b].ident # i
        BY <1>1, <2>1, <2>3, IdleCall
      <3>2. \A b \in opened[i] : Present(b) => link'[i] = b
        BY <1>2, <2>1, <2>3
      <3>3. link'[i] = a
        BY <1>2, <2>3
      <3> QED BY <1>3, <2>3, <3>1, <3>2, <3>3
    <2> QED BY <2>2, <2>3
  <1>10. EveryAccountHasProfile'
    BY <1>1 DEF EnrolInv, EveryAccountHasProfile, Present, Creating
  <1>11. OpenedStays'
    BY <1>3, <1>4 DEF EnrolInv, OpenedStays, Present
  <1> QED BY <1>5, <1>6, <1>7, <1>8, <1>9, <1>10, <1>11 DEF EnrolInv

LEMMA RegisterKeeps ==
    ASSUME EnrolInv, NEW c \in EnrolCalls, NEW e \in Emails, Register(c, e)
    PROVE  EnrolInv'
  <1> DEFINE new == [NoEnrol EXCEPT !.stage = "lookup", !.email = e]
  <1>1. new \in CallRecords /\ new.stage = "lookup" /\ new.ident = None
    BY DEF NoEnrol, CallRecords
  <1>2. EnrolStep(c, new) /\ ecall[c].stage = "idle"
    BY DEF Register
  <1> HIDE DEF new
  <1> QED BY <1>1, <1>2, MoveKeeps DEF Register, EnrolInv, EnrolTypeOK, Creating

LEMMA ComeWithKeeps ==
    ASSUME EnrolInv, NEW c \in EnrolCalls, NEW i \in Idents, NEW e \in Emails \cup {None},
           ComeWith(c, i, e)
    PROVE  EnrolInv'
  <1> DEFINE new == [NoEnrol EXCEPT !.stage = "provider", !.ident = i, !.email = e]
  <1>1. new \in CallRecords /\ new.stage = "provider" /\ new.ident = i
    BY DEF NoEnrol, CallRecords
  <1>2. EnrolStep(c, new) /\ ecall[c].stage = "idle"
    BY DEF ComeWith
  <1>3. /\ tangled' \subseteq Idents /\ tangled \subseteq tangled'
        /\ \A d \in EnrolCalls : ecall[d].ident = i => i \in tangled'
    BY DEF ComeWith, EnrolInv, EnrolTypeOK
  <1> HIDE DEF new
  <1> QED BY <1>1, <1>2, <1>3, MoveKeeps DEF ComeWith, EnrolInv, EnrolTypeOK, Creating

LEMMA ProviderLookupKeeps ==
    ASSUME EnrolInv, NEW c \in EnrolCalls, ProviderLookup(c)
    PROVE  EnrolInv'
  <1>1. PICK i \in Idents : i = ecall[c].ident
    BY DEF ProviderLookup, EnrolInv, EnrolCallsSound
  <1>2. /\ ecall[c].stage = "provider" /\ EnrolTypeOK /\ efaults' \in Nat
        /\ UNCHANGED <<acct, link, spoiled, tangled>>
        /\ ecall[c] \in CallRecords
    BY DEF ProviderLookup, EnrolInv, EnrolTypeOK, CallRecords
  <1>3. PICK a \in Accounts \cup {None} : a = link[i]
    BY <1>2 DEF EnrolTypeOK
  <1>4. CASE a # None /\ Opens(c, i, a)
    <2>1. a \in Accounts /\ Present(a) /\ ecall[c].stage \notin Creating
      BY <1>2, <1>3, <1>4 DEF EnrolInv, LinksSound, Creating
    <2>2. link' = [link EXCEPT ![i] = IF @ = None THEN a ELSE @]
      BY <1>2, <1>3, <1>4 DEF EnrolTypeOK
    <2> QED BY <1>1, <1>2, <1>3, <1>4, <2>1, <2>2, OpensKeeps
  <1>5. CASE /\ a = None /\ UNCHANGED <<opened, early>>
             /\ EnrolStep(c, IF ecall[c].email = None THEN NoEnrol
                             ELSE [ecall[c] EXCEPT !.stage = "lookup"])
    <2> DEFINE new == IF ecall[c].email = None THEN NoEnrol
                      ELSE [ecall[c] EXCEPT !.stage = "lookup"]
    <2>1. /\ new \in CallRecords /\ new.stage \in {"idle", "lookup"}
          /\ new.ident = None \/ new.ident = i
      BY <1>1, <1>2, IdleCall DEF CallRecords
    <2>2. EnrolStep(c, new)
      BY <1>5
    <2> HIDE DEF new
    <2> QED BY <1>1, <1>2, <1>3, <1>5, <2>1, <2>2, MoveKeeps DEF EnrolTypeOK, Creating
  <1> QED BY <1>1, <1>3, <1>4, <1>5 DEF ProviderLookup, FindUserByProvider

\* After a query that failed the call is over, or goes on to the deletion.
LEMMA QueryFailsKeeps ==
    ASSUME EnrolInv, NEW c \in EnrolCalls, QueryFails(c),
           ecall[c].stage \in {"profile", "reread", "link"},
           UNCHANGED <<acct, link, opened, spoiled, tangled, early>>, efaults' \in Nat
    PROVE  EnrolInv'
  <1> DEFINE new == IF ecall[c].stage = "link" THEN NoEnrol
                    ELSE [ecall[c] EXCEPT !.stage = "rollback"]
  <1>1. EnrolTypeOK /\ ecall[c] \in CallRecords
    BY DEF EnrolInv, EnrolTypeOK, CallRecords
  <1>2. EnrolStep(c, new)
    <2>1. AfterFailure(ecall[c].stage) = IF ecall[c].stage = "link" THEN "idle" ELSE "rollback"
      BY DEF AfterFailure
    <2> QED BY <1>1, <2>1 DEF QueryFails, CallRecords
  <1>3. CASE ecall[c].stage = "link"
    <2>1. new = NoEnrol
      BY <1>3
    <2> HIDE DEF new
    <2> QED BY <1>1, <1>2, <1>3, <2>1, IdleCall, MoveKeeps DEF EnrolTypeOK, Creating
  <1>4. CASE ecall[c].stage \in {"profile", "reread"}
    <2>1. /\ new \in CallRecords /\ new.stage = "rollback"
          /\ new.ident = ecall[c].ident /\ new.acct = ecall[c].acct
      BY <1>1, <1>4 DEF CallRecords
    <2>2. new.acct \in Accounts
      BY <1>4, <2>1 DEF EnrolInv, EnrolCallsSound, Creating
    <2> HIDE DEF new
    <2> QED BY <1>1, <1>2, <1>4, <2>1, <2>2, MoveKeeps DEF EnrolTypeOK, Creating
  <1> QED BY <1>3, <1>4

LEMMA FindByEmailKeeps ==
    ASSUME EnrolInv, NEW c \in EnrolCalls, FindByEmail(c)
    PROVE  EnrolInv'
  <1>1. /\ EnrolTypeOK /\ ecall[c] \in CallRecords /\ ecall[c].stage = "lookup"
        /\ UNCHANGED <<acct, link, opened, spoiled, tangled, early, efaults>>
    BY DEF FindByEmail, EnrolInv, EnrolTypeOK, CallRecords
  <1>2. PICK new \in CallRecords :
            /\ EnrolStep(c, new)
            /\ new.stage \in {"idle", "create", "link"}
            /\ new.ident = None \/ new.ident = ecall[c].ident
            /\ new.stage = "link" => new.ident \in Idents /\ new.acct \in Accounts
    <2>1. CASE EnrolStep(c, [ecall[c] EXCEPT !.stage = "create"])
      <3>1. [ecall[c] EXCEPT !.stage = "create"] \in CallRecords
        BY <1>1 DEF CallRecords
      <3>2. /\ [ecall[c] EXCEPT !.stage = "create"].stage = "create"
            /\ [ecall[c] EXCEPT !.stage = "create"].ident = ecall[c].ident
        BY <1>1 DEF CallRecords
      <3> QED BY <2>1, <3>1, <3>2
    <2>2. CASE EnrolStep(c, NoEnrol)
      BY <2>2, IdleCall
    <2>3. ASSUME NEW a \in WithEmail(ecall[c].email), ecall[c].ident # None,
                 EnrolStep(c, [ecall[c] EXCEPT !.stage = "link", !.acct = a])
          PROVE  \E new \in CallRecords :
                    /\ EnrolStep(c, new)
                    /\ new.stage \in {"idle", "create", "link"}
                    /\ new.ident = None \/ new.ident = ecall[c].ident
                    /\ new.stage = "link" => new.ident \in Idents /\ new.acct \in Accounts
      <3> DEFINE new == [ecall[c] EXCEPT !.stage = "link", !.acct = a]
      <3>1. a \in Accounts
        BY DEF WithEmail
      <3>2. /\ new \in CallRecords /\ new.stage = "link" /\ new.acct = a
            /\ new.ident = ecall[c].ident /\ new.ident \in Idents
        BY <1>1, <2>3, <3>1 DEF CallRecords
      <3>3. EnrolStep(c, new)
        BY <2>3
      <3> HIDE DEF new
      <3> QED BY <3>1, <3>2, <3>3
    <2> QED BY <2>1, <2>2, <2>3 DEF FindByEmail
  <1> QED BY <1>1, <1>2, MoveKeeps DEF EnrolTypeOK, Creating

\* An account starts with its creator at work on the profile, or spoiled.
LEMMA CreateKeeps ==
    ASSUME EnrolInv, NEW c \in EnrolCalls, NEW a \in Accounts, Create(c, a)
    PROVE  EnrolInv'
  <1>1. /\ EnrolTypeOK /\ ecall[c] \in CallRecords /\ ecall[c].stage = "create"
        /\ acct[a].state = "free"
        /\ UNCHANGED <<link, opened, tangled, early>>
    BY DEF Create, EnrolInv, EnrolTypeOK, CallRecords
  <1>2. CASE EnrolStep(c, NoEnrol) /\ UNCHANGED <<acct, spoiled, efaults>>
    BY <1>1, <1>2, IdleCall, MoveKeeps DEF EnrolTypeOK, Creating
  <1>3. ASSUME acct' = [acct EXCEPT ![a] =
                   [state |-> "present", email |-> ecall[c].email, profile |-> FALSE]],
               NEW new \in CallRecords, EnrolStep(c, new),
               spoiled \subseteq spoiled', spoiled' \subseteq Accounts, efaults' \in Nat,
               \/ new.stage = "profile" /\ new.acct = a /\ new.ident = ecall[c].ident
               \/ new.stage = "idle" /\ new.ident = None /\ a \in spoiled'
        PROVE  EnrolInv'
    <2>1. /\ new \in CallRecords
          /\ \/ new.stage = "profile" /\ new.acct = a /\ new.ident = ecall[c].ident
             \/ new.stage = "idle" /\ new.ident = None /\ a \in spoiled'
          /\ spoiled \subseteq spoiled' /\ spoiled' \subseteq Accounts /\ efaults' \in Nat
      BY <1>3
    <2>3. /\ ecall' \in [EnrolCalls -> CallRecords]
          /\ \A d \in EnrolCalls : ecall'[d] = IF d = c THEN new ELSE ecall[d]
      BY <1>3, StepParts
    <2>4. /\ acct' \in [Accounts -> [state : {"free", "present", "gone"},
                                     email : Emails \cup {None}, profile : BOOLEAN]]
          /\ acct'[a].state = "present"
          /\ \A b \in Accounts : b # a => acct'[b] = acct[b]
      BY <1>1, <1>3 DEF EnrolTypeOK, CallRecords
    <2>5. EnrolTypeOK' /\ EnrolCallsSound'
      BY <1>1, <2>1, <2>3, <2>4 DEF EnrolInv, EnrolTypeOK, EnrolCallsSound, CallRecords, Creating
    <2>6. \A i \in Idents : opened[i] \subseteq Accounts /\ a \notin opened[i]
      BY <1>1 DEF EnrolInv, EnrolTypeOK, OpenedSound
    <2>7. LinksSound'
      BY <1>1, <2>4 DEF EnrolInv, EnrolTypeOK, LinksSound, Present
    <2>8. OpenedSound'
      <3> SUFFICES ASSUME NEW i \in Idents, NEW b \in opened[i]
                   PROVE  /\ acct'[b].state # "free"
                          /\ \A d \in EnrolCalls :
                                ecall'[d].acct = b /\ ecall'[d].stage \in Creating => b \in early
        BY <1>1 DEF OpenedSound
      <3>1. /\ b \in Accounts /\ b # a /\ acct'[b] = acct[b] /\ acct[b].state # "free"
            /\ \A d \in EnrolCalls :
                  ecall[d].acct = b /\ ecall[d].stage \in Creating => b \in early
        BY <2>4, <2>6 DEF EnrolInv, OpenedSound
      <3>2. ASSUME NEW d \in EnrolCalls, ecall'[d].acct = b, ecall'[d].stage \in Creating
            PROVE  ecall'[d] = ecall[d]
        BY <2>1, <2>3, <3>1, <3>2 DEF Creating
      <3> QED BY <3>1, <3>2
    <2>9. OneAtATime'
      <3>1. ASSUME NEW i \in Idents, NEW b \in opened[i], Present(b)' PROVE Present(b)
        BY <2>4, <2>6, <3>1 DEF Present
      <3> QED BY <1>1, <2>1, <2>3, <3>1 DEF EnrolInv, OneAtATime
    <2>10. EveryAccountHasProfile'
      <3> SUFFICES ASSUME NEW b \in Accounts, Present(b)', ~acct'[b].profile, b \notin spoiled'
                   PROVE  \E d \in EnrolCalls :
                             ecall'[d].acct = b /\ ecall'[d].stage \in {"profile", "rollback"}
        BY <1>1 DEF EveryAccountHasProfile
      <3>1. CASE b = a
        BY <2>1, <2>3, <3>1
      <3>2. CASE b # a
        <4>1. PICK d \in EnrolCalls :
                  ecall[d].acct = b /\ ecall[d].stage \in {"profile", "rollback"}
          BY <2>1, <2>4, <3>2 DEF EnrolInv, EveryAccountHasProfile, Present
        <4>2. d # c /\ ecall'[d] = ecall[d]
          BY <1>1, <2>3, <4>1
        <4> QED BY <4>1, <4>2
      <3> QED BY <3>1, <3>2
    <2>11. OpenedStays'
      BY <1>1, <2>4, <2>6 DEF EnrolInv, OpenedStays, Present
    <2> QED BY <2>5, <2>7, <2>8, <2>9, <2>10, <2>11 DEF EnrolInv
  <1>4. CASE /\ acct' = [acct EXCEPT ![a] =
                   [state |-> "present", email |-> ecall[c].email, profile |-> FALSE]]
             /\ EnrolStep(c, [ecall[c] EXCEPT !.stage = "profile", !.acct = a])
             /\ UNCHANGED <<spoiled, efaults>>
    <2> DEFINE new == [ecall[c] EXCEPT !.stage = "profile", !.acct = a]
    <2>1. /\ new \in CallRecords /\ new.stage = "profile" /\ new.acct = a
          /\ new.ident = ecall[c].ident
      BY <1>1 DEF CallRecords
    <2>2. EnrolStep(c, new)
      BY <1>4
    <2> HIDE DEF new
    <2> QED BY <1>1, <1>3, <1>4, <2>1, <2>2 DEF EnrolTypeOK
  <1>5. CASE /\ acct' = [acct EXCEPT ![a] =
                   [state |-> "present", email |-> ecall[c].email, profile |-> FALSE]]
             /\ EnrolFault /\ spoiled' = spoiled \cup {a} /\ EnrolStep(c, NoEnrol)
    <2>1. /\ efaults' \in Nat /\ spoiled \subseteq spoiled' /\ spoiled' \subseteq Accounts
          /\ a \in spoiled'
      BY <1>1, <1>5, EnrolFaultType DEF EnrolTypeOK
    <2> QED BY <1>3, <1>5, <2>1, IdleCall
  <1>6. \/ EnrolStep(c, NoEnrol) /\ UNCHANGED <<acct, spoiled, efaults>>
        \/ /\ acct' = [acct EXCEPT ![a] =
                 [state |-> "present", email |-> ecall[c].email, profile |-> FALSE]]
           /\ \/ /\ EnrolStep(c, [ecall[c] EXCEPT !.stage = "profile", !.acct = a])
                 /\ UNCHANGED <<spoiled, efaults>>
              \/ /\ EnrolFault /\ spoiled' = spoiled \cup {a}
                 /\ EnrolStep(c, NoEnrol)
    BY Zenon DEF Create
  <1> QED BY <1>2, <1>4, <1>5, <1>6

LEMMA CreateUserProfileKeeps ==
    ASSUME EnrolInv, NEW c \in EnrolCalls, CreateUserProfile(c)
    PROVE  EnrolInv'
  <1>1. PICK a \in Accounts : a = ecall[c].acct
    BY DEF CreateUserProfile, EnrolInv, EnrolCallsSound, Creating
  <1>2. /\ EnrolTypeOK /\ ecall[c] \in CallRecords /\ ecall[c].stage = "profile"
        /\ UNCHANGED <<link, opened, spoiled, tangled, early>>
    BY DEF CreateUserProfile, EnrolInv, EnrolTypeOK, CallRecords
  <1>3. CASE /\ Present(a) /\ acct' = [acct EXCEPT ![a].profile = TRUE] /\ UNCHANGED efaults
             /\ EnrolStep(c, IF ecall[c].ident = None THEN NoEnrol
                             ELSE [ecall[c] EXCEPT !.stage = "reread"])
    <2> DEFINE new == IF ecall[c].ident = None THEN NoEnrol
                      ELSE [ecall[c] EXCEPT !.stage = "reread"]
    <2>1. /\ new \in CallRecords
          /\ \/ new.stage = "idle" /\ new.ident = None
             \/ /\ new.stage = "reread" /\ new.ident = ecall[c].ident
                /\ new.ident \in Idents /\ new.acct = a
      <3>1. CASE ecall[c].ident = None
        BY <3>1, IdleCall
      <3>2. CASE ecall[c].ident # None
        BY <1>1, <1>2, <3>2 DEF CallRecords
      <3> QED BY <3>1, <3>2
    <2>2. EnrolStep(c, new)
      BY <1>3
    <2> HIDE DEF new
    <2>3. /\ ecall' \in [EnrolCalls -> CallRecords]
          /\ \A d \in EnrolCalls : ecall'[d] = IF d = c THEN new ELSE ecall[d]
      BY <2>1, <2>2, StepParts
    <2>4. /\ acct' \in [Accounts -> [state : {"free", "present", "gone"},
                                     email : Emails \cup {None}, profile : BOOLEAN]]
          /\ acct'[a].profile = TRUE
          /\ \A b \in Accounts : acct'[b].state = acct[b].state /\ (b # a => acct'[b] = acct[b])
      <3> DEFINE made == [acct[a] EXCEPT !.profile = TRUE]
      <3>1. acct[a] \in [state : {"free", "present", "gone"},
                        email : Emails \cup {None}, profile : BOOLEAN]
        BY <1>2 DEF EnrolTypeOK
      <3>2. /\ made \in [state : {"free", "present", "gone"},
                         email : Emails \cup {None}, profile : BOOLEAN]
            /\ made.state = acct[a].state /\ made.profile = TRUE
        BY <3>1
      <3>3. acct' = [acct EXCEPT ![a] = made]
        BY <1>3
      <3> HIDE DEF made
      <3> QED BY <1>2, <3>2, <3>3 DEF EnrolTypeOK
    <2>5. EnrolTypeOK' /\ EnrolCallsSound'
      <3>1. EnrolTypeOK'
        BY <1>2, <1>3, <2>3, <2>4 DEF EnrolTypeOK, CallRecords
      <3>2. EnrolCallsSound
        BY DEF EnrolInv
      <3>3. EnrolCallsSound'
        BY <2>1, <2>3, <3>2 DEF EnrolCallsSound, Creating
      <3> QED BY <3>1, <3>3
    <2>6. \A i \in Idents : opened[i] \subseteq Accounts /\ link[i] \in Accounts \cup {None}
      BY <1>2 DEF EnrolTypeOK
    <2>7. LinksSound'
      BY <1>2, <2>4, <2>6 DEF EnrolInv, LinksSound, Present
    <2>8. OpenedSound'
      BY <1>1, <1>2, <2>1, <2>3, <2>4, <2>6 DEF EnrolInv, OpenedSound, Creating
    <2>9. OneAtATime'
      <3>1. ASSUME NEW i \in Idents, NEW b \in opened[i], Present(b)' PROVE Present(b)
        BY <2>4, <2>6, <3>1 DEF Present
      <3> QED BY <1>2, <2>1, <2>3, <3>1 DEF EnrolInv, OneAtATime
    <2>10. EveryAccountHasProfile'
      <3> SUFFICES ASSUME NEW b \in Accounts, Present(b)', ~acct'[b].profile, b \notin spoiled
                   PROVE  \E d \in EnrolCalls :
                             ecall'[d].acct = b /\ ecall'[d].stage \in {"profile", "rollback"}
        BY <1>2 DEF EveryAccountHasProfile
      <3>1. b # a
        BY <2>4
      <3>2. PICK d \in EnrolCalls :
                ecall[d].acct = b /\ ecall[d].stage \in {"profile", "rollback"}
        BY <2>4, <3>1 DEF EnrolInv, EveryAccountHasProfile, Present
      <3> QED BY <1>1, <2>3, <3>1, <3>2
    <2>11. OpenedStays'
      BY <1>2, <2>4, <2>6 DEF EnrolInv, OpenedStays, Present
    <2> QED BY <2>5, <2>7, <2>8, <2>9, <2>10, <2>11 DEF EnrolInv
  <1>4. CASE /\ Present(a) => EnrolFault
             /\ ~Present(a) => UNCHANGED efaults
             /\ QueryFails(c) /\ UNCHANGED acct
    <2>1. efaults' \in Nat
      BY <1>2, <1>4, EnrolFaultType DEF EnrolTypeOK
    <2> QED BY <1>2, <1>4, <2>1, QueryFailsKeeps
  <1> QED BY <1>1, <1>3, <1>4 DEF CreateUserProfile

LEMMA RemovedParts ==
    ASSUME EnrolInv, NEW a \in Accounts
    PROVE  /\ Removed(a) \in [Accounts -> [state : {"free", "present", "gone"},
                                           email : Emails \cup {None}, profile : BOOLEAN]]
           /\ Removed(a)[a].state = "gone"
           /\ \A b \in Accounts : b # a => Removed(a)[b] = acct[b]
           /\ Unlinked(a) \in [Idents -> Accounts \cup {None}]
           /\ \A i \in Idents : Unlinked(a)[i] = IF link[i] = a THEN None ELSE link[i]
  BY DEF EnrolInv, EnrolTypeOK, Removed, Unlinked, NoAcct

\* Whoever was let into the account a rollback deletes is early.
LEMMA RollbackKeeps ==
    ASSUME EnrolInv, NEW c \in EnrolCalls, Rollback(c)
    PROVE  EnrolInv'
  <1>1. PICK a \in Accounts : a = ecall[c].acct
    BY DEF Rollback, EnrolInv, EnrolCallsSound, Creating
  <1>2. /\ EnrolTypeOK /\ ecall[c].stage = "rollback" /\ EnrolStep(c, NoEnrol)
        /\ UNCHANGED <<opened, tangled, early>>
    BY DEF Rollback, EnrolInv
  <1>3. CASE EnrolFault /\ spoiled' = spoiled \cup {a} /\ UNCHANGED <<acct, link>>
    <2>1. efaults' \in Nat
      BY <1>3, EnrolFaultType
    <2> QED BY <1>1, <1>2, <1>3, <2>1, IdleCall, MoveKeeps DEF EnrolTypeOK, Creating
  <1>4. CASE acct' = Removed(a) /\ link' = Unlinked(a) /\ UNCHANGED <<spoiled, efaults>>
    <2>1. /\ ecall' \in [EnrolCalls -> CallRecords]
          /\ \A d \in EnrolCalls : ecall'[d] = IF d = c THEN NoEnrol ELSE ecall[d]
      BY <1>2, IdleCall, StepParts
    <2>2. /\ acct' \in [Accounts -> [state : {"free", "present", "gone"},
                                     email : Emails \cup {None}, profile : BOOLEAN]]
          /\ acct'[a].state = "gone" /\ \A b \in Accounts : b # a => acct'[b] = acct[b]
          /\ link' \in [Idents -> Accounts \cup {None}]
          /\ \A i \in Idents : link'[i] = IF link[i] = a THEN None ELSE link[i]
      BY <1>4, RemovedParts
    <2>3. EnrolTypeOK' /\ EnrolCallsSound'
      BY <1>2, <1>4, <2>1, <2>2, IdleCall
         DEF EnrolInv, EnrolTypeOK, EnrolCallsSound, CallRecords, Creating
    <2>4. \A i \in Idents : opened[i] \subseteq Accounts /\ link[i] \in Accounts \cup {None}
      BY <1>2 DEF EnrolTypeOK
    <2>5. LinksSound'
      BY <2>2, <2>4 DEF EnrolInv, LinksSound, Present
    <2>6. OpenedSound'
      BY <1>2, <2>1, <2>2, <2>4, IdleCall DEF EnrolInv, OpenedSound, Creating
    <2>7. OneAtATime'
      <3>1. ASSUME NEW i \in Idents, NEW b \in opened[i], Present(b)'
            PROVE  b # a /\ Present(b)
        BY <2>2, <2>4, <3>1 DEF Present
      <3> QED BY <1>2, <2>1, <2>2, <2>4, <3>1, IdleCall DEF EnrolInv, OneAtATime
    <2>8. EveryAccountHasProfile'
      <3> SUFFICES ASSUME NEW b \in Accounts, Present(b)', ~acct'[b].profile, b \notin spoiled
                   PROVE  \E d \in EnrolCalls :
                             ecall'[d].acct = b /\ ecall'[d].stage \in {"profile", "rollback"}
        BY <1>4 DEF EveryAccountHasProfile
      <3>1. b # a
        BY <2>2 DEF Present
      <3>2. PICK d \in EnrolCalls :
                ecall[d].acct = b /\ ecall[d].stage \in {"profile", "rollback"}
        BY <2>2, <3>1 DEF EnrolInv, EveryAccountHasProfile, Present
      <3> QED BY <1>1, <2>1, <3>1, <3>2
    <2>9. OpenedStays'
      <3>1. \A i \in Idents : a \in opened[i] => a \in early
        BY <1>1, <1>2 DEF EnrolInv, OpenedSound, Creating
      <3> QED BY <1>2, <2>2, <2>4, <3>1 DEF EnrolInv, OpenedStays, Present
    <2> QED BY <2>3, <2>5, <2>6, <2>7, <2>8, <2>9 DEF EnrolInv
  <1> QED BY <1>1, <1>3, <1>4 DEF Rollback

LEMMA RereadKeeps ==
    ASSUME EnrolInv, NEW c \in EnrolCalls, Reread(c)
    PROVE  EnrolInv'
  <1>1. PICK a \in Accounts : a = ecall[c].acct
    BY DEF Reread, EnrolInv, EnrolCallsSound, Creating
  <1>2. /\ EnrolTypeOK /\ ecall[c] \in CallRecords /\ ecall[c].stage = "reread"
        /\ ecall[c].ident \in Idents
        /\ UNCHANGED <<acct, link, opened, spoiled, tangled, early>>
    BY DEF Reread, EnrolInv, EnrolTypeOK, EnrolCallsSound, CallRecords
  <1>3. CASE /\ UNCHANGED efaults
             /\ EnrolStep(c, IF Present(a) THEN [ecall[c] EXCEPT !.stage = "link"] ELSE NoEnrol)
    <2> DEFINE new == IF Present(a) THEN [ecall[c] EXCEPT !.stage = "link"] ELSE NoEnrol
    <2>1. /\ new \in CallRecords
          /\ \/ new.stage = "idle" /\ new.ident = None
             \/ new.stage = "link" /\ new.ident = ecall[c].ident /\ new.acct = a
      <3>1. CASE Present(a)
        BY <1>1, <1>2, <3>1 DEF CallRecords
      <3>2. CASE ~Present(a)
        BY <3>2, IdleCall
      <3> QED BY <3>1, <3>2
    <2>2. EnrolStep(c, new)
      BY <1>3
    <2> HIDE DEF new
    <2> QED BY <1>1, <1>2, <1>3, <2>1, <2>2, MoveKeeps DEF EnrolTypeOK, Creating
  <1>4. CASE EnrolFault /\ QueryFails(c)
    <2>1. efaults' \in Nat
      BY <1>4, EnrolFaultType
    <2> QED BY <1>2, <1>4, <2>1, QueryFailsKeeps
  <1> QED BY <1>1, <1>3, <1>4 DEF Reread

LEMMA LinkProviderKeeps ==
    ASSUME EnrolInv, NEW c \in EnrolCalls, LinkProvider(c)
    PROVE  EnrolInv'
  <1>1. PICK a \in Accounts, i \in Idents : a = ecall[c].acct /\ i = ecall[c].ident
    BY DEF LinkProvider, EnrolInv, EnrolCallsSound, Creating
  <1>2. /\ EnrolTypeOK /\ ecall[c].stage = "link" /\ UNCHANGED <<acct, spoiled, tangled>>
    BY DEF LinkProvider, EnrolInv
  <1>3. CASE /\ Present(a) /\ UNCHANGED efaults /\ Opens(c, i, a)
             /\ link' = [link EXCEPT ![i] = IF @ = None THEN a ELSE @]
    <2>1. i \notin tangled => link[i] = None
      BY <1>1, <1>2 DEF EnrolInv, OneAtATime
    <2> QED BY <1>1, <1>2, <1>3, <2>1, OpensKeeps DEF EnrolTypeOK, Creating
  <1>4. CASE /\ Present(a) => EnrolFault
             /\ ~Present(a) => UNCHANGED efaults
             /\ QueryFails(c) /\ UNCHANGED <<link, opened, early>>
    <2>1. efaults' \in Nat
      BY <1>2, <1>4, EnrolFaultType DEF EnrolTypeOK
    <2> QED BY <1>2, <1>4, <2>1, QueryFailsKeeps
  <1> QED BY <1>1, <1>3, <1>4 DEF LinkProvider

LEMMA EraseMemberKeeps ==
    ASSUME EnrolInv, NEW a \in Accounts, EraseMember(a)
    PROVE  EnrolInv'
  <1>1. EnrolTypeOK /\ UNCHANGED <<ecall, spoiled, tangled, early, efaults>>
    BY DEF EraseMember, EnrolInv
  <1>2. /\ acct' \in [Accounts -> [state : {"free", "present", "gone"},
                                   email : Emails \cup {None}, profile : BOOLEAN]]
        /\ acct'[a].state = "gone" /\ \A b \in Accounts : b # a => acct'[b] = acct[b]
        /\ link' \in [Idents -> Accounts \cup {None}]
        /\ \A i \in Idents : link'[i] = IF link[i] = a THEN None ELSE link[i]
    BY RemovedParts DEF EraseMember
  <1>3. /\ opened' \in [Idents -> SUBSET Accounts]
        /\ \A i \in Idents : /\ opened'[i] = opened[i] \ {a} /\ opened[i] \subseteq Accounts
                             /\ link[i] \in Accounts \cup {None}
    BY <1>1 DEF EraseMember, EnrolTypeOK
  <1>4. EnrolTypeOK' /\ EnrolCallsSound'
    BY <1>1, <1>2, <1>3 DEF EnrolInv, EnrolTypeOK, EnrolCallsSound
  <1>5. LinksSound'
    BY <1>2, <1>3 DEF EnrolInv, LinksSound, Present
  <1>6. OpenedSound'
    BY <1>1, <1>2, <1>3 DEF EnrolInv, OpenedSound
  <1>7. OneAtATime'
    <2>1. ASSUME NEW i \in Idents, NEW b \in opened'[i], Present(b)'
          PROVE  b # a /\ b \in opened[i] /\ Present(b)
      BY <1>2, <1>3, <2>1 DEF Present
    <2> QED BY <1>1, <1>2, <1>3, <2>1 DEF EnrolInv, OneAtATime
  <1>8. EveryAccountHasProfile'
    <2>1. ASSUME NEW b \in Accounts, Present(b)'
          PROVE  b # a /\ acct'[b] = acct[b] /\ Present(b)
      BY <1>2, <2>1 DEF Present
    <2> QED BY <1>1, <2>1 DEF EnrolInv, EveryAccountHasProfile
  <1>9. OpenedStays'
    BY <1>1, <1>2, <1>3 DEF EnrolInv, OpenedStays, Present
  <1> QED BY <1>4, <1>5, <1>6, <1>7, <1>8, <1>9 DEF EnrolInv

LEMMA EnrolRestartKeeps ==
    ASSUME EnrolInv, EnrolRestart
    PROVE  EnrolInv'
  <1>1. /\ EnrolTypeOK /\ ecall' = [c \in EnrolCalls |-> NoEnrol]
        /\ spoiled' = spoiled \cup ({ecall[c].acct : c \in EnrolCalls} \ {None})
        /\ UNCHANGED <<acct, link, opened, tangled, early>> /\ efaults' \in Nat
    BY EnrolFaultType DEF EnrolRestart, EnrolInv
  <1>2. EnrolTypeOK' /\ EnrolCallsSound'
    BY <1>1, IdleCall DEF EnrolTypeOK, EnrolCallsSound, CallRecords, Creating
  <1>3. LinksSound' /\ OpenedStays'
    BY <1>1 DEF EnrolInv, LinksSound, OpenedStays, Present
  <1>4. OpenedSound'
    BY <1>1, IdleCall DEF EnrolInv, OpenedSound, Creating
  <1>5. OneAtATime'
    BY <1>1, IdleCall DEF EnrolInv, OneAtATime, Present
  <1>6. EveryAccountHasProfile'
    <2> SUFFICES ASSUME NEW a \in Accounts, Present(a), ~acct[a].profile
                 PROVE  a \in spoiled'
      BY <1>1 DEF EveryAccountHasProfile, Present
    <2> QED BY <1>1 DEF EnrolInv, EveryAccountHasProfile
  <1> QED BY <1>2, <1>3, <1>4, <1>5, <1>6 DEF EnrolInv

\* SignUp keeps its invariant: the strengthening says what a call on its way
\* to a link, and a link, are worth while an identity's calls do not overlap.
THEOREM EnrolInvariant == EnrolSpec => []EnrolInv
  <1>1. EnrolInv /\ [EnrolNext]_enrolVars => EnrolInv'
    <2> SUFFICES ASSUME EnrolInv, [EnrolNext]_enrolVars PROVE EnrolInv'
      OBVIOUS
    <2>1. CASE UNCHANGED enrolVars
      BY <2>1 DEF enrolVars, EnrolInv, EnrolTypeOK, EnrolCallsSound, LinksSound, OpenedSound,
                  OneAtATime, EveryAccountHasProfile, OpenedStays, Present
    <2>2. CASE EnrolNext
      BY <2>2, RegisterKeeps, ComeWithKeeps, ProviderLookupKeeps, FindByEmailKeeps, CreateKeeps,
         CreateUserProfileKeeps, RollbackKeeps, RereadKeeps, LinkProviderKeeps,
         EraseMemberKeeps, EnrolRestartKeeps DEF EnrolNext
    <2> QED BY <2>1, <2>2
  <1> QED BY EnrolInvInit, <1>1, PTL DEF EnrolSpec

-----------------------------------------------------------------------------
\* The specification's variables keep their types.
THEOREM EnrolTypesHold == EnrolSpec => []EnrolTypeOK
  BY EnrolInvariant, PTL DEF EnrolInv

\* Every account nobody is still making has a profile, unless the process
\* stopped, or the deletion failed, while it was being made.
THEOREM EveryAccountHasProfileHolds == EnrolSpec => []EveryAccountHasProfile
  BY EnrolInvariant, PTL DEF EnrolInv

\* An identity none of whose calls overlapped is let into one account for as
\* long as that account exists, whatever addresses it reports.
THEOREM OneAccountPerIdentityHolds == EnrolSpec => []OneAccountPerIdentity
  <1>1. EnrolInv => OneAccountPerIdentity
    BY DEF EnrolInv, OneAtATime, OneAccountPerIdentity
  <1> QED BY <1>1, EnrolInvariant, PTL

\* An account somebody was let into does not vanish under them, unless it was
\* opened before the call that created it was done.
THEOREM OpenedStaysHolds == EnrolSpec => []OpenedStays
  BY EnrolInvariant, PTL DEF EnrolInv
=============================================================================
