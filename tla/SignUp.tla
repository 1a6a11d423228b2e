------------------------------- MODULE SignUp -------------------------------
(***************************************************************************)
(* How an account comes to be and how an identity finds it. A registration *)
(* looks the address up, inserts the account and then its profile, and     *)
(* deletes the account again when the profile fails. An OAuth or a phone   *)
(* sign-in looks for the account its identity is linked to, then for one   *)
(* with the address, creates one as a registration does, and links the     *)
(* identity. Every query is a step of its own.                             *)
(*                                                                         *)
(* A phone is an identity whose address is derived from the number; the    *)
(* other identities report an address, not always the same, or none.       *)
(* Passwords, codes and roles are left out, and what follows a sign-in is  *)
(* RefreshTokens.                                                          *)
(***************************************************************************)
EXTENDS Platform

CONSTANTS
    Emails,      \* addresses, after normalizeEmail
    Idents,      \* identities: a provider and the id it reports
    Accounts,    \* account ids that may be handed out
    EnrolCalls   \* sign-ins and registrations in progress at a time

ASSUME EnrolAssumption == None \notin Emails \cup Idents \cup Accounts

VARIABLES
    acct,        \* auth.users with users.profiles
    link,        \* auth.providers
    ecall,       \* the calls in progress
    opened,      \* the accounts each identity was let into (history)
    spoiled,     \* accounts a failed query or a stop left half-made (history)
    tangled,     \* identities two of whose calls overlapped (history)
    early,       \* accounts let into before their creator was done (history)
    efaults      \* faults so far

enrolVars == <<acct, link, ecall, opened, spoiled, tangled, early, efaults>>

-----------------------------------------------------------------------------
NoAcct == [state |-> "free", email |-> None, profile |-> FALSE]
NoEnrol == [stage |-> "idle", ident |-> None, email |-> None, acct |-> None]

Present(a) == acct[a].state = "present"
WithEmail(e) == {a \in Accounts : Present(a) /\ acct[a].email = e}

EnrolInit ==
    /\ acct = [a \in Accounts |-> NoAcct]
    /\ link = [i \in Idents |-> None]
    /\ ecall = [c \in EnrolCalls |-> NoEnrol]
    /\ opened = [i \in Idents |-> {}]
    /\ spoiled = {} /\ tangled = {} /\ early = {}
    /\ efaults = 0

EnrolFault == efaults < MaxFaults /\ efaults' = efaults + 1
EnrolStep(c, new) == ecall' = [ecall EXCEPT ![c] = new]

\* DELETE FROM auth.users cascades to the profile and the identities.
Removed(a) == [acct EXCEPT ![a] = [NoAcct EXCEPT !.state = "gone"]]
Unlinked(a) == [i \in Idents |-> IF link[i] = a THEN None ELSE link[i]]

\* The call of identity i ends: it is let into account a.
Opens(c, i, a) ==
    /\ opened' = [opened EXCEPT ![i] = @ \cup {a}]
    /\ early' = IF \E d \in EnrolCalls \ {c} :
                      ecall[d].acct = a /\ ecall[d].stage \in {"profile", "rollback", "reread"}
                THEN early \cup {a} ELSE early
    /\ EnrolStep(c, NoEnrol)

\* BROKEN: a profile that fails is left for later.
NothingAfterFailure(stage) == "idle"

\* BROKEN: a link that fails takes the account back as well.
RollbackAfterAny(stage) == "rollback"

\* What follows a query that failed: only what this call created is deleted.
AfterFailure(stage) == IF stage \in {"profile", "reread"} THEN "rollback" ELSE "idle"

QueryFails(c) ==
    EnrolStep(c, IF AfterFailure(ecall[c].stage) = "idle" THEN NoEnrol
                 ELSE [ecall[c] EXCEPT !.stage = AfterFailure(@)])

-----------------------------------------------------------------------------
Register(c, e) ==
    /\ ecall[c].stage = "idle"
    /\ EnrolStep(c, [NoEnrol EXCEPT !.stage = "lookup", !.email = e])
    /\ UNCHANGED <<acct, link, opened, spoiled, tangled, early, efaults>>

\* oauthLogin, otpLogin: the credentials were verified.
ComeWith(c, i, e) ==
    /\ ecall[c].stage = "idle"
    /\ EnrolStep(c, [NoEnrol EXCEPT !.stage = "provider", !.ident = i, !.email = e])
    /\ tangled' = IF \E d \in EnrolCalls : ecall[d].ident = i
                  THEN tangled \cup {i} ELSE tangled
    /\ UNCHANGED <<acct, link, opened, spoiled, early, efaults>>

\* BROKEN: the address is looked up first, the identity only when it is unknown.
ProviderLast(i, e) == IF e # None /\ WithEmail(e) # {} THEN None ELSE link[i]

\* The account an identity is linked to, whatever address it reports now.
FindUserByProvider(i, e) == link[i]

ProviderLookup(c) ==
    LET i == ecall[c].ident
        a == FindUserByProvider(i, ecall[c].email) IN
    /\ ecall[c].stage = "provider"
    /\ \/ a # None /\ Opens(c, i, a)
       \/ /\ a = None
          /\ EnrolStep(c, IF ecall[c].email = None THEN NoEnrol
                          ELSE [ecall[c] EXCEPT !.stage = "lookup"])
          /\ UNCHANGED <<opened, early>>
    /\ UNCHANGED <<acct, link, spoiled, tangled, efaults>>

\* A registration refuses an address that is taken; an identity joins it.
FindByEmail(c) ==
    LET found == WithEmail(ecall[c].email) IN
    /\ ecall[c].stage = "lookup"
    /\ IF found = {} THEN EnrolStep(c, [ecall[c] EXCEPT !.stage = "create"])
       ELSE IF ecall[c].ident = None THEN EnrolStep(c, NoEnrol)
       ELSE \E a \in found :
                EnrolStep(c, [ecall[c] EXCEPT !.stage = "link", !.acct = a])
    /\ UNCHANGED <<acct, link, opened, spoiled, tangled, early, efaults>>

\* The UNIQUE address decides between two calls that both found none. The call
\* is outside the try: when the answer to its INSERT is lost, nothing deletes the
\* account.
Create(c, a) ==
    LET e == ecall[c].email IN
    /\ ecall[c].stage = "create" /\ acct[a].state = "free"
    /\ \/ /\ WithEmail(e) = {}
          /\ acct' = [acct EXCEPT ![a] =
                [state |-> "present", email |-> e, profile |-> FALSE]]
          /\ \/ /\ EnrolStep(c, [ecall[c] EXCEPT !.stage = "profile", !.acct = a])
                /\ UNCHANGED <<spoiled, efaults>>
             \/ /\ EnrolFault /\ spoiled' = spoiled \cup {a}
                /\ EnrolStep(c, NoEnrol)
       \/ /\ WithEmail(e) # {}
          /\ EnrolStep(c, NoEnrol)
          /\ UNCHANGED <<acct, spoiled, efaults>>
    /\ UNCHANGED <<link, opened, tangled, early>>

\* createUserProfile. Its foreign key fails for an account that is gone.
CreateUserProfile(c) ==
    LET a == ecall[c].acct IN
    /\ ecall[c].stage = "profile"
    /\ \/ /\ Present(a)
          /\ acct' = [acct EXCEPT ![a].profile = TRUE]
          /\ EnrolStep(c, IF ecall[c].ident = None THEN NoEnrol
                          ELSE [ecall[c] EXCEPT !.stage = "reread"])
          /\ UNCHANGED efaults
       \/ /\ Present(a) => EnrolFault
          /\ ~Present(a) => UNCHANGED efaults
          /\ QueryFails(c)
          /\ UNCHANGED acct
    /\ UNCHANGED <<link, opened, spoiled, tangled, early>>

Rollback(c) ==
    LET a == ecall[c].acct IN
    /\ ecall[c].stage = "rollback"
    /\ EnrolStep(c, NoEnrol)
    /\ \/ acct' = Removed(a) /\ link' = Unlinked(a) /\ UNCHANGED <<spoiled, efaults>>
       \/ EnrolFault /\ spoiled' = spoiled \cup {a} /\ UNCHANGED <<acct, link>>
    /\ UNCHANGED <<opened, tangled, early>>

\* findById, inside the same try: a failure deletes the account as well.
Reread(c) ==
    /\ ecall[c].stage = "reread"
    /\ \/ /\ EnrolStep(c, IF Present(ecall[c].acct)
                          THEN [ecall[c] EXCEPT !.stage = "link"] ELSE NoEnrol)
          /\ UNCHANGED efaults
       \/ EnrolFault /\ QueryFails(c)
    /\ UNCHANGED <<acct, link, opened, spoiled, tangled, early>>

\* linkProvider, ON CONFLICT DO NOTHING: whichever account the identity is
\* linked to by now, the call goes on with the one it found.
LinkProvider(c) ==
    LET i == ecall[c].ident
        a == ecall[c].acct IN
    /\ ecall[c].stage = "link"
    /\ \/ /\ Present(a)
          /\ link' = [link EXCEPT ![i] = IF @ = None THEN a ELSE @]
          /\ Opens(c, i, a)
          /\ UNCHANGED efaults
       \/ /\ Present(a) => EnrolFault
          /\ ~Present(a) => UNCHANGED efaults
          /\ QueryFails(c)
          /\ UNCHANGED <<link, opened, early>>
    /\ UNCHANGED <<acct, spoiled, tangled>>

\* The person asked to be erased (PrivacyRequests): the identity starts anew.
EraseMember(a) ==
    /\ Present(a)
    /\ acct' = Removed(a) /\ link' = Unlinked(a)
    /\ opened' = [i \in Idents |-> opened[i] \ {a}]
    /\ UNCHANGED <<ecall, spoiled, tangled, early, efaults>>

EnrolRestart ==
    /\ EnrolFault
    /\ spoiled' = spoiled \cup ({ecall[c].acct : c \in EnrolCalls} \ {None})
    /\ ecall' = [c \in EnrolCalls |-> NoEnrol]
    /\ UNCHANGED <<acct, link, opened, tangled, early>>

EnrolNext ==
    \/ \E c \in EnrolCalls :
          \/ \E e \in Emails : Register(c, e)
          \/ \E i \in Idents, e \in Emails \cup {None} : ComeWith(c, i, e)
          \/ ProviderLookup(c) \/ FindByEmail(c)
          \/ \E a \in Accounts : Create(c, a)
          \/ CreateUserProfile(c) \/ Rollback(c) \/ Reread(c) \/ LinkProvider(c)
    \/ \E a \in Accounts : EraseMember(a)
    \/ EnrolRestart

EnrolSpec == EnrolInit /\ [][EnrolNext]_enrolVars

-----------------------------------------------------------------------------
EnrolTypeOK ==
    /\ acct \in [Accounts -> [state : {"free", "present", "gone"},
                              email : Emails \cup {None}, profile : BOOLEAN]]
    /\ link \in [Idents -> Accounts \cup {None}]
    /\ ecall \in [EnrolCalls ->
          [stage : {"idle", "provider", "lookup", "create", "profile", "rollback",
                    "reread", "link"},
           ident : Idents \cup {None}, email : Emails \cup {None},
           acct : Accounts \cup {None}]]
    /\ opened \in [Idents -> SUBSET Accounts]
    /\ spoiled \cup early \subseteq Accounts /\ tangled \subseteq Idents
    /\ efaults \in Nat

\* Every account nobody is still making has a profile, unless the process
\* stopped, or the deletion failed, while it was being made.
EveryAccountHasProfile ==
    \A a \in Accounts : Present(a) /\ ~acct[a].profile =>
        \/ a \in spoiled
        \/ \E c \in EnrolCalls :
              ecall[c].acct = a /\ ecall[c].stage \in {"profile", "rollback"}

\* An identity is let into one account for as long as that account exists,
\* whatever addresses it reports, unless two of its calls overlapped: both
\* found no link, and the link keeps the first while each opens its own.
OneAccountPerIdentity ==
    \A i \in Idents : i \notin tangled =>
        \A a, b \in opened[i] : Present(a) /\ Present(b) => a = b

\* An account somebody was let into does not vanish, unless its owner is erased
\* or it was opened before the call that created it was done: when that call's
\* profile fails, it deletes the account under the one already let in.
OpenedStays ==
    \A i \in Idents : \A a \in opened[i] : Present(a) \/ a \in early
=============================================================================
