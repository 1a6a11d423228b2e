--------------------------- MODULE PrivacyRequests ---------------------------
(***************************************************************************)
(* Data-subject requests: a person files one and may withdraw it, staff    *)
(* review it, and completing a DELETION erases the person. The erasure is  *)
(* one transaction, the move to COMPLETED is another query after it, and   *)
(* both follow a status read earlier; the last query moves the request     *)
(* only if it still has that status.                                       *)
(*                                                                         *)
(* PORTABILITY is handled as ACCESS, and OBJECTION as CORRECTION, whose    *)
(* completion changes nothing but the request. What is kept of a person is *)
(* the set of the stores that hold something of theirs.                    *)
(***************************************************************************)
EXTENDS Platform

CONSTANTS
    Asks,       \* requests that may be filed
    AskCalls    \* withdrawals and reviews that may be in progress at a time

VARIABLES
    ask,        \* compliance.privacy_requests
    held,       \* the stores that hold something of each person
    rewritten,  \* stores written again after an erasure (history)
    acall,      \* the calls in progress
    torn,       \* requests whose erasure was done and their move was not (history)
    afaults     \* faults so far

askVars == <<ask, held, rewritten, acall, torn, afaults>>

-----------------------------------------------------------------------------
Rights == {"ACCESS", "CORRECTION", "DELETION"}
AskStates == {"PENDING", "IN_REVIEW", "COMPLETED", "REJECTED", "WITHDRAWN"}
Terminal == {"COMPLETED", "REJECTED", "WITHDRAWN"}

\* The identity rows (users, profiles, providers, tokens), the wallet, and two
\* columns of the billing sessions: the person's id (customer_id) and that of the
\* device (hardware_id). The retained records hold a bare id.
Stores == {"identity", "wallet", "customer", "device"}

Unfiled == [right |-> None, owner |-> None, status |-> "NONE", envelope |-> FALSE]
NoAskCall == [stage |-> "idle", ask |-> None, from |-> None, to |-> None,
              envelope |-> FALSE, erased |-> FALSE]

AskInit ==
    /\ ask = [r \in Asks |-> Unfiled]
    /\ held = [u \in Users |-> Stores]
    /\ rewritten = [u \in Users |-> {}]
    /\ acall = [c \in AskCalls |-> NoAskCall]
    /\ torn = {}
    /\ afaults = 0

AskFault == afaults < MaxFaults /\ afaults' = afaults + 1
AskStep(c, new) == acall' = [acall EXCEPT ![c] = new]

\* assertRequestTransition: by the owner, or by staff.
MayMove(from, to, byOwner) ==
    /\ from \notin Terminal /\ from # to
    /\ (to = "WITHDRAWN") = byOwner

-----------------------------------------------------------------------------
\* Filed with an access token, which outlives the erasure of its account.
File(r, u, right) ==
    /\ ask[r].status = "NONE" /\ u \notin Admins
    /\ ask' = [ask EXCEPT ![r] = [right |-> right, owner |-> u, status |-> "PENDING",
                                  envelope |-> FALSE]]
    /\ UNCHANGED <<held, rewritten, acall, torn, afaults>>

\* BROKEN: rejecting a DELETION erases as well.
FirstStepOfAny(right, to) ==
    IF right = "DELETION" /\ to \in {"COMPLETED", "REJECTED"} THEN "erase" ELSE "move"

\* What a call does between its read and the move.
FirstStep(right, to) ==
    CASE to = "COMPLETED" /\ right = "DELETION" -> "erase"
      [] to = "COMPLETED" /\ right = "ACCESS" -> "collect"
      [] OTHER -> "move"

\* The request is read and the move checked against what was read.
ReadAsk(c, r, to) ==
    /\ acall[c].stage = "idle" /\ ask[r].status # "NONE"
    /\ MayMove(ask[r].status, to, to = "WITHDRAWN")
    /\ AskStep(c, [NoAskCall EXCEPT !.stage = FirstStep(ask[r].right, to),
                   !.ask = r, !.from = ask[r].status, !.to = to])
    /\ UNCHANGED <<ask, held, rewritten, torn, afaults>>

\* BROKEN: the wallet is kept.
ErasableButWallet == {"identity"}

\* The rows that are deleted, and the one column that is rewritten to a marker.
\* The device id, which deletionOutcomePlan lists beside it, is left as it is.
Erasable == {"identity", "wallet", "customer"}

\* applyDeletion, in one transaction; it is rolled back when it fails.
ApplyDeletion(c) ==
    LET u == ask[acall[c].ask].owner IN
    /\ acall[c].stage = "erase"
    /\ \/ /\ held' = [held EXCEPT ![u] = @ \ Erasable]
          /\ rewritten' = [rewritten EXCEPT ![u] = {}]
          /\ AskStep(c, [acall[c] EXCEPT !.stage = "move", !.erased = TRUE])
          /\ UNCHANGED afaults
       \/ AskFault /\ AskStep(c, NoAskCall) /\ UNCHANGED <<held, rewritten>>
    /\ UNCHANGED <<ask, torn>>

\* collectAccessEnvelope: the profile is its first query.
CollectAccessEnvelope(c) ==
    /\ acall[c].stage = "collect"
    /\ \/ /\ AskStep(c, [acall[c] EXCEPT !.stage = "move",
                         !.envelope = "identity" \in held[ask[acall[c].ask].owner]])
          /\ UNCHANGED afaults
       \/ AskFault /\ AskStep(c, NoAskCall)
    /\ UNCHANGED <<ask, held, rewritten, torn>>

\* BROKEN: the request moves whatever its status is by now.
StillThere(r, from) == ask[r].status # "NONE"

\* WHERE id = $1 AND status = $2.
StillAs(r, from) == ask[r].status = from

\* transition, with the outcome. Losing the race, or the query, leaves the
\* request as it is; what was erased stays erased.
MoveAsk(c) ==
    LET k == acall[c] IN
    /\ k.stage = "move"
    /\ AskStep(c, NoAskCall)
    /\ \/ /\ StillAs(k.ask, k.from)
          /\ ask' = [ask EXCEPT ![k.ask].status = k.to,
                                ![k.ask].envelope = @ \/ k.envelope]
          /\ UNCHANGED <<torn, afaults>>
       \/ /\ ~StillAs(k.ask, k.from)
          /\ torn' = IF k.erased THEN torn \cup {k.ask} ELSE torn
          /\ UNCHANGED <<ask, afaults>>
       \/ /\ AskFault
          /\ torn' = IF k.erased THEN torn \cup {k.ask} ELSE torn
          /\ UNCHANGED ask
    /\ UNCHANGED <<held, rewritten>>

\* A late payment credits the account, or a session is opened for it, on a device
\* there is a row of already: the other modules do not ask whether the account is
\* still there (external).
Rewrite(u, store) ==
    /\ store \in {"wallet", "customer"} /\ store \notin held[u]
    /\ held' = [held EXCEPT ![u] = @ \cup {store}]
    /\ rewritten' = [rewritten EXCEPT ![u] = @ \cup {store}]
    /\ UNCHANGED <<ask, acall, torn, afaults>>

AskRestart ==
    /\ AskFault
    /\ torn' = torn \cup {acall[c].ask : c \in {d \in AskCalls : acall[d].erased}}
    /\ acall' = [c \in AskCalls |-> NoAskCall]
    /\ UNCHANGED <<ask, held, rewritten>>

AskNext ==
    \/ \E r \in Asks, u \in Users, right \in Rights : File(r, u, right)
    \/ \E c \in AskCalls :
          \/ \E r \in Asks, to \in AskStates \ {"PENDING"} : ReadAsk(c, r, to)
          \/ ApplyDeletion(c) \/ CollectAccessEnvelope(c) \/ MoveAsk(c)
    \/ \E u \in Users, store \in Stores : Rewrite(u, store)
    \/ AskRestart

AskSpec == AskInit /\ [][AskNext]_askVars

-----------------------------------------------------------------------------
AskTypeOK ==
    /\ ask \in [Asks -> [right : Rights \cup {None}, owner : Users \cup {None},
                         status : AskStates \cup {"NONE"}, envelope : BOOLEAN]]
    /\ held \in [Users -> SUBSET Stores]
    /\ rewritten \in [Users -> SUBSET Stores]
    /\ acall \in [AskCalls -> [stage : {"idle", "erase", "collect", "move"},
                               ask : Asks \cup {None}, from : AskStates \cup {None},
                               to : AskStates \cup {None},
                               envelope : BOOLEAN, erased : BOOLEAN]]
    /\ torn \subseteq Asks
    /\ afaults \in Nat

Deletion(r) == ask[r].right = "DELETION"

\* A completed, rejected or withdrawn request never changes again, whichever
\* calls read it while it was open.
TerminalIsFinal ==
    [][\A r \in Asks : ask[r].status \in Terminal => ask'[r] = ask[r]]_askVars

\* A DELETION that reads COMPLETED was carried out: nothing of the person is
\* left in the stores of the plan but what was written after the erasure, and the
\* ids of their devices, which the plan promises to rewrite and no query does.
CompletedDeletionErased ==
    \A r \in Asks : Deletion(r) /\ ask[r].status = "COMPLETED" =>
        held[ask[r].owner] \subseteq rewritten[ask[r].owner] \cup {"device"}

\* Nobody is erased who did not ask: there is a DELETION of theirs that is
\* COMPLETED or about to be, or one whose move was lost after the erasure.
ErasedHadAsked ==
    \A u \in Users : "identity" \notin held[u] =>
        \E r \in Asks :
            /\ Deletion(r) /\ ask[r].owner = u
            /\ \/ ask[r].status = "COMPLETED" \/ r \in torn
               \/ \E c \in AskCalls : acall[c].ask = r /\ acall[c].erased
=============================================================================
