------------------------ MODULE PrivacyRequestsProofs ------------------------
(***************************************************************************)
(* Theorems about PrivacyRequests, for every number of people, requests    *)
(* and calls in progress. The inductive invariant is about the calls that  *)
(* are half-way: what each of them read, and what it has done already.     *)
(***************************************************************************)
EXTENDS PrivacyRequests, TLAPS

\* A call in progress read an open request, and takes it elsewhere; an erasure
\* is under way, or done, for a DELETION that is to be completed, and such a
\* request is not moved before it.
CallSound(k) ==
    /\ k.ask \in Asks /\ ask[k.ask].status # "NONE"
    /\ k.from \in AskStates \ Terminal /\ k.to \in AskStates
    /\ k.stage = "erase" => Deletion(k.ask) /\ k.to = "COMPLETED" /\ ~k.erased
    /\ k.erased => Deletion(k.ask) /\ k.to = "COMPLETED"
    /\ k.stage = "move" /\ Deletion(k.ask) /\ k.to = "COMPLETED" => k.erased
    /\ k.stage = "collect" => ask[k.ask].right = "ACCESS" /\ ~k.erased

CallsSound ==
    \A c \in AskCalls : IF acall[c].stage = "idle" THEN ~acall[c].erased
                        ELSE CallSound(acall[c])

\* Once a person was erased, what is held of them was written afterwards, but for
\* the ids of their devices.
ErasedStays ==
    \A c \in AskCalls : acall[c].erased =>
        held[ask[acall[c].ask].owner] \subseteq rewritten[ask[acall[c].ask].owner] \cup {"device"}

Filed ==
    /\ \A r \in Asks : ask[r].status # "NONE" => ask[r].owner \in Users
    /\ \A r \in torn : ask[r].status # "NONE"

AskInv ==
    /\ AskTypeOK /\ CallsSound /\ ErasedStays /\ Filed
    /\ CompletedDeletionErased /\ ErasedHadAsked

-----------------------------------------------------------------------------
USE PlatformAssumption

LEMMA AskInvInit == AskInit => AskInv
  BY DEF AskInit, AskInv, AskTypeOK, CallsSound, ErasedStays, Filed, CompletedDeletionErased,
         ErasedHadAsked, Unfiled, NoAskCall, Stores, Deletion

\* A new request has no call yet, and changes nothing of the others.
LEMMA FileKeeps ==
    ASSUME AskInv, NEW r \in Asks, NEW u \in Users, NEW right \in Rights, File(r, u, right)
    PROVE  AskInv'
  <1>1. AskTypeOK'
    BY DEF AskInv, AskTypeOK, File, AskStates
  <1>2. /\ ask[r].status = "NONE" /\ UNCHANGED <<held, rewritten, acall, torn>>
        /\ \A s \in Asks : s # r => ask'[s] = ask[s]
        /\ ask'[r] = [right |-> right, owner |-> u, status |-> "PENDING", envelope |-> FALSE]
    BY DEF File, AskInv, AskTypeOK
  <1>3. \A s \in Asks : ask[s].status # "NONE" => ask'[s] = ask[s]
    BY <1>2
  <1>4. CallsSound'
    BY <1>2, <1>3 DEF AskInv, CallsSound, CallSound, Deletion
  <1>5. ErasedStays'
    BY <1>2, <1>3 DEF AskInv, CallsSound, CallSound, ErasedStays, Deletion
  <1>6. Filed'
    BY <1>2, <1>3 DEF AskInv, Filed, AskTypeOK
  <1>7. CompletedDeletionErased'
    BY <1>2, <1>3 DEF AskInv, CompletedDeletionErased, Deletion
  <1>8. ErasedHadAsked'
    <2> SUFFICES ASSUME NEW v \in Users, "identity" \notin held[v]
                 PROVE  \E s \in Asks :
                          /\ Deletion(s)' /\ ask'[s].owner = v
                          /\ \/ ask'[s].status = "COMPLETED" \/ s \in torn
                             \/ \E c \in AskCalls : acall[c].ask = s /\ acall[c].erased
      BY <1>2 DEF ErasedHadAsked
    <2>1. PICK s \in Asks :
              /\ Deletion(s) /\ ask[s].owner = v
              /\ \/ ask[s].status = "COMPLETED" \/ s \in torn
                 \/ \E c \in AskCalls : acall[c].ask = s /\ acall[c].erased
      BY DEF AskInv, ErasedHadAsked
    <2>2. ask[s].status # "NONE"
      BY <2>1 DEF AskInv, Filed, CallsSound, CallSound
    <2> QED BY <1>3, <2>1, <2>2 DEF Deletion
  <1> QED BY <1>1, <1>4, <1>5, <1>6, <1>7, <1>8 DEF AskInv

LEMMA FirstSteps ==
    ASSUME NEW right, NEW to
    PROVE  /\ FirstStep(right, to) \in {"erase", "collect", "move"}
           /\ FirstStep(right, to) = "erase" <=> to = "COMPLETED" /\ right = "DELETION"
           /\ FirstStep(right, to) = "collect" <=> to = "COMPLETED" /\ right = "ACCESS"
  <1>1. CASE to = "COMPLETED" /\ right = "DELETION"
    BY <1>1 DEF FirstStep
  <1>2. CASE to = "COMPLETED" /\ right = "ACCESS"
    BY <1>2 DEF FirstStep
  <1>3. CASE ~(to = "COMPLETED" /\ right = "DELETION") /\ ~(to = "COMPLETED" /\ right = "ACCESS")
    <2>1. FirstStep(right, to) = "move"
      BY <1>3 DEF FirstStep
    <2> QED BY <1>3, <2>1
  <1> QED BY <1>1, <1>2, <1>3

\* A step of one call that leaves the requests and the stores alone.
LEMMA CallStepKeeps ==
    ASSUME AskInv, NEW c \in AskCalls, NEW new, AskStep(c, new), AskTypeOK',
           UNCHANGED <<ask, held, rewritten, torn>>,
           IF new.stage = "idle" THEN ~new.erased ELSE CallSound(new),
           new.erased <=> acall[c].erased, new.erased => new.ask = acall[c].ask
    PROVE  AskInv'
  <1>1. /\ \A d \in AskCalls : acall'[d] = IF d = c THEN new ELSE acall[d]
    BY DEF AskStep, AskInv, AskTypeOK
  <1>2. CallsSound'
    BY <1>1 DEF AskInv, CallsSound, CallSound, Deletion
  <1>3. ErasedStays'
    BY <1>1 DEF AskInv, ErasedStays
  <1>4. Filed' /\ CompletedDeletionErased'
    BY DEF AskInv, Filed, CompletedDeletionErased, Deletion
  <1>5. ErasedHadAsked'
    BY <1>1 DEF AskInv, ErasedHadAsked, Deletion
  <1> QED BY <1>2, <1>3, <1>4, <1>5 DEF AskInv

LEMMA ReadAskKeeps ==
    ASSUME AskInv, NEW c \in AskCalls, NEW r \in Asks, NEW to \in AskStates, ReadAsk(c, r, to)
    PROVE  AskInv'
  <1> DEFINE first == FirstStep(ask[r].right, to)
             new == [NoAskCall EXCEPT !.stage = first, !.ask = r,
                                      !.from = ask[r].status, !.to = to]
  <1>1. /\ AskStep(c, new) /\ UNCHANGED <<ask, held, rewritten, torn, afaults>>
        /\ acall[c].stage = "idle" /\ ask[r].status # "NONE"
        /\ ask[r].status \notin Terminal
    BY DEF ReadAsk, MayMove
  <1>2. /\ first \in {"erase", "collect", "move"}
        /\ first = "erase" <=> to = "COMPLETED" /\ ask[r].right = "DELETION"
        /\ first = "collect" <=> to = "COMPLETED" /\ ask[r].right = "ACCESS"
    BY FirstSteps
  <1> HIDE DEF first
  <1>3. ask[r].status \in AskStates
    BY <1>1 DEF AskInv, AskTypeOK
  <1>4. /\ new.stage = first /\ new.ask = r /\ new.from = ask[r].status /\ new.to = to
        /\ new.erased = FALSE
        /\ new \in [stage : {"idle", "erase", "collect", "move"},
                    ask : Asks \cup {None}, from : AskStates \cup {None},
                    to : AskStates \cup {None}, envelope : BOOLEAN, erased : BOOLEAN]
    BY <1>2, <1>3 DEF NoAskCall
  <1> HIDE DEF new
  <1>5. AskTypeOK'
    BY <1>1, <1>4 DEF AskInv, AskTypeOK, AskStep
  <1>6. CallSound(new)
    BY <1>1, <1>2, <1>3, <1>4 DEF CallSound, Deletion
  <1>7. ~acall[c].erased /\ new.erased = FALSE /\ new.stage # "idle"
    BY <1>1, <1>2, <1>4 DEF AskInv, CallsSound
  <1> QED BY <1>1, <1>4, <1>5, <1>6, <1>7, CallStepKeeps

LEMMA CollectKeeps ==
    ASSUME AskInv, NEW c \in AskCalls, CollectAccessEnvelope(c)
    PROVE  AskInv'
  <1>1. /\ UNCHANGED <<ask, held, rewritten, torn>> /\ acall[c].stage = "collect"
        /\ CallSound(acall[c]) /\ ~acall[c].erased
    BY DEF CollectAccessEnvelope, AskInv, CallsSound, CallSound
  <1>2. CASE AskFault /\ AskStep(c, NoAskCall)
    <2>1. AskTypeOK'
      BY <1>1, <1>2 DEF AskInv, AskTypeOK, AskStep, AskFault, NoAskCall
    <2>2. NoAskCall.stage = "idle" /\ NoAskCall.erased = FALSE
      BY DEF NoAskCall
    <2> QED BY <1>1, <1>2, <2>1, <2>2, CallStepKeeps
  <1>3. CASE /\ AskStep(c, [acall[c] EXCEPT !.stage = "move",
                              !.envelope = "identity" \in held[ask[acall[c].ask].owner]])
             /\ UNCHANGED afaults
    <2> DEFINE env == "identity" \in held[ask[acall[c].ask].owner]
               new == [acall[c] EXCEPT !.stage = "move", !.envelope = env]
    <2>1. env \in BOOLEAN
      OBVIOUS
    <2> HIDE DEF env
    <2>2. /\ new.stage = "move" /\ new.ask = acall[c].ask /\ new.from = acall[c].from
          /\ new.to = acall[c].to /\ new.erased = acall[c].erased
          /\ new \in [stage : {"idle", "erase", "collect", "move"},
                      ask : Asks \cup {None}, from : AskStates \cup {None},
                      to : AskStates \cup {None}, envelope : BOOLEAN, erased : BOOLEAN]
      <3>1. acall[c] \in [stage : {"idle", "erase", "collect", "move"},
                          ask : Asks \cup {None}, from : AskStates \cup {None},
                          to : AskStates \cup {None}, envelope : BOOLEAN, erased : BOOLEAN]
        BY DEF AskInv, AskTypeOK
      <3> QED BY <2>1, <3>1
    <2>3. AskStep(c, new)
      BY <1>3 DEF env
    <2> HIDE DEF new
    <2>4. AskTypeOK'
      BY <1>1, <1>3, <2>2, <2>3 DEF AskInv, AskTypeOK, AskStep
    <2>5. CallSound(new)
      BY <1>1, <2>2 DEF CallSound, Deletion
    <2> QED BY <1>1, <2>2, <2>3, <2>4, <2>5, CallStepKeeps
  <1> QED BY <1>2, <1>3 DEF CollectAccessEnvelope

\* An erasure leaves nothing of Stores but the ids of the person's devices.
LEMMA ApplyDeletionKeeps ==
    ASSUME AskInv, NEW c \in AskCalls, ApplyDeletion(c)
    PROVE  AskInv'
  <1> DEFINE r == acall[c].ask
             u == ask[r].owner
  <1>1. /\ UNCHANGED <<ask, torn>> /\ acall[c].stage = "erase"
        /\ CallSound(acall[c]) /\ r \in Asks /\ Deletion(r) /\ u \in Users
        /\ acall[c].to = "COMPLETED" /\ ~acall[c].erased /\ AskTypeOK
    BY DEF ApplyDeletion, AskInv, CallsSound, CallSound, Filed
  <1>2. CASE AskFault /\ AskStep(c, NoAskCall) /\ UNCHANGED <<held, rewritten>>
    <2>1. AskTypeOK'
      BY <1>1, <1>2 DEF AskTypeOK, AskStep, AskFault, NoAskCall
    <2>2. NoAskCall.stage = "idle" /\ NoAskCall.erased = FALSE
      BY DEF NoAskCall
    <2> QED BY <1>1, <1>2, <2>1, <2>2, CallStepKeeps
  <1>3. CASE /\ held' = [held EXCEPT ![u] = @ \ Erasable]
             /\ rewritten' = [rewritten EXCEPT ![u] = {}]
             /\ AskStep(c, [acall[c] EXCEPT !.stage = "move", !.erased = TRUE])
             /\ UNCHANGED afaults
    <2> DEFINE new == [acall[c] EXCEPT !.stage = "move", !.erased = TRUE]
    <2>1. /\ new.stage = "move" /\ new.ask = r /\ new.from = acall[c].from
          /\ new.to = acall[c].to /\ new.erased = TRUE
          /\ new \in [stage : {"idle", "erase", "collect", "move"},
                      ask : Asks \cup {None}, from : AskStates \cup {None},
                      to : AskStates \cup {None}, envelope : BOOLEAN, erased : BOOLEAN]
      BY <1>1 DEF AskTypeOK
    <2>2. \A d \in AskCalls : acall'[d] = IF d = c THEN new ELSE acall[d]
      BY <1>1, <1>3 DEF AskStep, AskTypeOK
    <2>3. /\ held'[u] \subseteq {"device"} /\ rewritten'[u] = {}
          /\ \A v \in Users : v # u => held'[v] = held[v] /\ rewritten'[v] = rewritten[v]
      BY <1>1, <1>3 DEF AskTypeOK, Stores, Erasable
    <2>4. AskTypeOK'
      <3>1. acall' \in [AskCalls ->
                [stage : {"idle", "erase", "collect", "move"},
                 ask : Asks \cup {None}, from : AskStates \cup {None},
                 to : AskStates \cup {None}, envelope : BOOLEAN, erased : BOOLEAN]]
        <4> HIDE DEF new
        <4> QED BY <1>1, <1>3, <2>1 DEF AskTypeOK, AskStep, new
      <3> QED BY <1>1, <1>3, <3>1 DEF AskTypeOK
    <2> HIDE DEF new
    <2>5. CallsSound'
      BY <1>1, <2>1, <2>2 DEF AskInv, CallsSound, CallSound, Deletion
    <2>6. ErasedStays'
      BY <1>1, <2>1, <2>2, <2>3 DEF AskInv, ErasedStays, CallsSound, CallSound, Filed
    <2>7. Filed'
      BY <1>1 DEF AskInv, Filed
    <2>8. CompletedDeletionErased'
      BY <1>1, <2>3 DEF AskInv, CompletedDeletionErased, Deletion, Filed
    <2>9. ErasedHadAsked'
      <3> SUFFICES ASSUME NEW v \in Users, "identity" \notin held'[v]
                   PROVE  \E s \in Asks :
                            /\ Deletion(s) /\ ask[s].owner = v
                            /\ \/ ask[s].status = "COMPLETED" \/ s \in torn
                               \/ \E d \in AskCalls : acall'[d].ask = s /\ acall'[d].erased
        BY <1>1 DEF ErasedHadAsked, Deletion
      <3>1. CASE v = u
        BY <1>1, <2>1, <2>2, <3>1
      <3>2. CASE v # u
        BY <1>1, <2>2, <2>3, <3>2 DEF AskInv, ErasedHadAsked
      <3> QED BY <3>1, <3>2
    <2> QED BY <2>4, <2>5, <2>6, <2>7, <2>8, <2>9 DEF AskInv
  <1> QED BY <1>2, <1>3 DEF ApplyDeletion

\* What a move does to the requests: nothing, or the one it read while open.
LEMMA MoveParts ==
    ASSUME AskInv, NEW c \in AskCalls, MoveAsk(c)
    PROVE  LET k == acall[c] IN
           /\ k.stage = "move" /\ CallSound(k)
           /\ \A d \in AskCalls : acall'[d] = IF d = c THEN NoAskCall ELSE acall[d]
           /\ UNCHANGED <<held, rewritten>>
           /\ \A s \in Asks : /\ ask'[s].right = ask[s].right /\ ask'[s].owner = ask[s].owner
                              /\ s # k.ask => ask'[s] = ask[s]
           /\ \/ UNCHANGED ask /\ torn' = IF k.erased THEN torn \cup {k.ask} ELSE torn
              \/ /\ ask[k.ask].status = k.from /\ ask'[k.ask].status = k.to
                 /\ UNCHANGED torn
  BY DEF AskInv, AskTypeOK, MoveAsk, AskStep, CallsSound, CallSound, StillAs

LEMMA MoveAskKeeps ==
    ASSUME AskInv, NEW c \in AskCalls, MoveAsk(c)
    PROVE  AskInv'
  <1> DEFINE k == acall[c]
  <1>1. /\ k.stage = "move" /\ CallSound(k)
        /\ \A d \in AskCalls : acall'[d] = IF d = c THEN NoAskCall ELSE acall[d]
        /\ UNCHANGED <<held, rewritten>>
        /\ \A s \in Asks : /\ ask'[s].right = ask[s].right /\ ask'[s].owner = ask[s].owner
                           /\ s # k.ask => ask'[s] = ask[s]
    BY MoveParts
  <1>2. \/ UNCHANGED ask /\ torn' = IF k.erased THEN torn \cup {k.ask} ELSE torn
        \/ /\ ask[k.ask].status = k.from /\ ask'[k.ask].status = k.to
           /\ UNCHANGED torn
    BY MoveParts
  <1>3. NoAskCall.stage = "idle" /\ NoAskCall.erased = FALSE
    BY DEF NoAskCall
  <1>4. k.ask \in Asks /\ k.to \in AskStates /\ ask[k.ask].status # "NONE"
    BY <1>1 DEF CallSound
  <1>5. "NONE" \notin AskStates
    BY DEF AskStates
  <1>6. \A s \in Asks : ask[s].status # "NONE" => ask'[s].status # "NONE"
    BY <1>1, <1>2, <1>4, <1>5
  <1>7. AskTypeOK'
    BY <1>1, <1>4 DEF AskInv, AskTypeOK, MoveAsk, AskStep, NoAskCall, AskFault
  <1>8. CallsSound'
    BY <1>1, <1>3, <1>6 DEF AskInv, CallsSound, CallSound, Deletion
  <1>9. ErasedStays'
    BY <1>1, <1>3 DEF AskInv, ErasedStays, CallsSound, CallSound
  <1>10. Filed'
    BY <1>1, <1>2, <1>4, <1>6 DEF AskInv, Filed, AskTypeOK
  <1>11. CompletedDeletionErased'
    <2> SUFFICES ASSUME NEW s \in Asks, Deletion(s), ask'[s].status = "COMPLETED"
                 PROVE  held[ask[s].owner] \subseteq rewritten[ask[s].owner] \cup {"device"}
      BY <1>1 DEF CompletedDeletionErased, Deletion
    <2>1. CASE ask[s].status = "COMPLETED"
      BY <2>1 DEF AskInv, CompletedDeletionErased
    <2>2. CASE ask[s].status # "COMPLETED"
      <3>1. s = k.ask /\ k.to = "COMPLETED"
        BY <1>1, <1>2, <2>2
      <3>2. k.erased
        BY <1>1, <3>1 DEF CallSound
      <3> QED BY <3>1, <3>2 DEF AskInv, ErasedStays
    <2> QED BY <2>1, <2>2
  <1>12. ErasedHadAsked'
    <2> SUFFICES ASSUME NEW v \in Users, "identity" \notin held[v]
                 PROVE  \E s \in Asks :
                          /\ Deletion(s) /\ ask[s].owner = v
                          /\ \/ ask'[s].status = "COMPLETED" \/ s \in torn'
                             \/ \E d \in AskCalls : acall'[d].ask = s /\ acall'[d].erased
      BY <1>1 DEF ErasedHadAsked, Deletion
    <2>1. PICK s \in Asks :
              /\ Deletion(s) /\ ask[s].owner = v
              /\ \/ ask[s].status = "COMPLETED" \/ s \in torn
                 \/ \E d \in AskCalls : acall[d].ask = s /\ acall[d].erased
      BY DEF AskInv, ErasedHadAsked
    <2>2. CASE ask[s].status = "COMPLETED"
      <3>1. k.from # "COMPLETED"
        BY <1>1 DEF CallSound, Terminal
      <3>2. ask'[s].status = "COMPLETED"
        BY <1>1, <1>2, <2>2, <3>1
      <3> QED BY <2>1, <3>2
    <2>3. CASE s \in torn
      <3>1. s \in torn'
        BY <1>2, <2>3
      <3> QED BY <2>1, <3>1
    <2>4. ASSUME NEW d \in AskCalls, acall[d].ask = s, acall[d].erased
          PROVE  \/ ask'[s].status = "COMPLETED" \/ s \in torn'
                 \/ \E e \in AskCalls : acall'[e].ask = s /\ acall'[e].erased
      <3>1. CASE d # c
        BY <1>1, <2>4, <3>1
      <3>2. CASE d = c
        <4>1. k.erased /\ k.ask = s /\ k.to = "COMPLETED"
          BY <1>1, <2>4, <3>2 DEF CallSound
        <4> QED BY <1>2, <4>1
      <3> QED BY <3>1, <3>2
    <2> QED BY <2>1, <2>2, <2>3, <2>4
  <1> QED BY <1>7, <1>8, <1>9, <1>10, <1>11, <1>12 DEF AskInv

LEMMA RewriteKeeps ==
    ASSUME AskInv, NEW u \in Users, NEW store \in Stores, Rewrite(u, store)
    PROVE  AskInv'
  <1>1. /\ AskTypeOK /\ UNCHANGED <<ask, acall, torn, afaults>> /\ store # "identity"
        /\ \A v \in Users :
              /\ held'[v] = IF v = u THEN held[v] \cup {store} ELSE held[v]
              /\ rewritten'[v] = IF v = u THEN rewritten[v] \cup {store} ELSE rewritten[v]
    BY DEF Rewrite, AskInv, AskTypeOK
  <1>2. AskTypeOK'
    BY DEF Rewrite, AskInv, AskTypeOK
  <1>3. CallsSound' /\ Filed'
    BY <1>1 DEF AskInv, CallsSound, CallSound, Filed, Deletion
  <1>4. \A v \in Users : held[v] \subseteq rewritten[v] \cup {"device"} =>
                          held'[v] \subseteq rewritten'[v] \cup {"device"}
    BY <1>1
  <1>5. ErasedStays'
    BY <1>1, <1>4 DEF AskInv, ErasedStays, CallsSound, CallSound, Filed
  <1>6. CompletedDeletionErased'
    BY <1>1, <1>4 DEF AskInv, CompletedDeletionErased, Filed, Deletion
  <1>7. \A v \in Users : "identity" \notin held'[v] => "identity" \notin held[v]
    BY <1>1
  <1>8. ErasedHadAsked'
    BY <1>1, <1>7 DEF AskInv, ErasedHadAsked, Deletion
  <1> QED BY <1>2, <1>3, <1>5, <1>6, <1>8 DEF AskInv

\* A restart turns the calls that had erased into torn requests.
LEMMA AskRestartKeeps ==
    ASSUME AskInv, AskRestart
    PROVE  AskInv'
  <1>1. /\ AskTypeOK /\ UNCHANGED <<ask, held, rewritten>>
        /\ \A c \in AskCalls : acall'[c] = NoAskCall
        /\ torn' = torn \cup {acall[c].ask : c \in {d \in AskCalls : acall[d].erased}}
    BY DEF AskRestart, AskInv
  <1>2. NoAskCall.stage = "idle" /\ NoAskCall.erased = FALSE
    BY DEF NoAskCall
  <1>3. \A c \in AskCalls : acall[c].erased =>
            acall[c].ask \in Asks /\ ask[acall[c].ask].status # "NONE"
    BY DEF AskInv, CallsSound, CallSound
  <1>4. AskTypeOK'
    BY <1>1, <1>3 DEF AskTypeOK, AskRestart, AskFault, NoAskCall
  <1>5. CallsSound' /\ ErasedStays'
    BY <1>1, <1>2 DEF CallsSound, ErasedStays
  <1>6. Filed'
    BY <1>1, <1>3 DEF AskInv, Filed
  <1>7. CompletedDeletionErased'
    BY <1>1 DEF AskInv, CompletedDeletionErased, Deletion
  <1>8. ErasedHadAsked'
    BY <1>1 DEF AskInv, ErasedHadAsked, Deletion
  <1> QED BY <1>4, <1>5, <1>6, <1>7, <1>8 DEF AskInv

THEOREM AskInvariant == AskSpec => []AskInv
  <1>1. AskInv /\ [AskNext]_askVars => AskInv'
    <2> SUFFICES ASSUME AskInv, [AskNext]_askVars PROVE AskInv'
      OBVIOUS
    <2>1. CASE UNCHANGED askVars
      BY <2>1 DEF askVars, AskInv, AskTypeOK, CallsSound, CallSound, ErasedStays, Filed,
                  CompletedDeletionErased, ErasedHadAsked, Deletion
    <2>2. CASE AskNext
      BY <2>2, FileKeeps, ReadAskKeeps, ApplyDeletionKeeps, CollectKeeps, MoveAskKeeps,
         RewriteKeeps, AskRestartKeeps DEF AskNext
    <2> QED BY <2>1, <2>2
  <1> QED BY AskInvInit, <1>1, PTL DEF AskSpec

-----------------------------------------------------------------------------
\* The specification's variables keep their types.
THEOREM AskTypesHold == AskSpec => []AskTypeOK
  BY AskInvariant, PTL DEF AskInv

\* A DELETION that reads COMPLETED was carried out but for the ids of the devices,
\* however many calls worked on the requests of the person and whichever of their
\* queries failed.
THEOREM CompletedDeletionErasedHolds == AskSpec => []CompletedDeletionErased
  BY AskInvariant, PTL DEF AskInv

\* Nobody is erased who did not ask.
THEOREM ErasedHadAskedHolds == AskSpec => []ErasedHadAsked
  BY AskInvariant, PTL DEF AskInv

\* A terminal request never changes: the calls in progress read open ones.
THEOREM TerminalIsFinalHolds == AskSpec => TerminalIsFinal
  <1>1. AskInv /\ [AskNext]_askVars =>
            [\A r \in Asks : ask[r].status \in Terminal => ask'[r] = ask[r]]_askVars
    <2> SUFFICES ASSUME AskInv, AskNext, NEW r \in Asks, ask[r].status \in Terminal
                 PROVE  ask'[r] = ask[r]
      OBVIOUS
    <2>1. CASE UNCHANGED ask
      BY <2>1
    <2>2. ASSUME NEW s \in Asks, NEW u \in Users, NEW right \in Rights, File(s, u, right)
          PROVE  ask'[r] = ask[r]
      BY <2>2 DEF File, Terminal, AskInv, AskTypeOK
    <2>3. ASSUME NEW c \in AskCalls, MoveAsk(c)
          PROVE  ask'[r] = ask[r]
      <3>1. acall[c].from \notin Terminal
        BY <2>3, MoveParts DEF CallSound
      <3> QED BY <2>3, <3>1, MoveParts
    <2> QED BY <2>1, <2>2, <2>3 DEF AskNext, ReadAsk, ApplyDeletion, CollectAccessEnvelope,
                                    Rewrite, AskRestart
  <1> QED BY <1>1, AskInvariant, PTL DEF AskSpec, TerminalIsFinal
=============================================================================
