--------------------------- MODULE PaymentsProofs ---------------------------
(***************************************************************************)
(* Theorems about Payments, for every number of calls, buyers, keys,       *)
(* callbacks and restarts. The inductive invariant is built in two layers: *)
(* Shape (types, and what a handler's stage says of the row it works on),  *)
(* then Books (what statuses, references and ledgers say of each other).   *)
(***************************************************************************)
EXTENDS Payments, SequenceTheorems, TLAPS

\* What the stage of an initiate call guarantees: its input is known, the row
\* it was given exists, and it has a row when it talks to the provider.
StagesOK ==
    \A r \in Requests :
        /\ req[r].stage # "new" => req[r].input \in Inputs
        /\ req[r].tx # None => Exists(req[r].tx)
        /\ req[r].stage \in {"provider", "ref"} => req[r].tx # None

\* A transition call that is about to write passed the table's check.
CallsOK ==
    \A c \in Calls : call[c].stage = "apply" =>
        /\ call[c].tx \in Requests
        /\ call[c].from \in RowStatuses /\ call[c].to \in TransitionKinds
        /\ RulesFor(call[c].from, call[c].to) # {}

Shape == TypeOK /\ StagesOK /\ CallsOK

-----------------------------------------------------------------------------
\* The statuses from which the table has a rule at all.
Movable == {"PENDING", "AUTHORIZED", "PAID", "FULFILLED", "DISPUTED",
            "PARTIALLY_REFUNDED"}

\* No rule of the table starts in a settled status.
LEMMA RulesStartMovable ==
    ASSUME NEW from, NEW to, RulesFor(from, to) # {}
    PROVE  from \in Movable
  BY DEF RulesFor, TransitionRules, ForwardRules, CancelRules, DisputeRules,
         AdminRules, Rule, Movable

\* assertTransitionAllowed returns only for a pair of states with a rule.
LEMMA AllowedHasRule ==
    ASSUME NEW from, NEW to, NEW role, NEW isOwner,
           Verdict(from, to, role, isOwner) = "ALLOWED"
    PROVE  RulesFor(from, to) # {}
  BY DEF Verdict

\* assertTransitionAllowed ends in one of its verdicts.
LEMMA VerdictType ==
    ASSUME NEW from, NEW to, NEW role, NEW isOwner
    PROVE  Verdict(from, to, role, isOwner) \in Verdicts
  BY DEF Verdict, Verdicts

\* Rows by the parts of their type.
LEMMA RowParts ==
    ASSUME TypeOK, NEW t \in Requests, Exists(t)
    PROVE  /\ tx[t] \in [status : RowStatuses, user : Users, amount : Nat \ {0},
                         key : Keys \cup {None}, ref : Requests \cup {None}]
  BY DEF TypeOK, Exists, Rows, NoRow

\* What the WHERE clause of a callback selects.
LEMMA WithRefParts ==
    ASSUME NEW ref, NEW t \in PendingWithRef(ref)
    PROVE  t \in Requests /\ Exists(t) /\ tx[t].ref = ref /\ tx[t].status = "PENDING"
  BY DEF PendingWithRef, RowsWithRef
-----------------------------------------------------------------------------
\* Shape holds at the start.
LEMMA InitShape == Init => Shape
  <1> SUFFICES ASSUME Init PROVE Shape OBVIOUS
  <1>1. TypeOK
    BY PaymentAssumption
       DEF Init, TypeOK, ReqRecords, ReqStages, Rows, HookStates, NewCall,
           CallRecords, Intents
  <1>2. StagesOK
    BY DEF Init, StagesOK
  <1>3. CallsOK
    BY DEF Init, CallsOK, NewCall
  <1> QED BY <1>1, <1>2, <1>3 DEF Shape

\* A call that goes from one stage to another, and nothing else.
LEMMA StageMoves ==
    ASSUME TypeOK, NEW r \in Requests, NEW stage \in ReqStages,
           req' = [req EXCEPT ![r].stage = stage]
    PROVE  /\ req' \in [Requests -> ReqRecords] /\ req'[r].stage = stage
           /\ \A q \in Requests :
                 /\ req'[q].tx = req[q].tx /\ req'[q].input = req[q].input
                 /\ q # r => req'[q].stage = req[q].stage
  <1> DEFINE new == [req[r] EXCEPT !.stage = stage]
  <1>1. req \in [Requests -> ReqRecords]
    BY DEF TypeOK
  <1>2. /\ new \in ReqRecords /\ new.stage = stage
        /\ new.tx = req[r].tx /\ new.input = req[r].input
    BY <1>1 DEF ReqRecords
  <1>3. req' = [req EXCEPT ![r] = new]
    BY <1>1
  <1> HIDE DEF new
  <1> QED BY <1>1, <1>2, <1>3

\* A call that is handed a row.
LEMMA RowHandedOut ==
    ASSUME TypeOK, NEW r \in Requests, NEW stage \in ReqStages, NEW t \in Requests,
           req' = [req EXCEPT ![r].stage = stage, ![r].tx = t]
    PROVE  /\ req' \in [Requests -> ReqRecords]
           /\ req'[r].stage = stage /\ req'[r].tx = t /\ req'[r].input = req[r].input
           /\ \A q \in Requests : q # r => req'[q] = req[q]
  <1> DEFINE mid == [req[r] EXCEPT !.stage = stage]
             new == [req[r] EXCEPT !.stage = stage, !.tx = t]
  <1>1. req \in [Requests -> ReqRecords]
    BY DEF TypeOK
  <1>2. /\ new \in ReqRecords /\ new.stage = stage /\ new.tx = t
        /\ new.input = req[r].input
    BY ONLY <1>1, r \in Requests, stage \in ReqStages, t \in Requests DEF ReqRecords
  <1>3. [req EXCEPT ![r].stage = stage] \in [Requests -> ReqRecords]
    <2>1. mid \in ReqRecords
      BY ONLY <1>1, r \in Requests, stage \in ReqStages DEF ReqRecords
    <2>2. [req EXCEPT ![r].stage = stage] = [req EXCEPT ![r] = mid]
      BY ONLY <1>1, r \in Requests
    <2> HIDE DEF mid
    <2> QED BY ONLY <1>1, <2>1, <2>2, r \in Requests
  <1>4. req' = [req EXCEPT ![r] = new]
    BY ONLY <1>1, <1>3, r \in Requests, req' = [req EXCEPT ![r].stage = stage, ![r].tx = t]
  <1> HIDE DEF new
  <1> QED BY ONLY <1>1, <1>2, <1>4, r \in Requests

\* A submitted call carries its input into its next stage.
LEMMA SubmitShape ==
    ASSUME Shape, NEW r \in Requests, NEW in \in Inputs, Submit(r, in)
    PROVE  Shape'
  <1> USE DEF Shape
  <1>1. TypeOK'
    <2>1. req \in [Requests -> ReqRecords]
      BY DEF TypeOK
    <2>2. req' \in [Requests -> ReqRecords]
      BY <2>1 DEF Submit, ReqRecords, ReqStages
    <2> QED BY <2>2 DEF TypeOK, Submit
  <1>2. StagesOK'
    BY DEF TypeOK, StagesOK, Submit, Exists
  <1>3. CallsOK'
    BY DEF CallsOK, Submit
  <1> QED BY <1>1, <1>2, <1>3

\* The lookup hands out only rows that exist.
LEMMA FindExistingShape ==
    ASSUME Shape, NEW r \in Requests, FindExisting(r)
    PROVE  Shape'
  <1> USE DEF Shape
  <1>1. UNCHANGED <<tx, wallet, ledger, events, hook, acked, published, call,
                    intent, crashes>> /\ req[r].stage = "lookup"
    BY DEF FindExisting
  <1>2. req' \in [Requests -> ReqRecords] /\ StagesOK'
    <2>1. CASE req' = [req EXCEPT ![r].stage = "insert"]
      BY <1>1, <2>1 DEF TypeOK, StagesOK, Exists, ReqRecords, ReqStages
    <2>2. ASSUME NEW t \in RowsWithKey(req[r].input.key),
                 req' = [req EXCEPT ![r].stage = "done", ![r].tx = t]
          PROVE  req' \in [Requests -> ReqRecords] /\ StagesOK'
      BY <1>1, <2>2 DEF TypeOK, StagesOK, Exists, RowsWithKey, ReqRecords, ReqStages
    <2> QED BY <2>1, <2>2 DEF FindExisting
  <1> QED BY <1>1, <1>2 DEF TypeOK, CallsOK

\* The insert makes the row of its call, or no row.
LEMMA CreateShape ==
    ASSUME Shape, NEW r \in Requests, Create(r)
    PROVE  Shape'
  <1> USE DEF Shape
  <1> DEFINE in == req[r].input
             new == [status |-> "PENDING", user |-> in.user, amount |-> in.amount,
                     key |-> in.key, ref |-> None]
  <1>1. UNCHANGED <<wallet, ledger, events, hook, acked, published, call,
                    intent, crashes>> /\ req[r].stage = "insert"
    BY DEF Create
  <1>2. CASE KeyTaken(in.key)
    <2>1. UNCHANGED tx /\ req' = [req EXCEPT ![r].stage = "refetch"]
      BY <1>2 DEF Create
    <2>2. req' \in [Requests -> ReqRecords] /\ StagesOK'
      BY <1>1, <2>1 DEF TypeOK, StagesOK, Exists, ReqRecords, ReqStages
    <2> QED BY <1>1, <2>1, <2>2 DEF TypeOK, CallsOK
  <1>3. CASE ~KeyTaken(in.key)
    <2>1. /\ req' = [req EXCEPT ![r].stage = "provider", ![r].tx = r]
          /\ tx' = [tx EXCEPT ![r] = new]
      BY <1>3 DEF Create
    <2>2. in \in Inputs
      BY <1>1 DEF StagesOK
    <2>3. new \in Rows /\ new.status # "ABSENT"
      BY <2>2, PaymentAssumption DEF Rows, RowStatuses
    <2>4. tx' \in [Requests -> Rows] /\ \A t \in Requests : Exists(t) => Exists(t)'
      BY <2>1, <2>3 DEF TypeOK, Exists
    <2>5. Exists(r)'
      BY <2>1, <2>3 DEF TypeOK, Exists
    <2>6. req' \in [Requests -> ReqRecords]
      <3>1. req' = [req EXCEPT ![r].stage = "provider", ![r].tx = r]
        BY <2>1
      <3>2. [req[r] EXCEPT !.stage = "provider", !.tx = r] \in ReqRecords
        <4>1. req[r] \in ReqRecords
          BY DEF TypeOK
        <4> QED BY <4>1 DEF ReqRecords, ReqStages
      <3>3. req' = [req EXCEPT ![r] = [req[r] EXCEPT !.stage = "provider", !.tx = r]]
        BY <3>1 DEF TypeOK
      <3> QED BY <3>2, <3>3 DEF TypeOK
    <2>7. StagesOK'
      BY <2>1, <2>2, <2>4, <2>5, PaymentAssumption DEF TypeOK, StagesOK, ReqRecords
    <2> QED BY <1>1, <2>4, <2>6, <2>7 DEF TypeOK, CallsOK
  <1> QED BY <1>2, <1>3

\* The second lookup hands out only rows that exist.
LEMMA RefetchShape ==
    ASSUME Shape, NEW r \in Requests, Refetch(r)
    PROVE  Shape'
  <1> USE DEF Shape
  <1>1. UNCHANGED <<tx, wallet, ledger, events, hook, acked, published, call,
                    intent, crashes>> /\ req[r].stage = "refetch"
    BY DEF Refetch
  <1>2. PICK t \in RowsWithKey(req[r].input.key) :
            req' = [req EXCEPT ![r].stage = "provider", ![r].tx = t]
    BY DEF Refetch
  <1>3. t \in Requests /\ Exists(t) /\ req \in [Requests -> ReqRecords]
    BY DEF RowsWithKey, TypeOK
  <1>4. /\ req' \in [Requests -> ReqRecords] /\ req'[r].stage = "provider"
        /\ req'[r].tx = t /\ req'[r].input = req[r].input
        /\ \A q \in Requests : q # r => req'[q] = req[q]
    BY <1>2, <1>3, RowHandedOut DEF ReqStages
  <1>5. StagesOK'
    <2>1. t # None
      BY <1>3, PaymentAssumption
    <2> QED BY <1>1, <1>3, <1>4, <2>1 DEF StagesOK, Exists
  <1> QED BY <1>1, <1>4, <1>5 DEF TypeOK, CallsOK

\* The intent opened at the provider names a row.
LEMMA CallProviderShape ==
    ASSUME Shape, NEW r \in Requests, CallProvider(r)
    PROVE  Shape'
  <1> USE DEF Shape
  <1> DEFINE new == [state |-> "open", method |-> req[r].input.method,
                     tx |-> req[r].tx, amount |-> req[r].input.amount]
  <1>1. UNCHANGED <<tx, wallet, ledger, events, hook, acked, published, call,
                    crashes>> /\ req[r].stage = "provider"
    BY DEF CallProvider
  <1>2. /\ intent' = [intent EXCEPT ![r] = new] \/ UNCHANGED intent
        /\ \E next \in {"ref", "failed"} : req' = [req EXCEPT ![r].stage = next]
    BY DEF CallProvider
  <1>3. req[r].input \in Inputs /\ req[r].tx \in Requests
    BY <1>1 DEF StagesOK, TypeOK, ReqRecords
  <1>4. new \in Intents
    BY <1>3, PaymentAssumption DEF Intents
  <1>5. intent' \in [Requests -> Intents]
    BY <1>2, <1>4 DEF TypeOK
  <1>6. req' \in [Requests -> ReqRecords] /\ StagesOK'
    <2>1. PICK next \in {"ref", "failed"} : req' = [req EXCEPT ![r].stage = next]
      BY <1>2
    <2>2. /\ req' \in [Requests -> ReqRecords] /\ req'[r].stage = next
          /\ \A q \in Requests :
                /\ req'[q].tx = req[q].tx /\ req'[q].input = req[q].input
                /\ q # r => req'[q].stage = req[q].stage
      BY <2>1, StageMoves DEF ReqStages
    <2>3. req[r].tx # None
      BY <1>3, PaymentAssumption
    <2>4. StagesOK'
      BY <1>1, <1>3, <2>2, <2>3 DEF StagesOK, Exists
    <2> QED BY <2>2, <2>4
  <1> QED BY <1>1, <1>5, <1>6 DEF TypeOK, CallsOK

\* Recording the reference keeps the status of every row.
LEMMA RecordRefShape ==
    ASSUME Shape, NEW r \in Requests, RecordRef(r)
    PROVE  Shape'
  <1> USE DEF Shape
  <1> DEFINE t == req[r].tx
  <1>1. /\ UNCHANGED <<wallet, ledger, events, hook, acked, published, call,
                       intent, crashes>>
        /\ req[r].stage = "ref"
        /\ tx' = [tx EXCEPT ![t].ref = r]
        /\ req' = [req EXCEPT ![r].stage = "done"]
    BY DEF RecordRef
  <1>2. t \in Requests /\ Exists(t) /\ req[r].input \in Inputs
    BY <1>1 DEF StagesOK, TypeOK, ReqRecords
  <1>3. [tx[t] EXCEPT !.ref = r] \in Rows /\ tx[t].status # "ABSENT"
    BY <1>2, RowParts DEF Rows, Exists
  <1>4. tx' \in [Requests -> Rows] /\ \A u \in Requests : tx'[u].status = tx[u].status
    BY <1>1, <1>2, <1>3 DEF TypeOK, Rows, NoRow
  <1>5. req' = [req EXCEPT ![r].stage = "done"]
    BY <1>1
  <1>6. /\ req' \in [Requests -> ReqRecords] /\ req'[r].stage = "done"
        /\ \A q \in Requests :
              /\ req'[q].tx = req[q].tx /\ req'[q].input = req[q].input
              /\ q # r => req'[q].stage = req[q].stage
    BY <1>5, StageMoves DEF ReqStages
  <1>7. StagesOK'
    <2>1. \A q \in Requests : req[q].tx # None => req[q].tx \in Requests
      BY DEF TypeOK, ReqRecords
    <2> QED BY <1>2, <1>4, <1>6, <2>1 DEF StagesOK, Exists
  <1> QED BY <1>1, <1>4, <1>6, <1>7 DEF TypeOK, CallsOK

\* Only an open intent settles, so it keeps its parts.
LEMMA SettleShape ==
    ASSUME Shape, NEW r \in Requests, Settle(r)
    PROVE  Shape'
  <1> USE DEF Shape
  <1>1. PICK state \in {"paid", "declined"} : intent' = [intent EXCEPT ![r].state = state]
    BY DEF Settle
  <1>2. intent[r] # NoIntent
    BY DEF Settle, NoIntent
  <1>3. intent' \in [Requests -> Intents]
    BY <1>1, <1>2 DEF TypeOK, Intents
  <1> QED BY <1>3 DEF Settle, TypeOK, StagesOK, Exists, CallsOK

-----------------------------------------------------------------------------
\* What the steps of a callback do to the types.

\* A credit keeps the types and every row.
LEMMA CompleteAndCreditTypes ==
    ASSUME TypeOK, NEW ref \in Requests, NEW t \in PendingWithRef(ref),
           CompleteAndCredit(t, ref)
    PROVE  /\ tx' \in [Requests -> Rows]
           /\ wallet' \in [Users -> Nat]
           /\ ledger' \in [Requests -> Seq(LedgerEntries)]
           /\ \A u \in Requests : Exists(u) => Exists(u)'
  <1>1. t \in Requests /\ Exists(t)
    BY WithRefParts
  <1>2. tx[t] \in [status : RowStatuses, user : Users, amount : Nat \ {0},
                   key : Keys \cup {None}, ref : Requests \cup {None}]
    BY <1>1, RowParts
  <1>3. [tx[t] EXCEPT !.status = "COMPLETED"] \in Rows
    BY <1>2 DEF Rows, RowStatuses
  <1>4. tx' = [tx EXCEPT ![t] = [tx[t] EXCEPT !.status = "COMPLETED"]]
    BY <1>1 DEF CompleteAndCredit, TypeOK
  <1>5. tx' \in [Requests -> Rows]
    BY <1>3, <1>4 DEF TypeOK
  <1>6. \A u \in Requests : Exists(u) => Exists(u)'
    BY <1>1, <1>4 DEF TypeOK, Exists
  <1>7. wallet' \in [Users -> Nat]
    <2>1. /\ wallet \in [Users -> Nat] /\ tx[t].user \in Users /\ tx[t].amount \in Nat
          /\ wallet' = [wallet EXCEPT ![tx[t].user] = @ + tx[t].amount]
      BY <1>2 DEF CompleteAndCredit, TypeOK
    <2> QED BY ONLY <2>1
  <1>8. [ref |-> ref, amount |-> tx[t].amount] \in LedgerEntries
    BY <1>2 DEF LedgerEntries
  <1>9. ledger' \in [Requests -> Seq(LedgerEntries)]
    BY <1>1, <1>8 DEF CompleteAndCredit, TypeOK
  <1> QED BY <1>5, <1>6, <1>7, <1>9

\* failByRef keeps the types and every row.
LEMMA FailByRefTypes ==
    ASSUME TypeOK, NEW ref \in Requests, FailByRef(ref)
    PROVE  /\ tx' \in [Requests -> Rows]
           /\ \A u \in Requests : Exists(u) => Exists(u)'
  <1>1. \A t \in PendingWithRef(ref) : [tx[t] EXCEPT !.status = "FAILED"] \in Rows
    <2> TAKE t \in PendingWithRef(ref)
    <2>1. t \in Requests /\ Exists(t)
      BY WithRefParts
    <2> QED BY <2>1, RowParts DEF Rows, RowStatuses
  <1>2. tx' \in [Requests -> Rows]
    BY <1>1 DEF FailByRef, TypeOK
  <1>3. \A t \in Requests : tx[t] # NoRow => tx[t].status \in RowStatuses
    BY DEF TypeOK, Rows
  <1>4. \A u \in Requests : Exists(u) => Exists(u)'
    <2> SUFFICES ASSUME NEW u \in Requests, Exists(u) PROVE tx'[u].status # "ABSENT"
      BY DEF Exists
    <2>1. CASE u \in PendingWithRef(ref)
      BY <2>1, RowParts DEF FailByRef
    <2>2. CASE u \notin PendingWithRef(ref)
      BY <2>2 DEF FailByRef, Exists
    <2> QED BY <2>1, <2>2
  <1> QED BY <1>2, <1>4

\* A step that leaves req and call alone and keeps every row keeps the stages.
LEMMA StagesKept ==
    ASSUME StagesOK, CallsOK, UNCHANGED <<req, call>>,
           \A u \in Requests : Exists(u) => Exists(u)', TypeOK
    PROVE  StagesOK' /\ CallsOK'
  BY DEF StagesOK, CallsOK, TypeOK, ReqRecords, Exists

\* A Stripe credit leaves a handler that knows its row.
LEMMA StripeCreditShape ==
    ASSUME Shape, NEW h \in Hooks, NEW ref \in Requests, StripeCredit(h, ref)
    PROVE  Shape'
  <1> USE DEF Shape
  <1>1. PICK t \in PendingWithRef(ref) :
            /\ CompleteAndCredit(t, ref)
            /\ hook' = [hook EXCEPT ![h] = [stage |-> "publish", ref |-> ref, tx |-> t]]
    BY DEF StripeCredit
  <1>2. UNCHANGED <<req, events, acked, published, call, intent, crashes>>
    BY DEF StripeCredit
  <1>3. hook' \in [Hooks -> HookStates]
    BY <1>1, WithRefParts DEF TypeOK, HookStates
  <1>4. /\ tx' \in [Requests -> Rows]
        /\ wallet' \in [Users -> Nat]
        /\ ledger' \in [Requests -> Seq(LedgerEntries)]
        /\ \A u \in Requests : Exists(u) => Exists(u)'
    BY <1>1, CompleteAndCreditTypes
  <1>5. StagesOK' /\ CallsOK'
    BY <1>2, <1>4, StagesKept
  <1> QED BY <1>2, <1>3, <1>4, <1>5 DEF TypeOK

\* An M-Pesa callback that found its row knows its reference.
LEMMA MpesaFindShape ==
    ASSUME Shape, NEW h \in Hooks, NEW ref \in Requests, NEW shown,
           MpesaFind(h, ref, shown)
    PROVE  Shape'
  <1> USE DEF Shape
  <1>1. UNCHANGED <<req, tx, wallet, ledger, events, acked, published, call,
                    intent, crashes>>
    BY DEF MpesaFind
  <1>2. PICK stage \in {"credit", "fail"} :
            hook' = [hook EXCEPT ![h] = [stage |-> stage, ref |-> ref, tx |-> None]]
    BY DEF MpesaFind
  <1>3. hook' \in [Hooks -> HookStates]
    BY <1>2 DEF TypeOK, HookStates
  <1> QED BY <1>1, <1>3, StagesKept DEF TypeOK, Exists

\* Acknowledging a reference changes no shape.
LEMMA IgnoreShape ==
    ASSUME Shape, NEW ref \in Requests, acked' = acked \cup {ref},
           UNCHANGED <<req, tx, wallet, ledger, events, hook, published, call,
                       intent, crashes>>
    PROVE  Shape'
  <1> USE DEF Shape
  <1>1. TypeOK'
    BY DEF TypeOK
  <1> QED BY <1>1, StagesKept DEF Exists

\* A declined M-Pesa prompt keeps Shape.
LEMMA MpesaDeclinedShape ==
    ASSUME Shape, NEW h \in Hooks, NEW ref \in Requests, MpesaDeclined(h, ref)
    PROVE  Shape'
  <1> USE DEF Shape
  <1>1. /\ FailByRef(ref) /\ acked' = acked \cup {ref}
        /\ UNCHANGED <<req, wallet, ledger, events, hook, published, call,
                       intent, crashes>>
    BY DEF MpesaDeclined
  <1>2. /\ tx' \in [Requests -> Rows]
        /\ \A u \in Requests : Exists(u) => Exists(u)'
    BY <1>1, FailByRefTypes
  <1>3. StagesOK' /\ CallsOK'
    BY <1>1, <1>2, StagesKept
  <1> QED BY <1>1, <1>2, <1>3 DEF TypeOK

\* A busy callback knows its reference, and its row when it publishes.
LEMMA BusyHook ==
    ASSUME TypeOK, NEW h \in Hooks, hook[h].stage # "idle"
    PROVE  /\ hook[h].ref \in Requests
           /\ hook[h].stage = "publish" => hook[h].tx \in Requests
  <1>1. hook[h] \in HookStates
    BY DEF TypeOK
  <1> QED BY <1>1 DEF HookStates, Idle

\* A mismatched amount keeps Shape.
LEMMA MpesaFailShape ==
    ASSUME Shape, NEW h \in Hooks, MpesaFail(h)
    PROVE  Shape'
  <1> USE DEF Shape
  <1>1. /\ FailByRef(hook[h].ref) /\ acked' = acked \cup {hook[h].ref}
        /\ hook' = [hook EXCEPT ![h] = Idle]
        /\ UNCHANGED <<req, wallet, ledger, events, published, call, intent, crashes>>
    BY DEF MpesaFail
  <1>2. hook[h].ref \in Requests
    BY BusyHook DEF MpesaFail
  <1>3. /\ tx' \in [Requests -> Rows]
        /\ \A u \in Requests : Exists(u) => Exists(u)'
    BY <1>1, <1>2, FailByRefTypes
  <1>4. hook' \in [Hooks -> HookStates]
    BY <1>1 DEF TypeOK, HookStates
  <1>5. StagesOK' /\ CallsOK'
    BY <1>1, <1>3, StagesKept
  <1> QED BY <1>1, <1>2, <1>3, <1>4, <1>5 DEF TypeOK

\* An M-Pesa credit leaves a handler that knows its row.
LEMMA MpesaCreditShape ==
    ASSUME Shape, NEW h \in Hooks, MpesaCredit(h)
    PROVE  Shape'
  <1> USE DEF Shape
  <1> DEFINE ref == hook[h].ref
  <1>1. ref \in Requests
    BY BusyHook DEF MpesaCredit
  <1>2. UNCHANGED <<req, events, published, call, intent, crashes>>
    BY DEF MpesaCredit
  <1>3. ASSUME NEW t \in PendingWithRef(ref), CompleteAndCredit(t, ref),
               hook' = [hook EXCEPT ![h] = [@ EXCEPT !.stage = "publish", !.tx = t]],
               UNCHANGED acked
        PROVE  Shape'
    <2>1. /\ tx' \in [Requests -> Rows]
          /\ wallet' \in [Users -> Nat]
          /\ ledger' \in [Requests -> Seq(LedgerEntries)]
          /\ \A u \in Requests : Exists(u) => Exists(u)'
      BY <1>1, <1>3, CompleteAndCreditTypes
    <2>2. hook[h] \in [stage : {"credit", "fail"}, ref : Requests, tx : {None}]
      <3>1. hook[h] \in HookStates /\ hook[h].stage = "credit"
        BY DEF MpesaCredit, TypeOK
      <3> QED BY <3>1 DEF HookStates, Idle
    <2>3. hook' \in [Hooks -> HookStates]
      BY <1>3, <2>2, WithRefParts DEF TypeOK, HookStates
    <2>4. StagesOK' /\ CallsOK'
      BY <1>2, <2>1, StagesKept
    <2> QED BY <1>2, <1>3, <2>1, <2>3, <2>4 DEF TypeOK
  <1>4. ASSUME NoCredit, acked' = acked \cup {ref}, hook' = [hook EXCEPT ![h] = Idle]
        PROVE  Shape'
    <2>1. TypeOK'
      BY <1>1, <1>2, <1>4 DEF NoCredit, TypeOK, HookStates
    <2> QED BY <1>2, <1>4, <2>1, StagesKept DEF NoCredit, Exists
  <1> QED BY <1>3, <1>4 DEF MpesaCredit

\* Publishing counts one message at most.
LEMMA PublishShape ==
    ASSUME Shape, NEW h \in Hooks, Publish(h)
    PROVE  Shape'
  <1> USE DEF Shape
  <1>1. /\ published' = [published EXCEPT ![hook[h].tx] = @ + 1] \/ UNCHANGED published
        /\ acked' = acked \cup {hook[h].ref}
        /\ hook' = [hook EXCEPT ![h] = Idle]
        /\ UNCHANGED <<req, tx, wallet, ledger, events, call, intent, crashes>>
    BY DEF Publish
  <1>2. hook[h].ref \in Requests /\ hook[h].tx \in Requests
    BY BusyHook DEF Publish
  <1>3. published' \in [Requests -> Nat]
    <2>1. published \in [Requests -> Nat]
      BY DEF TypeOK
    <2>2. CASE published' = [published EXCEPT ![hook[h].tx] = @ + 1]
      BY <1>2, <2>1, <2>2
    <2> QED BY <1>1, <2>1, <2>2
  <1>4. hook' \in [Hooks -> HookStates]
    BY <1>1 DEF TypeOK, HookStates
  <1>5. TypeOK'
    BY <1>1, <1>2, <1>3, <1>4 DEF TypeOK
  <1> QED BY <1>1, <1>5, StagesKept DEF Exists

-----------------------------------------------------------------------------
\* The transition routes and restarts.

\* A transition call goes on only with a rule of the table.
LEMMA ReadForTransitionShape ==
    ASSUME Shape, NEW c \in Calls, NEW t \in Requests, NEW kind \in TransitionKinds,
           NEW role \in Roles, NEW isOwner \in BOOLEAN,
           ReadForTransition(c, t, kind, role, isOwner)
    PROVE  Shape'
  <1> USE DEF Shape
  <1> DEFINE verdict == Verdict(tx[t].status, kind, role, isOwner)
             new == [stage |-> IF verdict = "ALLOWED" THEN "apply" ELSE "done",
                     tx |-> t, from |-> tx[t].status, to |-> kind, outcome |-> verdict]
  <1>1. /\ call' = [call EXCEPT ![c] = new]
        /\ Exists(t)
        /\ UNCHANGED <<req, tx, wallet, ledger, events, hook, acked, published,
                       intent, crashes>>
    BY DEF ReadForTransition
  <1>2. tx[t].status \in RowStatuses
    BY <1>1, RowParts
  <1>3. verdict \in Verdicts
    BY VerdictType
  <1>4. verdict = "ALLOWED" => RulesFor(tx[t].status, kind) # {}
    BY AllowedHasRule
  <1> HIDE DEF verdict
  <1>5. new \in CallRecords
    BY <1>2, <1>3 DEF CallRecords
  <1>6. call' \in [Calls -> CallRecords]
    BY <1>1, <1>5 DEF TypeOK
  <1>7. CallsOK'
    BY <1>1, <1>2, <1>4 DEF TypeOK, CallsOK
  <1>8. StagesOK'
    BY <1>1 DEF StagesOK, Exists
  <1> QED BY <1>1, <1>6, <1>7, <1>8 DEF TypeOK

\* The compare-and-set writes a status of the table.
LEMMA ApplyTransitionShape ==
    ASSUME Shape, NEW c \in Calls, ApplyTransition(c)
    PROVE  Shape'
  <1> USE DEF Shape
  <1> DEFINE t == call[c].tx
             entry == [from |-> call[c].from, to |-> call[c].to]
  <1>1. /\ t \in Requests
        /\ call[c].from \in RowStatuses /\ call[c].to \in TransitionKinds
        /\ call[c] \in CallRecords
    BY DEF ApplyTransition, CallsOK, TypeOK
  <1>2. UNCHANGED <<req, wallet, ledger, hook, acked, published, intent, crashes>>
    BY DEF ApplyTransition
  <1>3. ASSUME NEW outcome \in {"APPLIED", "CONFLICT"},
               call' = [call EXCEPT ![c].stage = "done", ![c].outcome = outcome]
        PROVE  call' \in [Calls -> CallRecords] /\ CallsOK'
    <2>1. [call[c] EXCEPT !.stage = "done", !.outcome = outcome] \in CallRecords
      BY <1>1 DEF CallRecords
    <2>2. call' = [call EXCEPT ![c] = [call[c] EXCEPT !.stage = "done", !.outcome = outcome]]
      BY <1>3 DEF TypeOK
    <2>3. call' \in [Calls -> CallRecords]
      BY <2>1, <2>2 DEF TypeOK
    <2>4. [call[c] EXCEPT !.stage = "done", !.outcome = outcome].stage = "done"
      BY <1>1 DEF CallRecords
    <2>5. CallsOK'
      BY <2>2, <2>4 DEF CallsOK, TypeOK
    <2> QED BY <2>3, <2>5
  <1>4. CASE StillAsRead(c)
    <2>1. /\ tx' = [tx EXCEPT ![t].status = call[c].to]
          /\ events' = [events EXCEPT ![t] = Append(@, entry)]
          /\ call' = [call EXCEPT ![c].stage = "done", ![c].outcome = "APPLIED"]
      BY <1>4 DEF ApplyTransition
    <2>2. tx[t].status \in RowStatuses
      BY <1>1, <1>4 DEF StillAsRead
    <2>3. Exists(t)
      BY <2>2 DEF RowStatuses, TransitionKinds, Exists
    <2>4. [tx[t] EXCEPT !.status = call[c].to] \in Rows
      BY <1>1, <2>3, RowParts DEF Rows, RowStatuses
    <2>5. tx' = [tx EXCEPT ![t] = [tx[t] EXCEPT !.status = call[c].to]]
      BY <1>1, <2>1 DEF TypeOK
    <2>6. tx' \in [Requests -> Rows]
      BY <2>4, <2>5 DEF TypeOK
    <2>7. [tx[t] EXCEPT !.status = call[c].to].status # "ABSENT"
      BY <1>1, <2>3, RowParts DEF TransitionKinds
    <2>8. \A u \in Requests : Exists(u) => Exists(u)'
      BY <1>1, <2>5, <2>7 DEF Exists, TypeOK
    <2>9. events' \in [Requests -> Seq(Events)]
      <3>1. entry \in Events
        BY <1>1 DEF Events
      <3> QED BY <1>1, <2>1, <3>1 DEF TypeOK
    <2>10. StagesOK'
      BY <1>2, <2>8 DEF StagesOK, TypeOK, ReqRecords
    <2>11. call' \in [Calls -> CallRecords] /\ CallsOK'
      BY <1>3, <2>1
    <2> QED BY <1>2, <2>6, <2>9, <2>10, <2>11 DEF TypeOK
  <1>5. CASE ~StillAsRead(c)
    <2>1. /\ UNCHANGED <<tx, events>>
          /\ call' = [call EXCEPT ![c].stage = "done", ![c].outcome = "CONFLICT"]
      BY <1>5 DEF ApplyTransition
    <2>2. call' \in [Calls -> CallRecords] /\ CallsOK'
      BY <1>3, <2>1
    <2> QED BY <1>2, <2>1, <2>2 DEF TypeOK, StagesOK, Exists
  <1> QED BY <1>4, <1>5

\* A restart leaves no handler with half of its state.
LEMMA CrashShape == ASSUME Shape, Crash PROVE Shape'
  <1> USE DEF Shape
  <1>1. /\ crashes < MaxCrashes /\ crashes' = crashes + 1
        /\ UNCHANGED <<tx, wallet, ledger, events, acked, published, intent>>
        /\ hook' = [h \in Hooks |-> Idle]
    BY DEF Crash
  <1>2. req' = [r \in Requests |->
                 IF req[r].stage \in {"new", "done", "refused"} THEN req[r]
                 ELSE [req[r] EXCEPT !.stage = "failed"]]
    BY DEF Crash
  <1>3. call' = [c \in Calls |->
                  IF call[c].stage = "apply"
                  THEN [call[c] EXCEPT !.stage = "done", !.outcome = "NONE"] ELSE call[c]]
    BY DEF Crash
  <1>4. ASSUME NEW r \in Requests
        PROVE  /\ req'[r] \in ReqRecords
               /\ req'[r].stage \notin {"provider", "ref"}
               /\ req'[r].input = req[r].input /\ req'[r].tx = req[r].tx
               /\ req'[r].stage # "new" => req[r].stage # "new"
    <2>1. req[r] \in ReqRecords
      BY DEF TypeOK
    <2> QED BY <1>2, <2>1 DEF ReqRecords, ReqStages
  <1>5. ASSUME NEW c \in Calls
        PROVE  call'[c] \in CallRecords /\ call'[c].stage # "apply"
    <2>1. call[c] \in CallRecords
      BY DEF TypeOK
    <2> QED BY <1>3, <2>1 DEF CallRecords
  <1>6. crashes' \in 0..MaxCrashes
    BY <1>1, PaymentAssumption DEF TypeOK
  <1>7. req' \in [Requests -> ReqRecords] /\ call' \in [Calls -> CallRecords]
        /\ hook' \in [Hooks -> HookStates]
    BY <1>1, <1>2, <1>3, <1>4, <1>5 DEF HookStates
  <1>8. TypeOK'
    BY <1>1, <1>6, <1>7 DEF TypeOK
  <1>9. StagesOK'
    BY <1>1, <1>4 DEF StagesOK, Exists
  <1>10. CallsOK'
    BY <1>5 DEF CallsOK
  <1> QED BY <1>8, <1>9, <1>10

\* Shape is a predicate on the variables.
LEMMA StutterShape == ASSUME Shape, UNCHANGED vars PROVE Shape'
  BY DEF Shape, vars, TypeOK, StagesOK, CallsOK, Exists

\* Shape is inductive: one case per action.
LEMMA NextShape == ASSUME Shape, [Next]_vars PROVE Shape'
  <1>1. CASE \E r \in Requests : \E in \in Inputs : Submit(r, in)
    BY <1>1, SubmitShape
  <1>2. CASE \E r \in Requests : InitiateStep(r)
    BY <1>2, FindExistingShape, CreateShape, RefetchShape, CallProviderShape,
       RecordRefShape DEF InitiateStep
  <1>3. CASE \E r \in Requests : Settle(r)
    BY <1>3, SettleShape
  <1>4. ASSUME NEW h \in Hooks, NEW ref \in Requests, DeliveryStep(h, ref)
        PROVE  Shape'
    <2>1. CASE StripeIgnore(h, ref)
      BY <2>1, IgnoreShape DEF StripeIgnore
    <2>2. CASE MpesaIgnore(h, ref)
      BY <2>2, IgnoreShape DEF MpesaIgnore
    <2> QED BY <1>4, <2>1, <2>2, StripeCreditShape, MpesaFindShape,
               MpesaDeclinedShape DEF DeliveryStep
  <1>5. CASE \E h \in Hooks : HookStep(h)
    BY <1>5, MpesaFailShape, MpesaCreditShape, PublishShape DEF HookStep
  <1>6. CASE \E c \in Calls, t \in Requests, kind \in TransitionKinds, role \in Roles,
                isOwner \in BOOLEAN : ReadForTransition(c, t, kind, role, isOwner)
    BY <1>6, ReadForTransitionShape
  <1>7. CASE \E c \in Calls : ApplyTransition(c)
    BY <1>7, ApplyTransitionShape
  <1>8. CASE Crash
    BY <1>8, CrashShape
  <1>9. CASE UNCHANGED vars
    BY <1>9, StutterShape
  <1> QED BY <1>1, <1>2, <1>3, <1>4, <1>5, <1>6, <1>7, <1>8, <1>9 DEF Next

\* Every reachable state is well formed: rows, handlers, callbacks, provider
\* records and counters stay within their types, and no handler ever works on
\* a row that does not exist.
THEOREM ShapeAlways == Spec => []Shape
  BY InitShape, NextShape, PTL DEF Spec

\* The type invariant, for every value of the constants.
THEOREM TypeCorrect == Spec => []TypeOK
  <1>1. Shape => TypeOK
    BY DEF Shape
  <1> QED BY <1>1, ShapeAlways, PTL

-----------------------------------------------------------------------------
\* A call that has not inserted a row has none of its name.
RowsNamed ==
    \A r \in Requests : req[r].stage \in {"new", "lookup", "insert"} => ~Exists(r)

\* A reference belongs to one row: the provider opened its intent for it.
RefsOK ==
    /\ \A r \in Requests :
          /\ req[r].stage \in {"new", "lookup", "insert", "refetch", "provider"}
                => intent[r].state = "none"
          /\ req[r].stage = "ref" => intent[r].state # "none" /\ intent[r].tx = req[r].tx
    /\ \A t \in Requests : tx[t].ref # None =>
          intent[tx[t].ref].state # "none" /\ intent[tx[t].ref].tx = t
    /\ \A h \in Hooks : hook[h].stage = "credit" => intent[hook[h].ref].state = "paid"

Books == RowsNamed /\ RefsOK /\ CreditedExactlyOnce /\ CreditsArePaidFor

\* Steps that credit nothing keep CreditedExactlyOnce when they neither move a
\* row into or out of COMPLETED nor change the amount of a COMPLETED row.
LEMMA LedgerKept ==
    ASSUME CreditedExactlyOnce, UNCHANGED ledger,
           \A t \in Requests :
              /\ tx'[t].status = "COMPLETED" <=> tx[t].status = "COMPLETED"
              /\ tx[t].status = "COMPLETED" => tx'[t].amount = tx[t].amount
    PROVE  CreditedExactlyOnce'
  <1> SUFFICES ASSUME NEW t \in Requests
               PROVE  /\ Len(ledger[t]) = (IF tx'[t].status = "COMPLETED" THEN 1 ELSE 0)
                      /\ \A i \in 1..Len(ledger[t]) : ledger[t][i].amount = tx'[t].amount
    BY DEF CreditedExactlyOnce
  <1>1. Len(ledger[t]) = (IF tx[t].status = "COMPLETED" THEN 1 ELSE 0)
    BY DEF CreditedExactlyOnce
  <1>2. CASE tx[t].status = "COMPLETED"
    BY <1>2 DEF CreditedExactlyOnce
  <1>3. CASE tx[t].status # "COMPLETED"
    <2>1. Len(ledger[t]) = 0
      BY <1>1, <1>3
    <2>2. 1..Len(ledger[t]) = {}
      BY <2>1
    <2> QED BY <1>3, <2>1, <2>2
  <1> QED BY <1>2, <1>3

\* Entries stay paid for while the ledger stands and paid intents do not move.
LEMMA PaidForKept ==
    ASSUME CreditsArePaidFor, UNCHANGED ledger,
           \A r \in Requests : intent[r].state = "paid" => intent'[r] = intent[r],
           ledger \in [Requests -> Seq(LedgerEntries)]
    PROVE  CreditsArePaidFor'
  <1> SUFFICES ASSUME NEW t \in Requests, NEW i \in 1..Len(ledger[t])
               PROVE  LET ref == ledger[t][i].ref IN
                      intent'[ref].state = "paid" /\ intent'[ref].tx = t
    BY DEF CreditsArePaidFor
  <1>1. ledger[t][i] \in LedgerEntries
    BY ElementOfSeq
  <1>2. ledger[t][i].ref \in Requests
    BY <1>1 DEF LedgerEntries
  <1> QED BY <1>2 DEF CreditsArePaidFor

\* The credit: the row was PENDING and so had no entry; now it has one, on a
\* reference that was paid for this row.
LEMMA CreditKeepsBooks ==
    ASSUME TypeOK, Books, NEW ref \in Requests, NEW t \in PendingWithRef(ref),
           CompleteAndCredit(t, ref), intent[ref].state = "paid", UNCHANGED intent
    PROVE  CreditedExactlyOnce' /\ CreditsArePaidFor'
  <1> DEFINE entry == [ref |-> ref, amount |-> tx[t].amount]
  <1>1. t \in Requests /\ Exists(t) /\ tx[t].ref = ref /\ tx[t].status = "PENDING"
    BY WithRefParts
  <1>2. /\ tx' = [tx EXCEPT ![t].status = "COMPLETED"]
        /\ ledger' = [ledger EXCEPT ![t] = Append(@, entry)]
    BY DEF CompleteAndCredit
  <1>3. ledger[t] \in Seq(LedgerEntries) /\ Len(ledger[t]) = 0
    BY <1>1 DEF TypeOK, Books, CreditedExactlyOnce
  <1>4. ledger'[t] = <<entry>>
    <2>1. ledger[t] = <<>>
      BY <1>3, EmptySeq
    <2> QED BY <1>1, <1>2, <2>1 DEF TypeOK
  <1>5. tx'[t].status = "COMPLETED" /\ tx'[t].amount = tx[t].amount
    BY <1>1, <1>2, RowParts DEF TypeOK
  <1>6. \A u \in Requests : u # t => tx'[u] = tx[u] /\ ledger'[u] = ledger[u]
    BY <1>2 DEF TypeOK
  <1>7. intent[ref].tx = t
    <2>1. None \notin Requests
      BY PaymentAssumption
    <2> QED BY <1>1, <2>1 DEF Books, RefsOK
  <1>8. CreditedExactlyOnce'
    <2> SUFFICES ASSUME NEW u \in Requests
                 PROVE  /\ Len(ledger'[u]) = (IF tx'[u].status = "COMPLETED" THEN 1 ELSE 0)
                        /\ \A i \in 1..Len(ledger'[u]) : ledger'[u][i].amount = tx'[u].amount
      BY DEF CreditedExactlyOnce
    <2>1. CASE u = t
      <3>1. Len(ledger'[t]) = 1 /\ \A i \in 1..1 : ledger'[t][i].amount = tx[t].amount
        BY <1>4
      <3> QED BY <2>1, <3>1, <1>5
    <2>2. CASE u # t
      BY <1>6, <2>2 DEF Books, CreditedExactlyOnce
    <2> QED BY <2>1, <2>2
  <1>9. CreditsArePaidFor'
    <2>1. ASSUME NEW i \in 1..Len(ledger'[t])
          PROVE  ledger'[t][i].ref = ref
      BY <1>4, <2>1
    <2> QED BY <1>6, <1>7, <2>1 DEF Books, CreditsArePaidFor
  <1> QED BY <1>8, <1>9

\* At the start nothing is credited.
LEMMA InitBooks == Init => Books
  <1> SUFFICES ASSUME Init PROVE Books OBVIOUS
  <1>1. RowsNamed
    BY DEF Init, RowsNamed, Exists, NoRow
  <1>2. RefsOK
    BY DEF Init, RefsOK, NoRow, NoIntent, Idle
  <1>3. CreditedExactlyOnce
    BY DEF Init, CreditedExactlyOnce, NoRow
  <1>4. CreditsArePaidFor
    BY DEF Init, CreditsArePaidFor
  <1> QED BY <1>1, <1>2, <1>3, <1>4 DEF Books

\* Steps of the initiate route.

\* None names no initiate call.
LEMMA RequestsNotNone == None \notin Requests
  BY PaymentAssumption

\* A submitted call touches no row and no ledger.
LEMMA SubmitBooks ==
    ASSUME TypeOK, Books, NEW r \in Requests, NEW in \in Inputs, Submit(r, in)
    PROVE  Books'
  <1> USE DEF Books
  <1>1. UNCHANGED <<tx, wallet, ledger, events, hook, acked, published, call,
                    intent, crashes>>
    BY DEF Submit
  <1>2. \A q \in Requests : \/ req'[q] = req[q]
                            \/ q = r /\ req[r].stage = "new" /\ req'[r].stage # "ref"
    BY DEF Submit, TypeOK, ReqRecords
  <1>3. RowsNamed'
    BY <1>1, <1>2 DEF RowsNamed, Exists
  <1>4. RefsOK'
    BY <1>1, <1>2 DEF RefsOK
  <1>5. CreditedExactlyOnce' /\ CreditsArePaidFor'
    BY <1>1 DEF CreditedExactlyOnce, CreditsArePaidFor
  <1> QED BY <1>3, <1>4, <1>5

\* The lookup touches no row and no ledger.
LEMMA FindExistingBooks ==
    ASSUME TypeOK, Books, NEW r \in Requests, FindExisting(r)
    PROVE  Books'
  <1> USE DEF Books
  <1>1. UNCHANGED <<tx, wallet, ledger, events, hook, acked, published, call,
                    intent, crashes>> /\ req[r].stage = "lookup"
    BY DEF FindExisting
  <1>2. \A q \in Requests : q # r => req'[q] = req[q]
    BY DEF FindExisting, TypeOK
  <1>3. req'[r].stage \in {"insert", "done"}
    BY DEF FindExisting, TypeOK, ReqRecords
  <1>4. RowsNamed'
    BY <1>1, <1>2, <1>3 DEF RowsNamed, Exists
  <1>5. RefsOK'
    BY <1>1, <1>2, <1>3 DEF RefsOK
  <1>6. CreditedExactlyOnce' /\ CreditsArePaidFor'
    BY <1>1 DEF CreditedExactlyOnce, CreditsArePaidFor
  <1> QED BY <1>4, <1>5, <1>6

\* A new row starts PENDING, without a reference, with an empty ledger.
LEMMA CreateBooks ==
    ASSUME TypeOK, Books, NEW r \in Requests, Create(r)
    PROVE  Books'
  <1> USE DEF Books
  <1>1. UNCHANGED <<wallet, ledger, events, hook, acked, published, call,
                    intent, crashes>> /\ req[r].stage = "insert"
    BY DEF Create
  <1>2. \A q \in Requests : q # r => req'[q] = req[q] /\ tx'[q] = tx[q]
    BY DEF Create, TypeOK
  <1>3. req'[r].stage \in {"refetch", "provider"}
    BY DEF Create, TypeOK, ReqRecords
  <1>4. \/ tx'[r] = tx[r]
        \/ tx'[r].status = "PENDING" /\ tx'[r].ref = None
    BY DEF Create, TypeOK
  <1>5. ~Exists(r)
    BY <1>1 DEF RowsNamed
  <1>6. RowsNamed'
    BY <1>2, <1>3 DEF RowsNamed, Exists
  <1>7. RefsOK'
    BY <1>1, <1>2, <1>3, <1>4 DEF RefsOK
  <1>8. CreditedExactlyOnce'
    BY <1>1, <1>2, <1>4, <1>5, LedgerKept DEF Exists
  <1>9. CreditsArePaidFor'
    BY <1>1 DEF CreditsArePaidFor
  <1> QED BY <1>6, <1>7, <1>8, <1>9

\* The second lookup touches no row and no ledger.
LEMMA RefetchBooks ==
    ASSUME TypeOK, Books, NEW r \in Requests, Refetch(r)
    PROVE  Books'
  <1> USE DEF Books
  <1>1. UNCHANGED <<tx, wallet, ledger, events, hook, acked, published, call,
                    intent, crashes>> /\ req[r].stage = "refetch"
    BY DEF Refetch
  <1>2. \A q \in Requests : q # r => req'[q] = req[q]
    BY DEF Refetch, TypeOK
  <1>3. req'[r].stage = "provider"
    BY DEF Refetch, TypeOK, ReqRecords
  <1>4. RowsNamed'
    BY <1>1, <1>2, <1>3 DEF RowsNamed, Exists
  <1>5. RefsOK'
    BY <1>1, <1>2, <1>3 DEF RefsOK
  <1>6. CreditedExactlyOnce' /\ CreditsArePaidFor'
    BY <1>1 DEF CreditedExactlyOnce, CreditsArePaidFor
  <1> QED BY <1>4, <1>5, <1>6

\* The provider answers under a fresh reference, so no row carries it yet.
LEMMA CallProviderBooks ==
    ASSUME TypeOK, Books, NEW r \in Requests, CallProvider(r)
    PROVE  Books'
  <1> USE DEF Books
  <1>1. UNCHANGED <<tx, wallet, ledger, events, hook, acked, published, call,
                    crashes>> /\ req[r].stage = "provider"
    BY DEF CallProvider
  <1>2. intent[r].state = "none"
    BY <1>1 DEF RefsOK
  <1>3. /\ \A q \in Requests : q # r => req'[q] = req[q] /\ intent'[q] = intent[q]
        /\ req'[r].tx = req[r].tx
        /\ \/ req'[r].stage = "failed"
           \/ req'[r].stage = "ref" /\ intent'[r].state = "open" /\ intent'[r].tx = req[r].tx
    BY DEF CallProvider, TypeOK, ReqRecords
  <1>4. RowsNamed'
    BY <1>1, <1>3 DEF RowsNamed, Exists
  <1>5. \A t \in Requests : tx[t].ref # None => tx[t].ref \in Requests \ {r}
    BY <1>2 DEF RefsOK, TypeOK, Rows, NoRow
  <1>6. \A h \in Hooks : hook[h].stage = "credit" => hook[h].ref \in Requests \ {r}
    BY <1>2, BusyHook DEF RefsOK
  <1>7. RefsOK'
    BY <1>1, <1>3, <1>5, <1>6 DEF RefsOK
  <1>8. CreditedExactlyOnce'
    BY <1>1 DEF CreditedExactlyOnce
  <1>9. CreditsArePaidFor'
    BY <1>1, <1>2, <1>3, PaidForKept DEF TypeOK
  <1> QED BY <1>4, <1>7, <1>8, <1>9

\* A row takes over only a reference that was opened for it.
LEMMA RecordRefBooks ==
    ASSUME TypeOK, StagesOK, Books, NEW r \in Requests, RecordRef(r)
    PROVE  Books'
  <1> USE DEF Books
  <1> DEFINE t == req[r].tx
  <1>1. UNCHANGED <<wallet, ledger, events, hook, acked, published, call,
                    intent, crashes>> /\ req[r].stage = "ref"
    BY DEF RecordRef
  <1>2. t \in Requests /\ Exists(t)
    BY <1>1 DEF StagesOK, TypeOK, ReqRecords
  <1>3. \A q \in Requests : q # r => req'[q] = req[q]
    BY DEF RecordRef, TypeOK
  <1>4. req'[r].stage = "done"
    BY DEF RecordRef, TypeOK, ReqRecords
  <1>5. tx' = [tx EXCEPT ![t].ref = r]
    BY DEF RecordRef
  <1>6. /\ \A u \in Requests : u # t => tx'[u] = tx[u]
        /\ tx'[t].status = tx[t].status /\ tx'[t].amount = tx[t].amount
        /\ tx'[t].ref = r
    BY <1>2, <1>5, RowParts DEF TypeOK
  <1>7. intent[r].state # "none" /\ intent[r].tx = t
    BY <1>1 DEF RefsOK
  <1> HIDE DEF t
  <1>8. RowsNamed'
    BY <1>3, <1>4, <1>6 DEF RowsNamed, Exists
  <1>9. RefsOK'
    BY <1>1, <1>3, <1>4, <1>6, <1>7 DEF RefsOK
  <1>10. CreditedExactlyOnce'
    BY <1>1, <1>6, LedgerKept
  <1>11. CreditsArePaidFor'
    BY <1>1 DEF CreditsArePaidFor
  <1> QED BY <1>8, <1>9, <1>10, <1>11

\* Settling an open intent leaves every entry of the ledger paid for.
LEMMA SettleBooks ==
    ASSUME TypeOK, Books, NEW r \in Requests, Settle(r)
    PROVE  Books'
  <1> USE DEF Books
  <1>1. UNCHANGED <<req, tx, wallet, ledger, events, hook, acked, published,
                    call, crashes>> /\ intent[r].state = "open"
    BY DEF Settle
  <1>2. /\ \A q \in Requests : q # r => intent'[q] = intent[q]
        /\ intent'[r].tx = intent[r].tx /\ intent'[r].state \in {"paid", "declined"}
    <2>1. PICK state \in {"paid", "declined"} : intent' = [intent EXCEPT ![r].state = state]
      BY DEF Settle
    <2>2. intent[r] \in [state : {"open", "paid", "declined"}, method : Methods,
                         tx : Requests, amount : Nat \ {0}]
      BY <1>1 DEF TypeOK, Intents, NoIntent
    <2> QED BY <2>1, <2>2 DEF TypeOK
  <1>3. RefsOK'
    <2>1. \A q \in Requests :
             /\ intent'[q].tx = intent[q].tx
             /\ intent'[q].state = "none" <=> intent[q].state = "none"
             /\ intent[q].state = "paid" => intent'[q].state = "paid"
      BY <1>1, <1>2
    <2>2. \A t \in Requests : tx[t].ref # None => tx[t].ref \in Requests
      BY DEF TypeOK, Rows, NoRow
    <2>3. \A h \in Hooks : hook[h].stage = "credit" => hook[h].ref \in Requests
      BY BusyHook
    <2> QED BY <1>1, <2>1, <2>2, <2>3 DEF RefsOK
  <1>4. CreditsArePaidFor'
    BY <1>1, <1>2, PaidForKept DEF TypeOK
  <1> QED BY <1>1, <1>3, <1>4 DEF RowsNamed, Exists, CreditedExactlyOnce

\* Steps of the callbacks: they leave calls, references and intents alone.

\* A step of a callback that leaves rows and references in place keeps the naming.
LEMMA HookStepRefs ==
    ASSUME Books, UNCHANGED <<req, intent>>,
           \A t \in Requests : (Exists(t) <=> Exists(t)') /\ tx'[t].ref = tx[t].ref,
           \A g \in Hooks : hook'[g].stage = "credit" =>
              hook'[g] = hook[g] \/ intent[hook'[g].ref].state = "paid"
    PROVE  RowsNamed' /\ RefsOK'
  BY DEF Books, RowsNamed, RefsOK

\* A credit on a paid reference keeps the books.
LEMMA CreditBooks ==
    ASSUME TypeOK, Books, NEW ref \in Requests, NEW t \in PendingWithRef(ref),
           CompleteAndCredit(t, ref), intent[ref].state = "paid",
           UNCHANGED <<req, intent>>, NEW h \in Hooks, NEW new,
           hook' = [hook EXCEPT ![h] = new], new.stage # "credit"
    PROVE  Books'
  <1>1. CreditedExactlyOnce' /\ CreditsArePaidFor'
    BY CreditKeepsBooks
  <1>2. t \in Requests /\ Exists(t)
    BY WithRefParts
  <1>3. \A u \in Requests : (Exists(u) <=> Exists(u)') /\ tx'[u].ref = tx[u].ref
    BY <1>2, RowParts DEF CompleteAndCredit, TypeOK, Exists
  <1>4. \A g \in Hooks : hook'[g].stage = "credit" => hook'[g] = hook[g]
    BY DEF TypeOK
  <1>5. RowsNamed' /\ RefsOK'
    BY <1>3, <1>4, HookStepRefs
  <1> QED BY <1>1, <1>5 DEF Books

\* failByRef touches only rows with an empty ledger.
LEMMA FailBooks ==
    ASSUME TypeOK, Books, NEW ref \in Requests, FailByRef(ref),
           UNCHANGED <<req, intent, ledger>>,
           \A g \in Hooks : hook'[g].stage = "credit" => hook'[g] = hook[g]
    PROVE  Books'
  <1>1. \A t \in Requests : \/ tx'[t] = tx[t]
                            \/ /\ tx[t].status = "PENDING" /\ tx'[t].status = "FAILED"
                               /\ tx'[t].ref = tx[t].ref
    <2> TAKE t \in Requests
    <2>1. CASE t \in PendingWithRef(ref)
      BY <2>1, WithRefParts, RowParts DEF FailByRef
    <2>2. CASE t \notin PendingWithRef(ref)
      BY <2>2 DEF FailByRef
    <2> QED BY <2>1, <2>2
  <1>2. \A t \in Requests : (Exists(t) <=> Exists(t)') /\ tx'[t].ref = tx[t].ref
    BY <1>1 DEF Exists
  <1>3. RowsNamed' /\ RefsOK'
    BY <1>2, HookStepRefs
  <1>4. CreditedExactlyOnce'
    BY <1>1, LedgerKept DEF Books
  <1>5. CreditsArePaidFor'
    BY DEF Books, CreditsArePaidFor
  <1> QED BY <1>3, <1>4, <1>5 DEF Books

\* A callback step that touches neither rows nor money.
LEMMA QuietHookBooks ==
    ASSUME Books, UNCHANGED <<req, tx, ledger, intent>>,
           \A g \in Hooks : hook'[g].stage = "credit" =>
              hook'[g] = hook[g] \/ intent[hook'[g].ref].state = "paid"
    PROVE  Books'
  <1>1. RowsNamed' /\ RefsOK'
    BY HookStepRefs DEF Exists
  <1> QED BY <1>1 DEF Books, CreditedExactlyOnce, CreditsArePaidFor

\* Every delivery keeps the books.
LEMMA DeliveryBooks ==
    ASSUME TypeOK, Books, NEW h \in Hooks, NEW ref \in Requests, DeliveryStep(h, ref)
    PROVE  Books'
  <1>1. CASE StripeCredit(h, ref)
    <2>1. PICK t \in PendingWithRef(ref) :
              /\ CompleteAndCredit(t, ref)
              /\ hook' = [hook EXCEPT ![h] = [stage |-> "publish", ref |-> ref, tx |-> t]]
      BY <1>1 DEF StripeCredit
    <2>2. intent[ref].state = "paid" /\ UNCHANGED <<req, intent>>
      BY <1>1 DEF StripeCredit, Succeeded
    <2> DEFINE new == [stage |-> "publish", ref |-> ref, tx |-> t]
    <2>3. new.stage # "credit" /\ hook' = [hook EXCEPT ![h] = new]
      BY <2>1
    <2> HIDE DEF new
    <2> QED BY <2>1, <2>2, <2>3, CreditBooks
  <1>2. CASE StripeIgnore(h, ref) \/ MpesaIgnore(h, ref)
    <2>1. UNCHANGED <<req, tx, ledger, intent, hook>>
      BY <1>2 DEF StripeIgnore, MpesaIgnore
    <2> QED BY <2>1, QuietHookBooks
  <1>3. ASSUME NEW shown \in ShowsAmount, MpesaFind(h, ref, shown)
        PROVE  Books'
    <2>1. intent[ref].state = "paid" /\ UNCHANGED <<req, tx, ledger, intent>>
      BY <1>3 DEF MpesaFind, Succeeded
    <2>2. \A g \in Hooks : hook'[g] = hook[g] \/ hook'[g].ref = ref
      BY <1>3 DEF MpesaFind, TypeOK
    <2> QED BY <2>1, <2>2, QuietHookBooks
  <1>4. CASE MpesaDeclined(h, ref)
    BY <1>4, FailBooks DEF MpesaDeclined
  <1> QED BY <1>1, <1>2, <1>3, <1>4 DEF DeliveryStep

\* Every later step of a callback keeps the books.
LEMMA HookBooks ==
    ASSUME TypeOK, Books, NEW h \in Hooks, HookStep(h)
    PROVE  Books'
  <1>1. \A g \in Hooks : hook' = [hook EXCEPT ![h] = Idle]
            => (hook'[g].stage = "credit" => hook'[g] = hook[g])
    BY DEF TypeOK, Idle
  <1>2. CASE MpesaFail(h)
    <2>1. hook[h].ref \in Requests
      BY <1>2, BusyHook DEF MpesaFail
    <2> QED BY <1>1, <1>2, <2>1, FailBooks DEF MpesaFail
  <1>3. CASE Publish(h)
    BY <1>1, <1>3, QuietHookBooks DEF Publish
  <1>4. CASE MpesaCredit(h)
    <2>1. hook[h].ref \in Requests /\ intent[hook[h].ref].state = "paid"
      BY <1>4, BusyHook DEF MpesaCredit, Books, RefsOK
    <2>2. UNCHANGED <<req, intent>>
      BY <1>4 DEF MpesaCredit
    <2>3. ASSUME NEW t \in PendingWithRef(hook[h].ref),
                 CompleteAndCredit(t, hook[h].ref),
                 hook' = [hook EXCEPT ![h] = [@ EXCEPT !.stage = "publish", !.tx = t]]
          PROVE  Books'
      <3>1. hook[h] \in HookStates /\ hook[h].stage = "credit"
        BY <1>4 DEF MpesaCredit, TypeOK
      <3>2. [hook[h] EXCEPT !.stage = "publish", !.tx = t].stage = "publish"
        BY <3>1 DEF HookStates, Idle
      <3>3. hook' = [hook EXCEPT ![h] = [hook[h] EXCEPT !.stage = "publish", !.tx = t]]
        BY <2>3
      <3> QED BY <2>1, <2>2, <2>3, <3>2, <3>3, CreditBooks
    <2>4. CASE NoCredit /\ hook' = [hook EXCEPT ![h] = Idle]
      BY <1>1, <2>2, <2>4, QuietHookBooks DEF NoCredit
    <2> QED BY <1>4, <2>3, <2>4 DEF MpesaCredit
  <1> QED BY <1>2, <1>3, <1>4 DEF HookStep

\* Operators: the table has no rule from or to COMPLETED.
LEMMA ApplyTransitionBooks ==
    ASSUME Shape, Books, NEW c \in Calls, ApplyTransition(c)
    PROVE  Books'
  <1> DEFINE t == call[c].tx
  <1>1. /\ t \in Requests /\ call[c].to \in TransitionKinds
        /\ call[c].from \in Movable
    BY RulesStartMovable DEF Shape, CallsOK, ApplyTransition
  <1>2. UNCHANGED <<req, ledger, hook, intent>>
    BY DEF ApplyTransition
  <1>3. \A u \in Requests :
           \/ tx'[u] = tx[u]
           \/ /\ u = t /\ tx[u].status \in Movable /\ tx'[u].status \in TransitionKinds
              /\ tx'[u].ref = tx[u].ref
    <2>1. CASE StillAsRead(c)
      <3>1. tx' = [tx EXCEPT ![t].status = call[c].to] /\ tx[t].status \in Movable
        BY <1>1, <2>1 DEF ApplyTransition, StillAsRead
      <3>2. tx[t] \in [status : RowStatuses, user : Users, amount : Nat \ {0},
                       key : Keys \cup {None}, ref : Requests \cup {None}]
        BY <1>1, <3>1, RowParts DEF Movable, Exists, Shape
      <3>3. /\ tx'[t].status = call[c].to /\ tx'[t].ref = tx[t].ref
            /\ \A u \in Requests : u # t => tx'[u] = tx[u]
        BY <1>1, <3>1, <3>2 DEF Shape, TypeOK
      <3> QED BY <1>1, <3>1, <3>3
    <2>2. CASE ~StillAsRead(c)
      BY <2>2 DEF ApplyTransition
    <2> QED BY <2>1, <2>2
  <1>4. \A u \in Requests : (Exists(u) <=> Exists(u)') /\ tx'[u].ref = tx[u].ref
    BY <1>3 DEF Exists, Movable, TransitionKinds
  <1>5. RowsNamed' /\ RefsOK'
    BY <1>2, <1>4, HookStepRefs
  <1>6. \A u \in Requests : /\ tx'[u].status = "COMPLETED" <=> tx[u].status = "COMPLETED"
                            /\ tx[u].status = "COMPLETED" => tx'[u] = tx[u]
    BY <1>3 DEF Movable, TransitionKinds
  <1>7. CreditedExactlyOnce'
    BY <1>2, <1>6, LedgerKept DEF Books
  <1>8. CreditsArePaidFor'
    BY <1>2 DEF Books, CreditsArePaidFor
  <1> QED BY <1>5, <1>7, <1>8 DEF Books

\* A restart touches no row and no ledger.
LEMMA CrashBooks == ASSUME TypeOK, Books, Crash PROVE Books'
  <1>1. /\ UNCHANGED <<tx, ledger, intent>>
        /\ \A h \in Hooks : hook'[h].stage = "idle"
    BY DEF Crash, Idle
  <1>2. \A r \in Requests : req'[r] = req[r] \/ req'[r].stage = "failed"
    BY DEF Crash, TypeOK, ReqRecords
  <1> QED BY <1>1, <1>2 DEF Books, RowsNamed, RefsOK, Exists, CreditedExactlyOnce,
                            CreditsArePaidFor

\* Books is inductive relative to Shape: one case per action.
LEMMA NextBooks == ASSUME Shape, Books, [Next]_vars PROVE Books'
  <1> USE DEF Shape
  <1>1. CASE \E r \in Requests : \E in \in Inputs : Submit(r, in)
    BY <1>1, SubmitBooks
  <1>2. CASE \E r \in Requests : InitiateStep(r)
    BY <1>2, FindExistingBooks, CreateBooks, RefetchBooks, CallProviderBooks,
       RecordRefBooks DEF InitiateStep
  <1>3. CASE \E r \in Requests : Settle(r)
    BY <1>3, SettleBooks
  <1>4. CASE \E h \in Hooks, ref \in Requests : DeliveryStep(h, ref)
    BY <1>4, DeliveryBooks
  <1>5. CASE \E h \in Hooks : HookStep(h)
    BY <1>5, HookBooks
  <1>6. CASE \E c \in Calls, t \in Requests, kind \in TransitionKinds, role \in Roles,
                isOwner \in BOOLEAN : ReadForTransition(c, t, kind, role, isOwner)
    <2>1. UNCHANGED <<req, tx, ledger, intent, hook>>
      BY <1>6 DEF ReadForTransition
    <2> QED BY <2>1, QuietHookBooks
  <1>7. CASE \E c \in Calls : ApplyTransition(c)
    BY <1>7, ApplyTransitionBooks
  <1>8. CASE Crash
    BY <1>8, CrashBooks
  <1>9. CASE UNCHANGED vars
    BY <1>9, QuietHookBooks DEF vars
  <1> QED BY <1>1, <1>2, <1>3, <1>4, <1>5, <1>6, <1>7, <1>8, <1>9 DEF Next

\* The inductive invariant holds in every reachable state: statuses, references
\* and ledgers agree, whatever callbacks, operators and restarts do.
THEOREM BooksAlways == Spec => [](Shape /\ Books)
  <1>1. Init => Shape /\ Books
    BY InitShape, InitBooks
  <1>2. (Shape /\ Books) /\ [Next]_vars => (Shape /\ Books)'
    BY NextShape, NextBooks
  <1> QED BY <1>1, <1>2, PTL DEF Spec

\* For any number of callbacks, duplicated and reordered as they may be, of
\* operators and of restarts: a row has one credit if it is COMPLETED, none
\* otherwise.
THEOREM CreditOnce == Spec => []CreditedExactlyOnce
  <1>1. Books => CreditedExactlyOnce
    BY DEF Books
  <1> QED BY <1>1, BooksAlways, PTL

\* No credit without a payment the provider was asked for on behalf of the
\* very row that is credited.
THEOREM CreditsPaid == Spec => []CreditsArePaidFor
  <1>1. Books => CreditsArePaidFor
    BY DEF Books
  <1> QED BY <1>1, BooksAlways, PTL

-----------------------------------------------------------------------------
\* What one step makes of a row.

Same(t) ==
    /\ tx'[t].status = tx[t].status
    /\ tx'[t].user = tx[t].user /\ tx'[t].amount = tx[t].amount

\* Every step does one of five things to the rows and the wallets: nothing, or
\* one row is inserted, credited, failed, or moved along the transition table.
Untouched == UNCHANGED wallet /\ \A t \in Requests : Same(t)

Inserted(t) ==
    /\ UNCHANGED wallet /\ \A u \in Requests \ {t} : Same(u)
    /\ tx[t] = NoRow /\ tx'[t].status = "PENDING"
    /\ \E in \in Inputs : tx'[t].user = in.user /\ tx'[t].amount = in.amount

CreditedNow(t) ==
    /\ \A u \in Requests \ {t} : Same(u)
    /\ tx[t].status = "PENDING" /\ tx'[t].status = "COMPLETED"
    /\ tx'[t].user = tx[t].user /\ tx'[t].amount = tx[t].amount
    /\ tx[t].user \in Users /\ tx[t].amount \in Nat
    /\ wallet' = [wallet EXCEPT ![tx[t].user] = @ + tx[t].amount]

FailedNow(t) ==
    /\ UNCHANGED wallet /\ \A u \in Requests \ {t} : Same(u)
    /\ tx[t].status = "PENDING" /\ tx'[t].status = "FAILED"
    /\ tx'[t].user = tx[t].user /\ tx'[t].amount = tx[t].amount

Moved(t) ==
    /\ UNCHANGED wallet /\ \A u \in Requests \ {t} : Same(u)
    /\ tx[t].status \in Movable /\ tx'[t].status \in TransitionKinds
    /\ tx[t].status \in RowStatuses
    /\ tx'[t].user = tx[t].user /\ tx'[t].amount = tx[t].amount

\* What a credit does, seen from every row.
LEMMA CreditRowStep ==
    ASSUME TypeOK, NEW ref, NEW t \in PendingWithRef(ref), CompleteAndCredit(t, ref)
    PROVE  t \in Requests /\ CreditedNow(t)
  BY WithRefParts, RowParts DEF CompleteAndCredit, TypeOK, CreditedNow, Same

\* A reference belongs to one row, so failByRef fails one row at most.
LEMMA FailRowStep ==
    ASSUME TypeOK, RefsOK, NEW ref \in Requests, FailByRef(ref), UNCHANGED wallet
    PROVE  Untouched \/ \E t \in Requests : FailedNow(t)
  <1>1. CASE PendingWithRef(ref) = {}
    BY <1>1 DEF FailByRef, Untouched, Same
  <1>2. ASSUME NEW t \in PendingWithRef(ref) PROVE t \in Requests /\ FailedNow(t)
    <2>1. t \in Requests /\ Exists(t) /\ tx[t].ref = ref /\ tx[t].status = "PENDING"
      BY WithRefParts
    <2>2. tx'[t] = [tx[t] EXCEPT !.status = "FAILED"]
      BY <2>1 DEF FailByRef
    <2>3. \A u \in Requests \ {t} : u \notin PendingWithRef(ref)
      BY <2>1, WithRefParts, RequestsNotNone DEF RefsOK
    <2>4. \A u \in Requests \ {t} : Same(u)
      BY <2>3 DEF FailByRef, Same
    <2> QED BY <2>1, <2>2, <2>4, RowParts DEF FailedNow
  <1> QED BY <1>1, <1>2

\* What a transition does, seen from every row.
LEMMA ApplyRowStep ==
    ASSUME Shape, NEW c \in Calls, ApplyTransition(c)
    PROVE  Untouched \/ \E t \in Requests : Moved(t)
  <1> DEFINE t == call[c].tx
  <1>1. /\ t \in Requests /\ call[c].to \in TransitionKinds
        /\ call[c].from \in Movable /\ call[c].from \in RowStatuses
    BY RulesStartMovable DEF Shape, CallsOK, ApplyTransition
  <1>2. CASE StillAsRead(c)
    <2>1. /\ tx' = [tx EXCEPT ![t].status = call[c].to]
          /\ tx[t].status \in Movable /\ tx[t].status \in RowStatuses
      BY <1>1, <1>2 DEF ApplyTransition, StillAsRead
    <2>2. tx[t] \in [status : RowStatuses, user : Users, amount : Nat \ {0},
                     key : Keys \cup {None}, ref : Requests \cup {None}]
      BY <1>1, <2>1, RowParts DEF Movable, Exists, Shape
    <2>3. /\ tx'[t].status = call[c].to
          /\ tx'[t].user = tx[t].user /\ tx'[t].amount = tx[t].amount
          /\ \A u \in Requests \ {t} : tx'[u] = tx[u]
      BY <1>1, <2>1, <2>2 DEF Shape, TypeOK
    <2>4. UNCHANGED wallet
      BY DEF ApplyTransition
    <2>5. Moved(t)
      BY <1>1, <2>1, <2>3, <2>4 DEF Moved, Same
    <2> QED BY <1>1, <2>5
  <1>3. CASE ~StillAsRead(c)
    BY <1>3 DEF ApplyTransition, Untouched, Same
  <1> QED BY <1>2, <1>3

\* What an initiate call does, seen from every row.
LEMMA InitiateRowStep ==
    ASSUME Shape, Books, NEW r \in Requests, InitiateStep(r)
    PROVE  Untouched \/ Inserted(r)
  <1>1. CASE FindExisting(r) \/ Refetch(r) \/ CallProvider(r)
    BY <1>1 DEF FindExisting, Refetch, CallProvider, Untouched, Same
  <1>2. CASE Create(r)
    <2>1. tx[r] = NoRow
      BY <1>2 DEF Create, Shape, TypeOK, Books, RowsNamed, Exists, Rows, RowStatuses,
                  TransitionKinds
    <2>2. req[r].input \in Inputs
      BY <1>2 DEF Create, Shape, StagesOK
    <2>3. UNCHANGED wallet
      BY <1>2 DEF Create
    <2>4. CASE UNCHANGED tx
      BY <2>3, <2>4 DEF Untouched, Same
    <2>5. CASE ~(UNCHANGED tx)
      <3>1. tx' = [tx EXCEPT ![r] = [status |-> "PENDING", user |-> req[r].input.user,
                                     amount |-> req[r].input.amount,
                                     key |-> req[r].input.key, ref |-> None]]
        BY <1>2, <2>5 DEF Create
      <3>2. \A u \in Requests \ {r} : Same(u)
        BY <3>1 DEF Shape, TypeOK, Same
      <3>3. /\ tx'[r].status = "PENDING"
            /\ tx'[r].user = req[r].input.user /\ tx'[r].amount = req[r].input.amount
        BY <3>1 DEF Shape, TypeOK
      <3> QED BY <2>1, <2>2, <2>3, <3>2, <3>3 DEF Inserted
    <2> QED BY <2>4, <2>5
  <1>3. CASE RecordRef(r)
    <2>1. req[r].tx \in Requests /\ Exists(req[r].tx)
      BY <1>3 DEF RecordRef, Shape, StagesOK, TypeOK, ReqRecords
    <2>2. tx' = [tx EXCEPT ![req[r].tx].ref = r] /\ UNCHANGED wallet
      BY <1>3 DEF RecordRef
    <2> QED BY <2>1, <2>2, RowParts DEF Shape, TypeOK, Untouched, Same
  <1> QED BY <1>1, <1>2, <1>3 DEF InitiateStep

\* Every step does one of five things to the rows and the wallets.
LEMMA StepKinds ==
    ASSUME Shape, Books, [Next]_vars
    PROVE  \/ Untouched
           \/ \E t \in Requests : Inserted(t) \/ CreditedNow(t) \/ FailedNow(t) \/ Moved(t)
  <1>1. ASSUME UNCHANGED <<tx, wallet>> PROVE Untouched
    BY <1>1 DEF Untouched, Same
  <1>2. CASE \E r \in Requests : \E in \in Inputs : Submit(r, in)
    BY <1>1, <1>2 DEF Submit
  <1>3. CASE \E r \in Requests : InitiateStep(r)
    BY <1>3, InitiateRowStep
  <1>4. CASE \E r \in Requests : Settle(r)
    BY <1>1, <1>4 DEF Settle
  <1>5. ASSUME NEW h \in Hooks, NEW ref \in Requests, DeliveryStep(h, ref)
        PROVE  Untouched \/ \E t \in Requests : CreditedNow(t) \/ FailedNow(t)
    <2>1. CASE StripeCredit(h, ref)
      BY <2>1, CreditRowStep DEF StripeCredit, Shape
    <2>2. CASE MpesaDeclined(h, ref)
      BY <2>2, FailRowStep DEF MpesaDeclined, Shape, Books
    <2>3. CASE \/ StripeIgnore(h, ref) \/ MpesaIgnore(h, ref)
               \/ \E shown \in ShowsAmount : MpesaFind(h, ref, shown)
      BY <1>1, <2>3 DEF StripeIgnore, MpesaIgnore, MpesaFind
    <2> QED BY <1>5, <2>1, <2>2, <2>3 DEF DeliveryStep
  <1>6. ASSUME NEW h \in Hooks, HookStep(h)
        PROVE  Untouched \/ \E t \in Requests : CreditedNow(t) \/ FailedNow(t)
    <2>1. CASE MpesaFail(h)
      <3>1. hook[h].ref \in Requests
        BY <2>1, BusyHook DEF MpesaFail, Shape
      <3> QED BY <2>1, <3>1, FailRowStep DEF MpesaFail, Shape, Books
    <2>2. CASE MpesaCredit(h)
      <3>1. ASSUME NEW t \in PendingWithRef(hook[h].ref), CompleteAndCredit(t, hook[h].ref)
            PROVE  t \in Requests /\ CreditedNow(t)
        BY <3>1, CreditRowStep DEF Shape
      <3>2. NoCredit => Untouched
        BY <1>1 DEF NoCredit
      <3> QED BY <2>2, <3>1, <3>2 DEF MpesaCredit
    <2>3. CASE Publish(h)
      BY <1>1, <2>3 DEF Publish
    <2> QED BY <1>6, <2>1, <2>2, <2>3 DEF HookStep
  <1>7. CASE \E c \in Calls, t \in Requests, kind \in TransitionKinds, role \in Roles,
                isOwner \in BOOLEAN : ReadForTransition(c, t, kind, role, isOwner)
    BY <1>1, <1>7 DEF ReadForTransition
  <1>8. CASE \E c \in Calls : ApplyTransition(c)
    BY <1>8, ApplyRowStep
  <1>9. CASE Crash
    BY <1>1, <1>9 DEF Crash
  <1>10. CASE UNCHANGED vars
    BY <1>1, <1>10 DEF vars
  <1> QED BY <1>2, <1>3, <1>4, <1>5, <1>6, <1>7, <1>8, <1>9, <1>10 DEF Next

\* No late callback, dispute or cancellation, in whatever order, moves a row
\* that was settled.
THEOREM SettledStays == Spec => SettledIsFinal
  <1>1. ASSUME Shape, Books, [Next]_vars
        PROVE  [\A t \in Requests : tx[t].status \in Settled =>
                   tx'[t].status = tx[t].status]_vars
    BY <1>1, StepKinds
       DEF Untouched, Inserted, CreditedNow, FailedNow, Moved, Same, Settled, Movable, NoRow
  <1> QED BY <1>1, BooksAlways, PTL DEF Spec, SettledIsFinal

\* Money reaches a wallet only with the completion of one of its owner's rows,
\* in the same step and by that row's amount.
THEOREM WalletMoves == Spec => WalletMovesWithCompletion
  <1>1. ASSUME Shape, Books, [Next]_vars
        PROVE  [\A u \in Users : wallet'[u] # wallet[u] =>
                   \E t \in Requests :
                       /\ tx[t].user = u
                       /\ tx[t].status = "PENDING" /\ tx'[t].status = "COMPLETED"
                       /\ wallet'[u] = wallet[u] + tx[t].amount]_vars
    <2>1. wallet \in [Users -> Nat]
      BY <1>1 DEF Shape, TypeOK
    <2>2. ASSUME NEW u \in Users, wallet'[u] # wallet[u]
          PROVE  \E t \in Requests :
                    /\ tx[t].user = u
                    /\ tx[t].status = "PENDING" /\ tx'[t].status = "COMPLETED"
                    /\ wallet'[u] = wallet[u] + tx[t].amount
      <3>1. PICK t \in Requests : CreditedNow(t)
        BY <1>1, <2>2, StepKinds DEF Untouched, Inserted, FailedNow, Moved
      <3> QED BY <2>1, <2>2, <3>1 DEF CreditedNow
    <2> QED BY <2>2
  <1> QED BY <1>1, BooksAlways, PTL DEF Spec, WalletMovesWithCompletion

-----------------------------------------------------------------------------
\* The refinement: the five kinds of step are the steps of Settlement.

\* A row that keeps its status, buyer and amount is unchanged to the promise.
LEMMA SameOutcome ==
    ASSUME NEW t \in Requests, Same(t)
    PROVE  outcomeBar'[t] = outcomeBar[t] /\ termsBar'[t] = termsBar[t]
  BY DEF Same, outcomeBar, termsBar, OutcomeOf

\* The mapped variables at one row.
LEMMA BarsAreFunctions ==
    /\ outcomeBar = [t \in Requests |-> outcomeBar[t]]
    /\ termsBar = [t \in Requests |-> termsBar[t]]
    /\ outcomeBar' = [t \in Requests |-> outcomeBar'[t]]
    /\ termsBar' = [t \in Requests |-> termsBar'[t]]
  BY DEF outcomeBar, termsBar

\* Initial states map to initial states.
LEMMA InitRefines == Init => Promise!Init
  BY DEF Init, Promise!Init, Promise!NoTerms, outcomeBar, termsBar, OutcomeOf, NoRow

\* An inserted row is a payment opened.
LEMMA InsertedRefines ==
    ASSUME NEW t \in Requests, Inserted(t)
    PROVE  Promise!Open(t)
  <1>1. outcomeBar[t] = "none" /\ outcomeBar'[t] = "open"
    BY DEF Inserted, outcomeBar, OutcomeOf, NoRow
  <1>2. \A u \in Requests \ {t} :
            outcomeBar'[u] = outcomeBar[u] /\ termsBar'[u] = termsBar[u]
    BY SameOutcome DEF Inserted
  <1>3. outcomeBar' = [outcomeBar EXCEPT ![t] = "open"]
    BY <1>1, <1>2 DEF outcomeBar
  <1>4. PICK in \in Inputs : termsBar'[t] = [user |-> in.user, amount |-> in.amount]
    BY DEF Inserted, termsBar
  <1>5. in.user \in Users
    BY PaymentAssumption
  <1>6. termsBar' = [termsBar EXCEPT ![t] = [user |-> in.user, amount |-> in.amount]]
    BY <1>2, <1>4 DEF termsBar
  <1>7. UNCHANGED wallet
    BY DEF Inserted
  <1> HIDE DEF outcomeBar, termsBar
  <1> QED BY <1>1, <1>3, <1>5, <1>6, <1>7 DEF Promise!Open

\* A credited row is a payment credited.
LEMMA CreditedRefines ==
    ASSUME NEW t \in Requests, CreditedNow(t)
    PROVE  Promise!Credit(t)
  <1>1. outcomeBar[t] = "open" /\ outcomeBar'[t] = "credited" /\ termsBar'[t] = termsBar[t]
    BY DEF CreditedNow, outcomeBar, termsBar, OutcomeOf
  <1>2. \A u \in Requests \ {t} :
            outcomeBar'[u] = outcomeBar[u] /\ termsBar'[u] = termsBar[u]
    BY SameOutcome DEF CreditedNow
  <1>3. outcomeBar' = [outcomeBar EXCEPT ![t] = "credited"]
    BY <1>1, <1>2 DEF outcomeBar
  <1>4. UNCHANGED termsBar
    BY <1>1, <1>2 DEF termsBar
  <1>5. wallet' = [wallet EXCEPT ![termsBar[t].user] = @ + termsBar[t].amount]
    BY DEF CreditedNow, termsBar
  <1> HIDE DEF outcomeBar, termsBar
  <1> QED BY <1>1, <1>3, <1>4, <1>5 DEF Promise!Credit

\* A failed, disputed or cancelled row is a payment closed.
LEMMA ClosedRefines ==
    ASSUME NEW t \in Requests, outcomeBar[t] = "open",
           NEW o \in {"failed", "aside"}, outcomeBar'[t] = o,
           UNCHANGED wallet, termsBar'[t] = termsBar[t],
           \A u \in Requests \ {t} : Same(u)
    PROVE  Promise!Close(t)
  <1>1. \A u \in Requests \ {t} :
            outcomeBar'[u] = outcomeBar[u] /\ termsBar'[u] = termsBar[u]
    BY SameOutcome
  <1>2. outcomeBar' = [outcomeBar EXCEPT ![t] = o]
    BY <1>1 DEF outcomeBar
  <1>3. UNCHANGED termsBar
    BY <1>1 DEF termsBar
  <1> HIDE DEF outcomeBar, termsBar
  <1> QED BY <1>2, <1>3 DEF Promise!Close

\* Every other step stutters.
LEMMA UnchangedRefines ==
    ASSUME UNCHANGED wallet,
           \A u \in Requests : outcomeBar'[u] = outcomeBar[u] /\ termsBar'[u] = termsBar[u]
    PROVE  UNCHANGED Promise!vars
  BY BarsAreFunctions DEF Promise!vars

\* The payment module keeps the promise of Settlement for every value of the
\* constants: one atomic credit per payment, or none.
THEOREM Refinement == Spec => ImplementsSettlement
  <1>1. ASSUME Shape, Books, [Next]_vars
        PROVE  [Promise!Next]_(Promise!vars)
    <2>1. CASE Untouched
      BY <2>1, SameOutcome, UnchangedRefines DEF Untouched
    <2>2. ASSUME NEW t \in Requests, Inserted(t) PROVE Promise!Next
      BY <2>2, InsertedRefines DEF Promise!Next
    <2>3. ASSUME NEW t \in Requests, CreditedNow(t) PROVE Promise!Next
      BY <2>3, CreditedRefines DEF Promise!Next
    <2>4. ASSUME NEW t \in Requests, FailedNow(t) PROVE Promise!Next
      <3>1. outcomeBar[t] = "open" /\ outcomeBar'[t] = "failed" /\ termsBar'[t] = termsBar[t]
        BY <2>4 DEF FailedNow, outcomeBar, termsBar, OutcomeOf
      <3> QED BY <2>4, <3>1, ClosedRefines DEF FailedNow, Promise!Next
    <2>5. ASSUME NEW t \in Requests, Moved(t) PROVE [Promise!Next]_(Promise!vars)
      <3>1. outcomeBar'[t] = "aside" /\ termsBar'[t] = termsBar[t]
        BY <2>5 DEF Moved, outcomeBar, termsBar, OutcomeOf, TransitionKinds
      <3>2. outcomeBar[t] \in {"open", "aside"}
        BY <2>5 DEF Moved, outcomeBar, OutcomeOf, Movable
      <3>3. CASE outcomeBar[t] = "open"
        BY <2>5, <3>1, <3>3, ClosedRefines DEF Moved, Promise!Next
      <3>4. CASE outcomeBar[t] = "aside"
        <4>1. \A u \in Requests : outcomeBar'[u] = outcomeBar[u] /\ termsBar'[u] = termsBar[u]
          BY <2>5, <3>1, <3>4, SameOutcome DEF Moved
        <4> QED BY <2>5, <4>1, UnchangedRefines DEF Moved
      <3> QED BY <3>2, <3>3, <3>4
    <2> QED BY <1>1, <2>1, <2>2, <2>3, <2>4, <2>5, StepKinds
  <1> QED BY <1>1, InitRefines, BooksAlways, PTL
          DEF Spec, ImplementsSettlement, Promise!Spec

-----------------------------------------------------------------------------
\* What no step takes from a row: that it is there, its key and its amount.
Lasting(t) ==
    /\ Exists(t) <=> Exists(t)'
    /\ tx'[t].key = tx[t].key /\ tx'[t].amount = tx[t].amount

\* A change of status, or of the reference, leaves the rest of a row.
LEMMA RowEditLasts ==
    ASSUME TypeOK, NEW t \in Requests, Exists(t),
           \/ tx' = [tx EXCEPT ![t].ref = tx'[t].ref]
           \/ /\ tx' = [tx EXCEPT ![t].status = tx'[t].status]
              /\ tx'[t].status # "ABSENT"
    PROVE  \A u \in Requests : Lasting(u)
  <1>1. /\ \A u \in Requests : u # t => tx'[u] = tx[u]
        /\ Exists(t) <=> Exists(t)'
        /\ tx'[t].key = tx[t].key /\ tx'[t].amount = tx[t].amount
    BY RowParts DEF TypeOK, Exists
  <1> QED BY <1>1 DEF Lasting, Exists

LEMMA CreditLasts ==
    ASSUME TypeOK, NEW ref, NEW t \in PendingWithRef(ref), CompleteAndCredit(t, ref)
    PROVE  \A u \in Requests : Lasting(u)
  <1>1. t \in Requests /\ Exists(t)
    BY WithRefParts
  <1>2. tx' = [tx EXCEPT ![t].status = "COMPLETED"]
    BY DEF CompleteAndCredit
  <1>3. tx'[t].status = "COMPLETED"
    BY <1>1, <1>2, RowParts DEF TypeOK
  <1> QED BY <1>1, <1>2, <1>3, RowEditLasts

LEMMA FailLasts ==
    ASSUME TypeOK, NEW ref, FailByRef(ref)
    PROVE  \A u \in Requests : Lasting(u)
  <1> TAKE u \in Requests
  <1>1. CASE u \in PendingWithRef(ref)
    <2>1. Exists(u) /\ tx'[u] = [tx[u] EXCEPT !.status = "FAILED"]
      BY <1>1, WithRefParts DEF FailByRef
    <2> QED BY <2>1, RowParts DEF Lasting, Exists
  <1>2. CASE u \notin PendingWithRef(ref)
    BY <1>2 DEF FailByRef, Lasting, Exists
  <1> QED BY <1>1, <1>2

\* Only the insert, and only of a free key, makes a row; nothing unmakes one.
LEMMA RowsLast ==
    ASSUME Shape, [Next]_vars
    PROVE  \/ \A u \in Requests : Lasting(u)
           \/ \E r \in Requests : Create(r) /\ ~KeyTaken(req[r].input.key)
  <1> USE DEF Shape
  <1>1. ASSUME UNCHANGED tx PROVE \A u \in Requests : Lasting(u)
    BY <1>1 DEF Lasting, Exists
  <1>2. ASSUME NEW r \in Requests, InitiateStep(r)
        PROVE  \/ \A u \in Requests : Lasting(u)
               \/ Create(r) /\ ~KeyTaken(req[r].input.key)
    <2>1. CASE FindExisting(r) \/ Refetch(r) \/ CallProvider(r)
      BY <1>1, <2>1 DEF FindExisting, Refetch, CallProvider
    <2>2. CASE Create(r) /\ KeyTaken(req[r].input.key)
      BY <1>1, <2>2 DEF Create
    <2>3. CASE RecordRef(r)
      <3>1. req[r].tx \in Requests /\ Exists(req[r].tx)
        BY <2>3 DEF RecordRef, StagesOK, TypeOK, ReqRecords
      <3>2. tx' = [tx EXCEPT ![req[r].tx].ref = r]
        BY <2>3 DEF RecordRef
      <3>3. tx'[req[r].tx].ref = r
        BY <3>1, <3>2, RowParts DEF TypeOK
      <3> QED BY <3>1, <3>2, <3>3, RowEditLasts
    <2> QED BY <1>2, <2>1, <2>2, <2>3 DEF InitiateStep
  <1>3. ASSUME NEW h \in Hooks, NEW ref \in Requests, DeliveryStep(h, ref)
        PROVE  \A u \in Requests : Lasting(u)
    <2>1. CASE StripeCredit(h, ref)
      BY <2>1, CreditLasts DEF StripeCredit
    <2>2. CASE MpesaDeclined(h, ref)
      BY <2>2, FailLasts DEF MpesaDeclined
    <2>3. CASE \/ StripeIgnore(h, ref) \/ MpesaIgnore(h, ref)
               \/ \E shown \in ShowsAmount : MpesaFind(h, ref, shown)
      BY <1>1, <2>3 DEF StripeIgnore, MpesaIgnore, MpesaFind
    <2> QED BY <1>3, <2>1, <2>2, <2>3 DEF DeliveryStep
  <1>4. ASSUME NEW h \in Hooks, HookStep(h)
        PROVE  \A u \in Requests : Lasting(u)
    <2>1. CASE MpesaFail(h)
      BY <2>1, FailLasts DEF MpesaFail
    <2>2. CASE MpesaCredit(h)
      BY <1>1, <2>2, CreditLasts DEF MpesaCredit, NoCredit
    <2>3. CASE Publish(h)
      BY <1>1, <2>3 DEF Publish
    <2> QED BY <1>4, <2>1, <2>2, <2>3 DEF HookStep
  <1>5. ASSUME NEW c \in Calls, ApplyTransition(c)
        PROVE  \A u \in Requests : Lasting(u)
    <2> DEFINE t == call[c].tx
    <2>1. CASE StillAsRead(c)
      <3>1. /\ t \in Requests /\ call[c].to \in TransitionKinds /\ tx[t].status \in Movable
        BY <1>5, <2>1, RulesStartMovable DEF ApplyTransition, CallsOK, StillAsRead
      <3>2. Exists(t) /\ tx' = [tx EXCEPT ![t].status = call[c].to]
        BY <1>5, <2>1, <3>1 DEF ApplyTransition, Exists, Movable
      <3>3. tx'[t].status = call[c].to /\ tx'[t].status # "ABSENT"
        BY <3>1, <3>2, RowParts DEF TypeOK, TransitionKinds
      <3> QED BY <3>1, <3>2, <3>3, RowEditLasts
    <2>2. CASE ~StillAsRead(c)
      BY <1>1, <1>5, <2>2 DEF ApplyTransition
    <2> QED BY <2>1, <2>2
  <1>6. CASE \/ \E r \in Requests : \E in \in Inputs : Submit(r, in)
             \/ \E r \in Requests : Settle(r)
             \/ \E c \in Calls, t \in Requests, kind \in TransitionKinds, role \in Roles,
                   isOwner \in BOOLEAN : ReadForTransition(c, t, kind, role, isOwner)
             \/ Crash \/ UNCHANGED vars
    BY <1>1, <1>6 DEF Submit, Settle, ReadForTransition, Crash, vars
  <1> QED BY <1>2, <1>3, <1>4, <1>5, <1>6 DEF Next

-----------------------------------------------------------------------------
\* A call that has a row was given the one that carries its key, and a key is
\* carried by one row.
Keyed ==
    /\ \A t, u \in Requests :
          Exists(t) /\ Exists(u) /\ tx[t].key = tx[u].key /\ tx[t].key # None => t = u
    /\ \A r \in Requests :
          /\ req[r].stage = "new" => req[r].tx = None
          /\ req[r].tx # None => tx[req[r].tx].key = req[r].input.key

\* Steps that hand out no row and insert none keep Keyed.
LEMMA KeyedKept ==
    ASSUME Shape, Keyed, \A u \in Requests : Lasting(u),
           \A r \in Requests :
              /\ req'[r].tx = req[r].tx
              /\ req'[r].stage = "new" => req[r].stage = "new"
              /\ req'[r].input = req[r].input \/ req[r].stage = "new"
    PROVE  Keyed'
  <1>1. \A r \in Requests : req[r].tx # None => req[r].tx \in Requests
    BY DEF Shape, TypeOK, ReqRecords
  <1>2. \A t, u \in Requests :
           Exists(t)' /\ Exists(u)' /\ tx'[t].key = tx'[u].key /\ tx'[t].key # None => t = u
    BY DEF Keyed, Lasting
  <1>3. ASSUME NEW r \in Requests
        PROVE  /\ req'[r].stage = "new" => req'[r].tx = None
               /\ req'[r].tx # None => tx'[req'[r].tx].key = req'[r].input.key
    BY <1>1 DEF Keyed, Lasting
  <1> QED BY <1>2, <1>3 DEF Keyed

\* The lookup, before or after the insert, hands out a row with the key.
LEMMA KeyedHandedOut ==
    ASSUME Shape, Keyed, UNCHANGED tx, NEW r \in Requests,
           NEW t \in RowsWithKey(req[r].input.key), NEW stage \in ReqStages, stage # "new",
           req' = [req EXCEPT ![r].stage = stage, ![r].tx = t]
    PROVE  Keyed'
  <1> DEFINE new == [req[r] EXCEPT !.stage = stage, !.tx = t]
  <1>1. t \in Requests /\ tx[t].key = req[r].input.key
    BY DEF RowsWithKey
  <1>2. req \in [Requests -> ReqRecords]
    BY DEF Shape, TypeOK
  <1>3. new.stage = stage /\ new.tx = t /\ new.input = req[r].input
    BY ONLY <1>2, r \in Requests DEF ReqRecords
  <1>4. [req EXCEPT ![r].stage = stage] \in [Requests -> ReqRecords]
    BY ONLY <1>2, r \in Requests, stage \in ReqStages DEF ReqRecords
  <1>5. req' = [req EXCEPT ![r] = new]
    BY ONLY <1>2, <1>4, r \in Requests, req' = [req EXCEPT ![r].stage = stage, ![r].tx = t]
  <1> HIDE DEF new
  <1>6. req'[r] = new /\ \A q \in Requests : q # r => req'[q] = req[q]
    BY ONLY <1>2, <1>5, r \in Requests
  <1> QED BY ONLY <1>1, <1>3, <1>6, Keyed, UNCHANGED tx, stage # "new", r \in Requests
          DEF Keyed, Exists

\* The insert of a key nobody holds.
LEMMA KeyedInserted ==
    ASSUME Shape, Books, Keyed, NEW r \in Requests, Create(r), ~KeyTaken(req[r].input.key)
    PROVE  Keyed'
  <1> DEFINE new == [status |-> "PENDING", user |-> req[r].input.user,
                     amount |-> req[r].input.amount, key |-> req[r].input.key, ref |-> None]
  <1>1. tx' = [tx EXCEPT ![r] = new] /\ req' = [req EXCEPT ![r].stage = "provider", ![r].tx = r]
    BY DEF Create
  <1>2. tx'[r] = new /\ \A u \in Requests : u # r => tx'[u] = tx[u]
    BY <1>1 DEF Shape, TypeOK
  <1>3. new.key = req[r].input.key /\ ~Exists(r)
    BY DEF Create, Books, RowsNamed
  <1> HIDE DEF new
  <1>4. /\ req'[r].stage = "provider" /\ req'[r].tx = r /\ req'[r].input = req[r].input
        /\ \A q \in Requests : q # r => req'[q] = req[q]
    BY <1>1 DEF Shape, TypeOK, ReqRecords
  <1>5. \A q \in Requests : req[q].tx # None => req[q].tx \in Requests /\ Exists(req[q].tx)
    BY DEF Shape, StagesOK, TypeOK, ReqRecords
  <1>6. \A u \in Requests : u # r /\ Exists(u) /\ req[r].input.key # None =>
           tx[u].key # req[r].input.key
    BY DEF KeyTaken, RowsWithKey
  <1>7. \A t, u \in Requests :
           Exists(t)' /\ Exists(u)' /\ tx'[t].key = tx'[u].key /\ tx'[t].key # None => t = u
    BY <1>2, <1>3, <1>6 DEF Keyed, Exists
  <1>8. ASSUME NEW q \in Requests
        PROVE  /\ req'[q].stage = "new" => req'[q].tx = None
               /\ req'[q].tx # None => tx'[req'[q].tx].key = req'[q].input.key
    <2>1. CASE q = r
      BY <1>2, <1>3, <1>4, <2>1
    <2>2. CASE q # r
      BY <1>2, <1>3, <1>4, <1>5, <2>2 DEF Keyed
    <2> QED BY <2>1, <2>2
  <1> QED BY <1>7, <1>8 DEF Keyed

\* The steps that hand a call no row leave it its row and its input.
LEMMA CallsLast ==
    ASSUME Shape, [Next]_vars, ~(\E r \in Requests : FindExisting(r) \/ Refetch(r) \/ Create(r))
    PROVE  \A r \in Requests :
              /\ req'[r].tx = req[r].tx
              /\ req'[r].stage = "new" => req[r].stage = "new"
              /\ req'[r].input = req[r].input \/ req[r].stage = "new"
  <1> DEFINE Last(r) ==
         /\ req'[r].tx = req[r].tx
         /\ req'[r].stage = "new" => req[r].stage = "new"
         /\ req'[r].input = req[r].input \/ req[r].stage = "new"
  <1>1. ASSUME UNCHANGED req PROVE \A r \in Requests : Last(r)
    BY <1>1
  <1>2. ASSUME NEW q \in Requests, NEW stage \in ReqStages \ {"new"},
               req' = [req EXCEPT ![q].stage = stage]
        PROVE  \A r \in Requests : Last(r)
    BY <1>2 DEF Shape, TypeOK, ReqRecords
  <1>3. ASSUME NEW q \in Requests, NEW in \in Inputs, Submit(q, in)
        PROVE  \A r \in Requests : Last(r)
    BY <1>3 DEF Submit, Shape, TypeOK, ReqRecords
  <1>4. ASSUME NEW q \in Requests, CallProvider(q) \/ RecordRef(q)
        PROVE  \A r \in Requests : Last(r)
    BY <1>2, <1>4 DEF CallProvider, RecordRef, ReqStages
  <1>5. CASE Crash
    <2> TAKE r \in Requests
    <2>1. req'[r] = req[r] \/ req'[r] = [req[r] EXCEPT !.stage = "failed"]
      BY <1>5 DEF Crash
    <2>2. req[r] \in ReqRecords
      BY DEF Shape, TypeOK
    <2> QED BY <2>1, <2>2 DEF ReqRecords
  <1>6. CASE \E q \in Requests : Settle(q)
    BY <1>1, <1>6 DEF Settle
  <1>7. CASE \E h \in Hooks, ref \in Requests : DeliveryStep(h, ref)
    BY <1>1, <1>7 DEF DeliveryStep, StripeCredit, StripeIgnore, MpesaFind, MpesaIgnore,
                      MpesaDeclined
  <1>8. CASE \E h \in Hooks : HookStep(h)
    BY <1>1, <1>8 DEF HookStep, MpesaFail, MpesaCredit, Publish
  <1>9. CASE \E c \in Calls, t \in Requests, kind \in TransitionKinds, role \in Roles,
                isOwner \in BOOLEAN : ReadForTransition(c, t, kind, role, isOwner)
    <2>1. UNCHANGED req
      BY <1>9 DEF ReadForTransition
    <2> QED BY <1>1, <2>1
  <1>10. CASE (\E c \in Calls : ApplyTransition(c)) \/ UNCHANGED vars
    <2>1. UNCHANGED req
      BY <1>10 DEF ApplyTransition, vars
    <2> QED BY <1>1, <2>1
  <1> QED BY <1>3, <1>4, <1>5, <1>6, <1>7, <1>8, <1>9, <1>10 DEF Next, InitiateStep

LEMMA NextKeyed == ASSUME Shape, Books, Keyed, [Next]_vars PROVE Keyed'
  <1>1. CASE \E r \in Requests : Create(r) /\ ~KeyTaken(req[r].input.key)
    BY <1>1, KeyedInserted
  <1>2. CASE \A u \in Requests : Lasting(u)
    <2>1. ASSUME NEW r \in Requests, FindExisting(r) \/ Refetch(r) PROVE Keyed'
      <3>1. ASSUME NEW t \in RowsWithKey(req[r].input.key),
                   req' = [req EXCEPT ![r].stage = "done", ![r].tx = t]
            PROVE  Keyed'
        BY <2>1, <3>1, KeyedHandedOut DEF FindExisting, Refetch, ReqStages
      <3>2. ASSUME NEW t \in RowsWithKey(req[r].input.key),
                   req' = [req EXCEPT ![r].stage = "provider", ![r].tx = t]
            PROVE  Keyed'
        BY <2>1, <3>2, KeyedHandedOut DEF FindExisting, Refetch, ReqStages
      <3>3. CASE req' = [req EXCEPT ![r].stage = "insert"]
        <4>1. \A q \in Requests : /\ req'[q].tx = req[q].tx /\ req'[q].input = req[q].input
                                  /\ req'[q].stage = "new" => req[q].stage = "new"
          BY <3>3 DEF Shape, TypeOK, ReqRecords
        <4> QED BY <1>2, <4>1, KeyedKept
      <3> QED BY <2>1, <3>1, <3>2, <3>3 DEF FindExisting, Refetch
    <2>2. CASE \E r \in Requests : Create(r) /\ KeyTaken(req[r].input.key)
      <3>1. PICK r \in Requests : req' = [req EXCEPT ![r].stage = "refetch"]
        BY <2>2 DEF Create
      <3>2. \A q \in Requests : /\ req'[q].tx = req[q].tx /\ req'[q].input = req[q].input
                                /\ req'[q].stage = "new" => req[q].stage = "new"
        BY <3>1 DEF Shape, TypeOK, ReqRecords
      <3> QED BY <1>2, <3>2, KeyedKept
    <2>3. CASE ~(\E r \in Requests : FindExisting(r) \/ Refetch(r) \/ Create(r))
      BY <1>2, <2>3, CallsLast, KeyedKept
    <2> QED BY <1>1, <2>1, <2>2, <2>3
  <1> QED BY <1>1, <1>2, RowsLast

\* Two calls with one key never work on two rows, however they and the
\* restarts interleave, and a call is told only of a row that is there.
THEOREM OneRow == Spec => []OneRowPerKey
  <1>1. Init => Keyed
    BY DEF Init, Keyed, Exists, NoRow
  <1>2. Shape /\ Books /\ Keyed /\ [Next]_vars => Keyed'
    BY NextKeyed
  <1>3. Shape /\ Keyed => OneRowPerKey
    <2> SUFFICES ASSUME Shape, Keyed PROVE OneRowPerKey
      OBVIOUS
    <2>1. \A r \in Requests : req[r].tx # None => req[r].tx \in Requests /\ Exists(req[r].tx)
      BY DEF Shape, StagesOK, TypeOK, ReqRecords
    <2> QED BY <2>1 DEF Keyed, OneRowPerKey
  <1> QED BY <1>1, <1>2, <1>3, BooksAlways, PTL DEF Spec

-----------------------------------------------------------------------------
\* What one step makes of the ledger and of the sends still to come.
Quiet ==
    /\ UNCHANGED <<ledger, published>>
    /\ \A g \in Hooks : hook'[g].stage = "publish" => hook'[g] = hook[g]

\* Callback h credits row t on reference ref; an M-Pesa one had read the row.
Credits(h, ref, t) ==
    /\ CompleteAndCredit(t, ref) /\ UNCHANGED <<intent, published>>
    /\ hook'[h].stage = "publish" /\ hook'[h].tx = t
    /\ \A g \in Hooks : g # h => hook'[g] = hook[g]
    /\ intent[ref].method = "MPESA" => hook[h].stage = "credit" /\ hook[h].ref = ref

LEMMA LedgerSteps ==
    ASSUME Shape, [Next]_vars
    PROVE  \/ Quiet
           \/ \E h \in Hooks : Publish(h)
           \/ \E h \in Hooks, ref \in Requests : \E t \in PendingWithRef(ref) : Credits(h, ref, t)
  <1> USE DEF Shape
  <1>1. CASE UNCHANGED <<ledger, published, hook>>
    BY <1>1 DEF Quiet
  <1>2. ASSUME NEW h \in Hooks, NEW new, new.stage # "publish",
               hook' = [hook EXCEPT ![h] = new], UNCHANGED <<ledger, published>>
        PROVE  Quiet
    BY <1>2 DEF Quiet, TypeOK
  <1>3. ASSUME NEW h \in Hooks, NEW ref \in Requests, StripeCredit(h, ref)
        PROVE  \E t \in PendingWithRef(ref) : Credits(h, ref, t)
    <2>1. PICK t \in PendingWithRef(ref) :
              /\ CompleteAndCredit(t, ref)
              /\ hook' = [hook EXCEPT ![h] = [stage |-> "publish", ref |-> ref, tx |-> t]]
      BY <1>3 DEF StripeCredit
    <2>2. intent[ref].method # "MPESA" /\ UNCHANGED <<intent, published>>
      BY <1>3 DEF StripeCredit, Delivers
    <2> QED BY <2>1, <2>2 DEF Credits, TypeOK
  <1>4. ASSUME NEW h \in Hooks, NEW ref \in Requests, NEW shown \in ShowsAmount,
               MpesaFind(h, ref, shown)
        PROVE  Quiet
    <2>1. PICK stage \in {"credit", "fail"} :
              hook' = [hook EXCEPT ![h] = [stage |-> stage, ref |-> ref, tx |-> None]]
      BY <1>4 DEF MpesaFind
    <2> DEFINE new == [stage |-> stage, ref |-> ref, tx |-> None]
    <2>2. new.stage # "publish" /\ hook' = [hook EXCEPT ![h] = new]
      BY <2>1
    <2> HIDE DEF new
    <2> QED BY <1>2, <1>4, <2>2 DEF MpesaFind
  <1>5. ASSUME NEW h \in Hooks, MpesaCredit(h)
        PROVE  Quiet \/ \E ref \in Requests : \E t \in PendingWithRef(ref) : Credits(h, ref, t)
    <2>1. hook[h] \in HookStates /\ hook[h].stage = "credit" /\ hook[h].ref \in Requests
      BY <1>5, BusyHook DEF MpesaCredit, TypeOK
    <2>2. ASSUME NEW t \in PendingWithRef(hook[h].ref), CompleteAndCredit(t, hook[h].ref),
                 hook' = [hook EXCEPT ![h] = [@ EXCEPT !.stage = "publish", !.tx = t]]
          PROVE  Credits(h, hook[h].ref, t)
      <3>1. hook[h] \in [stage : {"credit", "fail"}, ref : Requests, tx : {None}]
        BY <2>1 DEF HookStates, Idle
      <3>2. /\ hook'[h].stage = "publish" /\ hook'[h].tx = t
            /\ \A g \in Hooks : g # h => hook'[g] = hook[g]
        BY <2>2, <3>1 DEF TypeOK
      <3> QED BY <1>5, <2>1, <2>2, <3>2 DEF MpesaCredit, Credits
    <2>3. CASE NoCredit /\ hook' = [hook EXCEPT ![h] = Idle]
      <3>1. UNCHANGED <<ledger, published>> /\ Idle.stage # "publish"
        BY <1>5, <2>3 DEF MpesaCredit, NoCredit, Idle
      <3> QED BY <1>2, <2>3, <3>1
    <2> QED BY <1>5, <2>1, <2>2, <2>3 DEF MpesaCredit
  <1>6. ASSUME NEW h \in Hooks, MpesaFail(h) PROVE Quiet
    <2>1. Idle.stage # "publish"
      BY DEF Idle
    <2> QED BY <1>2, <1>6, <2>1 DEF MpesaFail
  <1>7. CASE Crash
    BY <1>7 DEF Crash, Quiet, Idle
  <1>8. ASSUME NEW h \in Hooks, NEW ref \in Requests,
               StripeIgnore(h, ref) \/ MpesaIgnore(h, ref) \/ MpesaDeclined(h, ref)
        PROVE  Quiet
    <2>1. UNCHANGED <<ledger, published, hook>>
      BY <1>8 DEF StripeIgnore, MpesaIgnore, MpesaDeclined
    <2> QED BY <2>1 DEF Quiet
  <1>9. CASE \/ \E r \in Requests : \E in \in Inputs : Submit(r, in)
             \/ \E r \in Requests : InitiateStep(r)
             \/ \E r \in Requests : Settle(r)
             \/ \E c \in Calls, t \in Requests, kind \in TransitionKinds, role \in Roles,
                   isOwner \in BOOLEAN : ReadForTransition(c, t, kind, role, isOwner)
             \/ \E c \in Calls : ApplyTransition(c)
             \/ UNCHANGED vars
    <2>1. ASSUME NEW r \in Requests, InitiateStep(r)
          PROVE  UNCHANGED <<ledger, published, hook>>
      BY <2>1 DEF InitiateStep, FindExisting, Create, Refetch, CallProvider, RecordRef
    <2>2. ASSUME NEW r \in Requests, \/ Settle(r) \/ \E in \in Inputs : Submit(r, in)
          PROVE  UNCHANGED <<ledger, published, hook>>
      BY <2>2 DEF Settle, Submit
    <2>3. ASSUME NEW c \in Calls,
                 \/ ApplyTransition(c)
                 \/ \E t \in Requests, kind \in TransitionKinds, role \in Roles,
                       isOwner \in BOOLEAN : ReadForTransition(c, t, kind, role, isOwner)
          PROVE  UNCHANGED <<ledger, published, hook>>
      BY <2>3 DEF ApplyTransition, ReadForTransition
    <2>4. UNCHANGED vars => UNCHANGED <<ledger, published, hook>>
      BY DEF vars
    <2> QED BY <1>1, <1>9, <2>1, <2>2, <2>3, <2>4
  <1> QED BY <1>3, <1>4, <1>5, <1>6, <1>7, <1>8, <1>9 DEF Next, DeliveryStep, HookStep

-----------------------------------------------------------------------------
\* Who is about to announce a row is the only one, and nobody has.
Sends ==
    /\ AnnouncedAtMostOnce
    /\ \A h \in Hooks : hook[h].stage = "publish" =>
          /\ published[hook[h].tx] = 0 /\ Len(ledger[hook[h].tx]) = 1
          /\ \A g \in Hooks : hook[g].stage = "publish" /\ hook[g].tx = hook[h].tx => g = h

LEMMA CreditSends ==
    ASSUME Shape, Books, Sends, NEW h \in Hooks, NEW ref \in Requests,
           NEW t \in PendingWithRef(ref), Credits(h, ref, t)
    PROVE  Sends'
  <1>1. t \in Requests /\ tx[t].status = "PENDING"
    BY WithRefParts
  <1>2. /\ ledger[t] \in Seq(LedgerEntries) /\ Len(ledger[t]) = 0
        /\ [ref |-> ref, amount |-> tx[t].amount] \in LedgerEntries
    <2>1. Exists(t) /\ Len(ledger[t]) = 0
      BY <1>1, WithRefParts DEF Books, CreditedExactlyOnce
    <2> QED BY <1>1, <2>1, RowParts DEF Shape, TypeOK, LedgerEntries
  <1>3. /\ Len(ledger'[t]) = 1
        /\ \A u \in Requests : u # t => ledger'[u] = ledger[u]
    <2>1. ledger' = [ledger EXCEPT ![t] =
                        Append(ledger[t], [ref |-> ref, amount |-> tx[t].amount])]
      BY DEF Credits, CompleteAndCredit
    <2>2. Len(Append(ledger[t], [ref |-> ref, amount |-> tx[t].amount])) = 1
      BY <1>2, AppendProperties
    <2> QED BY <1>1, <2>1, <2>2 DEF Shape, TypeOK
  <1>4. published[t] = 0 /\ UNCHANGED published
    <2>1. published[t] \in Nat /\ published[t] <= Len(ledger[t])
      BY <1>1 DEF Sends, AnnouncedAtMostOnce, Shape, TypeOK
    <2> QED BY <1>2, <2>1 DEF Credits
  <1>5. hook'[h].stage = "publish" /\ hook'[h].tx = t
    BY DEF Credits
  <1>6. \A g \in Hooks : g # h => hook'[g] = hook[g]
    BY DEF Credits
  <1>7. \A g \in Hooks : hook[g].stage = "publish" => hook[g].tx \in Requests /\ hook[g].tx # t
    BY <1>2, BusyHook DEF Sends, Shape
  <1>8. AnnouncedAtMostOnce'
    <2> SUFFICES ASSUME NEW u \in Requests PROVE published[u] <= Len(ledger'[u])
      BY <1>4 DEF AnnouncedAtMostOnce
    <2>1. CASE u = t
      BY <1>3, <1>4, <2>1
    <2>2. CASE u # t
      BY <1>3, <2>2 DEF Sends, AnnouncedAtMostOnce
    <2> QED BY <2>1, <2>2
  <1>9. ASSUME NEW g \in Hooks, hook'[g].stage = "publish"
        PROVE  /\ published'[hook'[g].tx] = 0 /\ Len(ledger'[hook'[g].tx]) = 1
               /\ \A f \in Hooks : hook'[f].stage = "publish" /\ hook'[f].tx = hook'[g].tx => f = g
    <2>1. CASE g = h
      BY <1>3, <1>4, <1>5, <1>6, <1>7, <2>1
    <2>2. CASE g # h
      BY <1>3, <1>4, <1>5, <1>6, <1>7, <1>9, <2>2 DEF Sends
    <2> QED BY <2>1, <2>2
  <1> QED BY <1>8, <1>9 DEF Sends

LEMMA PublishSends ==
    ASSUME Shape, Sends, NEW h \in Hooks, Publish(h)
    PROVE  Sends'
  <1>1. PICK t \in Requests : t = hook[h].tx /\ hook[h].stage = "publish"
    BY BusyHook DEF Publish, Shape
  <1>2. /\ published[t] = 0 /\ Len(ledger[t]) = 1 /\ UNCHANGED ledger
        /\ \A g \in Hooks : hook[g].stage = "publish" /\ hook[g].tx = t => g = h
    BY <1>1 DEF Sends, Publish
  <1>3. \A g \in Hooks : hook'[g].stage = "publish" => g # h /\ hook'[g] = hook[g]
    BY DEF Publish, Idle, Shape, TypeOK
  <1>4. published'[t] \in {0, 1} /\ \A u \in Requests : u # t => published'[u] = published[u]
    <2>1. CASE published' = [published EXCEPT ![t] = @ + 1]
      BY <1>2, <2>1 DEF Shape, TypeOK
    <2>2. CASE UNCHANGED published
      BY <1>2, <2>2
    <2> QED BY <1>1, <2>1, <2>2 DEF Publish
  <1>5. AnnouncedAtMostOnce'
    <2> SUFFICES ASSUME NEW u \in Requests PROVE published'[u] <= Len(ledger[u])
      BY <1>2 DEF AnnouncedAtMostOnce
    <2>1. CASE u = t
      <3>1. published'[u] \in {0, 1} /\ Len(ledger[u]) = 1
        BY <1>2, <1>4, <2>1
      <3> QED BY <3>1
    <2>2. CASE u # t
      BY <1>4, <2>2 DEF Sends, AnnouncedAtMostOnce
    <2> QED BY <2>1, <2>2
  <1>6. \A g \in Hooks : hook'[g].stage = "publish" => hook[g].tx \in Requests /\ hook[g].tx # t
    BY <1>2, <1>3, BusyHook DEF Shape
  <1>7. ASSUME NEW g \in Hooks, hook'[g].stage = "publish"
        PROVE  /\ published'[hook'[g].tx] = 0 /\ Len(ledger'[hook'[g].tx]) = 1
               /\ \A f \in Hooks : hook'[f].stage = "publish" /\ hook'[f].tx = hook'[g].tx => f = g
    BY <1>2, <1>3, <1>4, <1>6, <1>7 DEF Sends
  <1> QED BY <1>5, <1>7 DEF Sends

\* dm.payment.completed is sent at most once for a row and only after its
\* credit, however many callbacks report the payment and wherever the process
\* stops.
THEOREM AnnouncedOnce == Spec => []AnnouncedAtMostOnce
  <1>1. Init => Sends
    BY DEF Init, Sends, AnnouncedAtMostOnce, Idle
  <1>2. Shape /\ Books /\ Sends /\ [Next]_vars => Sends'
    <2> SUFFICES ASSUME Shape, Books, Sends, [Next]_vars PROVE Sends'
      OBVIOUS
    <2>1. CASE Quiet
      <3>1. \A g \in Hooks : hook'[g].stage = "publish" =>
               hook[g].stage = "publish" /\ hook'[g].tx = hook[g].tx
        BY <2>1 DEF Quiet
      <3> QED BY <2>1, <3>1 DEF Sends, AnnouncedAtMostOnce, Quiet
    <2> QED BY <2>1, LedgerSteps, CreditSends, PublishSends
  <1>3. Sends => AnnouncedAtMostOnce
    BY DEF Sends
  <1> QED BY <1>1, <1>2, <1>3, BooksAlways, PTL DEF Spec

-----------------------------------------------------------------------------
\* What a callback in the middle of a credit compared still compares: the
\* amount of the row its reference was opened for, as long as it shows one.
Compared ==
    ShowsAmount = {TRUE} =>
        \A h \in Hooks : hook[h].stage = "credit" =>
            LET paid == intent[hook[h].ref] IN
            /\ paid.tx \in Requests /\ tx[paid.tx].status # "ABSENT"
            /\ tx[paid.tx].amount = paid.amount

Reconciled == MpesaCreditsReconciled /\ Compared

\* A paid intent does not change any more.
LEMMA PaidIntentsLast ==
    ASSUME Shape, Books, [Next]_vars
    PROVE  \A r \in Requests : intent[r].state = "paid" => intent'[r] = intent[r]
  <1>1. ASSUME NEW q \in Requests, CallProvider(q)
        PROVE  \A r \in Requests : intent[r].state = "paid" => intent'[r] = intent[r]
    <2>1. intent[q].state = "none"
      BY <1>1 DEF CallProvider, Books, RefsOK
    <2> QED BY <1>1, <2>1 DEF CallProvider, Shape, TypeOK
  <1>2. ASSUME NEW q \in Requests, Settle(q)
        PROVE  \A r \in Requests : intent[r].state = "paid" => intent'[r] = intent[r]
    BY <1>2 DEF Settle, Shape, TypeOK
  <1>3. CASE UNCHANGED intent
    BY <1>3
  <1>4. CASE \E r \in Requests : FindExisting(r) \/ Create(r) \/ Refetch(r) \/ RecordRef(r)
    BY <1>3, <1>4 DEF FindExisting, Create, Refetch, RecordRef
  <1>5. CASE \E h \in Hooks, ref \in Requests : DeliveryStep(h, ref)
    BY <1>3, <1>5 DEF DeliveryStep, StripeCredit, StripeIgnore, MpesaFind, MpesaIgnore,
                      MpesaDeclined
  <1>6. CASE \E h \in Hooks : HookStep(h)
    BY <1>3, <1>6 DEF HookStep, MpesaFail, MpesaCredit, Publish
  <1>7. CASE \/ \E r \in Requests : \E in \in Inputs : Submit(r, in)
             \/ \E c \in Calls, t \in Requests, kind \in TransitionKinds, role \in Roles,
                   isOwner \in BOOLEAN : ReadForTransition(c, t, kind, role, isOwner)
             \/ \E c \in Calls : ApplyTransition(c)
             \/ Crash \/ UNCHANGED vars
    BY <1>3, <1>7 DEF Submit, ReadForTransition, ApplyTransition, Crash, vars
  <1> QED BY <1>1, <1>2, <1>4, <1>5, <1>6, <1>7 DEF Next, InitiateStep

\* A callback comes to a credit by the comparison, and in no other way.
LEMMA CreditsAreCompared ==
    ASSUME Shape, [Next]_vars, NEW h \in Hooks, hook'[h].stage = "credit"
    PROVE  \/ hook'[h] = hook[h]
           \/ \E ref \in Requests, shown \in ShowsAmount : \E t \in PendingWithRef(ref) :
                 /\ hook'[h].ref = ref /\ AmountMatches(t, ref, shown)
                 /\ intent[ref].state = "paid" /\ UNCHANGED <<intent, tx>>
  <1>1. CASE UNCHANGED hook
    BY <1>1
  <1>2. ASSUME NEW g \in Hooks, NEW new, hook' = [hook EXCEPT ![g] = new],
               new.stage # "credit"
        PROVE  hook'[h] = hook[h]
    BY <1>2 DEF Shape, TypeOK
  <1>3. ASSUME NEW g \in Hooks, NEW ref \in Requests, StripeCredit(g, ref)
        PROVE  hook'[h] = hook[h]
    <2>1. PICK t \in PendingWithRef(ref) :
              hook' = [hook EXCEPT ![g] = [stage |-> "publish", ref |-> ref, tx |-> t]]
      BY <1>3 DEF StripeCredit
    <2> QED BY <1>2, <2>1
  <1>4. ASSUME NEW g \in Hooks, NEW ref \in Requests, NEW shown \in ShowsAmount,
               MpesaFind(g, ref, shown)
        PROVE  \/ hook'[h] = hook[h]
               \/ \E t \in PendingWithRef(ref) :
                     /\ hook'[h].ref = ref /\ AmountMatches(t, ref, shown)
                     /\ intent[ref].state = "paid" /\ UNCHANGED <<intent, tx>>
    <2>1. PICK t \in PendingWithRef(ref) :
              hook' = [hook EXCEPT ![g] =
                         [stage |-> IF AmountMatches(t, ref, shown) THEN "credit" ELSE "fail",
                          ref |-> ref, tx |-> None]]
      BY <1>4 DEF MpesaFind
    <2>2. intent[ref].state = "paid" /\ UNCHANGED <<intent, tx>>
      BY <1>4 DEF MpesaFind, Succeeded
    <2>3. CASE g = h
      <3>1. /\ hook'[h].ref = ref
            /\ hook'[h].stage = IF AmountMatches(t, ref, shown) THEN "credit" ELSE "fail"
        BY <2>1, <2>3 DEF Shape, TypeOK
      <3>2. AmountMatches(t, ref, shown)
        BY <3>1
      <3> QED BY <2>2, <3>1, <3>2
    <2>4. CASE g # h
      BY <2>1, <2>4 DEF Shape, TypeOK
    <2> QED BY <2>3, <2>4
  <1>5. ASSUME NEW g \in Hooks, HookStep(g)
        PROVE  hook'[h] = hook[h]
    <2>1. CASE hook' = [hook EXCEPT ![g] = Idle]
      BY <2>1 DEF Shape, TypeOK, Idle
    <2>2. ASSUME NEW t, MpesaCredit(g),
                 hook' = [hook EXCEPT ![g] = [@ EXCEPT !.stage = "publish", !.tx = t]]
          PROVE  hook'[h] = hook[h]
      <3>1. hook[g] \in [stage : {"credit", "fail"}, ref : Requests, tx : {None}]
        <4>1. hook[g] \in HookStates /\ hook[g].stage = "credit"
          BY <2>2 DEF MpesaCredit, Shape, TypeOK
        <4> QED BY <4>1 DEF HookStates, Idle
      <3> QED BY <2>2, <3>1 DEF Shape, TypeOK
    <2> QED BY <1>5, <2>1, <2>2 DEF HookStep, MpesaFail, MpesaCredit, Publish
  <1>6. CASE Crash
    BY <1>6 DEF Crash, Idle
  <1>7. CASE \E g \in Hooks, ref \in Requests :
                StripeIgnore(g, ref) \/ MpesaIgnore(g, ref) \/ MpesaDeclined(g, ref)
    <2>1. UNCHANGED hook
      BY <1>7 DEF StripeIgnore, MpesaIgnore, MpesaDeclined
    <2> QED BY <1>1, <2>1
  <1>8. CASE \/ \E r \in Requests : \E in \in Inputs : Submit(r, in)
             \/ \E r \in Requests : InitiateStep(r)
             \/ \E r \in Requests : Settle(r)
             \/ \E c \in Calls, t \in Requests, kind \in TransitionKinds, role \in Roles,
                   isOwner \in BOOLEAN : ReadForTransition(c, t, kind, role, isOwner)
             \/ \E c \in Calls : ApplyTransition(c)
             \/ UNCHANGED vars
    BY <1>1, <1>8 DEF Submit, InitiateStep, FindExisting, Create, Refetch, CallProvider,
                      RecordRef, Settle, ReadForTransition, ApplyTransition, vars
  <1> QED BY <1>3, <1>4, <1>5, <1>6, <1>7, <1>8 DEF Next, DeliveryStep

LEMMA NextCompared ==
    ASSUME Shape, Books, Compared, [Next]_vars
    PROVE  Compared'
  <1> SUFFICES ASSUME ShowsAmount = {TRUE}, NEW h \in Hooks, hook'[h].stage = "credit"
               PROVE  LET paid == intent'[hook'[h].ref] IN
                      /\ paid.tx \in Requests /\ tx'[paid.tx].status # "ABSENT"
                      /\ tx'[paid.tx].amount = paid.amount
    BY DEF Compared
  <1>1. CASE hook'[h] = hook[h]
    <2>1. PICK ref \in Requests : ref = hook[h].ref
      BY <1>1, BusyHook DEF Shape
    <2>2. intent[ref].state = "paid" /\ intent'[ref] = intent[ref]
      BY <1>1, <2>1, PaidIntentsLast DEF Books, RefsOK
    <2>3. PICK t \in Requests : t = intent[ref].tx /\ Exists(t) /\ tx[t].amount = intent[ref].amount
      BY <1>1, <2>1 DEF Compared, Exists
    <2>4. Exists(t)' /\ tx'[t].amount = tx[t].amount
      <3>1. CASE \A u \in Requests : Lasting(u)
        BY <2>3, <3>1 DEF Lasting
      <3>2. ASSUME NEW r \in Requests, Create(r), ~KeyTaken(req[r].input.key)
            PROVE  Exists(t)' /\ tx'[t].amount = tx[t].amount
        <4>1. r # t
          BY <2>3, <3>2 DEF Create, Books, RowsNamed
        <4> QED BY <2>3, <3>2, <4>1 DEF Create, Exists, Shape, TypeOK
      <3> QED BY <3>1, <3>2, RowsLast
    <2> QED BY <1>1, <2>1, <2>2, <2>3, <2>4 DEF Exists
  <1>2. ASSUME NEW ref \in Requests, NEW shown \in ShowsAmount, NEW t \in PendingWithRef(ref),
               hook'[h].ref = ref, AmountMatches(t, ref, shown), UNCHANGED <<intent, tx>>
        PROVE  LET paid == intent'[hook'[h].ref] IN
               /\ paid.tx \in Requests /\ tx'[paid.tx].status # "ABSENT"
               /\ tx'[paid.tx].amount = paid.amount
    <2>1. t \in Requests /\ Exists(t) /\ tx[t].ref = ref
      BY WithRefParts
    <2>2. intent[ref].tx = t
      BY <2>1, RequestsNotNone DEF Books, RefsOK
    <2>3. tx[t].amount = intent[ref].amount
      BY <1>2 DEF AmountMatches
    <2> QED BY <1>2, <2>1, <2>2, <2>3 DEF Exists
  <1> QED BY <1>1, <1>2, CreditsAreCompared

LEMMA NextReconciled ==
    ASSUME Shape, Books, Reconciled, [Next]_vars
    PROVE  MpesaCreditsReconciled'
  <1> SUFFICES ASSUME ShowsAmount = {TRUE}, NEW t \in Requests, NEW i \in 1..Len(ledger'[t]),
                      intent'[ledger'[t][i].ref].method = "MPESA"
               PROVE  intent'[ledger'[t][i].ref].amount = ledger'[t][i].amount
    BY DEF MpesaCreditsReconciled
  <1>1. CASE ledger'[t] = ledger[t]
    <2>1. ledger[t][i] \in LedgerEntries
      BY <1>1, ElementOfSeq DEF Shape, TypeOK
    <2>2. PICK ref \in Requests : ref = ledger[t][i].ref
      BY <2>1 DEF LedgerEntries
    <2>3. intent[ref].state = "paid" /\ intent'[ref] = intent[ref]
      BY <1>1, <2>2, PaidIntentsLast DEF Books, CreditsArePaidFor
    <2> QED BY <1>1, <2>2, <2>3 DEF Reconciled, MpesaCreditsReconciled
  <1>2. ASSUME NEW h \in Hooks, NEW ref \in Requests, NEW u \in PendingWithRef(ref),
               Credits(h, ref, u)
        PROVE  intent'[ledger'[t][i].ref].amount = ledger'[t][i].amount
    <2>1. u \in Requests /\ tx[u].ref = ref /\ tx[u].status = "PENDING"
      BY WithRefParts
    <2> DEFINE entry == [ref |-> ref, amount |-> tx[u].amount]
    <2>2. /\ ledger' = [ledger EXCEPT ![u] = Append(ledger[u], entry)]
          /\ UNCHANGED intent
      BY <1>2 DEF Credits, CompleteAndCredit
    <2>3. CASE u # t
      <3>1. ledger'[t] = ledger[t]
        BY <2>2, <2>3 DEF Shape, TypeOK
      <3> QED BY <1>1, <3>1
    <2>4. CASE u = t
      <3>1. ledger[t] \in Seq(LedgerEntries) /\ Len(ledger[t]) = 0
        BY <2>1, <2>4 DEF Shape, TypeOK, Books, CreditedExactlyOnce
      <3>2. ledger'[t] = <<entry>>
        <4>1. ledger[t] = <<>>
          BY <3>1, EmptySeq
        <4> QED BY <2>2, <2>4, <4>1 DEF Shape, TypeOK
      <3>3. ledger'[t][i] = entry
        BY <3>2
      <3>4. intent[ref].method = "MPESA"
        BY <2>2, <3>3
      <3>5. intent[ref].tx = t
        BY <2>1, <2>4, RequestsNotNone DEF Books, RefsOK
      <3>6. hook[h].stage = "credit" /\ hook[h].ref = ref
        BY <1>2, <3>4 DEF Credits
      <3>7. tx[t].amount = intent[ref].amount
        BY <3>5, <3>6 DEF Reconciled, Compared
      <3> QED BY <2>2, <2>4, <3>3, <3>7
    <2> QED BY <2>3, <2>4
  <1>3. CASE UNCHANGED ledger
    BY <1>1, <1>3
  <1> QED BY <1>2, <1>3, LedgerSteps DEF Quiet, Publish

\* As long as M-Pesa's callbacks show the amount, what is credited is what was
\* collected, whichever of two racing calls owns the row and whatever happens
\* between the comparison and the credit.
THEOREM MpesaReconciled == Spec => []MpesaCreditsReconciled
  <1>1. Init => Reconciled
    <2> SUFFICES ASSUME Init PROVE Reconciled
      OBVIOUS
    <2>1. \A t \in Requests : 1..Len(ledger[t]) = {}
      BY DEF Init
    <2>2. \A h \in Hooks : hook[h].stage = "idle"
      BY DEF Init, Idle
    <2> QED BY <2>1, <2>2 DEF Reconciled, MpesaCreditsReconciled, Compared
  <1>2. Shape /\ Books /\ Reconciled /\ [Next]_vars => Reconciled'
    BY NextCompared, NextReconciled DEF Reconciled
  <1>3. Reconciled => MpesaCreditsReconciled
    BY DEF Reconciled
  <1> QED BY <1>1, <1>2, <1>3, BooksAlways, PTL DEF Spec

-----------------------------------------------------------------------------
\* Without an operator, no event is written and a row only leaves ABSENT or
\* PENDING, for a status of the payment repository.
LEMMA UnattendedRows ==
    ASSUME Shape, Books, [Next]_vars, ~\E c \in Calls : ApplyTransition(c)
    PROVE  /\ UNCHANGED events
           /\ \A t \in Requests :
                 \/ tx'[t].status = tx[t].status
                 \/ /\ tx[t].status \in {"ABSENT", "PENDING"}
                    /\ tx'[t].status \in {"PENDING", "COMPLETED", "FAILED"}
  <1> DEFINE Kept == \A t \in Requests :
                 \/ tx'[t].status = tx[t].status
                 \/ /\ tx[t].status \in {"ABSENT", "PENDING"}
                    /\ tx'[t].status \in {"PENDING", "COMPLETED", "FAILED"}
  <1>1. ASSUME Untouched \/ \E t \in Requests : Inserted(t) \/ CreditedNow(t) \/ FailedNow(t)
        PROVE  Kept
    BY <1>1 DEF Untouched, Inserted, CreditedNow, FailedNow, Same, NoRow
  <1>2. ASSUME UNCHANGED tx PROVE Kept
    BY <1>2
  <1>3. ASSUME NEW r \in Requests, InitiateStep(r) PROVE UNCHANGED events /\ Kept
    <2>1. UNCHANGED events
      BY <1>3 DEF InitiateStep, FindExisting, Create, Refetch, CallProvider, RecordRef
    <2> QED BY <1>1, <1>3, <2>1, InitiateRowStep
  <1>4. ASSUME NEW h \in Hooks, NEW ref \in Requests, DeliveryStep(h, ref)
        PROVE  UNCHANGED events /\ Kept
    <2>1. CASE StripeCredit(h, ref)
      BY <1>1, <2>1, CreditRowStep DEF StripeCredit, Shape
    <2>2. CASE MpesaDeclined(h, ref)
      BY <1>1, <2>2, FailRowStep DEF MpesaDeclined, Shape, Books
    <2>3. CASE \/ StripeIgnore(h, ref) \/ MpesaIgnore(h, ref)
               \/ \E shown \in ShowsAmount : MpesaFind(h, ref, shown)
      BY <1>2, <2>3 DEF StripeIgnore, MpesaIgnore, MpesaFind
    <2> QED BY <1>4, <2>1, <2>2, <2>3 DEF DeliveryStep
  <1>5. ASSUME NEW h \in Hooks, HookStep(h) PROVE UNCHANGED events /\ Kept
    <2>1. CASE MpesaFail(h)
      <3>1. hook[h].ref \in Requests
        BY <2>1, BusyHook DEF MpesaFail, Shape
      <3> QED BY <1>1, <2>1, <3>1, FailRowStep DEF MpesaFail, Shape, Books
    <2>2. CASE MpesaCredit(h)
      <3>1. ASSUME NEW t \in PendingWithRef(hook[h].ref), CompleteAndCredit(t, hook[h].ref)
            PROVE  Kept
        BY <1>1, <3>1, CreditRowStep DEF Shape
      <3>2. NoCredit => Kept
        BY <1>2 DEF NoCredit
      <3> QED BY <2>2, <3>1, <3>2 DEF MpesaCredit
    <2>3. CASE Publish(h)
      BY <1>2, <2>3 DEF Publish
    <2> QED BY <1>5, <2>1, <2>2, <2>3 DEF HookStep
  <1>6. CASE \/ \E r \in Requests : \E in \in Inputs : Submit(r, in)
             \/ \E r \in Requests : Settle(r)
             \/ \E c \in Calls, t \in Requests, kind \in TransitionKinds, role \in Roles,
                   isOwner \in BOOLEAN : ReadForTransition(c, t, kind, role, isOwner)
             \/ Crash \/ UNCHANGED vars
    <2>1. ASSUME NEW r \in Requests, \/ Settle(r) \/ \E in \in Inputs : Submit(r, in)
          PROVE  UNCHANGED <<tx, events>>
      BY <2>1 DEF Settle, Submit
    <2>2. ASSUME NEW c \in Calls, NEW t \in Requests, NEW kind \in TransitionKinds,
                 NEW role \in Roles, NEW isOwner \in BOOLEAN,
                 ReadForTransition(c, t, kind, role, isOwner)
          PROVE  UNCHANGED <<tx, events>>
      BY <2>2 DEF ReadForTransition
    <2>3. Crash \/ UNCHANGED vars => UNCHANGED <<tx, events>>
      BY DEF Crash, vars
    <2> QED BY <1>2, <1>6, <2>1, <2>2, <2>3
  <1> QED BY <1>3, <1>4, <1>5, <1>6 DEF Next

\* A trail of events from PENDING to a status, along the table.
TrailTo(log, to) ==
    /\ log # <<>> /\ log[1].from = "PENDING" /\ log[Len(log)].to = to
    /\ \A i \in 1..Len(log) : RulesFor(log[i].from, log[i].to) # {}
    /\ \A i \in 1..(Len(log) - 1) : log[i].to = log[i + 1].from

\* One more event along the table makes a trail to its target.
LEMMA EventAppended ==
    ASSUME TypeOK, EventsTracePath, NEW t, NEW from, NEW to, NEW log,
           /\ t \in Requests /\ from \in RowStatuses /\ to \in TransitionKinds
           /\ tx[t].status = from /\ from \in Movable /\ RulesFor(from, to) # {}
           /\ log = Append(events[t], [from |-> from, to |-> to])
    PROVE  TrailTo(log, to)
  <1> DEFINE old == events[t]
             new == [from |-> from, to |-> to]
  <1>1. old \in Seq(Events) /\ new \in Events
    BY DEF TypeOK, Events
  <1>2. /\ \A i \in 1..Len(old) : RulesFor(old[i].from, old[i].to) # {}
        /\ \A i \in 1..(Len(old) - 1) : old[i].to = old[i + 1].from
        /\ old = <<>> => tx[t].status \in {"ABSENT", "PENDING", "COMPLETED", "FAILED"}
        /\ old # <<>> => old[1].from = "PENDING" /\ tx[t].status = old[Len(old)].to
    BY DEF EventsTracePath
  <1>3. new.from = from /\ new.to = to
    OBVIOUS
  <1> HIDE DEF old, new
  <1>4. log = Append(old, new)
    BY DEF old, new
  <1>5. /\ Len(log) = Len(old) + 1 /\ Len(old) \in Nat /\ log[Len(log)] = new
        /\ \A i \in 1..Len(old) : log[i] = old[i]
    <2>1. Len(old) \in Nat
      BY ONLY <1>1, LenProperties
    <2>2. /\ Len(Append(old, new)) = Len(old) + 1 /\ Append(old, new)[Len(old) + 1] = new
          /\ \A i \in 1..Len(old) : Append(old, new)[i] = old[i]
      BY ONLY <1>1, AppendProperties
    <2> QED BY ONLY <1>4, <2>1, <2>2
  <1>6. log # <<>>
    BY <1>1, <1>4, AppendProperties
  <1>7. CASE old = <<>>
    <2>1. Len(old) = 0 /\ Len(log) = 1 /\ log[1] = new
      BY <1>1, <1>5, <1>7, EmptySeq
    <2>2. from = "PENDING"
      BY <1>2, <1>7 DEF Movable
    <2>3. 1..Len(log) = {1} /\ 1..(Len(log) - 1) = {}
      BY <2>1
    <2> QED BY <1>3, <1>5, <1>6, <2>1, <2>2, <2>3 DEF TrailTo
  <1>8. CASE old # <<>>
    <2>1. Len(old) >= 1
      <3>1. Len(old) # 0
        BY <1>1, <1>8, EmptySeq
      <3> QED BY <1>5, <3>1
    <2>2. log[1].from = "PENDING"
      BY <1>2, <1>5, <1>8, <2>1
    <2>3. ASSUME NEW i \in 1..Len(log) PROVE RulesFor(log[i].from, log[i].to) # {}
      <3>1. CASE i \in 1..Len(old)
        BY <1>2, <1>5, <3>1
      <3>2. CASE i = Len(log)
        BY <1>3, <1>5, <3>2
      <3>3. i \in 1..Len(old) \/ i = Len(log)
        BY ONLY <1>5, i \in 1..Len(log)
      <3> QED BY ONLY <3>1, <3>2, <3>3
    <2>4. ASSUME NEW i \in 1..(Len(log) - 1) PROVE log[i].to = log[i + 1].from
      <3>1. i \in 1..Len(old) /\ log[i] = old[i]
        BY <1>5
      <3>2. CASE i = Len(old)
        <4>1. log[i + 1] = new /\ old[i].to = from
          BY <1>2, <1>5, <1>8, <3>2
        <4> QED BY <1>3, <3>1, <4>1
      <3>3. CASE i # Len(old)
        <4>1. i \in 1..(Len(old) - 1) /\ i + 1 \in 1..Len(old)
          BY <1>5, <3>1, <3>3
        <4>2. log[i + 1] = old[i + 1] /\ old[i].to = old[i + 1].from
          BY <1>2, <1>5, <4>1
        <4> QED BY <3>1, <4>2
      <3> QED BY <3>2, <3>3
    <2> QED BY <1>3, <1>5, <1>6, <2>2, <2>3, <2>4 DEF TrailTo
  <1> QED BY <1>7, <1>8

LEMMA NextTrace ==
    ASSUME Shape, Books, EventsTracePath, [Next]_vars
    PROVE  EventsTracePath'
  <1> SUFFICES ASSUME NEW t \in Requests
               PROVE  LET log == events'[t] IN
                      /\ \A i \in 1..Len(log) : RulesFor(log[i].from, log[i].to) # {}
                      /\ \A i \in 1..(Len(log) - 1) : log[i].to = log[i + 1].from
                      /\ IF log = <<>>
                         THEN tx'[t].status \in {"ABSENT", "PENDING", "COMPLETED", "FAILED"}
                         ELSE log[1].from = "PENDING" /\ tx'[t].status = log[Len(log)].to
    BY DEF EventsTracePath
  <1>1. /\ events[t] \in Seq(Events)
        /\ events[t] # <<>> => tx[t].status \in TransitionKinds
    <2>1. events[t] \in Seq(Events)
      BY DEF Shape, TypeOK
    <2>2. ASSUME events[t] # <<>> PROVE tx[t].status \in TransitionKinds
      <3>1. Len(events[t]) # 0 /\ Len(events[t]) \in Nat
        BY <2>1, <2>2, EmptySeq, LenProperties
      <3>2. events[t][Len(events[t])] \in Events
        BY <2>1, <3>1, ElementOfSeq
      <3> QED BY <2>2, <3>2 DEF EventsTracePath, Events
    <2> QED BY <2>1, <2>2
  <1>2. CASE /\ events'[t] = events[t]
             /\ \/ tx'[t].status = tx[t].status
                \/ /\ tx[t].status \in {"ABSENT", "PENDING"}
                   /\ tx'[t].status \in {"PENDING", "COMPLETED", "FAILED"}
    <2>1. CASE tx'[t].status = tx[t].status
      BY <1>2, <2>1 DEF EventsTracePath
    <2>2. CASE /\ tx[t].status \in {"ABSENT", "PENDING"}
               /\ tx'[t].status \in {"PENDING", "COMPLETED", "FAILED"}
      <3>1. events[t] = <<>>
        BY <1>1, <2>2 DEF TransitionKinds
      <3> QED BY <1>2, <2>2, <3>1 DEF EventsTracePath
    <2> QED BY <1>2, <2>1, <2>2
  <1>3. CASE ~\E c \in Calls : ApplyTransition(c)
    BY <1>2, <1>3, UnattendedRows
  <1>4. ASSUME NEW c \in Calls, ApplyTransition(c), StillAsRead(c), call[c].tx = t
        PROVE  LET log == events'[t] IN
               /\ \A i \in 1..Len(log) : RulesFor(log[i].from, log[i].to) # {}
               /\ \A i \in 1..(Len(log) - 1) : log[i].to = log[i + 1].from
               /\ IF log = <<>>
                  THEN tx'[t].status \in {"ABSENT", "PENDING", "COMPLETED", "FAILED"}
                  ELSE log[1].from = "PENDING" /\ tx'[t].status = log[Len(log)].to
    <2>1. /\ call[c].from \in RowStatuses /\ call[c].to \in TransitionKinds
          /\ RulesFor(call[c].from, call[c].to) # {} /\ call[c].from \in Movable
          /\ tx[t].status = call[c].from
      BY <1>4, RulesStartMovable DEF ApplyTransition, Shape, CallsOK, StillAsRead
    <2>2. /\ events' = [events EXCEPT ![t] =
                           Append(events[t], [from |-> call[c].from, to |-> call[c].to])]
          /\ tx' = [tx EXCEPT ![t].status = call[c].to]
      BY <1>4 DEF ApplyTransition
    <2>3. Exists(t)
      BY <2>1 DEF Exists, Movable
    <2>4. /\ events'[t] = Append(events[t], [from |-> call[c].from, to |-> call[c].to])
          /\ tx'[t].status = call[c].to
      BY <2>2, <2>3, RowParts DEF Shape, TypeOK
    <2>5. PICK log, from, to :
              /\ log = events'[t] /\ from = call[c].from /\ to = call[c].to
      OBVIOUS
    <2>6. TrailTo(log, to)
      <3>1. /\ t \in Requests /\ from \in RowStatuses /\ to \in TransitionKinds
            /\ tx[t].status = from /\ from \in Movable /\ RulesFor(from, to) # {}
            /\ log = Append(events[t], [from |-> from, to |-> to])
        BY <2>1, <2>4, <2>5
      <3>2. TypeOK /\ EventsTracePath
        BY DEF Shape
      <3> QED BY <3>1, <3>2, EventAppended
    <2> QED BY <2>4, <2>5, <2>6 DEF TrailTo
  <1>5. ASSUME NEW c \in Calls, ApplyTransition(c), ~StillAsRead(c) \/ call[c].tx # t
        PROVE  events'[t] = events[t] /\ tx'[t] = tx[t]
    BY <1>5 DEF ApplyTransition, Shape, TypeOK
  <1> QED BY <1>2, <1>3, <1>4, <1>5

\* Whatever operators read and however their writes interleave with the
\* callbacks, the events of a row are a path of the transition table from
\* PENDING to its present status.
THEOREM EventsTrace == Spec => []EventsTracePath
  <1>1. Init => EventsTracePath
    <2> SUFFICES ASSUME Init, NEW t \in Requests
                 PROVE  LET log == events[t] IN
                        /\ \A i \in 1..Len(log) : RulesFor(log[i].from, log[i].to) # {}
                        /\ \A i \in 1..(Len(log) - 1) : log[i].to = log[i + 1].from
                        /\ IF log = <<>>
                           THEN tx[t].status \in {"ABSENT", "PENDING", "COMPLETED", "FAILED"}
                           ELSE log[1].from = "PENDING" /\ tx[t].status = log[Len(log)].to
      BY DEF EventsTracePath
    <2>1. events[t] = <<>> /\ tx[t].status = "ABSENT"
      BY DEF Init, NoRow
    <2>2. 1..Len(events[t]) = {} /\ 1..(Len(events[t]) - 1) = {}
      BY <2>1
    <2> QED BY <2>1, <2>2
  <1>2. Shape /\ Books /\ EventsTracePath /\ [Next]_vars => EventsTracePath'
    BY NextTrace
  <1> QED BY <1>1, <1>2, BooksAlways, PTL DEF Spec
=============================================================================
