-------------------------- MODULE UsageBillingProofs --------------------------
(***************************************************************************)
(* Theorems about UsageBilling, for every number of sessions, users and    *)
(* reports in progress, every price and fee, and any faults. The first     *)
(* part is about sums: what a fold adds up is settled by looking at the    *)
(* smallest set for which it would be wrong. The second is the type        *)
(* invariant and the books, which no race and no fault disturbs. The third *)
(* is what holds only of sessions that are reported one report at a time.  *)
(***************************************************************************)
EXTENDS UsageBilling, FiniteSetTheorems, SequenceTheorems, TLAPS

Pick(S) == CHOOSE x \in S : TRUE

\* sum is the table of the sums of f over the subsets of S.
Sums(sum, f, S) ==
    /\ sum \in [SUBSET S -> Nat]
    /\ \A T \in SUBSET S : sum[T] = IF T = {} THEN 0 ELSE f[Pick(T)] + sum[T \ {Pick(T)}]

\* A set of finite sets that is not empty has a member none of whose subsets
\* is in it.
LEMMA SmallestSet ==
    ASSUME NEW S, IsFiniteSet(S), NEW D \in SUBSET SUBSET S, D # {}
    PROVE  \E T \in D : \A U \in SUBSET T : U # T => U \notin D
  <1>1. IsWellFoundedOn(StrictSubsetOrdering(S), SUBSET S)
    BY FS_StrictSubsetOrderingWellFounded, FS_FiniteSubsetsOfFinite
  <1>2. PICK T \in D : \A U \in D : ~ (<<U, T>> \in StrictSubsetOrdering(S))
    BY <1>1, WFMin
  <1>3. ASSUME NEW U \in SUBSET T, U # T PROVE U \notin D
    BY <1>2, <1>3 DEF StrictSubsetOrdering
  <1> QED BY <1>3

\* Two tables agree wherever both are defined and their functions agree.
LEMMA SumsAgree ==
    ASSUME NEW R, IsFiniteSet(R), NEW S, NEW T, R \subseteq S, R \subseteq T,
           NEW f, NEW g, \A x \in R : f[x] = g[x],
           NEW sum, NEW tot, Sums(sum, f, S), Sums(tot, g, T)
    PROVE  sum[R] = tot[R]
  <1> DEFINE D == {U \in SUBSET R : sum[U] # tot[U]}
  <1>1. SUFFICES ASSUME D # {} PROVE FALSE
    OBVIOUS
  <1>2. PICK U \in D : \A V \in SUBSET U : V # U => V \notin D
    <2> HIDE DEF D
    <2>1. D \in SUBSET SUBSET R
      BY DEF D
    <2> QED BY <1>1, <2>1, SmallestSet
  <1>3. U \in SUBSET R /\ U \in SUBSET S /\ U \in SUBSET T /\ sum[U] # tot[U]
    BY <1>2
  <1>4. U # {}
    BY <1>3 DEF Sums
  <1>5. Pick(U) \in U
    BY <1>4 DEF Pick
  <1>6. sum[U \ {Pick(U)}] = tot[U \ {Pick(U)}]
    BY <1>2, <1>3, <1>5
  <1> QED BY <1>3, <1>4, <1>5, <1>6 DEF Sums

\* Every function into the naturals has a table of its sums.
LEMMA SumsExist ==
    ASSUME NEW S, IsFiniteSet(S), NEW f, \A x \in S : f[x] \in Nat
    PROVE  \E sum : Sums(sum, f, S)
  <1> DEFINE D == {T \in SUBSET S : ~ \E sum : Sums(sum, f, T)}
  <1>1. SUFFICES ASSUME D # {} PROVE FALSE
    OBVIOUS
  <1>2. PICK T \in D : \A U \in SUBSET T : U # T => U \notin D
    <2> HIDE DEF D
    <2>1. D \in SUBSET SUBSET S
      BY DEF D
    <2> QED BY <1>1, <2>1, SmallestSet
  <1> DEFINE table(U) == CHOOSE sum : Sums(sum, f, U)
             whole == IF T = {} THEN 0
                      ELSE f[Pick(T)] + table(T \ {Pick(T)})[T \ {Pick(T)}]
             sums == [U \in SUBSET T |-> IF U = T THEN whole ELSE table(U)[U]]
  <1>3. \A U \in SUBSET T : U # T => Sums(table(U), f, U)
    BY <1>2
  <1> HIDE DEF table
  <1>4. \A U \in SUBSET T : U # {} => Pick(U) \in U
    BY DEF Pick
  <1>5. whole \in Nat
    <2>1. CASE T # {}
      <3>1. Pick(T) \in T /\ T \ {Pick(T)} \in SUBSET T /\ T \ {Pick(T)} # T
        BY <1>4, <2>1
      <3>2. table(T \ {Pick(T)})[T \ {Pick(T)}] \in Nat
        BY <1>3, <3>1 DEF Sums
      <3> QED BY <1>2, <2>1, <3>1, <3>2
    <2> QED BY <2>1
  <1>6. sums \in [SUBSET T -> Nat]
    <2>1. ASSUME NEW U \in SUBSET T, U # T PROVE table(U)[U] \in Nat
      BY <1>3, <2>1 DEF Sums
    <2> HIDE DEF whole
    <2> QED BY <1>5, <2>1
  <1>7. ASSUME NEW U \in SUBSET T
        PROVE  sums[U] = IF U = {} THEN 0 ELSE f[Pick(U)] + sums[U \ {Pick(U)}]
    <2> DEFINE V == U \ {Pick(U)}
    <2>1. CASE U = T
      BY <1>4, <2>1
    <2>2. CASE U # T /\ U = {}
      BY <1>3, <2>2 DEF Sums
    <2>3. CASE U # T /\ U # {}
      <3>1. V \in SUBSET U /\ V \in SUBSET T /\ V # U /\ V # T /\ Pick(U) \in U
        BY <1>4, <2>3
      <3>2. Sums(table(U), f, U) /\ Sums(table(V), f, V)
        BY <1>3, <2>3, <3>1
      <3>3. IsFiniteSet(V)
        BY <1>2, <3>1, FS_Subset
      <3>4. table(U)[V] = table(V)[V]
        BY <3>1, <3>2, <3>3, SumsAgree
      <3>5. table(U)[U] = f[Pick(U)] + table(U)[V]
        BY <2>3, <3>2 DEF Sums
      <3>6. sums[U] = table(U)[U] /\ sums[V] = table(V)[V]
        BY <2>3, <3>1
      <3> QED BY <2>3, <3>4, <3>5, <3>6
    <2> QED BY <2>1, <2>2, <2>3
  <1>8. Sums(sums, f, T)
    <2> HIDE DEF sums
    <2> QED BY <1>6, <1>7 DEF Sums
  <1> QED BY <1>2, <1>8

LEMMA SumIsTabled ==
    ASSUME NEW S, IsFiniteSet(S), NEW f, \A x \in S : f[x] \in Nat
    PROVE  \E sum : Sums(sum, f, S) /\ SumFunctionOnSet(f, S) = sum[S]
  <1> DEFINE Defines(sum) == sum = [T \in SUBSET S |-> IF T = {} THEN 0
                                ELSE f[Pick(T)] + sum[T \ {Pick(T)}]]
             iter == CHOOSE sum : Defines(sum)
  <1>1. SumFunctionOnSet(f, S) = iter[S]
    BY DEF SumFunctionOnSet, FoldFunctionOnSet, MapThenFoldSet, Pick
  <1>2. \A sum : Sums(sum, f, S) => Defines(sum)
    BY DEF Sums
  <1>3. PICK sum : Sums(sum, f, S)
    BY SumsExist
  <1>4. PICK h : h = iter /\ Defines(h)
    BY <1>2, <1>3
  <1>5. /\ DOMAIN h = SUBSET S /\ h = [T \in SUBSET S |-> h[T]]
        /\ \A T \in SUBSET S : h[T] = IF T = {} THEN 0 ELSE f[Pick(T)] + h[T \ {Pick(T)}]
    BY <1>4
  <1> HIDE DEF iter
  <1>6. \A T \in SUBSET S : h[T] = sum[T]
    <2> DEFINE D == {T \in SUBSET S : h[T] # sum[T]}
    <2>1. SUFFICES ASSUME D # {} PROVE FALSE
      OBVIOUS
    <2>2. PICK T \in D : \A U \in SUBSET T : U # T => U \notin D
      <3> HIDE DEF D
      <3>1. D \in SUBSET SUBSET S
        BY DEF D
      <3> QED BY <2>1, <3>1, SmallestSet
    <2>3. T # {} => Pick(T) \in T
      BY DEF Pick
    <2>4. T # {} => h[T \ {Pick(T)}] = sum[T \ {Pick(T)}]
      BY <2>2, <2>3
    <2> QED BY <1>3, <1>5, <2>2, <2>4 DEF Sums
  <1>7. h \in [SUBSET S -> Nat]
    BY <1>3, <1>5, <1>6 DEF Sums
  <1>8. Sums(h, f, S)
    BY <1>5, <1>7 DEF Sums
  <1> QED BY <1>1, <1>4, <1>8

\* The sum of a function into the naturals is one, is that of any function that
\* agrees with it, and any element may be taken out of it.
LEMMA SumIsNat ==
    ASSUME NEW S, IsFiniteSet(S), NEW f, \A x \in S : f[x] \in Nat
    PROVE  SumFunctionOnSet(f, S) \in Nat
  <1>1. PICK sum : Sums(sum, f, S) /\ SumFunctionOnSet(f, S) = sum[S]
    BY SumIsTabled
  <1> QED BY <1>1 DEF Sums

LEMMA SumAgrees ==
    ASSUME NEW S, IsFiniteSet(S), NEW f, \A x \in S : f[x] \in Nat,
           NEW g, \A x \in S : f[x] = g[x]
    PROVE  SumFunctionOnSet(f, S) = SumFunctionOnSet(g, S)
  <1>1. PICK sum : Sums(sum, f, S) /\ SumFunctionOnSet(f, S) = sum[S]
    BY SumIsTabled
  <1>2. PICK tot : Sums(tot, g, S) /\ SumFunctionOnSet(g, S) = tot[S]
    BY SumIsTabled
  <1> QED BY <1>1, <1>2, SumsAgree

LEMMA SumOfNone == \A f : SumFunctionOnSet(f, {}) = 0
  <1> TAKE f
  <1>1. IsFiniteSet({}) /\ \A x \in {} : f[x] \in Nat
    BY FS_EmptySet
  <1>2. PICK sum : Sums(sum, f, {}) /\ SumFunctionOnSet(f, {}) = sum[{}]
    BY <1>1, SumIsTabled
  <1> QED BY <1>2 DEF Sums

LEMMA SumPicks ==
    ASSUME NEW S, IsFiniteSet(S), S # {}, NEW f, \A x \in S : f[x] \in Nat
    PROVE  SumFunctionOnSet(f, S) = f[Pick(S)] + SumFunctionOnSet(f, S \ {Pick(S)})
  <1> DEFINE T == S \ {Pick(S)}
  <1>1. IsFiniteSet(T) /\ T \subseteq S
    BY FS_Subset
  <1>2. PICK sum : Sums(sum, f, S) /\ SumFunctionOnSet(f, S) = sum[S]
    BY SumIsTabled
  <1>3. PICK tot : Sums(tot, f, T) /\ SumFunctionOnSet(f, T) = tot[T]
    BY <1>1, SumIsTabled
  <1>4. sum[T] = tot[T]
    BY <1>1, <1>2, <1>3, SumsAgree
  <1> QED BY <1>2, <1>3, <1>4 DEF Sums

LEMMA SumTakesOut ==
    ASSUME NEW S, IsFiniteSet(S), NEW f, \A x \in S : f[x] \in Nat, NEW x \in S
    PROVE  SumFunctionOnSet(f, S) = f[x] + SumFunctionOnSet(f, S \ {x})
  <1> DEFINE sum(T) == SumFunctionOnSet(f, T)
             D == {T \in SUBSET S : \E y \in T : sum(T) # f[y] + sum(T \ {y})}
  <1>1. SUFFICES ASSUME D # {} PROVE FALSE
    OBVIOUS
  <1>2. PICK T \in D : \A U \in SUBSET T : U # T => U \notin D
    <2> HIDE DEF D
    <2>1. D \in SUBSET SUBSET S
      BY DEF D
    <2> QED BY <1>1, <2>1, SmallestSet
  <1>3. PICK y \in T : sum(T) # f[y] + sum(T \ {y})
    BY <1>2
  <1> DEFINE p == Pick(T)
  <1>4. \A U \in SUBSET S : IsFiniteSet(U) /\ sum(U) \in Nat
    BY FS_Subset, SumIsNat
  <1>5. p \in T
    BY <1>3 DEF Pick
  <1>6. sum(T) = f[p] + sum(T \ {p})
    BY <1>2, <1>3, <1>4, SumPicks
  <1> HIDE DEF p, sum
  <1>7. y # p
    BY <1>3, <1>6
  <1>8. sum(T \ {p}) = f[y] + sum((T \ {p}) \ {y})
    BY <1>2, <1>5, <1>7
  <1>9. sum(T \ {y}) = f[p] + sum((T \ {y}) \ {p})
    BY <1>2, <1>3, <1>5, <1>7
  <1>10. (T \ {p}) \ {y} = (T \ {y}) \ {p}
    OBVIOUS
  <1>11. f[p] \in Nat /\ f[y] \in Nat /\ sum((T \ {p}) \ {y}) \in Nat
    BY <1>2, <1>4, <1>5
  <1> QED BY <1>3, <1>6, <1>8, <1>9, <1>10, <1>11

\* What a change at one element makes of the sum.
LEMMA SumUpdated ==
    ASSUME NEW S, IsFiniteSet(S), NEW f, NEW g, NEW x \in S,
           \A y \in S : f[y] \in Nat /\ g[y] \in Nat,
           \A y \in S : y # x => g[y] = f[y]
    PROVE  SumFunctionOnSet(g, S) + f[x] = SumFunctionOnSet(f, S) + g[x]
  <1> DEFINE T == S \ {x}
  <1>1. IsFiniteSet(T) /\ \A y \in T : f[y] \in Nat /\ g[y] = f[y]
    BY FS_Subset
  <1>2. SumFunctionOnSet(f, T) = SumFunctionOnSet(g, T) /\ SumFunctionOnSet(f, T) \in Nat
    BY <1>1, SumAgrees, SumIsNat
  <1>3. /\ SumFunctionOnSet(f, S) = f[x] + SumFunctionOnSet(f, T)
        /\ SumFunctionOnSet(g, S) = g[x] + SumFunctionOnSet(g, T)
    BY SumTakesOut
  <1> QED BY <1>2, <1>3

\* Nothing is what a function that is 0 everywhere adds up to, and never more
\* than any other.
LEMMA SumOfZeros ==
    ASSUME NEW S, IsFiniteSet(S), NEW f, \A x \in S : f[x] = 0
    PROVE  SumFunctionOnSet(f, S) = 0
  <1> DEFINE zeros == [T \in SUBSET S |-> 0]
  <1>1. PICK sum : Sums(sum, f, S) /\ SumFunctionOnSet(f, S) = sum[S]
    BY SumIsTabled
  <1>2. Sums(zeros, f, S)
    <2>1. \A T \in SUBSET S : T # {} => f[Pick(T)] = 0
      BY DEF Pick
    <2> QED BY <2>1 DEF Sums
  <1>3. sum[S] = zeros[S]
    <2> HIDE DEF zeros
    <2> QED BY <1>1, <1>2, SumsAgree
  <1> QED BY <1>1, <1>3

-----------------------------------------------------------------------------
\* The record a report is about to write back has been read, and a report that
\* goes to the record has something to write.
Staged(r) ==
    /\ r.stage \in {"debit", "usage"} => r.todo = AfterMoney
    /\ r.stage \in {"get", "set"} => r.todo # <<>>
    /\ r.stage = "set" => r.snap # None

BillInv == TypeOK /\ \A h \in Reports : Staged(report[h])

\* One report at a time for each session.
Serial == \A g, h \in Reports : Serves[g] = Serves[h] => g = h

\* The record accounts for the money.
Settled(s) == cache[s] # None => billed[s] * Cent + cache[s].pending = cache[s].committed * Price

\* The money of report h has moved and is waiting to be accounted for.
Charged(h) ==
    billed[Serves[h]] * Cent + report[h].carry = report[h].v * Price

CommittedIs(record, h) == record # None => record.committed = report[h].v
PendingIs(record, h) == record # None => record.pending = report[h].carry

\* Where the one report of a session is says how much of its charge the record
\* holds: nothing yet, its bytes, its bytes and what they left below a cent.
Accounted(h) ==
    LET s == Serves[h]
        r == report[h] IN
    /\ r.stage \in {"idle", "debit", "kill", "remove"} => Settled(s)
    /\ r.stage = "debit" =>
          r.v <= used[s] /\ billed[s] * Cent + r.cost * Cent + r.carry = r.v * Price
    /\ r.stage \in {"usage", "get", "set", "balance"} => Charged(h) /\ r.cost > 0
    /\ r.stage \in {"get", "set"} =>
          r.todo \in {AfterMoney, <<"pending", "committed">>, <<"committed">>}
    /\ r.stage \in {"get", "set"} /\ r.todo # AfterMoney => CommittedIs(cache[s], h)
    /\ r.stage \in {"get", "set"} /\ r.todo = <<"committed">> => PendingIs(cache[s], h)
    /\ r.stage = "set" /\ r.todo # AfterMoney => CommittedIs(r.snap, h)
    /\ r.stage = "set" /\ r.todo = <<"committed">> => PendingIs(r.snap, h)
    /\ r.stage = "balance" => CommittedIs(cache[s], h) /\ PendingIs(cache[s], h)

\* A session that has not started has cost nothing.
Unstarted(s) ==
    /\ opener[s] # "live" =>
          /\ used[s] = 0 /\ billed[s] = 0
          /\ \A h \in Reports : Serves[h] = s => report[h].stage = "idle"
    /\ opener[s] = "new" => cache[s] = None

SerialInv ==
    /\ BillInv
    /\ \A h \in Reports : Accounted(h)
    /\ \A s \in Sessions :
          /\ Unstarted(s)
          /\ Quiet(s) => Settled(s)
          /\ billed[s] * Cent <= used[s] * Price

-----------------------------------------------------------------------------
LEMMA Division ==
    ASSUME NEW a \in Nat, NEW b \in Nat \ {0}
    PROVE  /\ a \div b \in Nat /\ a % b \in 0..(b - 1)
           /\ a = b * (a \div b) + (a % b)
           /\ a >= b => a \div b > 0
  <1>1. a \div b \in Nat
    OBVIOUS
  <1>2. a % b \in 0..(b - 1)
    OBVIOUS
  <1>3. a = b * (a \div b) + (a % b)
    OBVIOUS
  <1>4. a >= b => a \div b > 0
    OBVIOUS
  <1> QED BY <1>1, <1>2, <1>3, <1>4

\* The platform's share is never more than the charge.
LEMMA FeeFits ==
    ASSUME NEW cost \in Nat
    PROVE  /\ PlatformFee(cost) \in Nat /\ SellerNet(cost) \in Nat
           /\ SellerNet(cost) + PlatformFee(cost) = cost
  <1>1. FeePct \in Nat /\ FeePct <= 50
    BY UsageAssumption
  <1>2. cost * FeePct \in Nat /\ cost * FeePct <= cost * 50
    BY <1>1
  <1> DEFINE share == cost * FeePct + 50
             fee == share \div 100
  <1>3. fee \in Nat /\ fee * 100 <= share
    <2>1. share \in Nat
      BY <1>2
    <2> HIDE DEF share
    <2>2. fee \in Nat
      BY ONLY <2>1
    <2>3. share % 100 \in Nat
      BY ONLY <2>1
    <2>4. share = 100 * fee + (share % 100)
      BY ONLY <2>1
    <2> QED BY ONLY <2>1, <2>2, <2>3, <2>4
  <1>4. PlatformFee(cost) = fee
    BY DEF PlatformFee
  <1>5. fee <= cost
    <2>1. CASE cost = 0
      BY <1>1, <1>3, <2>1
    <2>2. CASE cost # 0
      <3>1. fee * 100 <= cost * 50 + 50
        BY <1>2, <1>3
      <3> HIDE DEF fee
      <3> QED BY <1>3, <2>2, <3>1
    <2> QED BY <2>1, <2>2
  <1> HIDE DEF fee
  <1> QED BY <1>3, <1>4, <1>5 DEF SellerNet

\* What a report settles, and what it carries over, add up to what is owed.
LEMMA Settling ==
    ASSUME NEW record \in CacheRecords, NEW v \in 0..MaxUsage, v > record.committed
    PROVE  /\ SettledCost(record, v) \in Nat /\ CarryOver(record, v) \in 0..(Cent - 1)
           /\ Cent * SettledCost(record, v) + CarryOver(record, v)
                = record.pending + (v - record.committed) * Price
           /\ Price >= Cent => SettledCost(record, v) > 0
  <1> DEFINE steps == v - record.committed
             owed == record.pending + steps * Price
  <1>1. /\ Cent \in Nat \ {0} /\ Price \in Nat \ {0} /\ MaxUsage \in Nat
        /\ record.pending \in Nat /\ record.committed \in Nat
    BY UsageAssumption DEF CacheRecords
  <1>2. steps \in Nat /\ steps >= 1
    BY <1>1
  <1> HIDE DEF steps
  <1>3. steps * Price \in Nat /\ steps * Price >= Price
    BY <1>1, <1>2
  <1>4. owed \in Nat /\ owed >= Price
    BY <1>1, <1>3
  <1>5. SettledCost(record, v) = owed \div Cent /\ CarryOver(record, v) = owed % Cent
    BY DEF SettledCost, CarryOver, Total, steps
  <1> HIDE DEF owed
  <1>6. /\ owed \div Cent \in Nat /\ owed % Cent \in 0..(Cent - 1)
        /\ owed = Cent * (owed \div Cent) + (owed % Cent)
        /\ owed >= Cent => owed \div Cent > 0
    BY <1>1, <1>4, Division
  <1>7. Price >= Cent => owed \div Cent > 0
    BY <1>1, <1>4, <1>6
  <1>8. owed = record.pending + (v - record.committed) * Price
    BY DEF owed, steps
  <1> QED BY <1>5, <1>6, <1>7, <1>8

-----------------------------------------------------------------------------
\* Types. A report that moves to a record of the right kind keeps BillInv.
ReportsOK == report \in [Reports -> ReportRecords] /\ \A h \in Reports : Staged(report[h])

LEMMA WaitingOK == Waiting \in ReportRecords /\ Staged(Waiting)
  <1>1. <<>> \in Seq(Counters) /\ 0 \in 0..MaxUsage /\ 0 \in 0..(Cent - 1)
    BY UsageAssumption
  <1> QED BY <1>1 DEF Waiting, ReportRecords, Stages, Staged

LEMMA ReportMoves ==
    ASSUME ReportsOK, NEW h \in Reports, NEW new \in ReportRecords, Staged(new),
           report' = [report EXCEPT ![h] = new]
    PROVE  ReportsOK'
  BY DEF ReportsOK

LEMMA StageMoves ==
    ASSUME ReportsOK, NEW h \in Reports, NEW stage \in Stages,
           stage \in {"debit", "usage"} => report[h].todo = AfterMoney,
           stage = "get" => report[h].todo # <<>>,
           stage # "set",
           report' = [report EXCEPT ![h].stage = stage]
    PROVE  ReportsOK'
  <1> DEFINE new == [report[h] EXCEPT !.stage = stage]
  <1>1. report[h] \in ReportRecords
    BY DEF ReportsOK
  <1>2. new \in ReportRecords
    BY ONLY <1>1, stage \in Stages DEF ReportRecords
  <1>3. new.stage = stage /\ new.todo = report[h].todo
    BY ONLY <1>1 DEF ReportRecords
  <1>4. report' = [report EXCEPT ![h] = new]
    BY ONLY ReportsOK, h \in Reports, report' = [report EXCEPT ![h].stage = stage] DEF ReportsOK
  <1> HIDE DEF new
  <1>5. Staged(new)
    BY <1>3 DEF Staged, AfterMoney
  <1> QED BY <1>2, <1>4, <1>5, ReportMoves

LEMMA AfterWriteOK ==
    ASSUME NEW r \in ReportRecords, r.todo # <<>>
    PROVE  AfterWrite(r) \in ReportRecords /\ Staged(AfterWrite(r))
  <1>1. CASE Len(r.todo) > 1
    <2>1. r.todo \in Seq(Counters)
      BY DEF ReportRecords
    <2>2. Tail(r.todo) \in Seq(Counters) /\ Tail(r.todo) # <<>>
      <3>1. /\ Tail(r.todo) \in Seq(Counters) /\ Len(Tail(r.todo)) = Len(r.todo) - 1
            /\ Len(r.todo) \in Nat
        BY <2>1, HeadTailProperties
      <3>2. Len(Tail(r.todo)) # 0
        <4>1. \A m, n : n \in Nat /\ n > 1 /\ m = n - 1 => m # 0
          BY ONLY Z3
        <4> QED BY <1>1, <3>1, <4>1
      <3>3. Len(<<>>) = 0
        OBVIOUS
      <3> QED BY ONLY <3>1, <3>2, <3>3
    <2>3. AfterWrite(r) = [r EXCEPT !.stage = "get", !.todo = Tail(@), !.snap = None]
      BY <1>1 DEF AfterWrite
    <2>4. AfterWrite(r) \in ReportRecords
      BY <2>2, <2>3 DEF ReportRecords, Stages
    <2>5. AfterWrite(r).stage = "get" /\ AfterWrite(r).todo = Tail(r.todo)
      BY <2>3 DEF ReportRecords
    <2> QED BY <2>2, <2>4, <2>5 DEF Staged
  <1>2. CASE ~(Len(r.todo) > 1) /\ r.cost > 0
    <2>1. AfterWrite(r) = [r EXCEPT !.stage = "balance", !.todo = <<>>, !.snap = None]
      BY <1>2 DEF AfterWrite
    <2>2. <<>> \in Seq(Counters)
      OBVIOUS
    <2>3. AfterWrite(r) \in ReportRecords
      BY <2>1, <2>2 DEF ReportRecords, Stages
    <2>4. AfterWrite(r).stage = "balance"
      BY <2>1 DEF ReportRecords
    <2> QED BY <2>3, <2>4 DEF Staged
  <1>3. CASE ~(Len(r.todo) > 1) /\ ~(r.cost > 0)
    BY <1>3, WaitingOK DEF AfterWrite
  <1> QED BY <1>1, <1>2, <1>3

LEMMA FaultCounted ==
    ASSUME TypeOK, NEW kind, Fault(kind)
    PROVE  faults' \in 0..MaxFaults
  BY UsageAssumption DEF TypeOK, Fault

LEMMA OpenTypes ==
    ASSUME BillInv, NEW s \in Sessions, OpenStep(s) \/ Expire(s) \/ Consume(s)
    PROVE  BillInv'
  <1> USE DEF BillInv
  <1>1. \A h \in Reports : Staged(report[h])'
    BY DEF OpenStep, OpenGate, OpenRow, OpenCache, Expire, Consume
  <1>2. Routed \in CacheRecords /\ Fresh \in CacheRecords
    BY UsageAssumption DEF Routed, Fresh, CacheRecords
  <1>3. CASE OpenGate(s)
    <2>1. faults' \in 0..MaxFaults
      BY <1>3, FaultCounted DEF OpenGate, TypeOK
    <2>2. opener' \in [Sessions -> {"new", "row", "cache", "live", "aborted"}]
      BY <1>3 DEF OpenGate, TypeOK
    <2>3. cache' \in [Sessions -> CacheRecords \cup {None}]
      BY <1>2, <1>3 DEF OpenGate, TypeOK
    <2> QED BY <1>1, <1>3, <2>1, <2>2, <2>3 DEF OpenGate, TypeOK
  <1>4. CASE OpenRow(s)
    <2>1. faults' \in 0..MaxFaults
      BY <1>4, FaultCounted DEF OpenRow, TypeOK
    <2> DEFINE Rows == [status : {"ABSENT", "ACTIVE", "CLOSED", "KILLED"},
                        bytes : Nat, cost : Nat]
    <2>2. row' \in [Sessions -> Rows]
      <3>1. row' = [row EXCEPT ![s].status = "ACTIVE"] \/ row' = row
        BY <1>4 DEF OpenRow
      <3>2. row \in [Sessions -> Rows]
        BY DEF TypeOK
      <3> QED BY ONLY <3>1, <3>2, s \in Sessions
    <2>3. opener' \in [Sessions -> {"new", "row", "cache", "live", "aborted"}]
      BY <1>4 DEF OpenRow, TypeOK
    <2> QED BY <1>1, <1>4, <2>1, <2>2, <2>3 DEF OpenRow, TypeOK
  <1>5. CASE OpenCache(s)
    <2>1. faults' \in 0..MaxFaults
      BY <1>5, FaultCounted DEF OpenCache, TypeOK
    <2>2. opener' \in [Sessions -> {"new", "row", "cache", "live", "aborted"}]
      BY <1>5 DEF OpenCache, TypeOK
    <2>3. cache' \in [Sessions -> CacheRecords \cup {None}]
      BY <1>2, <1>5 DEF OpenCache, TypeOK
    <2> QED BY <1>1, <1>5, <2>1, <2>2, <2>3 DEF OpenCache, TypeOK
  <1>6. CASE Expire(s)
    BY <1>1, <1>6 DEF Expire, TypeOK
  <1>7. CASE Consume(s)
    BY <1>1, <1>7, UsageAssumption DEF Consume, TypeOK
  <1> QED BY <1>3, <1>4, <1>5, <1>6, <1>7 DEF OpenStep

LEMMA EndTypes ==
    ASSUME BillInv, NEW s \in Sessions, EndRead(s) \/ EndStep(s)
    PROVE  BillInv'
  <1> USE DEF BillInv
  <1>1. \A h \in Reports : Staged(report[h])'
    BY DEF EndStep, EndRead, EndRemove, EndRow
  <1>2. CASE EndRead(s)
    BY <1>1, <1>2 DEF EndRead, TypeOK
  <1>3. CASE EndRemove(s)
    <2>1. faults' \in 0..MaxFaults
      BY <1>3, FaultCounted DEF EndRemove, TypeOK
    <2> QED BY <1>1, <1>3, <2>1 DEF EndRemove, TypeOK
  <1>4. CASE EndRow(s)
    <2>1. faults' \in 0..MaxFaults
      BY <1>4, FaultCounted DEF EndRow, TypeOK
    <2> DEFINE Rows == [status : {"ABSENT", "ACTIVE", "CLOSED", "KILLED"},
                        bytes : Nat, cost : Nat]
    <2>2. row' \in [Sessions -> Rows]
      <3>1. row' = [row EXCEPT ![s].status = "CLOSED"] \/ row' = row
        BY <1>4 DEF EndRow
      <3>2. row \in [Sessions -> Rows]
        BY DEF TypeOK
      <3> QED BY ONLY <3>1, <3>2, s \in Sessions
    <2>3. ending' \in [Sessions -> {"idle", "remove", "row"}]
      BY <1>4 DEF EndRow, TypeOK
    <2> QED BY <1>1, <1>4, <2>1, <2>2, <2>3 DEF EndRow, TypeOK
  <1> QED BY <1>2, <1>3, <1>4 DEF EndStep

LEMMA ReceiveTypes ==
    ASSUME BillInv, NEW h \in Reports, NEW v \in 1..MaxUsage,
           Receive(h, v) \/ ReceiveUnpriced(h, v)
    PROVE  BillInv'
  <1> DEFINE s == Serves[h]
  <1>1. TypeOK /\ ReportsOK /\ s \in Sessions
    BY UsageAssumption DEF BillInv, TypeOK, ReportsOK
  <1>2. SUFFICES ReportsOK'
    BY <1>1 DEF BillInv, TypeOK, ReportsOK, Receive, ReceiveUnpriced
  <1>3. CASE ReceiveUnpriced(h, v)
    <2>1. report' = [report EXCEPT ![h].stage = "kill"] /\ "kill" \in Stages
      BY <1>3 DEF ReceiveUnpriced, Stages
    <2> QED BY <1>1, <2>1, StageMoves
  <1>4. CASE Receive(h, v)
    <2> DEFINE cost == SettledCost(cache[s], v)
               new == [stage |-> IF cost = 0 THEN "get" ELSE "debit",
                       v |-> v, cost |-> cost, carry |-> CarryOver(cache[s], v),
                       todo |-> IF cost = 0 THEN BelowACent ELSE AfterMoney,
                       snap |-> None]
    <2>1. cache[s] \in CacheRecords /\ v > cache[s].committed
      BY <1>1, <1>4 DEF Receive, Arrives, TypeOK
    <2>2. cost \in Nat /\ CarryOver(cache[s], v) \in 0..(Cent - 1)
      BY <2>1, Settling, UsageAssumption
    <2>3. BelowACent \in Seq(Counters) /\ AfterMoney \in Seq(Counters)
      BY DEF BelowACent, AfterMoney, Counters
    <2>4. report' = [report EXCEPT ![h] = new]
      BY <1>4 DEF Receive
    <2> HIDE DEF cost
    <2>5. v \in 0..MaxUsage
      BY UsageAssumption
    <2>6. new \in ReportRecords
      BY <2>2, <2>3, <2>5 DEF ReportRecords, Stages
    <2>7. BelowACent # <<>>
      BY DEF BelowACent
    <2>8. Staged(new)
      BY <2>7 DEF Staged
    <2> HIDE DEF new
    <2> QED BY <1>1, <2>4, <2>6, <2>8, ReportMoves
  <1> QED BY <1>3, <1>4

\* What Debit makes of the two wallets.
Paid(h) == [wallet EXCEPT ![BuyerOf[Serves[h]]] = @ - report[h].cost]

LEMMA DebitTypes ==
    ASSUME BillInv, NEW h \in Reports, Debit(h)
    PROVE  BillInv' /\ Paid(h) \in [Users -> Nat]
  <1> DEFINE s == Serves[h]
             cost == report[h].cost
             e == EarningsSession(s)
  <1>1. /\ TypeOK /\ ReportsOK /\ s \in Sessions /\ BuyerOf[s] \in Users /\ SellerOf[s] \in Users
        /\ cost \in Nat /\ report[h] \in ReportRecords
    BY UsageAssumption DEF BillInv, TypeOK, ReportsOK, ReportRecords
  <1>2. SellerNet(cost) \in Nat /\ PlatformFee(cost) \in Nat
    BY <1>1, FeeFits
  <1>3. e \in Sessions \cup {Orphan}
    BY <1>1 DEF EarningsSession
  <1>4. wallet[BuyerOf[s]] >= cost
    BY DEF Debit, CanPay
  <1>5. Paid(h) \in [Users -> Nat]
    BY <1>1, <1>4 DEF Paid, TypeOK
  <1>6. wallet' = [Paid(h) EXCEPT ![SellerOf[s]] = @ + SellerNet(cost)]
    BY DEF Debit, Paid
  <1>7. wallet' \in [Users -> Nat]
    BY <1>1, <1>2, <1>5, <1>6
  <1>8. earnings' \in [Sessions \cup {Orphan} -> [net : Nat, fee : Nat]]
    <2>1. earnings' = [earnings EXCEPT ![e].net = @ + SellerNet(cost),
                                       ![e].fee = @ + PlatformFee(cost)]
      BY DEF Debit
    <2> HIDE DEF e
    <2> QED BY <1>1, <1>2, <1>3, <2>1 DEF TypeOK
  <1>9. billed' \in [Sessions -> Nat]
    BY <1>1 DEF Debit, TypeOK
  <1>10. ReportsOK'
    <2>1. report' = [report EXCEPT ![h].stage = "usage"] /\ "usage" \in Stages
      BY DEF Debit, Stages
    <2>2. report[h].todo = AfterMoney
      BY <1>1 DEF Debit, ReportsOK, Staged
    <2> QED BY <1>1, <2>1, <2>2, StageMoves
  <1> QED BY <1>1, <1>5, <1>7, <1>8, <1>9, <1>10 DEF Debit, BillInv, TypeOK, ReportsOK

\* The steps of a report that change nothing but the report.
LEMMA PauseTypes ==
    ASSUME BillInv, NEW h \in Reports,
           DebitAborts(h) \/ DebitRefused(h) \/ CacheGet(h) \/ CheckBalance(h)
           \/ DbError(h) \/ RedisError(h)
    PROVE  BillInv'
  <1>1. /\ TypeOK /\ ReportsOK /\ report[h] \in ReportRecords /\ Staged(report[h])
        /\ Serves[h] \in Sessions
    BY UsageAssumption DEF BillInv, TypeOK, ReportsOK
  <1>2. faults' \in 0..MaxFaults
    BY <1>1, FaultCounted DEF TypeOK, DebitAborts, DebitRefused, CacheGet, CheckBalance,
                              DbError, RedisError
  <1>3. SUFFICES ReportsOK'
    BY <1>1, <1>2 DEF BillInv, TypeOK, ReportsOK, DebitAborts, DebitRefused, CacheGet,
                      CheckBalance, DbError, RedisError
  <1>4. ASSUME report' = [report EXCEPT ![h] = Waiting] PROVE ReportsOK'
    BY <1>1, <1>4, WaitingOK, ReportMoves
  <1>5. ASSUME report' = [report EXCEPT ![h].stage = "kill"] PROVE ReportsOK'
    <2>1. "kill" \in Stages
      BY DEF Stages
    <2> QED BY <1>1, <1>5, <2>1, StageMoves
  <1>6. ASSUME report[h].stage \in {"get", "set"},
               report' = [report EXCEPT ![h] = AfterWrite(report[h])]
        PROVE  ReportsOK'
    <2>1. report[h].todo # <<>>
      BY <1>1, <1>6 DEF Staged
    <2>2. AfterWrite(report[h]) \in ReportRecords /\ Staged(AfterWrite(report[h]))
      BY <1>1, <2>1, AfterWriteOK
    <2> QED BY <1>1, <1>6, <2>2, ReportMoves
  <1>7. CASE DebitAborts(h)
    BY <1>4, <1>7 DEF DebitAborts, Rollback
  <1>8. CASE DebitRefused(h)
    BY <1>5, <1>8 DEF DebitRefused
  <1>9. CASE CacheGet(h)
    <2> DEFINE record == cache[Serves[h]]
               new == [report[h] EXCEPT !.stage = "set", !.snap = record]
    <2>1. CASE record = None
      <3>1. report' = [report EXCEPT ![h] = AfterWrite(report[h])]
        BY <1>1, <1>9, <2>1 DEF CacheGet, ReportsOK
      <3> QED BY <1>6, <1>9, <3>1 DEF CacheGet
    <2>2. CASE record # None
      <3>1. report' = [report EXCEPT ![h] = new]
        BY <1>1, <1>9, <2>2 DEF CacheGet, ReportsOK
      <3>2. record \in CacheRecords
        BY <1>1, <2>2 DEF TypeOK
      <3>3. new \in ReportRecords
        BY <1>1, <3>2 DEF ReportRecords, Stages
      <3>4. new.stage = "set" /\ new.snap = record /\ new.todo = report[h].todo
        BY <1>1 DEF ReportRecords
      <3>5. report[h].stage = "get"
        BY <1>9 DEF CacheGet
      <3> HIDE DEF new
      <3>6. Staged(new)
        BY <1>1, <2>2, <3>4, <3>5 DEF Staged
      <3> QED BY <1>1, <3>1, <3>3, <3>6, ReportMoves
    <2> QED BY <2>1, <2>2
  <1>10. CASE CheckBalance(h)
    <2>1. CASE wallet[BuyerOf[Serves[h]]] = 0
      <3>1. report' = [report EXCEPT ![h].stage = "kill"]
        BY <1>10, <2>1 DEF CheckBalance
      <3> QED BY <1>5, <3>1
    <2>2. CASE wallet[BuyerOf[Serves[h]]] # 0
      <3>1. report' = [report EXCEPT ![h] = Waiting]
        BY <1>10, <2>2 DEF CheckBalance
      <3> QED BY <1>4, <3>1
    <2> QED BY <2>1, <2>2
  <1>11. CASE DbError(h)
    BY <1>4, <1>11 DEF DbError
  <1>12. CASE RedisError(h)
    <2>1. CASE report[h].stage = "remove"
      <3>1. report' = [report EXCEPT ![h] = Waiting]
        BY <1>1, <1>12, <2>1 DEF RedisError, ReportsOK
      <3> QED BY <1>4, <3>1
    <2>2. CASE report[h].stage # "remove"
      <3>1. /\ report[h].stage \in {"get", "set"}
            /\ report' = [report EXCEPT ![h] = AfterWrite(report[h])]
        BY <1>1, <1>12, <2>2 DEF RedisError, ReportsOK
      <3> QED BY <1>6, <3>1
    <2> QED BY <2>1, <2>2
  <1> QED BY <1>7, <1>8, <1>9, <1>10, <1>11, <1>12

\* What CacheSet writes: the record it read, with one counter changed.
Written(h) ==
    [report[h].snap EXCEPT ![Head(report[h].todo)] =
        IF Head(report[h].todo) = "committed" THEN report[h].v ELSE report[h].carry]

LEMMA WrittenIs ==
    ASSUME BillInv, NEW h \in Reports, report[h].stage = "set"
    PROVE  /\ Written(h) \in CacheRecords /\ Head(report[h].todo) \in Counters
           /\ Head(report[h].todo) = "committed" =>
                 Written(h).committed = report[h].v /\ Written(h).pending = report[h].snap.pending
           /\ Head(report[h].todo) = "pending" =>
                 Written(h).pending = report[h].carry
                 /\ Written(h).committed = report[h].snap.committed
  <1>1. report[h] \in ReportRecords /\ Staged(report[h])
    BY DEF BillInv, TypeOK
  <1>2. /\ report[h].snap \in CacheRecords /\ report[h].v \in 0..MaxUsage
        /\ report[h].carry \in 0..(Cent - 1)
        /\ report[h].todo \in Seq(Counters) /\ report[h].todo # <<>>
    BY <1>1 DEF Staged, ReportRecords
  <1>3. Head(report[h].todo) \in Counters
    BY <1>2, HeadTailProperties
  <1>4. CASE Head(report[h].todo) = "committed"
    <2>1. Written(h) = [report[h].snap EXCEPT !.committed = report[h].v]
      BY <1>4 DEF Written
    <2> QED BY <1>2, <1>4, <2>1 DEF CacheRecords, Counters
  <1>5. CASE Head(report[h].todo) = "pending"
    <2>1. Written(h) = [report[h].snap EXCEPT !.pending = report[h].carry]
      BY <1>5 DEF Written
    <2> QED BY <1>2, <1>5, <2>1 DEF CacheRecords, Counters
  <1> QED BY <1>3, <1>4, <1>5 DEF Counters

LEMMA RowTypes ==
    ASSUME BillInv, NEW h \in Reports, RecordUsage(h) \/ KillRow(h)
    PROVE  BillInv'
  <1> DEFINE s == Serves[h]
             Rows == [status : {"ABSENT", "ACTIVE", "CLOSED", "KILLED"},
                      bytes : Nat, cost : Nat]
  <1>1. /\ TypeOK /\ ReportsOK /\ s \in Sessions /\ row \in [Sessions -> Rows]
        /\ report[h] \in ReportRecords /\ Staged(report[h])
    BY UsageAssumption DEF BillInv, TypeOK, ReportsOK
  <1>2. ASSUME row' \in [Sessions -> Rows], ReportsOK' PROVE BillInv'
    BY <1>1, <1>2 DEF BillInv, TypeOK, ReportsOK, RecordUsage, KillRow
  <1>3. CASE RecordUsage(h)
    <2> DEFINE v == report[h].v
               cost == report[h].cost
    <2>1. row' = row \/ row' = [row EXCEPT ![s].bytes = @ + v, ![s].cost = @ + cost]
      BY <1>3 DEF RecordUsage
    <2>2. v \in Nat /\ cost \in Nat
      BY <1>1, UsageAssumption DEF ReportRecords
    <2> HIDE DEF v, cost
    <2>3. row' \in [Sessions -> Rows]
      BY ONLY <1>1, <2>1, <2>2
    <2>4. /\ report' = [report EXCEPT ![h].stage = "get"] /\ "get" \in Stages
          /\ report[h].todo # <<>>
      <3>1. report' = [report EXCEPT ![h].stage = "get"] /\ report[h].stage = "usage"
        BY <1>3 DEF RecordUsage
      <3>2. AfterMoney # <<>>
        BY DEF AfterMoney
      <3> QED BY <1>1, <3>1, <3>2 DEF Stages, Staged
    <2>5. ReportsOK'
      BY <1>1, <2>4, StageMoves
    <2> QED BY <1>2, <2>3, <2>5
  <1>4. CASE KillRow(h)
    <2>1. row' = [row EXCEPT ![s].status = "KILLED"]
      BY <1>4 DEF KillRow
    <2>2. row' \in [Sessions -> Rows]
      BY ONLY <1>1, <2>1
    <2>3. report' = [report EXCEPT ![h].stage = "remove"] /\ "remove" \in Stages
      BY <1>4 DEF KillRow, Stages
    <2>4. ReportsOK'
      BY <1>1, <2>3, StageMoves
    <2> QED BY <1>2, <2>2, <2>4
  <1> QED BY <1>3, <1>4

LEMMA CacheTypes ==
    ASSUME BillInv, NEW h \in Reports, CacheSet(h) \/ KillRemove(h)
    PROVE  BillInv'
  <1>1. /\ TypeOK /\ ReportsOK /\ Serves[h] \in Sessions
        /\ report[h] \in ReportRecords /\ Staged(report[h])
    BY UsageAssumption DEF BillInv, TypeOK, ReportsOK
  <1>2. ASSUME cache' \in [Sessions -> CacheRecords \cup {None}], ReportsOK' PROVE BillInv'
    BY <1>1, <1>2 DEF BillInv, TypeOK, ReportsOK, CacheSet, KillRemove
  <1>3. CASE CacheSet(h)
    <2>1. cache' = [cache EXCEPT ![Serves[h]] = Written(h)]
      BY <1>3 DEF CacheSet, Written
    <2>2. Written(h) \in CacheRecords
      BY <1>3, WrittenIs DEF CacheSet
    <2>3. cache' \in [Sessions -> CacheRecords \cup {None}]
      BY <1>1, <2>1, <2>2 DEF TypeOK
    <2>4. report[h].todo # <<>>
      BY <1>1, <1>3 DEF CacheSet, Staged
    <2>5. AfterWrite(report[h]) \in ReportRecords /\ Staged(AfterWrite(report[h]))
      BY <1>1, <2>4, AfterWriteOK
    <2>6. ReportsOK'
      BY <1>1, <1>3, <2>5, ReportMoves DEF CacheSet
    <2> QED BY <1>2, <2>3, <2>6
  <1>4. CASE KillRemove(h)
    <2>1. cache' \in [Sessions -> CacheRecords \cup {None}]
      BY <1>1, <1>4 DEF KillRemove, TypeOK
    <2>2. ReportsOK'
      BY <1>1, <1>4, WaitingOK, ReportMoves DEF KillRemove
    <2> QED BY <1>2, <2>1, <2>2
  <1> QED BY <1>3, <1>4

LEMMA RestartTypes ==
    ASSUME BillInv, Crash \/ RedisLoss
    PROVE  BillInv'
  <1>1. faults' \in 0..MaxFaults
    BY FaultCounted DEF BillInv, Crash, RedisLoss
  <1>2. CASE Crash
    <2>1. opener' \in [Sessions -> {"new", "row", "cache", "live", "aborted"}]
      BY <1>2 DEF BillInv, TypeOK, Crash
    <2>2. report' \in [Reports -> ReportRecords] /\ \A h \in Reports : Staged(report'[h])
      BY <1>2, WaitingOK DEF Crash
    <2> QED BY <1>1, <1>2, <2>1, <2>2 DEF BillInv, TypeOK, Crash
  <1>3. CASE RedisLoss
    BY <1>1, <1>3 DEF BillInv, TypeOK, RedisLoss
  <1> QED BY <1>2, <1>3

LEMMA BillInit == Init => BillInv
  <1> SUFFICES ASSUME Init PROVE BillInv
    OBVIOUS
  <1>1. report \in [Reports -> ReportRecords] /\ \A h \in Reports : Staged(report[h])
    BY WaitingOK DEF Init
  <1> QED BY <1>1, UsageAssumption DEF Init, BillInv, TypeOK

\* A step, taken apart for the proofs below.
LEMMA Steps ==
    ASSUME Next
    PROVE  \/ \E s \in Sessions : OpenStep(s) \/ Expire(s) \/ Consume(s)
           \/ \E s \in Sessions : EndRead(s) \/ EndStep(s)
           \/ \E h \in Reports, v \in 1..MaxUsage : Receive(h, v) \/ ReceiveUnpriced(h, v)
           \/ \E h \in Reports : Debit(h)
           \/ \E h \in Reports : \/ DebitAborts(h) \/ DebitRefused(h) \/ CacheGet(h)
                                 \/ CheckBalance(h) \/ DbError(h) \/ RedisError(h)
           \/ \E h \in Reports : RecordUsage(h) \/ KillRow(h)
           \/ \E h \in Reports : CacheSet(h) \/ KillRemove(h)
           \/ Crash \/ RedisLoss
  BY DEF Next, ReportStep

LEMMA BillStep == BillInv /\ [Next]_vars => BillInv'
  <1> SUFFICES ASSUME BillInv, [Next]_vars PROVE BillInv'
    OBVIOUS
  <1>1. CASE Next
    BY <1>1, Steps, OpenTypes, EndTypes, ReceiveTypes, DebitTypes, PauseTypes, RowTypes,
       CacheTypes, RestartTypes
  <1>2. CASE UNCHANGED vars
    BY <1>2 DEF BillInv, TypeOK, vars
  <1> QED BY <1>1, <1>2

\* A report that goes to the Redis record has something to write there and has
\* read what it writes back: the writes of ByteTrackerEngine are never at a loss.
THEOREM BillInvariant == Spec => []BillInv
  BY BillInit, BillStep, PTL DEF Spec

\* The types of wallets, earnings, records, rows and reports, for any prices,
\* sessions, reports and faults; in particular no wallet goes below zero.
THEOREM BillingTypes == Spec => []TypeOK
  <1>1. BillInv => TypeOK
    BY DEF BillInv
  <1> QED BY <1>1, BillInvariant, PTL

-----------------------------------------------------------------------------
\* The books. Of all steps only Debit moves money, and it moves what it takes.
LEMMA SumAdds ==
    ASSUME NEW S, IsFiniteSet(S), NEW f \in [S -> Nat], NEW g \in [S -> Nat],
           NEW x \in S, NEW n \in Nat, g[x] = f[x] + n,
           \A y \in S : y # x => g[y] = f[y]
    PROVE  SumFunction(g) = SumFunction(f) + n
  <1>1. \A y \in S : f[y] \in Nat /\ g[y] \in Nat
    OBVIOUS
  <1>2. \A y \in S : y # x => g[y] = f[y]
    OBVIOUS
  <1>3. g[x] = f[x] + n
    OBVIOUS
  <1>4. SumFunctionOnSet(g, S) + f[x] = SumFunctionOnSet(f, S) + g[x]
    BY ONLY <1>1, <1>2, IsFiniteSet(S), x \in S, SumUpdated
  <1>5. SumFunctionOnSet(g, S) \in Nat /\ SumFunctionOnSet(f, S) \in Nat
    BY <1>1, SumIsNat
  <1>6. SumFunction(g) = SumFunctionOnSet(g, S) /\ SumFunction(f) = SumFunctionOnSet(f, S)
    <2>1. DOMAIN f = S /\ DOMAIN g = S
      OBVIOUS
    <2> QED BY <2>1 DEF SumFunction
  <1>7. \A a, b, c, d \in Nat : a + c = b + (c + d) => a = b + d
    OBVIOUS
  <1>8. f[x] \in Nat
    OBVIOUS
  <1> QED BY ONLY <1>3, <1>4, <1>5, <1>6, <1>7, <1>8, n \in Nat

LEMMA SumInNat ==
    ASSUME NEW S, IsFiniteSet(S), NEW f \in [S -> Nat]
    PROVE  SumFunction(f) \in Nat
  <1>1. DOMAIN f = S /\ \A y \in S : f[y] \in Nat
    OBVIOUS
  <1> QED BY <1>1, SumIsNat DEF SumFunction

\* The fees, and what a cost was split into, by the session id they carry.
Fees == [s \in DOMAIN earnings |-> earnings[s].fee]
Taken == [s \in DOMAIN earnings |-> earnings[s].net + earnings[s].fee]

LEMMA DebitEarns ==
    ASSUME BillInv, NEW h \in Reports, Debit(h)
    PROVE  /\ SumFunction(Fees') = SumFunction(Fees) + PlatformFee(report[h].cost)
           /\ SumFunction(Taken') = SumFunction(Taken) + report[h].cost
           /\ SumFunction(Fees) \in Nat /\ SumFunction(Taken) \in Nat
  <1> DEFINE E == Sessions \cup {Orphan}
             e == EarningsSession(Serves[h])
             cost == report[h].cost
             fee == PlatformFee(cost)
             net == SellerNet(cost)
  <1>1. e \in E /\ cost \in Nat
    BY UsageAssumption DEF BillInv, TypeOK, ReportRecords, EarningsSession
  <1>2. fee \in Nat /\ net \in Nat /\ net + fee = cost
    BY <1>1, FeeFits
  <1>3. IsFiniteSet(E)
    BY UsageAssumption, FS_AddElement
  <1>4. /\ earnings \in [E -> [net : Nat, fee : Nat]]
        /\ earnings' \in [E -> [net : Nat, fee : Nat]]
    BY DebitTypes DEF BillInv, TypeOK
  <1>5. earnings' = [earnings EXCEPT ![e].net = @ + net, ![e].fee = @ + fee]
    BY DEF Debit
  <1> HIDE DEF E, e, cost, fee, net
  <1>6. /\ \A x \in E : x # e => earnings'[x] = earnings[x]
        /\ earnings'[e].net = earnings[e].net + net
        /\ earnings'[e].fee = earnings[e].fee + fee
    BY ONLY <1>1, <1>4, <1>5
  <1>7. \A x \in E : earnings[x].net \in Nat /\ earnings[x].fee \in Nat
    BY ONLY <1>4
  <1>8. Fees \in [E -> Nat] /\ Fees' \in [E -> Nat]
    BY <1>4 DEF Fees
  <1>9. Taken \in [E -> Nat] /\ Taken' \in [E -> Nat]
    BY <1>4 DEF Taken
  <1>10. SumFunction(Fees') = SumFunction(Fees) + fee
    <2>1. \A x \in E : Fees'[x] = earnings'[x].fee /\ Fees[x] = earnings[x].fee
      BY <1>4 DEF Fees
    <2>2. Fees'[e] = Fees[e] + fee /\ \A x \in E : x # e => Fees'[x] = Fees[x]
      BY <1>1, <1>6, <2>1
    <2> QED BY ONLY <1>1, <1>2, <1>3, <1>8, <2>2, SumAdds
  <1>11. SumFunction(Taken') = SumFunction(Taken) + cost
    <2>1. \A x \in E : /\ Taken'[x] = earnings'[x].net + earnings'[x].fee
                       /\ Taken[x] = earnings[x].net + earnings[x].fee
      BY <1>4 DEF Taken
    <2>2. \A a, b, c, d \in Nat : (a + c) + (b + d) = (a + b) + (c + d)
      OBVIOUS
    <2>3. Taken'[e] = Taken[e] + cost
      <3>1. Taken'[e] = (earnings[e].net + net) + (earnings[e].fee + fee)
        BY ONLY <1>1, <1>6, <2>1
      <3>2. Taken[e] = earnings[e].net + earnings[e].fee
        BY ONLY <1>1, <2>1
      <3> QED BY ONLY <1>1, <1>2, <1>7, <2>2, <3>1, <3>2
    <2>4. \A x \in E : x # e => Taken'[x] = Taken[x]
      BY ONLY <1>6, <2>1
    <2> QED BY ONLY <1>1, <1>3, <1>9, <2>3, <2>4, SumAdds
  <1>12. SumFunction(Fees) \in Nat /\ SumFunction(Taken) \in Nat
    BY <1>3, <1>8, <1>9, SumInNat
  <1> QED BY <1>10, <1>11, <1>12 DEF fee, cost

LEMMA DebitPays ==
    ASSUME BillInv, NEW h \in Reports, Debit(h)
    PROVE  /\ SumFunction(wallet') + PlatformFee(report[h].cost) = SumFunction(wallet)
           /\ SumFunction(billed') = SumFunction(billed) + report[h].cost
           /\ SumFunction(wallet') \in Nat /\ SumFunction(billed) \in Nat
  <1> DEFINE s == Serves[h]
             cost == report[h].cost
             net == SellerNet(cost)
             fee == PlatformFee(cost)
  <1>1. s \in Sessions /\ cost \in Nat /\ BuyerOf[s] \in Users /\ SellerOf[s] \in Users
    BY UsageAssumption DEF BillInv, TypeOK, ReportRecords
  <1>2. fee \in Nat /\ net \in Nat /\ net + fee = cost
    BY <1>1, FeeFits
  <1>3. IsFiniteSet(Users) /\ IsFiniteSet(Sessions)
    BY UsageAssumption
  <1>4. /\ wallet \in [Users -> Nat] /\ wallet' \in [Users -> Nat] /\ Paid(h) \in [Users -> Nat]
        /\ billed \in [Sessions -> Nat] /\ billed' \in [Sessions -> Nat]
    BY DebitTypes DEF BillInv, TypeOK
  <1>5. /\ wallet[BuyerOf[s]] >= cost
        /\ Paid(h) = [wallet EXCEPT ![BuyerOf[s]] = @ - cost]
        /\ wallet' = [Paid(h) EXCEPT ![SellerOf[s]] = @ + net]
        /\ billed' = [billed EXCEPT ![s] = @ + cost]
    BY DEF Debit, CanPay, Paid
  <1> HIDE DEF s, cost, net, fee
  <1>6. SumFunction(wallet) = SumFunction(Paid(h)) + cost
    <2>1. wallet[BuyerOf[s]] = Paid(h)[BuyerOf[s]] + cost
      BY ONLY <1>1, <1>4, <1>5
    <2>2. \A x \in Users : x # BuyerOf[s] => wallet[x] = Paid(h)[x]
      BY ONLY <1>1, <1>4, <1>5
    <2> QED BY ONLY <1>1, <1>3, <1>4, <2>1, <2>2, SumAdds
  <1>7. SumFunction(wallet') = SumFunction(Paid(h)) + net
    <2>1. /\ wallet'[SellerOf[s]] = Paid(h)[SellerOf[s]] + net
          /\ \A x \in Users : x # SellerOf[s] => wallet'[x] = Paid(h)[x]
      BY ONLY <1>1, <1>4, <1>5
    <2> QED BY ONLY <1>1, <1>2, <1>3, <1>4, <2>1, SumAdds
  <1>8. SumFunction(billed') = SumFunction(billed) + cost
    <2>1. /\ billed'[s] = billed[s] + cost
          /\ \A x \in Sessions : x # s => billed'[x] = billed[x]
      BY ONLY <1>1, <1>4, <1>5
    <2>2. billed \in [Sessions -> Nat] /\ billed' \in [Sessions -> Nat]
      BY ONLY <1>4
    <2>3. s \in Sessions /\ cost \in Nat /\ IsFiniteSet(Sessions)
      BY ONLY <1>1, <1>3
    <2> QED BY ONLY <2>1, <2>2, <2>3, SumAdds
  <1>9. /\ SumFunction(Paid(h)) \in Nat /\ SumFunction(billed) \in Nat
        /\ SumFunction(wallet') \in Nat
    BY <1>3, <1>4, SumInNat
  <1>10. SumFunction(wallet') + fee = SumFunction(wallet)
    BY ONLY <1>2, <1>6, <1>7, <1>9
  <1> QED BY <1>8, <1>9, <1>10 DEF fee, cost

LEMMA BooksInit == Init => BooksBalance
  <1> SUFFICES ASSUME Init PROVE BooksBalance
    OBVIOUS
  <1> DEFINE E == Sessions \cup {Orphan}
  <1>1. IsFiniteSet(E) /\ IsFiniteSet(Sessions) /\ IsFiniteSet(Users)
    BY UsageAssumption, FS_AddElement
  <1>2. /\ DOMAIN Fees = E /\ \A x \in E : Fees[x] = 0
        /\ DOMAIN Taken = E /\ \A x \in E : Taken[x] = 0
        /\ DOMAIN billed = Sessions /\ \A x \in Sessions : billed[x] = 0
    BY DEF Init, Fees, Taken
  <1> HIDE DEF E
  <1>3. SumFunction(Fees) = 0 /\ SumFunction(Taken) = 0 /\ SumFunction(billed) = 0
    BY <1>1, <1>2, SumOfZeros DEF SumFunction
  <1>4. SumFunction(InitBalance) \in Nat
    BY <1>1, UsageAssumption, SumInNat
  <1> QED BY <1>3, <1>4 DEF Init, BooksBalance, Fees, Taken

LEMMA BooksStep == BillInv /\ BooksBalance /\ [Next]_vars => BooksBalance'
  <1> SUFFICES ASSUME BillInv, BooksBalance, [Next]_vars PROVE BooksBalance'
    OBVIOUS
  <1>1. /\ SumFunction(wallet) + SumFunction(Fees) = SumFunction(InitBalance)
        /\ SumFunction(billed) = SumFunction(Taken)
    BY DEF BooksBalance, Fees, Taken
  <1>2. ASSUME NEW h \in Reports, Debit(h) PROVE BooksBalance'
    <2> DEFINE fee == PlatformFee(report[h].cost)
               cost == report[h].cost
    <2>1. fee \in Nat /\ cost \in Nat
      <3>1. cost \in Nat
        BY DEF BillInv, TypeOK, ReportRecords
      <3> QED BY <3>1, FeeFits, Zenon
    <2>2. /\ SumFunction(Fees') = SumFunction(Fees) + fee
          /\ SumFunction(Taken') = SumFunction(Taken) + cost
          /\ SumFunction(Fees) \in Nat /\ SumFunction(Taken) \in Nat
      BY <1>2, DebitEarns
    <2>3. /\ SumFunction(wallet') + fee = SumFunction(wallet)
          /\ SumFunction(billed') = SumFunction(billed) + cost
          /\ SumFunction(wallet') \in Nat /\ SumFunction(billed) \in Nat
      BY <1>2, DebitPays
    <2> HIDE DEF fee, cost
    <2>4. /\ SumFunction(wallet') + SumFunction(Fees') = SumFunction(InitBalance)
          /\ SumFunction(billed') = SumFunction(Taken')
      BY ONLY <1>1, <2>1, <2>2, <2>3
    <2> QED BY <2>4 DEF BooksBalance, Fees, Taken
  <1>3. ASSUME UNCHANGED <<wallet, earnings, billed>> PROVE BooksBalance'
    BY <1>3 DEF BooksBalance
  <1>4. CASE Next
    <2>1. \/ \E h \in Reports : Debit(h)
          \/ UNCHANGED <<wallet, earnings, billed>>
      BY <1>4, Zenon DEF Next, OpenStep, EndStep, ReportStep, OpenGate, OpenRow, OpenCache, Expire,
         Consume, EndRead, EndRemove, EndRow, Receive, ReceiveUnpriced, DebitAborts,
         DebitRefused, RecordUsage, CacheGet, CacheSet, CheckBalance, KillRow, KillRemove,
         DbError, RedisError, Crash, RedisLoss
    <2> QED BY <1>2, <1>3, <2>1
  <1>5. CASE UNCHANGED vars
    BY <1>3, <1>5 DEF vars
  <1> QED BY <1>4, <1>5

\* Money is neither made nor lost: the wallets and the platform's fees add up
\* to what the wallets held at the start, and what buyers were debited for
\* usage is in seller_earnings, whatever races, fails or restarts.
THEOREM MoneyIsKept == Spec => []BooksBalance
  <1>1. Init => BillInv /\ BooksBalance
    BY BillInit, BooksInit
  <1>2. (BillInv /\ BooksBalance) /\ [Next]_vars => (BillInv /\ BooksBalance)'
    BY BillStep, BooksStep
  <1> QED BY <1>1, <1>2, PTL DEF Spec

-----------------------------------------------------------------------------
\* The rows. What a report has taken for s and not yet added to the row.
Held(s) == [h \in Reports |-> Unrecorded(h, s)]

Backed(s) == row[s].cost + SumFunction(Held(s)) <= billed[s]

LEMMA HeldTypes ==
    ASSUME BillInv, NEW s
    PROVE  /\ Held(s) \in [Reports -> Nat] /\ SumFunction(Held(s)) \in Nat
           /\ \A h \in Reports : Held(s)[h] = Unrecorded(h, s) /\ Unrecorded(h, s) \in Nat
  <1>1. \A h \in Reports : Unrecorded(h, s) \in Nat
    BY DEF BillInv, TypeOK, ReportRecords, Unrecorded
  <1>2. Held(s) \in [Reports -> Nat]
    BY <1>1 DEF Held
  <1>3. SumFunction(Held(s)) \in Nat
    BY <1>2, SumInNat, UsageAssumption
  <1> QED BY <1>1, <1>2, <1>3 DEF Held

\* A step of one report keeps a row backed when the row and what the report
\* holds gain no more than is debited.
LEMMA BackedMoves ==
    ASSUME BillInv, BillInv', NEW s \in Sessions, NEW h \in Reports, Backed(s),
           \A g \in Reports : g # h => report'[g] = report[g],
           row'[s].cost + Unrecorded(h, s)' + billed[s]
               <= row[s].cost + Unrecorded(h, s) + billed'[s]
    PROVE  Backed(s)'
  <1> DEFINE f == Held(s)
             g == Held(s)'
  <1>1. /\ f \in [Reports -> Nat] /\ SumFunction(f) \in Nat
        /\ f[h] = Unrecorded(h, s) /\ f[h] \in Nat
    BY HeldTypes
  <1>2. /\ g \in [Reports -> Nat] /\ SumFunction(g) \in Nat
        /\ g[h] = Unrecorded(h, s)' /\ g[h] \in Nat
    <2>1. \A i \in Reports : Unrecorded(i, s)' \in Nat
      BY DEF BillInv, TypeOK, ReportRecords, Unrecorded
    <2>2. g \in [Reports -> Nat] /\ g[h] = Unrecorded(h, s)'
      BY <2>1 DEF Held
    <2>3. SumFunction(g) \in Nat
      BY <2>2, SumInNat, UsageAssumption
    <2> QED BY <2>1, <2>2, <2>3
  <1>3. \A i \in Reports : i # h => g[i] = f[i]
    BY DEF Held, Unrecorded
  <1> HIDE DEF f, g
  <1>4. SumFunction(g) + f[h] = SumFunction(f) + g[h]
    <2>1. SumFunction(g) = SumFunctionOnSet(g, Reports)
      <3>1. DOMAIN g = Reports
        BY <1>2
      <3> QED BY <3>1 DEF SumFunction
    <2>2. SumFunction(f) = SumFunctionOnSet(f, Reports)
      <3>1. DOMAIN f = Reports
        BY <1>1
      <3> QED BY <3>1 DEF SumFunction
    <2>3. \A i \in Reports : f[i] \in Nat /\ g[i] \in Nat
      BY <1>1, <1>2
    <2>4. IsFiniteSet(Reports)
      BY UsageAssumption
    <2>5. SumFunctionOnSet(g, Reports) + f[h] = SumFunctionOnSet(f, Reports) + g[h]
      BY ONLY <1>3, <2>3, <2>4, h \in Reports, SumUpdated
    <2> QED BY ONLY <2>1, <2>2, <2>5
  <1>5. /\ row[s].cost \in Nat /\ row'[s].cost \in Nat
        /\ billed[s] \in Nat /\ billed'[s] \in Nat
    BY DEF BillInv, TypeOK
  <1>6. row[s].cost + SumFunction(f) <= billed[s]
    BY DEF Backed, f
  <1>7. row'[s].cost + g[h] + billed[s] <= row[s].cost + f[h] + billed'[s]
    BY <1>1, <1>2
  <1>8. row'[s].cost + SumFunction(g) <= billed'[s]
    <2> DEFINE a == row[s].cost
               b == row'[s].cost
               c == billed[s]
               d == billed'[s]
               m == SumFunction(f)
               n == SumFunction(g)
               x == f[h]
               y == g[h]
    <2>1. /\ a \in Nat /\ b \in Nat /\ c \in Nat /\ d \in Nat
          /\ m \in Nat /\ n \in Nat /\ x \in Nat /\ y \in Nat
      BY ONLY <1>1, <1>2, <1>5
    <2>2. a + m <= c /\ b + y + c <= a + x + d /\ n + x = m + y
      BY ONLY <1>4, <1>6, <1>7
    <2> HIDE DEF a, b, c, d, m, n, x, y
    <2>3. b + n <= d
      BY ONLY <2>1, <2>2
    <2> QED BY <2>3 DEF b, n, d
  <1> QED BY <1>8 DEF Backed, g

\* The same, when nothing that counts has changed.
LEMMA BackedStays ==
    ASSUME BillInv, BillInv', NEW s \in Sessions, Backed(s), report' = report,
           row'[s].cost = row[s].cost, billed' = billed
    PROVE  Backed(s)'
  <1>1. Held(s)' = Held(s)
    BY DEF Held, Unrecorded
  <1> QED BY <1>1 DEF Backed

\* The same, when a report stops or goes on without having been debited.
LEMMA BackedRests ==
    ASSUME BillInv, BillInv', NEW s \in Sessions, NEW h \in Reports, Backed(s),
           \A g \in Reports : g # h => report'[g] = report[g],
           report'[h].stage # "usage",
           row'[s].cost = row[s].cost, billed' = billed
    PROVE  Backed(s)'
  <1>1. Unrecorded(h, s)' = 0 /\ Unrecorded(h, s) \in Nat
    BY HeldTypes DEF Unrecorded
  <1>2. row[s].cost \in Nat /\ billed[s] \in Nat
    BY DEF BillInv, TypeOK
  <1>3. row'[s].cost + Unrecorded(h, s)' + billed[s]
          <= row[s].cost + Unrecorded(h, s) + billed'[s]
    BY <1>1, <1>2
  <1> QED BY ONLY <1>3, BackedMoves, BillInv, BillInv', Backed(s), s \in Sessions, h \in Reports,
                  \A g \in Reports : g # h => report'[g] = report[g]

LEMMA BackedDebit ==
    ASSUME BillInv, BillInv', NEW s \in Sessions, NEW h \in Reports, Backed(s), Debit(h)
    PROVE  Backed(s)'
  <1> DEFINE cost == report[h].cost
  <1>1. /\ \A g \in Reports : g # h => report'[g] = report[g]
        /\ report[h].stage = "debit" /\ report'[h].stage = "usage" /\ report'[h].cost = cost
        /\ cost \in Nat
    BY DEF Debit, BillInv, TypeOK, ReportRecords
  <1>2. /\ row' = row /\ billed[s] \in Nat /\ row[s].cost \in Nat
        /\ billed'[s] = IF Serves[h] = s THEN billed[s] + cost ELSE billed[s]
    BY DEF Debit, BillInv, TypeOK
  <1>3. Unrecorded(h, s) = 0 /\ Unrecorded(h, s)' = IF Serves[h] = s THEN cost ELSE 0
    BY <1>1 DEF Unrecorded
  <1>4. row'[s].cost + Unrecorded(h, s)' + billed[s]
          <= row[s].cost + Unrecorded(h, s) + billed'[s]
    BY <1>1, <1>2, <1>3
  <1> QED BY <1>1, <1>4, BackedMoves

LEMMA BackedRecord ==
    ASSUME BillInv, BillInv', NEW s \in Sessions, NEW h \in Reports, Backed(s), RecordUsage(h)
    PROVE  Backed(s)'
  <1> DEFINE cost == report[h].cost
             r == Serves[h]
  <1>1. /\ \A g \in Reports : g # h => report'[g] = report[g]
        /\ report[h].stage = "usage" /\ report'[h].stage = "get"
        /\ cost \in Nat
    BY DEF RecordUsage, BillInv, TypeOK, ReportRecords
  <1>2. billed' = billed /\ billed[s] \in Nat /\ row[s].cost \in Nat /\ r \in Sessions
    BY UsageAssumption DEF RecordUsage, BillInv, TypeOK
  <1>3. row'[s].cost = row[s].cost \/ (r = s /\ row'[s].cost = row[s].cost + cost)
    <2> DEFINE Rows == [status : {"ABSENT", "ACTIVE", "CLOSED", "KILLED"},
                        bytes : Nat, cost : Nat]
               v == report[h].v
    <2>1. row \in [Sessions -> Rows]
      BY DEF BillInv, TypeOK
    <2>2. row' = row \/ row' = [row EXCEPT ![r].bytes = @ + v, ![r].cost = @ + cost]
      BY DEF RecordUsage
    <2>3. v \in Nat /\ cost \in Nat
      <3>1. report[h] \in ReportRecords
        BY DEF BillInv, TypeOK
      <3> QED BY <3>1, UsageAssumption DEF ReportRecords
    <2> HIDE DEF v, cost, r
    <2>4. CASE row' = row
      BY ONLY <2>4
    <2>5. CASE row' = [row EXCEPT ![r].bytes = @ + v, ![r].cost = @ + cost]
      <3>1. CASE r = s
        <4>1. row'[s] = [row[s] EXCEPT !.bytes = @ + v, !.cost = @ + cost]
          BY ONLY <2>1, <2>5, <3>1, s \in Sessions
        <4>2. row[s] \in Rows
          BY <2>1
        <4> QED BY ONLY <2>3, <3>1, <4>1, <4>2
      <3>2. CASE r # s
        BY ONLY <1>2, <2>1, <2>5, <3>2, s \in Sessions
      <3> QED BY <3>1, <3>2
    <2> QED BY <2>2, <2>4, <2>5
  <1>4. Unrecorded(h, s)' = 0 /\ Unrecorded(h, s) = IF r = s THEN cost ELSE 0
    BY <1>1 DEF Unrecorded
  <1>5. row'[s].cost + Unrecorded(h, s)' + billed[s]
          <= row[s].cost + Unrecorded(h, s) + billed'[s]
    BY <1>1, <1>2, <1>3, <1>4
  <1> QED BY <1>1, <1>5, BackedMoves

\* A step of a report that moves no money and adds nothing to a row.
LEMMA BackedPause ==
    ASSUME BillInv, BillInv', NEW s \in Sessions, NEW h \in Reports, Backed(s),
           \/ \E v \in 1..MaxUsage : Receive(h, v) \/ ReceiveUnpriced(h, v)
           \/ DebitAborts(h) \/ DebitRefused(h) \/ CacheGet(h) \/ CheckBalance(h)
           \/ DbError(h) \/ RedisError(h) \/ CacheSet(h) \/ KillRemove(h) \/ KillRow(h)
    PROVE  Backed(s)'
  <1>1. report[h] \in ReportRecords /\ report \in [Reports -> ReportRecords]
    BY DEF BillInv, TypeOK
  <1>2. AfterWrite(report[h]).stage # "usage" /\ Waiting.stage # "usage"
    <2>1. CASE Len(report[h].todo) > 1
      BY <1>1, <2>1 DEF AfterWrite, Waiting, ReportRecords
    <2>2. CASE ~(Len(report[h].todo) > 1)
      BY <1>1, <2>2 DEF AfterWrite, Waiting, ReportRecords
    <2> QED BY <2>1, <2>2
  <1>3. report'[h].stage # "usage" /\ \A g \in Reports : g # h => report'[g] = report[g]
    <2> USE <1>1
    <2>1. CASE \E v \in 1..MaxUsage : Receive(h, v)
      BY <2>1 DEF Receive
    <2>2. CASE (\E v \in 1..MaxUsage : ReceiveUnpriced(h, v)) \/ DebitRefused(h) \/ KillRow(h)
      <3>1. \E stage \in {"kill", "remove"} : report' = [report EXCEPT ![h].stage = stage]
        BY <2>2 DEF ReceiveUnpriced, DebitRefused, KillRow
      <3> QED BY ONLY <1>1, <3>1, h \in Reports DEF ReportRecords
    <2>3. CASE DebitAborts(h) \/ DbError(h) \/ KillRemove(h)
      BY <1>2, <2>3 DEF DebitAborts, DbError, KillRemove, Rollback
    <2>4. CASE CacheGet(h)
      BY <1>2, <2>4 DEF CacheGet
    <2>5. CASE CheckBalance(h)
      BY <1>2, <2>5 DEF CheckBalance
    <2>6. CASE RedisError(h) \/ CacheSet(h)
      BY <1>2, <2>6 DEF RedisError, CacheSet
    <2> QED BY <2>1, <2>2, <2>3, <2>4, <2>5, <2>6
  <1>4. billed' = billed
    BY DEF Receive, ReceiveUnpriced, DebitAborts, DebitRefused, CacheGet, CheckBalance,
           DbError, RedisError, CacheSet, KillRemove, KillRow
  <1>5. row'[s].cost = row[s].cost
    <2>1. row' = row \/ row' = [row EXCEPT ![Serves[h]].status = "KILLED"]
      BY DEF Receive, ReceiveUnpriced, DebitAborts, DebitRefused, CacheGet, CheckBalance,
             DbError, RedisError, CacheSet, KillRemove, KillRow
    <2>2. row \in [Sessions -> [status : {"ABSENT", "ACTIVE", "CLOSED", "KILLED"},
                                bytes : Nat, cost : Nat]]
      BY DEF BillInv, TypeOK
    <2> QED BY ONLY <2>1, <2>2, s \in Sessions
  <1> QED BY ONLY <1>3, <1>4, <1>5, BackedRests, BillInv, BillInv', Backed(s),
                  s \in Sessions, h \in Reports

LEMMA BackedElsewhere ==
    ASSUME BillInv, BillInv', NEW s \in Sessions, Backed(s),
           \/ \E r \in Sessions : \/ OpenStep(r) \/ Expire(r) \/ Consume(r)
                                  \/ EndRead(r) \/ EndStep(r)
           \/ RedisLoss
           \/ UNCHANGED vars
    PROVE  Backed(s)'
  <1>1. report' = report /\ billed' = billed
    BY DEF OpenStep, EndStep, OpenGate, OpenRow, OpenCache, Expire, Consume, EndRead,
           EndRemove, EndRow, RedisLoss, vars
  <1>2. row'[s].cost = row[s].cost
    <2>1. row' = row \/ \E r \in Sessions, status \in {"ACTIVE", "CLOSED"} :
                           row' = [row EXCEPT ![r].status = status]
      BY DEF OpenStep, EndStep, OpenGate, OpenRow, OpenCache, Expire, Consume, EndRead,
             EndRemove, EndRow, RedisLoss, vars
    <2>2. row \in [Sessions -> [status : {"ABSENT", "ACTIVE", "CLOSED", "KILLED"},
                                bytes : Nat, cost : Nat]]
      BY DEF BillInv, TypeOK
    <2> QED BY ONLY <2>1, <2>2, s \in Sessions
  <1> QED BY <1>1, <1>2, BackedStays

\* A restart forgets what reports held; the rows keep what they had.
LEMMA NothingHeld ==
    ASSUME NEW s \in Sessions, \A h \in Reports : report[h].stage # "usage"
    PROVE  SumFunction(Held(s)) = 0
  <1>1. DOMAIN Held(s) = Reports /\ \A h \in Reports : Held(s)[h] = 0
    BY DEF Held, Unrecorded
  <1> QED BY <1>1, SumOfZeros, UsageAssumption DEF SumFunction

LEMMA BackedCrash ==
    ASSUME BillInv, BillInv', NEW s \in Sessions, Backed(s), Crash
    PROVE  Backed(s)'
  <1>1. row' = row /\ billed' = billed /\ \A h \in Reports : report'[h].stage # "usage"
    BY DEF Crash, Waiting
  <1>2. SumFunction(Held(s)') = 0
    <2>1. DOMAIN Held(s)' = Reports /\ \A h \in Reports : Held(s)'[h] = 0
      BY <1>1 DEF Held, Unrecorded
    <2> QED BY <2>1, SumOfZeros, UsageAssumption DEF SumFunction
  <1>3. SumFunction(Held(s)) \in Nat
    BY HeldTypes
  <1>4. row[s].cost \in Nat /\ billed[s] \in Nat
    BY DEF BillInv, TypeOK
  <1> QED BY <1>1, <1>2, <1>3, <1>4 DEF Backed

LEMMA RowCostInit == Init => RowCostIsBacked
  <1> SUFFICES ASSUME Init, NEW s \in Sessions PROVE Backed(s)
    BY DEF RowCostIsBacked, Backed, Held
  <1>1. SumFunction(Held(s)) = 0
    BY NothingHeld DEF Init, Waiting
  <1> QED BY <1>1 DEF Init, Backed

LEMMA RowCostStep == BillInv /\ RowCostIsBacked /\ [Next]_vars => RowCostIsBacked'
  <1> SUFFICES ASSUME BillInv, RowCostIsBacked, [Next]_vars, NEW s \in Sessions
               PROVE  Backed(s)'
    BY DEF RowCostIsBacked, Backed, Held
  <1>1. Backed(s)
    BY DEF RowCostIsBacked, Backed, Held
  <1>2. BillInv'
    BY BillStep
  <1> QED BY <1>1, <1>2, Steps, BackedDebit, BackedRecord, BackedPause, BackedElsewhere,
             BackedCrash

\* A row never claims more than was debited for its session, whichever reports
\* race and wherever the backend stops between the money and the row.
THEOREM RowsAreBacked == Spec => []RowCostIsBacked
  <1>1. Init => BillInv /\ RowCostIsBacked
    BY BillInit, RowCostInit
  <1>2. (BillInv /\ RowCostIsBacked) /\ [Next]_vars => (BillInv /\ RowCostIsBacked)'
    BY BillStep, RowCostStep
  <1> QED BY <1>1, <1>2, PTL DEF Spec

-----------------------------------------------------------------------------
\* One report at a time for each session, no restart of the backend and no
\* failed call in between; Redis may still lose its records.
Calm == Serial /\ FaultKinds \subseteq {"loss"} /\ Price >= Cent

\* What SerialInv says of one session.
Exact(s) ==
    /\ Unstarted(s)
    /\ Quiet(s) => Settled(s)
    /\ billed[s] * Cent <= used[s] * Price
    /\ \A h \in Reports : Serves[h] = s => Accounted(h)

LEMMA ExactEach == SerialInv <=> BillInv /\ \A s \in Sessions : Exact(s)
  BY UsageAssumption DEF SerialInv, Exact

\* A session is none the wiser for a step of another.
LEMMA ExactStays ==
    ASSUME NEW s \in Sessions, Exact(s),
           cache'[s] = cache[s], billed'[s] = billed[s], used'[s] = used[s],
           opener'[s] = opener[s],
           \A h \in Reports : Serves[h] = s => report'[h] = report[h]
    PROVE  Exact(s)'
  <1>1. Unstarted(s)' /\ (billed[s] * Cent <= used[s] * Price)'
    BY DEF Exact, Unstarted
  <1>2. Settled(s) => Settled(s)'
    BY DEF Settled
  <1>3. Quiet(s)' => Settled(s)'
    BY <1>2 DEF Exact, Quiet
  <1>4. ASSUME NEW h \in Reports, Serves[h] = s PROVE Accounted(h)'
    <2>1. Accounted(h)
      BY <1>4 DEF Exact
    <2>2. (Charged(h) => Charged(h)')
      BY <1>4 DEF Charged
    <2>3. report'[h] = report[h] /\ cache'[s] = cache[s] /\ Serves[h] = s
      BY <1>4
    <2>4. /\ CommittedIs(cache[s], h) => CommittedIs(cache[s], h)'
          /\ PendingIs(cache[s], h) => PendingIs(cache[s], h)'
          /\ CommittedIs(report[h].snap, h) => CommittedIs(report[h].snap, h)'
          /\ PendingIs(report[h].snap, h) => PendingIs(report[h].snap, h)'
      BY <2>3 DEF CommittedIs, PendingIs
    <2> QED BY <1>2, <2>1, <2>2, <2>3, <2>4 DEF Accounted
  <1> QED BY <1>1, <1>3, <1>4 DEF Exact

\* A step of the one report of a live session.
LEMMA ExactMoves ==
    ASSUME Serial, NEW h \in Reports, opener'[Serves[h]] = "live",
           (billed[Serves[h]] * Cent <= used[Serves[h]] * Price)', Accounted(h)'
    PROVE  Exact(Serves[h])'
  <1> DEFINE s == Serves[h]
  <1>1. Unstarted(s)'
    BY DEF Unstarted
  <1>2. \A g \in Reports : Serves[g] = s => g = h
    BY DEF Serial
  <1>3. Quiet(s)' => Settled(s)'
    BY DEF Quiet, Accounted
  <1> QED BY <1>1, <1>2, <1>3 DEF Exact

\* No step of a session, or of one of its reports, touches another session.
LEMMA Elsewhere ==
    ASSUME BillInv, NEW s \in Sessions, NEW r \in Sessions, r # s, Exact(r),
           \/ OpenStep(s) \/ Expire(s) \/ Consume(s) \/ EndRead(s) \/ EndStep(s)
           \/ \E h \in Reports : /\ Serves[h] = s
                                 /\ \/ \E v \in 1..MaxUsage : Receive(h, v) \/ ReceiveUnpriced(h, v)
                                    \/ ReportStep(h)
    PROVE  Exact(r)'
  <1>1. /\ cache \in [Sessions -> CacheRecords \cup {None}]
        /\ opener \in [Sessions -> {"new", "row", "cache", "live", "aborted"}]
        /\ report \in [Reports -> ReportRecords]
        /\ used \in [Sessions -> 0..MaxUsage] /\ billed \in [Sessions -> Nat]
    BY DEF BillInv, TypeOK
  <1>2. CASE OpenStep(s) \/ Expire(s) \/ Consume(s) \/ EndRead(s) \/ EndStep(s)
    <2>1. cache'[r] = cache[r] /\ opener'[r] = opener[r] /\ used'[r] = used[r]
      BY <1>1, <1>2 DEF OpenStep, OpenGate, OpenRow, OpenCache, Expire, Consume, EndRead,
                        EndStep, EndRemove, EndRow
    <2>2. billed' = billed /\ report' = report
      BY <1>2 DEF OpenStep, OpenGate, OpenRow, OpenCache, Expire, Consume, EndRead,
                  EndStep, EndRemove, EndRow
    <2> QED BY <2>1, <2>2, ExactStays
  <1>3. ASSUME NEW h \in Reports, Serves[h] = s,
               (\E v \in 1..MaxUsage : Receive(h, v) \/ ReceiveUnpriced(h, v)) \/ ReportStep(h)
        PROVE  Exact(r)'
    <2>1. opener' = opener /\ used' = used
      BY <1>3, Zenon DEF Receive, ReceiveUnpriced, ReportStep, Debit, DebitAborts, DebitRefused,
                  RecordUsage, CacheGet, CacheSet, CheckBalance, KillRow, KillRemove
    <2>2. cache'[r] = cache[r] /\ billed'[r] = billed[r]
      <3>1. \/ cache' = cache
            \/ \E new : cache' = [cache EXCEPT ![s] = new]
        BY <1>3, Zenon DEF Receive, ReceiveUnpriced, ReportStep, Debit, DebitAborts, DebitRefused,
                    RecordUsage, CacheGet, CacheSet, CheckBalance, KillRow, KillRemove
      <3>2. \/ billed' = billed
            \/ \E new : billed' = [billed EXCEPT ![s] = new]
        BY <1>3, Zenon DEF Receive, ReceiveUnpriced, ReportStep, Debit, DebitAborts, DebitRefused,
                    RecordUsage, CacheGet, CacheSet, CheckBalance, KillRow, KillRemove
      <3> QED BY <1>1, <3>1, <3>2
    <2>3. \A g \in Reports : Serves[g] = r => report'[g] = report[g]
      <3>1. \E new : report' = [report EXCEPT ![h] = new]
        <4>1. \/ \E new : report' = [report EXCEPT ![h] = new]
              \/ \E stage : report' = [report EXCEPT ![h].stage = stage]
          BY <1>3, Zenon DEF Receive, ReceiveUnpriced, ReportStep, Debit, DebitAborts, DebitRefused,
                      RecordUsage, CacheGet, CacheSet, CheckBalance, KillRow, KillRemove
        <4> QED BY <1>1, <4>1
      <3> QED BY <1>1, <1>3, <3>1
    <2> QED BY <2>1, <2>2, <2>3, ExactStays
  <1> QED BY <1>2, <1>3

\* Under Calm the only fault is that Redis loses its records.
LEMMA NoFault ==
    ASSUME Calm, NEW kind, kind \in {"db", "redis", "crash"}
    PROVE  ~ Fault(kind)
  BY DEF Calm, Fault

LEMMA SessionExact ==
    ASSUME BillInv, Calm, NEW s \in Sessions, Exact(s),
           OpenStep(s) \/ Expire(s) \/ Consume(s) \/ EndRead(s) \/ EndStep(s)
    PROVE  Exact(s)'
  <1>1. /\ cache \in [Sessions -> CacheRecords \cup {None}]
        /\ opener \in [Sessions -> {"new", "row", "cache", "live", "aborted"}]
        /\ used \in [Sessions -> 0..MaxUsage] /\ billed \in [Sessions -> Nat]
        /\ Cent \in Nat /\ Price \in Nat /\ MaxUsage \in Nat
    BY UsageAssumption DEF BillInv, TypeOK
  <1>2. ~ Fault("db") /\ ~ Fault("redis")
    BY NoFault
  <1>3. CASE opener[s] # "live" /\ (OpenGate(s) \/ OpenCache(s))
    <2>1. /\ used[s] = 0 /\ billed[s] = 0
          /\ \A h \in Reports : Serves[h] = s => report[h].stage = "idle"
      BY <1>3 DEF Exact, Unstarted
    <2>2. /\ used' = used /\ billed' = billed /\ report' = report
          /\ opener'[s] # "new" /\ (cache'[s] = Routed \/ cache'[s] = Fresh)
      BY <1>1, <1>2, <1>3 DEF OpenGate, OpenCache
    <2>3. Settled(s)'
      BY <1>1, <2>1, <2>2 DEF Settled, Routed, Fresh
    <2>4. Unstarted(s)' /\ (billed[s] * Cent <= used[s] * Price)'
      BY <1>1, <2>1, <2>2 DEF Unstarted
    <2>5. \A h \in Reports : Serves[h] = s => Accounted(h)'
      BY <2>1, <2>2, <2>3 DEF Accounted
    <2> QED BY <2>3, <2>4, <2>5 DEF Exact
  <1>4. CASE OpenRow(s)
    <2>1. /\ used' = used /\ billed' = billed /\ report' = report /\ cache' = cache
          /\ opener[s] = "row" /\ opener'[s] = "cache"
      BY <1>1, <1>2, <1>4 DEF OpenRow
    <2>2. Settled(s)
      BY <2>1 DEF Exact, Unstarted, Quiet
    <2>3. Settled(s)' /\ Unstarted(s)'
      BY <2>1, <2>2 DEF Exact, Unstarted, Settled
    <2>4. \A h \in Reports : Serves[h] = s => Accounted(h)'
      BY <2>1, <2>3 DEF Exact, Unstarted, Accounted
    <2> QED BY <2>1, <2>3, <2>4 DEF Exact
  <1>5. CASE Expire(s) \/ EndRead(s) \/ EndRemove(s) \/ EndRow(s)
    <2>1. /\ used' = used /\ billed' = billed /\ report' = report /\ opener' = opener
          /\ cache'[s] = None \/ cache' = cache
      BY <1>1, <1>2, <1>5 DEF Expire, EndRead, EndRemove, EndRow
    <2>2. CASE cache' = cache
      BY <2>1, <2>2, ExactStays
    <2>3. CASE cache'[s] = None
      <3>1. Settled(s)' /\ Unstarted(s)' /\ (billed[s] * Cent <= used[s] * Price)'
        BY <2>1, <2>3 DEF Exact, Unstarted, Settled
      <3>2. ASSUME NEW h \in Reports, Serves[h] = s PROVE Accounted(h)'
        <4>1. Accounted(h)
          BY <3>2 DEF Exact
        <4>2. Charged(h) => Charged(h)'
          BY <2>1 DEF Charged
        <4>3. CommittedIs(cache[Serves[h]], h)' /\ PendingIs(cache[Serves[h]], h)'
          BY <2>3, <3>2 DEF CommittedIs, PendingIs
        <4>4. /\ CommittedIs(report[h].snap, h) => CommittedIs(report[h].snap, h)'
              /\ PendingIs(report[h].snap, h) => PendingIs(report[h].snap, h)'
          BY <2>1 DEF CommittedIs, PendingIs
        <4> QED BY <2>1, <3>1, <3>2, <4>1, <4>2, <4>3, <4>4 DEF Accounted
      <3> QED BY <3>1, <3>2 DEF Exact
    <2> QED BY <2>1, <2>2, <2>3
  <1>6. CASE Consume(s)
    <2>1. /\ billed' = billed /\ report' = report /\ opener' = opener /\ cache' = cache
          /\ used'[s] = used[s] + 1 /\ opener[s] = "live"
      BY <1>1, <1>6 DEF Consume
    <2>2. (billed[s] * Cent <= used[s] * Price)'
      <3>1. used[s] * Price <= used'[s] * Price
        BY <1>1, <2>1
      <3>2. billed[s] * Cent <= used[s] * Price
        BY DEF Exact
      <3>3. billed[s] * Cent \in Nat /\ used[s] * Price \in Nat /\ used'[s] * Price \in Nat
        BY <1>1, <2>1
      <3> QED BY ONLY <2>1, <3>1, <3>2, <3>3
    <2>3. Unstarted(s)'
      BY <2>1 DEF Unstarted
    <2>4. (Settled(s) => Settled(s)') /\ (Quiet(s)' => Quiet(s))
      BY <2>1 DEF Settled, Quiet
    <2>5. ASSUME NEW h \in Reports, Serves[h] = s PROVE Accounted(h)'
      <3>1. Accounted(h)
        BY <2>5 DEF Exact
      <3>2. Charged(h) => Charged(h)'
        BY <2>1 DEF Charged
      <3>3. report[h].stage = "debit" => report[h].v <= used'[s]
        <4>1. report[h].v \in 0..MaxUsage
          BY DEF BillInv, TypeOK, ReportRecords
        <4> QED BY <1>1, <2>1, <2>5, <3>1, <4>1 DEF Accounted
      <3>4. /\ CommittedIs(cache[s], h) => CommittedIs(cache[s], h)'
            /\ PendingIs(cache[s], h) => PendingIs(cache[s], h)'
            /\ CommittedIs(report[h].snap, h) => CommittedIs(report[h].snap, h)'
            /\ PendingIs(report[h].snap, h) => PendingIs(report[h].snap, h)'
        BY <2>1 DEF CommittedIs, PendingIs
      <3> QED BY <2>1, <2>4, <2>5, <3>1, <3>2, <3>3, <3>4 DEF Accounted
    <2> QED BY <2>2, <2>3, <2>4, <2>5 DEF Exact
  <1> QED BY <1>3, <1>4, <1>5, <1>6 DEF OpenStep, EndStep, OpenGate, OpenCache

\* What the steps of a report start from.
LEMMA ReportStarts ==
    ASSUME BillInv, NEW h \in Reports, Exact(Serves[h])
    PROVE  /\ Serves[h] \in Sessions /\ Accounted(h) /\ report[h] \in ReportRecords
           /\ Staged(report[h]) /\ report \in [Reports -> ReportRecords]
           /\ Cent \in Nat \ {0} /\ Price \in Nat \ {0}
           /\ billed[Serves[h]] \in Nat /\ used[Serves[h]] \in 0..MaxUsage
           /\ MaxUsage \in Nat
           /\ billed[Serves[h]] * Cent <= used[Serves[h]] * Price
           /\ report[h].stage # "idle" => opener[Serves[h]] = "live"
  <1>1. Serves[h] \in Sessions
    BY UsageAssumption
  <1> QED BY <1>1, UsageAssumption DEF BillInv, TypeOK, Exact, Unstarted

LEMMA ReceiveExact ==
    ASSUME BillInv, Calm, NEW h \in Reports, NEW v \in 1..MaxUsage, Exact(Serves[h]),
           Receive(h, v) \/ ReceiveUnpriced(h, v)
    PROVE  Exact(Serves[h])'
  <1> DEFINE s == Serves[h]
             cost == SettledCost(cache[s], v)
             carry == CarryOver(cache[s], v)
             pending == cache[s].pending
             committed == cache[s].committed
  <1>1. /\ s \in Sessions /\ report \in [Reports -> ReportRecords] /\ report[h] \in ReportRecords
        /\ Cent \in Nat \ {0} /\ Price \in Nat \ {0} /\ billed[s] \in Nat /\ Accounted(h)
        /\ used[s] \in 0..MaxUsage /\ MaxUsage \in Nat /\ billed[s] * Cent <= used[s] * Price
    BY ReportStarts
  <1>2. /\ report[h].stage = "idle" /\ v <= used[s] /\ v > committed
        /\ cache[s] \in CacheRecords /\ v \in 0..MaxUsage /\ cache[s] # None
    BY <1>1 DEF Receive, ReceiveUnpriced, Arrives, BillInv, TypeOK
  <1>3. UNCHANGED <<cache, opener, used, billed>>
    BY DEF Receive, ReceiveUnpriced
  <1>4. opener'[s] = "live"
    <2>1. used[s] # 0
      BY <1>1, <1>2
    <2> QED BY <1>3, <2>1 DEF Exact, Unstarted
  <1>5. Settled(s) /\ Settled(s)'
    <2>1. Settled(s)
      BY <1>1, <1>2 DEF Accounted
    <2> QED BY <1>3, <2>1 DEF Settled
  <1>6. ASSUME Accounted(h)' PROVE Exact(s)'
    BY <1>1, <1>3, <1>4, <1>6, ExactMoves DEF Calm
  <1>7. CASE ReceiveUnpriced(h, v)
    <2>1. report'[h].stage = "kill"
      BY <1>1, <1>7 DEF ReceiveUnpriced, ReportRecords
    <2> QED BY <1>5, <1>6, <2>1 DEF Accounted
  <1>8. CASE Receive(h, v)
    <2>1. /\ cost \in Nat /\ carry \in 0..(Cent - 1) /\ cost > 0
          /\ Cent * cost + carry = pending + (v - committed) * Price
      BY <1>2, Settling DEF Calm
    <2>2. /\ report'[h].stage = "debit" /\ report'[h].v = v
          /\ report'[h].cost = cost /\ report'[h].carry = carry
      BY <1>1, <1>8, <2>1 DEF Receive
    <2>3. billed[s] * Cent + pending = committed * Price
      BY <1>2, <1>5 DEF Settled
    <2>4. pending \in Nat /\ committed \in Nat /\ carry \in Nat
      BY <1>1, <1>2, <2>1 DEF CacheRecords
    <2>5. (v - committed) * Price = v * Price - committed * Price
      BY <1>1, <1>2, <2>4
    <2>6. billed[s] * Cent + cost * Cent + carry = v * Price
      <3> DEFINE a == billed[s] * Cent
                 b == cost * Cent
                 c == v * Price
                 d == committed * Price
      <3>1. a \in Nat /\ b \in Nat /\ c \in Nat /\ d \in Nat
        BY <1>1, <1>2, <2>1, <2>4
      <3>2. b + carry = pending + (c - d)
        <4>1. Cent * cost = cost * Cent
          BY <1>1, <2>1
        <4> QED BY <2>1, <2>5, <4>1
      <3>3. a + pending = d
        BY <2>3
      <3> HIDE DEF a, b, c, d, carry, pending
      <3>4. a + b + carry = c
        BY ONLY <2>4, <3>1, <3>2, <3>3
      <3> QED BY <3>4 DEF a, b, c
    <2> HIDE DEF cost, carry, pending, committed
    <2>7. Accounted(h)'
      BY <1>2, <1>3, <1>5, <2>2, <2>6 DEF Accounted
    <2> QED BY <1>6, <2>7
  <1> QED BY <1>7, <1>8

LEMMA DebitExact ==
    ASSUME BillInv, Calm, NEW h \in Reports, Exact(Serves[h]), Debit(h)
    PROVE  Exact(Serves[h])'
  <1> DEFINE s == Serves[h]
             r == report[h]
  <1>1. /\ s \in Sessions /\ report \in [Reports -> ReportRecords] /\ r \in ReportRecords
        /\ Cent \in Nat /\ Price \in Nat /\ billed[s] \in Nat /\ Accounted(h) /\ Staged(r)
        /\ used[s] \in 0..MaxUsage /\ MaxUsage \in Nat /\ opener[s] = "live"
    BY ReportStarts DEF Debit
  <1>2. /\ r.stage = "debit" /\ report'[h] = [r EXCEPT !.stage = "usage"]
        /\ billed'[s] = billed[s] + r.cost /\ SellerNet(r.cost) > 0
        /\ UNCHANGED <<cache, opener, used>>
    BY <1>1 DEF Debit, BillInv, TypeOK
  <1>3. r.cost \in Nat /\ r.carry \in Nat /\ r.v \in Nat
    BY <1>1, UsageAssumption DEF ReportRecords
  <1>4. /\ report'[h].stage = "usage" /\ report'[h].v = r.v /\ report'[h].cost = r.cost
        /\ report'[h].carry = r.carry
    BY <1>1, <1>2 DEF ReportRecords
  <1>5. r.cost > 0
    BY <1>2, <1>3, FeeFits
  <1>6. r.v <= used[s] /\ billed[s] * Cent + r.cost * Cent + r.carry = r.v * Price
    BY <1>1, <1>2 DEF Accounted
  <1> DEFINE a == billed'[s] * Cent
             b == r.v * Price
             c == used[s] * Price
             carry == r.carry
  <1>7. a + carry = b /\ a \in Nat /\ b \in Nat /\ c \in Nat /\ carry \in Nat
    <2>1. a = billed[s] * Cent + r.cost * Cent
      BY <1>1, <1>2, <1>3
    <2> QED BY <1>1, <1>2, <1>3, <1>6, <2>1
  <1>8. b <= c
    BY <1>1, <1>3, <1>6
  <1>9. a <= c
    <2> HIDE DEF a, b, c, carry
    <2> QED BY ONLY <1>7, <1>8
  <1>10. Charged(h)'
    BY <1>4, <1>7 DEF Charged
  <1>11. Accounted(h)'
    BY <1>4, <1>5, <1>10 DEF Accounted
  <1> QED BY <1>1, <1>2, <1>9, <1>11, ExactMoves DEF Calm

\* The steps of a report that leave the record and the money alone.
LEMMA PauseExact ==
    ASSUME BillInv, Calm, NEW h \in Reports, Exact(Serves[h]),
           \/ DebitAborts(h) \/ DebitRefused(h) \/ RecordUsage(h)
           \/ CheckBalance(h) \/ KillRow(h)
    PROVE  Exact(Serves[h])'
  <1> DEFINE s == Serves[h]
             r == report[h]
  <1>1. /\ s \in Sessions /\ report \in [Reports -> ReportRecords] /\ r \in ReportRecords
        /\ Accounted(h) /\ Staged(r)
        /\ billed[s] * Cent <= used[s] * Price /\ opener[s] = "live"
    BY ReportStarts DEF DebitAborts, DebitRefused, RecordUsage, CheckBalance, KillRow
  <1>2. UNCHANGED <<cache, opener, used, billed>>
    BY DEF DebitAborts, DebitRefused, RecordUsage, CheckBalance, KillRow
  <1>3. ASSUME Accounted(h)' PROVE Exact(s)'
    BY <1>1, <1>2, <1>3, ExactMoves DEF Calm
  <1>4. ASSUME Settled(s), report'[h].stage \in {"idle", "kill", "remove"} PROVE Exact(s)'
    <2>1. Settled(s)'
      BY <1>2, <1>4 DEF Settled
    <2> QED BY <1>3, <1>4, <2>1 DEF Accounted
  <1>5. CASE DebitAborts(h) \/ DebitRefused(h) \/ KillRow(h)
    <2>1. report'[h] = Waiting \/ \E stage \in {"kill", "remove"} :
             report'[h] = [report[h] EXCEPT !.stage = stage]
      BY <1>1, <1>5 DEF DebitAborts, DebitRefused, KillRow, Rollback
    <2>2. report'[h].stage \in {"idle", "kill", "remove"}
      BY ONLY <1>1, <2>1 DEF Waiting, ReportRecords
    <2>3. Settled(s)
      BY <1>1, <1>5 DEF Accounted, DebitAborts, DebitRefused, KillRow
    <2> QED BY <1>4, <2>2, <2>3
  <1>6. CASE RecordUsage(h)
    <2>1. report'[h] = [r EXCEPT !.stage = "get"] /\ r.stage = "usage"
      BY <1>1, <1>6 DEF RecordUsage
    <2>2. /\ report'[h].stage = "get" /\ report'[h].v = r.v /\ report'[h].cost = r.cost
          /\ report'[h].carry = r.carry /\ report'[h].todo = r.todo
      BY <1>1, <2>1 DEF ReportRecords
    <2>3. r.todo = AfterMoney /\ Charged(h) /\ r.cost > 0
      BY <1>1, <2>1 DEF Staged, Accounted
    <2>4. Charged(h)'
      BY <1>2, <2>2, <2>3 DEF Charged
    <2>5. AfterMoney # <<"committed">>
      <3>1. Len(AfterMoney) = 3 /\ Len(<<"committed">>) = 1
        BY DEF AfterMoney
      <3> QED BY <3>1
    <2>6. Accounted(h)'
      BY <2>2, <2>3, <2>4, <2>5 DEF Accounted
    <2> QED BY <1>3, <2>6
  <1>7. CASE CheckBalance(h)
    <2>1. r.stage = "balance" /\ (report'[h] = Waiting \/ report'[h] = [r EXCEPT !.stage = "kill"])
      BY <1>1, <1>7 DEF CheckBalance
    <2>2. report'[h].stage \in {"idle", "kill", "remove"}
      BY <1>1, <2>1 DEF Waiting, ReportRecords
    <2>3. Settled(s)
      BY <1>1, <2>1 DEF Accounted, Charged, CommittedIs, PendingIs, Settled
    <2> QED BY <1>4, <2>2, <2>3
  <1> QED BY <1>5, <1>6, <1>7

BytesLeft == <<"pending", "committed">>
LastLeft == <<"committed">>

LEMMA Writes ==
    /\ Len(AfterMoney) > 1 /\ Tail(AfterMoney) = BytesLeft /\ Head(AfterMoney) = "committed"
    /\ Len(BytesLeft) > 1 /\ Tail(BytesLeft) = LastLeft /\ Head(BytesLeft) = "pending"
    /\ ~ (Len(LastLeft) > 1) /\ Head(LastLeft) = "committed"
    /\ AfterMoney # BytesLeft /\ AfterMoney # LastLeft /\ BytesLeft # LastLeft
  <1>1. Len(AfterMoney) = 3 /\ Len(BytesLeft) = 2 /\ Len(LastLeft) = 1
    BY DEF AfterMoney, BytesLeft, LastLeft
  <1>2. /\ Head(AfterMoney) = "committed" /\ Head(BytesLeft) = "pending"
        /\ Head(LastLeft) = "committed"
    BY DEF AfterMoney, BytesLeft, LastLeft
  <1>3. Tail(AfterMoney) = BytesLeft
    BY DEF AfterMoney, BytesLeft
  <1>4. Tail(BytesLeft) = LastLeft
    BY DEF BytesLeft, LastLeft
  <1>5. AfterMoney # BytesLeft /\ AfterMoney # LastLeft /\ BytesLeft # LastLeft
    BY <1>1
  <1>6. Len(AfterMoney) > 1 /\ Len(BytesLeft) > 1 /\ ~ (Len(LastLeft) > 1)
    BY ONLY <1>1
  <1> QED BY <1>2, <1>3, <1>4, <1>5, <1>6

\* Where a report that has written goes, and what it still knows.
LEMMA WriteGoes ==
    ASSUME NEW r \in ReportRecords, r.cost > 0
    PROVE  /\ AfterWrite(r).v = r.v /\ AfterWrite(r).carry = r.carry /\ AfterWrite(r).cost = r.cost
           /\ r.todo = AfterMoney => AfterWrite(r).stage = "get" /\ AfterWrite(r).todo = BytesLeft
           /\ r.todo = BytesLeft => AfterWrite(r).stage = "get" /\ AfterWrite(r).todo = LastLeft
           /\ r.todo = LastLeft => AfterWrite(r).stage = "balance"
  <1>1. CASE Len(r.todo) > 1
    <2>1. AfterWrite(r) = [r EXCEPT !.stage = "get", !.todo = Tail(r.todo), !.snap = None]
      BY <1>1 DEF AfterWrite
    <2>2. /\ AfterWrite(r).v = r.v /\ AfterWrite(r).carry = r.carry /\ AfterWrite(r).cost = r.cost
          /\ AfterWrite(r).stage = "get" /\ AfterWrite(r).todo = Tail(r.todo)
      BY <2>1 DEF ReportRecords
    <2> QED BY <1>1, <2>2, Writes
  <1>2. CASE ~ (Len(r.todo) > 1)
    <2>1. AfterWrite(r) = [r EXCEPT !.stage = "balance", !.todo = <<>>, !.snap = None]
      BY <1>2 DEF AfterWrite
    <2>2. /\ AfterWrite(r).v = r.v /\ AfterWrite(r).carry = r.carry /\ AfterWrite(r).cost = r.cost
          /\ AfterWrite(r).stage = "balance"
      BY <2>1 DEF ReportRecords
    <2> QED BY <1>2, <2>2, Writes
  <1> QED BY <1>1, <1>2

\* A record that holds what a report has written so far still does when the
\* report has moved on.
LEMMA WriteExact ==
    ASSUME BillInv, Calm, NEW h \in Reports, Exact(Serves[h]),
           report[h].stage \in {"get", "set"}, report'[h] = AfterWrite(report[h]),
           UNCHANGED <<opener, used, billed>>,
           cache'[Serves[h]] # None =>
              /\ cache'[Serves[h]].committed = report[h].v
              /\ report[h].todo # AfterMoney => cache'[Serves[h]].pending = report[h].carry
    PROVE  Exact(Serves[h])'
  <1> DEFINE s == Serves[h]
             r == report[h]
             new == report'[h]
  <1>1. /\ s \in Sessions /\ r \in ReportRecords /\ Accounted(h)
        /\ billed[s] * Cent <= used[s] * Price /\ opener[s] = "live"
    BY ReportStarts
  <1>2. /\ Charged(h) /\ r.cost > 0 /\ r.todo \in {AfterMoney, BytesLeft, LastLeft}
    BY <1>1 DEF Accounted, BytesLeft, LastLeft
  <1>3. /\ new.v = r.v /\ new.carry = r.carry /\ new.cost = r.cost
        /\ r.todo = AfterMoney => new.stage = "get" /\ new.todo = BytesLeft
        /\ r.todo = BytesLeft => new.stage = "get" /\ new.todo = LastLeft
        /\ r.todo = LastLeft => new.stage = "balance"
    BY <1>1, <1>2, WriteGoes
  <1>4. Charged(h)'
    BY <1>2, <1>3 DEF Charged
  <1>5. CommittedIs(cache[s], h)' /\ (r.todo # AfterMoney => PendingIs(cache[s], h)')
    BY <1>3 DEF CommittedIs, PendingIs
  <1> HIDE DEF new
  <1>6. Accounted(h)'
    <2>1. CASE r.todo = AfterMoney
      <3>1. report'[h].stage = "get" /\ report'[h].todo = BytesLeft /\ report'[h].cost > 0
        BY <1>2, <1>3, <2>1 DEF new
      <3> QED BY <1>4, <1>5, <3>1, Writes DEF Accounted, BytesLeft, LastLeft
    <2>2. CASE r.todo = BytesLeft
      <3>1. report'[h].stage = "get" /\ report'[h].todo = LastLeft /\ report'[h].cost > 0
        BY <1>2, <1>3, <2>2 DEF new
      <3>2. PendingIs(cache[s], h)'
        BY <1>5, <2>2, Writes
      <3> QED BY <1>4, <1>5, <3>1, <3>2, Writes DEF Accounted, BytesLeft, LastLeft
    <2>3. CASE r.todo = LastLeft
      <3>1. report'[h].stage = "balance" /\ report'[h].cost > 0
        BY <1>2, <1>3, <2>3 DEF new
      <3>2. PendingIs(cache[s], h)'
        BY <1>5, <2>3, Writes
      <3> QED BY <1>4, <1>5, <3>1, <3>2 DEF Accounted
    <2> QED BY <1>2, <2>1, <2>2, <2>3
  <1> QED BY <1>1, <1>6, ExactMoves DEF Calm

LEMMA GetExact ==
    ASSUME BillInv, Calm, NEW h \in Reports, Exact(Serves[h]), CacheGet(h)
    PROVE  Exact(Serves[h])'
  <1> DEFINE s == Serves[h]
             r == report[h]
             record == cache[s]
  <1>1. /\ s \in Sessions /\ report \in [Reports -> ReportRecords] /\ r \in ReportRecords
        /\ Accounted(h) /\ billed[s] * Cent <= used[s] * Price /\ opener[s] = "live"
    BY ReportStarts DEF CacheGet
  <1>2. r.stage = "get" /\ UNCHANGED <<cache, opener, used, billed>>
    BY DEF CacheGet
  <1>3. CASE record = None
    <2>1. report'[h] = AfterWrite(report[h])
      BY <1>1, <1>3 DEF CacheGet
    <2> QED BY <1>2, <1>3, <2>1, WriteExact
  <1>4. CASE record # None
    <2>1. report'[h] = [r EXCEPT !.stage = "set", !.snap = record]
      BY <1>1, <1>4 DEF CacheGet
    <2>2. /\ report'[h].stage = "set" /\ report'[h].snap = record
          /\ report'[h].v = r.v /\ report'[h].cost = r.cost
          /\ report'[h].carry = r.carry /\ report'[h].todo = r.todo
      BY <1>1, <2>1 DEF ReportRecords
    <2>3. Charged(h) /\ Charged(h)'
      BY <1>1, <1>2, <2>2 DEF Accounted, Charged
    <2>4. /\ CommittedIs(record, h) => CommittedIs(cache[s], h)' /\ CommittedIs(report[h].snap, h)'
          /\ PendingIs(record, h) => PendingIs(cache[s], h)' /\ PendingIs(report[h].snap, h)'
      BY <1>2, <2>2 DEF CommittedIs, PendingIs
    <2>5. /\ r.cost > 0 /\ r.todo \in {AfterMoney, BytesLeft, LastLeft}
          /\ r.todo # AfterMoney => CommittedIs(record, h)
          /\ r.todo = LastLeft => PendingIs(record, h)
      BY <1>1, <1>2 DEF Accounted, BytesLeft, LastLeft
    <2> HIDE DEF record
    <2>6. Accounted(h)'
      BY <2>2, <2>3, <2>4, <2>5 DEF Accounted, BytesLeft, LastLeft
    <2> QED BY <1>1, <1>2, <2>6, ExactMoves DEF Calm
  <1> QED BY <1>3, <1>4

LEMMA SetExact ==
    ASSUME BillInv, Calm, NEW h \in Reports, Exact(Serves[h]), CacheSet(h)
    PROVE  Exact(Serves[h])'
  <1> DEFINE s == Serves[h]
             r == report[h]
  <1>1. /\ s \in Sessions /\ report \in [Reports -> ReportRecords] /\ r \in ReportRecords
        /\ Accounted(h) /\ Staged(r)
    BY ReportStarts DEF CacheSet
  <1>2. /\ r.stage = "set" /\ UNCHANGED <<opener, used, billed>>
        /\ report'[h] = AfterWrite(r)
    BY <1>1 DEF CacheSet
  <1>3. cache'[s] = Written(h)
    <2>1. cache' = [cache EXCEPT ![s] = Written(h)]
      BY DEF CacheSet, Written
    <2>2. cache \in [Sessions -> CacheRecords \cup {None}]
      BY DEF BillInv, TypeOK
    <2> QED BY ONLY <1>1, <2>1, <2>2
  <1>4. /\ r.todo \in {AfterMoney, BytesLeft, LastLeft} /\ r.snap # None
        /\ r.todo # AfterMoney => CommittedIs(r.snap, h)
        /\ r.todo = LastLeft => PendingIs(r.snap, h)
    BY <1>1, <1>2 DEF Accounted, Staged, BytesLeft, LastLeft
  <1>5. /\ Head(r.todo) = "committed" =>
              Written(h).committed = r.v /\ Written(h).pending = r.snap.pending
        /\ Head(r.todo) = "pending" =>
              Written(h).pending = r.carry /\ Written(h).committed = r.snap.committed
    BY <1>2, WrittenIs
  <1>6. Written(h).committed = r.v
    BY <1>4, <1>5, Writes DEF CommittedIs
  <1>7. r.todo # AfterMoney => Written(h).pending = r.carry
    BY <1>4, <1>5, Writes DEF PendingIs
  <1> QED BY <1>2, <1>3, <1>6, <1>7, WriteExact

LEMMA RemoveExact ==
    ASSUME BillInv, Calm, NEW h \in Reports, Exact(Serves[h]), KillRemove(h)
    PROVE  Exact(Serves[h])'
  <1>1. /\ Serves[h] \in Sessions /\ report \in [Reports -> ReportRecords]
        /\ billed[Serves[h]] * Cent <= used[Serves[h]] * Price /\ opener[Serves[h]] = "live"
    BY ReportStarts DEF KillRemove
  <1>2. /\ UNCHANGED <<opener, used, billed>> /\ report'[h].stage = "idle"
        /\ cache'[Serves[h]] = None
    BY <1>1 DEF KillRemove, BillInv, TypeOK, Waiting
  <1>3. Accounted(h)'
    BY <1>2 DEF Accounted, Settled
  <1> QED BY <1>1, <1>2, <1>3, ExactMoves DEF Calm

LEMMA LossExact ==
    ASSUME BillInv, NEW s \in Sessions, Exact(s), RedisLoss
    PROVE  Exact(s)'
  <1>1. UNCHANGED <<opener, used, billed, report>> /\ cache'[s] = None
    BY DEF RedisLoss
  <1>2. Settled(s)' /\ Unstarted(s)' /\ (billed[s] * Cent <= used[s] * Price)'
    BY <1>1 DEF Exact, Unstarted, Settled
  <1>3. ASSUME NEW h \in Reports, Serves[h] = s PROVE Accounted(h)'
    <2>1. Accounted(h)
      BY <1>3 DEF Exact
    <2>2. Charged(h) => Charged(h)'
      BY <1>1 DEF Charged
    <2>3. CommittedIs(cache[Serves[h]], h)' /\ PendingIs(cache[Serves[h]], h)'
      BY <1>1, <1>3 DEF CommittedIs, PendingIs
    <2>4. /\ CommittedIs(report[h].snap, h) => CommittedIs(report[h].snap, h)'
          /\ PendingIs(report[h].snap, h) => PendingIs(report[h].snap, h)'
      BY <1>1 DEF CommittedIs, PendingIs
    <2> QED BY <1>1, <1>2, <1>3, <2>1, <2>2, <2>3, <2>4 DEF Accounted
  <1> QED BY <1>2, <1>3 DEF Exact

LEMMA SerialInit == Init => SerialInv
  <1> SUFFICES ASSUME Init PROVE SerialInv
    OBVIOUS
  <1>1. BillInv
    BY BillInit
  <1>2. ASSUME NEW s \in Sessions PROVE Exact(s)
    <2>1. /\ cache[s] = None /\ used[s] = 0 /\ billed[s] = 0
          /\ \A h \in Reports : report[h].stage = "idle"
      BY DEF Init, Waiting
    <2>2. \A h \in Reports : Serves[h] = s => Accounted(h)
      BY <2>1 DEF Accounted, Settled
    <2>3. billed[s] * Cent <= used[s] * Price
      BY <2>1, UsageAssumption
    <2> QED BY <2>1, <2>2, <2>3 DEF Exact, Unstarted, Settled
  <1> QED BY <1>1, <1>2, ExactEach

LEMMA SerialStep == Calm /\ SerialInv /\ [Next]_vars => SerialInv'
  <1> SUFFICES ASSUME Calm, SerialInv, [Next]_vars PROVE SerialInv'
    OBVIOUS
  <1>1. BillInv /\ \A s \in Sessions : Exact(s)
    BY ExactEach
  <1>2. BillInv'
    BY <1>1, BillStep
  <1>3. ASSUME NEW r \in Sessions PROVE Exact(r)'
    <2>1. Exact(r) /\ \A h \in Reports : Serves[h] \in Sessions /\ Exact(Serves[h])
      BY <1>1, UsageAssumption
    <2>2. ASSUME NEW s \in Sessions,
                 OpenStep(s) \/ Expire(s) \/ Consume(s) \/ EndRead(s) \/ EndStep(s)
          PROVE  Exact(r)'
      <3>1. CASE r = s
        BY <1>1, <2>1, <2>2, <3>1, SessionExact
      <3>2. CASE r # s
        BY <1>1, <2>1, <2>2, <3>2, Elsewhere
      <3> QED BY <3>1, <3>2
    <2>3. ASSUME NEW h \in Reports,
                 (\E v \in 1..MaxUsage : Receive(h, v) \/ ReceiveUnpriced(h, v)) \/ ReportStep(h)
          PROVE  Exact(r)'
      <3>1. CASE r = Serves[h]
        <4>1. CASE \E v \in 1..MaxUsage : Receive(h, v) \/ ReceiveUnpriced(h, v)
          BY <1>1, <2>1, <3>1, <4>1, ReceiveExact
        <4>2. CASE ReportStep(h)
          BY <1>1, <2>1, <3>1, <4>2, DebitExact, PauseExact, GetExact, SetExact, RemoveExact
             DEF ReportStep
        <4> QED BY <2>3, <4>1, <4>2
      <3>2. CASE r # Serves[h]
        BY <1>1, <2>1, <2>3, <3>2, Elsewhere
      <3> QED BY <3>1, <3>2
    <2>4. ~ Crash /\ \A h \in Reports : ~ DbError(h) /\ ~ RedisError(h)
      BY NoFault DEF Crash, DbError, RedisError
    <2>5. CASE RedisLoss
      BY <1>1, <2>1, <2>5, LossExact
    <2>6. CASE UNCHANGED vars
      BY <2>1, <2>6, ExactStays DEF vars
    <2>7. CASE Next
      <3>1. \/ \E s \in Sessions :
                 OpenStep(s) \/ Expire(s) \/ Consume(s) \/ EndRead(s) \/ EndStep(s)
            \/ \E h \in Reports :
                 \/ \E v \in 1..MaxUsage : Receive(h, v) \/ ReceiveUnpriced(h, v)
                 \/ ReportStep(h)
            \/ RedisLoss
        BY <2>4, <2>7 DEF Next
      <3> QED BY <2>2, <2>3, <2>5, <3>1
    <2> QED BY <2>6, <2>7
  <1> QED BY <1>2, <1>3, UsageAssumption DEF SerialInv, Exact

\* One report at a time, no failed call and no restart of the backend: between
\* reports the Redis record accounts for the money to the unit, whatever the
\* prices, the other sessions, and however often Redis loses its records.
THEOREM SerialBillsExactly ==
    ASSUME Calm PROVE Spec => []BilledExactly
  <1>1. SerialInv => BilledExactly
    BY DEF SerialInv, Settled, BilledExactly
  <1>2. SerialInv /\ [Next]_vars => SerialInv'
    BY SerialStep
  <1> QED BY <1>1, <1>2, SerialInit, PTL DEF Spec

\* Nor does the buyer then pay for more than was used: the double billing the
\* comments of byte-tracker.ts deny takes two reports at a time or a failure.
THEOREM SerialNeverOverbills ==
    ASSUME Calm PROVE Spec => []NeverOverbilled
  <1>1. SerialInv => NeverOverbilled
    BY DEF SerialInv, NeverOverbilled
  <1>2. SerialInv /\ [Next]_vars => SerialInv'
    BY SerialStep
  <1> QED BY <1>1, <1>2, SerialInit, PTL DEF Spec
=============================================================================
