---------------------------- MODULE CashoutProofs ---------------------------
(***************************************************************************)
(* What was paid was earned, and what is shown is owed: the periods of the *)
(* payout rows form a chain, and what a handler will pay is covered by what *)
(* was booked since the end of it, less what was paid since.  For any      *)
(* ledger, and any number of rows, requests and handlers.                  *)
(***************************************************************************)
EXTENDS Cashouts, FiniteSetTheorems, WellFoundedInduction, TLAPS

-----------------------------------------------------------------------------
(* Sums *)

(* What holds of 0, and of i if it holds of i - 1, holds up to n. *)
LEMMA UpTo ==
    ASSUME NEW n \in Nat, NEW S, 0 \in S, \A i \in 1..n : i - 1 \in S => i \in S
    PROVE  0..n \subseteq S
<1> SUFFICES ASSUME 0..n \ S # {} PROVE FALSE
  OBVIOUS
<1>1. PICK x \in 0..n \ S : \A y \in 0..n \ S : ~ (<<y, x>> \in OpToRel(<, Nat))
  <2>1. 0..n \ S \subseteq Nat /\ 0..n \ S # {}
    OBVIOUS
  <2> QED
    BY <2>1, NatLessThanWellFounded, WFMin
<1>2. x \in 1..n /\ x - 1 \in 0..n /\ x - 1 < x
  OBVIOUS
<1>3. x - 1 \notin S
  BY <1>2
<1>4. <<x - 1, x>> \in OpToRel(<, Nat)
  <2>1. <<x - 1, x>> \in Nat \X Nat
    BY <1>2
  <2> QED
    BY <1>2, <2>1 DEF OpToRel
<1> QED
  BY <1>1, <1>2, <1>3, <1>4

(* The running sums of val, as SumOf takes them. *)
Running(val, n) ==
    CHOOSE sum : sum = [i \in 0..n |-> IF i = 0 THEN 0 ELSE sum[i - 1] + val[i]]

(* There are running sums. *)
LEMMA SumExists ==
    ASSUME NEW n \in Nat, NEW val
    PROVE  \E f : f = [i \in 0..n |-> IF i = 0 THEN 0 ELSE f[i - 1] + val[i]]
<1> DEFINE Good(m) == \E f : f = [i \in 0..m |-> IF i = 0 THEN 0 ELSE f[i - 1] + val[i]]
           S == {m \in 0..n : Good(m)}
<1>1. 0 \in S
  <2> DEFINE f == [i \in 0..0 |-> 0]
  <2>1. f = [i \in 0..0 |-> IF i = 0 THEN 0 ELSE f[i - 1] + val[i]]
    OBVIOUS
  <2> HIDE DEF f
  <2>2. Good(0)
    BY <2>1
  <2> QED
    BY <2>2
<1>2. ASSUME NEW m \in 1..n, m - 1 \in S PROVE m \in S
  <2>1. PICK g : g = [i \in 0..(m - 1) |-> IF i = 0 THEN 0 ELSE g[i - 1] + val[i]]
    BY <1>2
  <2> DEFINE f == [i \in 0..m |-> IF i = m THEN g[m - 1] + val[m] ELSE g[i]]
             h == [i \in 0..m |-> IF i = 0 THEN 0 ELSE f[i - 1] + val[i]]
  <2>2. ASSUME NEW i \in 0..m PROVE f[i] = h[i]
    <3>1. CASE i = m
      BY <3>1
    <3>2. CASE i # m
      <4>1. i \in 0..(m - 1) /\ (i # 0 => i - 1 \in 0..(m - 1) /\ i - 1 \in 0..m /\ i - 1 # m)
        BY <3>2
      <4>2. f[i] = g[i] /\ (i # 0 => f[i - 1] = g[i - 1])
        BY <3>2, <4>1
      <4>3. g[i] = IF i = 0 THEN 0 ELSE g[i - 1] + val[i]
        BY <2>1, <4>1
      <4> QED
        BY <4>2, <4>3
    <3> QED
      BY <3>1, <3>2
  <2>3. f = [i \in 0..m |-> f[i]] /\ h = [i \in 0..m |-> h[i]]
    OBVIOUS
  <2>4. f = h
    <3> HIDE DEF f, h
    <3> QED
      BY <2>2, <2>3
  <2> HIDE DEF f
  <2>5. Good(m)
    BY <2>4
  <2> QED
    BY <2>5
<1>3. 0..n \subseteq S
  <2> HIDE DEF S
  <2> QED
    BY <1>1, <1>2, UpTo
<1> QED
  BY <1>3

(* ... of which the last is the sum. *)
LEMMA SumUnfolds ==
    ASSUME NEW n \in Nat, NEW val
    PROVE  /\ SumOf(val, n) = Running(val, n)[n] /\ Running(val, n)[0] = 0
           /\ \A i \in 1..n : Running(val, n)[i] = Running(val, n)[i - 1] + val[i]
<1>1. Running(val, n) = [i \in 0..n |-> IF i = 0 THEN 0 ELSE Running(val, n)[i - 1] + val[i]]
  BY SumExists DEF Running
<1>2. SumOf(val, n) = Running(val, n)[n]
  BY DEF SumOf, Running
<1> HIDE DEF Running
<1>3. Running(val, n)[0] = 0
  BY <1>1
<1>4. ASSUME NEW i \in 1..n PROVE Running(val, n)[i] = Running(val, n)[i - 1] + val[i]
  <2>1. i \in 0..n /\ i # 0
    OBVIOUS
  <2> QED
    BY <1>1, <2>1
<1> QED
  BY <1>2, <1>3, <1>4

(* A sum of integers is one. *)
LEMMA SumType ==
    ASSUME NEW n \in Nat, NEW val, \A i \in 1..n : val[i] \in Int
    PROVE  /\ SumOf(val, n) \in Int /\ \A i \in 0..n : Running(val, n)[i] \in Int
<1> DEFINE f == Running(val, n)
           S == {i \in 0..n : f[i] \in Int}
<1>1. SumOf(val, n) = f[n] /\ f[0] = 0 /\ \A i \in 1..n : f[i] = f[i - 1] + val[i]
  BY SumUnfolds
<1> HIDE DEF f
<1>2. 0 \in S /\ \A i \in 1..n : i - 1 \in S => i \in S
  BY <1>1
<1>3. 0..n \subseteq S
  <2> HIDE DEF S
  <2> QED
    BY <1>2, UpTo
<1>4. \A i \in 0..n : f[i] \in Int
  BY <1>3
<1> QED
  BY <1>1, <1>4 DEF f

(* Sums add up, if their terms do. *)
LEMMA SumAdds ==
    ASSUME NEW n \in Nat, NEW u, NEW v, NEW w,
           \A i \in 1..n : u[i] \in Int /\ v[i] \in Int /\ w[i] = u[i] + v[i]
    PROVE  SumOf(w, n) = SumOf(u, n) + SumOf(v, n)
<1> DEFINE f == Running(u, n)
           g == Running(v, n)
           h == Running(w, n)
           S == {i \in 0..n : h[i] = f[i] + g[i]}
<1>1. SumOf(u, n) = f[n] /\ f[0] = 0 /\ \A i \in 1..n : f[i] = f[i - 1] + u[i]
  BY SumUnfolds
<1>2. SumOf(v, n) = g[n] /\ g[0] = 0 /\ \A i \in 1..n : g[i] = g[i - 1] + v[i]
  BY SumUnfolds
<1>3. SumOf(w, n) = h[n] /\ h[0] = 0 /\ \A i \in 1..n : h[i] = h[i - 1] + w[i]
  BY SumUnfolds
<1>4. \A i \in 0..n : f[i] \in Int /\ g[i] \in Int
  BY SumType
<1> HIDE DEF f, g, h
<1>5. 0 \in S
  BY <1>1, <1>2, <1>3
<1>6. ASSUME NEW i \in 1..n, i - 1 \in S PROVE i \in S
  <2>1. i - 1 \in 0..n /\ i \in 0..n
    OBVIOUS
  <2>2. /\ f[i - 1] \in Int /\ g[i - 1] \in Int /\ u[i] \in Int /\ v[i] \in Int
        /\ h[i - 1] = f[i - 1] + g[i - 1]
    BY <1>4, <1>6, <2>1
  <2>3. h[i] = (f[i - 1] + g[i - 1]) + (u[i] + v[i]) /\ f[i] = f[i - 1] + u[i] /\ g[i] = g[i - 1] + v[i]
    BY <1>1, <1>2, <1>3, <2>2
  <2>4. h[i] = f[i] + g[i]
    BY <2>2, <2>3
  <2> QED
    BY <2>1, <2>4
<1>7. 0..n \subseteq S
  <2> HIDE DEF S
  <2> QED
    BY <1>5, <1>6, UpTo
<1>8. h[n] = f[n] + g[n]
  BY <1>7
<1> QED
  BY <1>1, <1>2, <1>3, <1>8

(* A sum is no smaller than one of smaller terms. *)
LEMMA SumGrows ==
    ASSUME NEW n \in Nat, NEW u, NEW v,
           \A i \in 1..n : u[i] \in Int /\ v[i] \in Int /\ u[i] <= v[i]
    PROVE  SumOf(u, n) <= SumOf(v, n)
<1> DEFINE f == Running(u, n)
           g == Running(v, n)
           S == {i \in 0..n : f[i] <= g[i]}
<1>1. SumOf(u, n) = f[n] /\ f[0] = 0 /\ \A i \in 1..n : f[i] = f[i - 1] + u[i]
  BY SumUnfolds
<1>2. SumOf(v, n) = g[n] /\ g[0] = 0 /\ \A i \in 1..n : g[i] = g[i - 1] + v[i]
  BY SumUnfolds
<1>3. \A i \in 0..n : f[i] \in Int /\ g[i] \in Int
  BY SumType
<1> HIDE DEF f, g
<1>4. 0 \in S
  BY <1>1, <1>2
<1>5. ASSUME NEW i \in 1..n, i - 1 \in S PROVE i \in S
  <2>1. i - 1 \in 0..n /\ i \in 0..n
    OBVIOUS
  <2>2. /\ f[i - 1] \in Int /\ g[i - 1] \in Int /\ u[i] \in Int /\ v[i] \in Int
        /\ u[i] <= v[i] /\ f[i - 1] <= g[i - 1]
        /\ f[i] = f[i - 1] + u[i] /\ g[i] = g[i - 1] + v[i]
    BY <1>1, <1>2, <1>3, <1>5, <2>1
  <2>3. f[i] <= g[i]
    BY <2>2
  <2> QED
    BY <2>1, <2>3
<1>6. 0..n \subseteq S
  <2> HIDE DEF S
  <2> QED
    BY <1>4, <1>5, UpTo
<1>7. f[n] <= g[n]
  BY <1>6
<1> QED
  BY <1>1, <1>2, <1>7

(* A sum with one term is that term. *)
LEMMA SumOfOne ==
    ASSUME NEW n \in Nat, NEW k \in 1..n, NEW x \in Int
    PROVE  SumOf([i \in 1..n |-> IF i = k THEN x ELSE 0], n) = x
<1> DEFINE v == [i \in 1..n |-> IF i = k THEN x ELSE 0]
           f == Running(v, n)
           S == {i \in 0..n : f[i] = IF i < k THEN 0 ELSE x}
<1>1. SumOf(v, n) = f[n] /\ f[0] = 0 /\ \A i \in 1..n : f[i] = f[i - 1] + v[i]
  BY SumUnfolds
<1> HIDE DEF f
<1>2. 0 \in S
  BY <1>1
<1>3. ASSUME NEW i \in 1..n, i - 1 \in S PROVE i \in S
  <2>1. f[i] = f[i - 1] + v[i] /\ f[i - 1] = IF i - 1 < k THEN 0 ELSE x
    BY <1>1, <1>3
  <2> QED
    BY <2>1
<1>4. 0..n \subseteq S
  <2> HIDE DEF S
  <2> QED
    BY <1>2, <1>3, UpTo
<1>5. f[n] = x
  BY <1>4
<1> QED
  BY <1>1, <1>5

-----------------------------------------------------------------------------
(* What is booked, and what is paid *)

(* SumBooked and SumPaid of any ledger and of any rows. *)
Total(a, S) == SumOf([e \in DOMAIN a |-> IF e \in S THEN a[e] ELSE 0], Len(a))
NetOf(f, S) == SumOf([p \in Payouts |-> IF p \in S THEN f[p].net ELSE 0], MaxPayouts)

(* They are these of the ledger and of the rows there are. *)
LEMMA SumsAre ==
    /\ \A S : SumBooked(S) = Total(amount, S) /\ SumPaid(S) = NetOf(payout, S)
  BY DEF SumBooked, SumPaid, Total, NetOf, Entries

(* What is summed up of a ledger. *)
LEMMA TotalTerms ==
    ASSUME NEW a \in Seq(Int), NEW S
    PROVE  /\ Len(a) \in Nat /\ DOMAIN a = 1..Len(a)
           /\ \A i \in 1..Len(a) :
                /\ a[i] \in Int
                /\ [e \in DOMAIN a |-> IF e \in S THEN a[e] ELSE 0][i] \in Int
                /\ [e \in DOMAIN a |-> IF e \in S THEN a[e] ELSE 0][i] = IF i \in S THEN a[i] ELSE 0
<1>1. Len(a) \in Nat /\ DOMAIN a = 1..Len(a)
  OBVIOUS
<1>2. \A i \in 1..Len(a) : a[i] \in Int
  OBVIOUS
<1> QED
  BY <1>1, <1>2

(* What a part of a ledger is worth is a number.                           *)
LEMMA TotalType == ASSUME NEW a \in Seq(Int), NEW S PROVE Total(a, S) \in Int
  BY TotalTerms, SumType DEF Total

(* Two parts of a ledger without a common entry. *)
LEMMA TotalAdds ==
    ASSUME NEW a \in Seq(Int), NEW S, NEW T, S \cap T = {}
    PROVE  Total(a, S \cup T) = Total(a, S) + Total(a, T)
<1> DEFINE u == [e \in DOMAIN a |-> IF e \in S THEN a[e] ELSE 0]
           v == [e \in DOMAIN a |-> IF e \in T THEN a[e] ELSE 0]
           w == [e \in DOMAIN a |-> IF e \in S \cup T THEN a[e] ELSE 0]
<1>1. Len(a) \in Nat /\ DOMAIN a = 1..Len(a) /\ \A i \in 1..Len(a) : a[i] \in Int
  BY TotalTerms
<1>2. \A i \in 1..Len(a) : u[i] \in Int /\ v[i] \in Int /\ w[i] = u[i] + v[i]
  BY <1>1
<1> HIDE DEF u, v, w
<1>3. SumOf(w, Len(a)) = SumOf(u, Len(a)) + SumOf(v, Len(a))
  BY <1>1, <1>2, SumAdds
<1> QED
  BY <1>3 DEF Total, u, v, w

(* A part with no credit less and no debit more is worth no less. *)
LEMMA TotalGrows ==
    ASSUME NEW a \in Seq(Int), NEW S, NEW T,
           \A e \in DOMAIN a : /\ e \in S /\ e \notin T => a[e] <= 0
                               /\ e \in T /\ e \notin S => a[e] >= 0
    PROVE  Total(a, S) <= Total(a, T)
<1> DEFINE u == [e \in DOMAIN a |-> IF e \in S THEN a[e] ELSE 0]
           v == [e \in DOMAIN a |-> IF e \in T THEN a[e] ELSE 0]
<1>1. Len(a) \in Nat /\ DOMAIN a = 1..Len(a) /\ \A i \in 1..Len(a) : a[i] \in Int
  BY TotalTerms
<1>2. \A i \in 1..Len(a) : u[i] \in Int /\ v[i] \in Int /\ u[i] <= v[i]
  BY <1>1
<1> HIDE DEF u, v
<1>3. SumOf(u, Len(a)) <= SumOf(v, Len(a))
  BY <1>1, <1>2, SumGrows
<1> QED
  BY <1>3 DEF Total, u, v

(* A row of payouts.                                                       *)
PayoutRow == [status : PayoutStatus, start : Nat, end : Nat, at : Nat, net : Int]

(* So is what a part of the rows pays.                                     *)
LEMMA NetType == ASSUME NEW f \in [Payouts -> PayoutRow], NEW S PROVE NetOf(f, S) \in Int
<1> DEFINE u == [p \in Payouts |-> IF p \in S THEN f[p].net ELSE 0]
<1>1. MaxPayouts \in Nat /\ \A i \in 1..MaxPayouts : u[i] \in Int
  BY BoundAssumption DEF Payouts, PayoutRow
<1> HIDE DEF u
<1>2. SumOf(u, MaxPayouts) \in Int
  BY <1>1, SumType
<1> QED
  BY <1>2 DEF NetOf, u

(* Two parts of the rows without a common one.                             *)
LEMMA NetAdds ==
    ASSUME NEW f \in [Payouts -> PayoutRow], NEW S, NEW T, S \cap T = {}
    PROVE  NetOf(f, S \cup T) = NetOf(f, S) + NetOf(f, T)
<1> DEFINE u == [p \in Payouts |-> IF p \in S THEN f[p].net ELSE 0]
           v == [p \in Payouts |-> IF p \in T THEN f[p].net ELSE 0]
           w == [p \in Payouts |-> IF p \in S \cup T THEN f[p].net ELSE 0]
<1>1. \A p \in Payouts : f[p].net \in Int
  BY DEF PayoutRow
<1>2. /\ MaxPayouts \in Nat
      /\ \A i \in 1..MaxPayouts : u[i] \in Int /\ v[i] \in Int /\ w[i] = u[i] + v[i]
  BY <1>1, BoundAssumption DEF Payouts
<1> HIDE DEF u, v, w
<1>3. SumOf(w, MaxPayouts) = SumOf(u, MaxPayouts) + SumOf(v, MaxPayouts)
  BY <1>2, SumAdds
<1> QED
  BY <1>3 DEF NetOf, u, v, w

(* More rows pay no less.                                                  *)
LEMMA NetGrows ==
    ASSUME NEW f \in [Payouts -> PayoutRow], NEW S, NEW T, S \subseteq T,
           \A p \in Payouts \cap T : f[p].net >= 0
    PROVE  NetOf(f, S) <= NetOf(f, T)
<1> DEFINE u == [p \in Payouts |-> IF p \in S THEN f[p].net ELSE 0]
           v == [p \in Payouts |-> IF p \in T THEN f[p].net ELSE 0]
<1>1. \A p \in Payouts : f[p].net \in Int
  BY DEF PayoutRow
<1>2. MaxPayouts \in Nat /\ \A i \in 1..MaxPayouts : u[i] \in Int /\ v[i] \in Int /\ u[i] <= v[i]
  BY <1>1, BoundAssumption DEF Payouts
<1> HIDE DEF u, v
<1>3. SumOf(u, MaxPayouts) <= SumOf(v, MaxPayouts)
  BY <1>2, SumGrows
<1> QED
  BY <1>3 DEF NetOf, u, v

(* Only the amounts of the rows in question count. *)
LEMMA NetSame ==
    ASSUME NEW f, NEW g, NEW S, \A p \in Payouts \cap S : g[p].net = f[p].net
    PROVE  NetOf(g, S) = NetOf(f, S)
<1> DEFINE u == [p \in Payouts |-> IF p \in S THEN f[p].net ELSE 0]
           v == [p \in Payouts |-> IF p \in S THEN g[p].net ELSE 0]
<1>1. u = v
  OBVIOUS
<1> QED
  BY <1>1 DEF NetOf

(* One more row. *)
LEMMA NetOneMore ==
    ASSUME NEW f \in [Payouts -> PayoutRow], NEW p \in Payouts, NEW row \in PayoutRow,
           NEW S, p \notin S
    PROVE  NetOf([f EXCEPT ![p] = row], S \cup {p}) = NetOf(f, S) + row.net
<1> DEFINE g == [f EXCEPT ![p] = row]
           v == [q \in 1..MaxPayouts |-> IF q = p THEN row.net ELSE 0]
           w == [q \in Payouts |-> IF q \in {p} THEN g[q].net ELSE 0]
<1>1. g \in [Payouts -> PayoutRow] /\ g[p] = row /\ \A q \in Payouts \cap S : g[q].net = f[q].net
  OBVIOUS
<1>2. row.net \in Int /\ p \in 1..MaxPayouts /\ MaxPayouts \in Nat /\ Payouts = 1..MaxPayouts
  BY BoundAssumption DEF PayoutRow, Payouts
<1> HIDE DEF g
<1>3. w = v
  BY <1>1, <1>2
<1>4. SumOf(v, MaxPayouts) = row.net
  BY <1>2, SumOfOne
<1>5. NetOf(g, {p}) = row.net
  BY <1>3, <1>4 DEF NetOf
<1>6. NetOf(g, S \cup {p}) = NetOf(g, S) + NetOf(g, {p})
  BY <1>1, NetAdds
<1>7. NetOf(g, S) = NetOf(f, S)
  BY <1>1, NetSame
<1> QED
  BY <1>5, <1>6, <1>7 DEF g

-----------------------------------------------------------------------------
(* The chain of periods *)

(* Where a period may start: at the beginning, or where another one ended. *)
Ends == {0} \cup {payout[p].end : p \in Rows}
Starts == {payout[p].start : p \in Rows}
OpenEnds == Ends \ Starts

(* What was booked, and paid, by a time, and after it.                     *)
BookedBy(t) == {e \in Entries : bookedAt[e] \in 1..t}
PaidBy(t) == {p \in Rows : payout[p].at <= t}
PaidAfter(t) == {p \in Rows : payout[p].at > t}

(* What a handler holds, and whether it has read what it will pay by.      *)
HandlerRow == [at : HandlerStep, req : Requests \cup {NoRow}, start : Nat, end : Nat, bal : Int]
Reading(x) == x.at \in {"disputes", "commit"}

(* What a handler has read is of the past, and a period starts where one   *)
(* may.                                                                    *)
HandlerFits(x) ==
    /\ x.end <= now
    /\ Reading(x) => x.start \in Ends /\ x.bal >= 1

(* Its balance is covered by what was earned since its start, unless       *)
(* another one took that start...                                          *)
Covered(x) ==
    Reading(x) /\ x.start \in OpenEnds =>
        x.bal + SumPaid(PaidAfter(x.start)) <= SumBooked({e \in Orders : bookedAt[e] > x.start})

(* ... and by what was booked in its period, penalties deducted.           *)
CoveredInPeriod(x) ==
    Reading(x) /\ x.start \in OpenEnds =>
        x.bal + SumPaid(PaidAfter(x.start))
          <= SumBooked({e \in Entries : x.start < bookedAt[e] /\ bookedAt[e] <= x.end})

(* Rows are numbered as they come, each dated after the period it pays.    *)
RowsInv ==
    /\ Rows = 1..Cardinality(Rows) /\ now >= 1
    /\ \A p \in Rows : payout[p].end < payout[p].at /\ payout[p].at <= now /\ payout[p].net >= 1
    /\ \A e \in Entries : bookedAt[e] <= now
    /\ \A h \in Handlers : HandlerFits(hs[h])

(* The periods form a chain: one end at most is not a start yet.           *)
ChainInv == \A u, v \in OpenEnds : u = v

(* By any time, no more was paid than was earned.                          *)
EarnedInv ==
    stale = 0 =>
        /\ \A t \in Nat : SumPaid(PaidBy(t)) <= SumBooked(BookedBy(t) \cap Orders)
        /\ \A h \in Handlers : Covered(hs[h])

(* By the end of any period, no more was paid than was owed.               *)
OwedInv ==
    stale = 0 /\ late = 0 =>
        /\ \A u \in Ends : SumPaid(PaidBy(u)) <= SumBooked(BookedBy(u))
        /\ \A h \in Handlers : CoveredInPeriod(hs[h])

(* No order of a period that ended is left out.                            *)
ListedInv == \A u \in Ends : \A o \in Orders : bookedAt[o] \in 1..u => tag[o] # NoRow

MoneyInv == RowsInv /\ ChainInv /\ EarnedInv /\ OwedInv /\ ListedInv

(* A finite set of numbers has a largest. *)
LEMMA MaxIn ==
    ASSUME NEW n \in Nat, NEW T, T \subseteq 0..n, T # {}
    PROVE  Max(T) \in T
<1> DEFINE D == {n - x : x \in T}
<1>0. \A x \in T : x \in Int /\ n - x \in Nat
  OBVIOUS
<1>1. D \subseteq Nat /\ D # {}
  BY <1>0
<1>2. PICK d \in D : \A y \in D : ~ (<<y, d>> \in OpToRel(<, Nat))
  BY <1>1, NatLessThanWellFounded, WFMin
<1>3. ASSUME NEW y \in D PROVE d <= y
  <2>1. d \in Nat /\ y \in Nat
    BY <1>1
  <2>2. <<y, d>> \in Nat \X Nat
    BY <2>1
  <2>3. ~(y < d)
    BY <1>2, <1>3, <2>2 DEF OpToRel
  <2> QED
    BY <2>1, <2>3
<1>4. PICK x \in T : d = n - x
  OBVIOUS
<1>5. \A y \in T : n - y \in D /\ y \in Int /\ x \in Int
  BY <1>0
<1>6. \A y \in T : y <= x
  BY <1>3, <1>4, <1>5
<1> QED
  BY <1>6 DEF Max

(* The types of what there is, by name. *)
LEMMA CashoutTypes ==
    CashoutTypeOK =>
        /\ payout \in [Payouts -> PayoutRow] /\ hs \in [Handlers -> HandlerRow]
        /\ amount \in Seq(Int) /\ Entries = DOMAIN amount /\ now \in Nat
        /\ \A e \in Entries : bookedAt[e] \in Nat /\ amount[e] \in Int /\ amount[e] # 0
        /\ \A p \in Payouts : /\ payout[p].start \in Nat /\ payout[p].end \in Nat
                              /\ payout[p].at \in Nat /\ payout[p].net \in Int
        /\ \A h \in Handlers : /\ hs[h].start \in Nat /\ hs[h].end \in Nat /\ hs[h].bal \in Int
                               /\ hs[h].req \in Requests \cup {NoRow}
<1> SUFFICES ASSUME CashoutTypeOK
             PROVE  /\ payout \in [Payouts -> PayoutRow] /\ hs \in [Handlers -> HandlerRow]
                    /\ amount \in Seq(Int) /\ Entries = DOMAIN amount /\ now \in Nat
                    /\ \A e \in Entries : bookedAt[e] \in Nat /\ amount[e] \in Int /\ amount[e] # 0
                    /\ \A p \in Payouts : /\ payout[p].start \in Nat /\ payout[p].end \in Nat
                                          /\ payout[p].at \in Nat /\ payout[p].net \in Int
                    /\ \A h \in Handlers : /\ hs[h].start \in Nat /\ hs[h].end \in Nat
                                           /\ hs[h].bal \in Int /\ hs[h].req \in Requests \cup {NoRow}
  OBVIOUS
<1>1. payout \in [Payouts -> PayoutRow] /\ hs \in [Handlers -> HandlerRow]
  BY DEF CashoutTypeOK, PayoutRow, HandlerRow
<1>2. amount \in Seq(Int \ {0}) /\ now \in Nat /\ bookedAt \in [Entries -> Nat]
  BY MoneyAssumption DEF CashoutTypeOK
<1>3. amount \in Seq(Int) /\ \A e \in DOMAIN amount : amount[e] \in Int /\ amount[e] # 0
  BY <1>2
<1> QED
  BY <1>1, <1>2, <1>3 DEF PayoutRow, HandlerRow, Entries

(* The cutoff is such an end; what is shown is what was booked after it,   *)
(* less what was paid after it.                                            *)
LEMMA CutoffIsEnd ==
    ASSUME CashoutTypeOK, RowsInv
    PROVE  /\ Cutoff \in Ends /\ Cutoff \in Nat /\ Ends \subseteq 0..now
           /\ Balance = SumBooked({e \in Entries : bookedAt[e] > Cutoff}) - SumPaid(PaidAfter(Cutoff))
           /\ Balance \in Int
<1> DEFINE T == {0} \cup {payout[p].end : p \in LeftForCampay}
<1>1. Ends \subseteq 0..now
  <2>1. \A p \in Rows : payout[p].end \in 0..now
    <3>1. \A p \in Rows : p \in Payouts
      BY DEF Rows
    <3> QED
      BY <3>1, CashoutTypes DEF RowsInv
  <2> QED
    BY <2>1, CashoutTypes DEF Ends, RowsInv
<1>2. T \subseteq Ends /\ T # {}
  BY DEF Ends, LeftForCampay
<1>3. Cutoff \in T
  BY <1>1, <1>2, CashoutTypes, MaxIn DEF Cutoff
<1>4. Balance = SumBooked({e \in Entries : bookedAt[e] > Cutoff}) - SumPaid(PaidAfter(Cutoff))
  BY DEF Balance, PaidAfter
<1> HIDE DEF T
<1>5. Cutoff \in Ends /\ Cutoff \in Nat
  <2>1. now \in Nat
    BY CashoutTypes
  <2> QED
    BY <1>1, <1>2, <1>3, <2>1
<1>6. Balance \in Int
  <2>1. \A S : SumBooked(S) \in Int /\ SumPaid(S) \in Int
    BY SumsAre, TotalType, NetType, CashoutTypes
  <2> QED
    BY <1>4, <2>1
<1> QED
  BY <1>1, <1>4, <1>5, <1>6

(* A step of one handler that writes no row. *)
LEMMA HandlerMoves ==
    ASSUME CashoutTypeOK, MoneyInv, NEW h \in Handlers, NEW x \in HandlerRow,
           hs' = [hs EXCEPT ![h] = x], UNCHANGED <<world, tag, payout, now>>,
           stale' = 0 => stale = 0, stale' = 0 /\ late' = 0 => late = 0,
           HandlerFits(x), stale' = 0 => Covered(x),
           stale' = 0 /\ late' = 0 => CoveredInPeriod(x)
    PROVE  MoneyInv'
<1>1. \A g \in Handlers : hs'[g] = IF g = h THEN x ELSE hs[g]
  BY CashoutTypes
<1>2. /\ kind' = kind /\ amount' = amount /\ bookedAt' = bookedAt /\ tag' = tag
      /\ payout' = payout /\ now' = now
  BY DEF world
<1>3. /\ Rows' = Rows /\ Ends' = Ends /\ Starts' = Starts /\ OpenEnds' = OpenEnds
      /\ Entries' = Entries /\ Orders' = Orders
  BY <1>2 DEF Rows, Ends, Starts, OpenEnds, Entries, Orders
<1>4. /\ \A t : PaidBy(t)' = PaidBy(t) /\ PaidAfter(t)' = PaidAfter(t) /\ BookedBy(t)' = BookedBy(t)
      /\ \A S : SumBooked(S)' = SumBooked(S) /\ SumPaid(S)' = SumPaid(S)
  BY <1>2, <1>3 DEF PaidBy, PaidAfter, BookedBy, SumBooked, SumPaid, Payouts
<1>5. RowsInv'
  BY <1>1, <1>2, <1>3 DEF MoneyInv, RowsInv, HandlerFits, Reading
<1>6. ChainInv' /\ ListedInv'
  BY <1>2, <1>3 DEF MoneyInv, ChainInv, ListedInv
<1>7. ASSUME NEW g \in Handlers
      PROVE  /\ stale' = 0 => Covered(hs[g])'
             /\ stale' = 0 /\ late' = 0 => CoveredInPeriod(hs[g])'
  <2>1. /\ stale' = 0 => Covered(hs'[g])
        /\ stale' = 0 /\ late' = 0 => CoveredInPeriod(hs'[g])
    BY <1>1 DEF MoneyInv, EarnedInv, OwedInv
  <2> QED
    BY <1>2, <1>3, <1>4, <2>1 DEF Covered, CoveredInPeriod, Reading
<1>8. EarnedInv'
  BY <1>3, <1>4, <1>7 DEF MoneyInv, EarnedInv
<1>9. OwedInv'
  BY <1>3, <1>4, <1>7 DEF MoneyInv, OwedInv
<1> QED
  BY <1>5, <1>6, <1>8, <1>9 DEF MoneyInv

(* One that reads nothing it will pay by. *)
LEMMA HandlerNotReading ==
    ASSUME CashoutTypeOK, MoneyInv, NEW h \in Handlers, NEW x \in HandlerRow,
           hs' = [hs EXCEPT ![h] = x], UNCHANGED <<world, tag, payout, now, stale, late>>,
           x.end <= now, ~Reading(x)
    PROVE  MoneyInv'
  BY HandlerMoves DEF HandlerFits, Covered, CoveredInPeriod

(* A handler at rest. *)
LEMMA AtRestFits ==
    ASSUME CashoutTypeOK
    PROVE  /\ CashoutAtRest \in HandlerRow /\ CashoutAtRest.end <= now /\ ~Reading(CashoutAtRest)
           /\ CashoutAtRest.at = "idle" /\ CashoutAtRest.req = NoRow
  BY CashoutTypes DEF CashoutAtRest, HandlerRow, HandlerStep, Reading

(* A handler that stops.                                                   *)
LEMMA StopKeeps ==
    ASSUME CashoutTypeOK, MoneyInv, NEW h \in Handlers, Stops(h),
           UNCHANGED <<world, tag, payout, now, stale, late>>
    PROVE  MoneyInv'
  BY HandlerNotReading, AtRestFits DEF Stops

(* What a handler that begins is about: a sweep, a request being made, or  *)
(* one that waits for a decision.                                          *)
BeginsAs(x) ==
    \/ /\ x.at = "balance" /\ x.req = NoRow /\ kind # "INFORMAL" /\ UNCHANGED overlap
    \/ /\ x.at = "create" /\ x.req = NoRow /\ kind = "INFORMAL"
       /\ (\A r \in Requests : ~IsPending(r)) /\ Overlaps(NoRow)
    \/ /\ x.at \in {"balance", "reject"} /\ x.req \in Requests
       /\ IsPending(x.req) /\ Overlaps(x.req)

(* The records that calls and ticks start with. *)
LEMMA StartKeeps ==
    ASSUME CashoutTypeOK, MoneyInv, NEW h \in Handlers,
           \/ VendorCronStart(h) \/ RiderCronStart(h) \/ RequestStart(h)
           \/ \E r \in Requests : ApproveStart(h, r) \/ RejectStart(h, r)
    PROVE  /\ MoneyInv'
           /\ \E x \in HandlerRow :
                /\ hs' = [hs EXCEPT ![h] = x] /\ BeginsAs(x)
                /\ UNCHANGED <<world, rows, now, stale, late>>
<1>1. ASSUME NEW x \in HandlerRow, hs' = [hs EXCEPT ![h] = x], BeginsAs(x),
             UNCHANGED <<world, rows, now, stale, late>>, x.end <= now
      PROVE  MoneyInv'
  <2>1. ~Reading(x)
    BY <1>1 DEF BeginsAs, Reading
  <2> QED
    BY <1>1, <2>1, HandlerNotReading DEF rows
<1>2. now \in Nat /\ 0 <= now /\ now <= now
  BY CashoutTypes
<1>3. CASE VendorCronStart(h) \/ RiderCronStart(h)
  <2> DEFINE x == [CashoutAtRest EXCEPT !.at = "balance", !.end = now]
  <2>1. /\ hs' = [hs EXCEPT ![h] = x] /\ UNCHANGED <<world, rows, now, stale, late, overlap>>
        /\ kind # "INFORMAL"
    BY <1>3 DEF VendorCronStart, RiderCronStart, SweepStart, ghosts
  <2>2. CashoutAtRest \in HandlerRow /\ CashoutAtRest.req = NoRow
    BY AtRestFits
  <2>3. x.at = "balance" /\ x.req = NoRow /\ x.end = now
    BY <2>2 DEF HandlerRow
  <2>4. x \in HandlerRow
    BY <1>2, <2>2 DEF HandlerRow, HandlerStep
  <2> HIDE DEF x
  <2>5. BeginsAs(x)
    BY <2>1, <2>3 DEF BeginsAs
  <2> QED
    BY <1>1, <1>2, <2>1, <2>3, <2>4, <2>5
<1>4. CASE RequestStart(h)
  <2> DEFINE x == [CashoutAtRest EXCEPT !.at = "create"]
  <2>1. /\ hs' = [hs EXCEPT ![h] = x] /\ UNCHANGED <<world, rows, now, stale, late>>
        /\ kind = "INFORMAL" /\ (\A r \in Requests : ~IsPending(r)) /\ Overlaps(NoRow)
    BY <1>4 DEF RequestStart
  <2>2. x = [at |-> "create", req |-> NoRow, start |-> 0, end |-> 0, bal |-> 0]
    BY DEF CashoutAtRest
  <2> HIDE DEF x
  <2>3. x.at = "create" /\ x.req = NoRow /\ x.end = 0
    BY <2>2
  <2>4. x \in HandlerRow
    BY <1>2, <2>2 DEF HandlerRow, HandlerStep
  <2>5. BeginsAs(x)
    BY <2>1, <2>3 DEF BeginsAs
  <2> QED
    BY <1>1, <1>2, <2>1, <2>3, <2>4, <2>5
<1>5. ASSUME NEW r \in Requests, ApproveStart(h, r) \/ RejectStart(h, r)
      PROVE  /\ MoneyInv'
             /\ \E x \in HandlerRow :
                  /\ hs' = [hs EXCEPT ![h] = x] /\ BeginsAs(x)
                  /\ UNCHANGED <<world, rows, now, stale, late>>
  <2>1. PICK step \in {"balance", "reject"} :
          /\ hs' = [hs EXCEPT ![h] = [CashoutAtRest EXCEPT !.at = step, !.req = r]]
          /\ UNCHANGED <<world, rows, now, stale, late>> /\ IsPending(r) /\ Overlaps(r)
    BY <1>5 DEF ApproveStart, RejectStart
  <2> DEFINE x == [CashoutAtRest EXCEPT !.at = step, !.req = r]
  <2>2. CashoutAtRest \in HandlerRow /\ CashoutAtRest.end <= now
    BY AtRestFits
  <2>3. hs' = [hs EXCEPT ![h] = x]
    BY <2>1
  <2>4. x.at = step /\ x.req = r /\ x.end = CashoutAtRest.end
    BY <2>2 DEF HandlerRow
  <2>5. x \in HandlerRow
    BY <2>2 DEF HandlerRow, HandlerStep
  <2> HIDE DEF x
  <2>6. BeginsAs(x)
    BY <2>1, <2>4 DEF BeginsAs
  <2> QED
    BY <1>1, <1>2, <2>1, <2>2, <2>3, <2>4, <2>5, <2>6
<1> QED
  BY <1>3, <1>4, <1>5

(* Sums over the ledger and the rows there are. *)
LEMMA SumsHere ==
    ASSUME CashoutTypeOK
    PROVE  /\ \A S : SumBooked(S) \in Int /\ SumPaid(S) \in Int
           /\ \A S, T : S \cap T = {} => /\ SumBooked(S \cup T) = SumBooked(S) + SumBooked(T)
                                         /\ SumPaid(S \cup T) = SumPaid(S) + SumPaid(T)
           /\ \A S, T : (\A e \in Entries : /\ e \in S /\ e \notin T => amount[e] <= 0
                                            /\ e \in T /\ e \notin S => amount[e] >= 0)
                 => SumBooked(S) <= SumBooked(T)
           /\ \A S, T : S \subseteq T /\ (\A p \in Payouts \cap T : payout[p].net >= 0)
                 => SumPaid(S) <= SumPaid(T)
<1>1. amount \in Seq(Int) /\ Entries = DOMAIN amount /\ payout \in [Payouts -> PayoutRow]
  BY CashoutTypes
<1>2. \A S : SumBooked(S) = Total(amount, S) /\ SumPaid(S) = NetOf(payout, S)
  BY SumsAre
<1>3. \A S : SumBooked(S) \in Int /\ SumPaid(S) \in Int
  BY <1>1, <1>2, TotalType, NetType
<1>4. \A S, T : S \cap T = {} => /\ SumBooked(S \cup T) = SumBooked(S) + SumBooked(T)
                                 /\ SumPaid(S \cup T) = SumPaid(S) + SumPaid(T)
  BY <1>1, <1>2, TotalAdds, NetAdds
<1>5. \A S, T : (\A e \in Entries : /\ e \in S /\ e \notin T => amount[e] <= 0
                                    /\ e \in T /\ e \notin S => amount[e] >= 0)
                 => SumBooked(S) <= SumBooked(T)
  BY <1>1, <1>2, TotalGrows
<1>6. \A S, T : S \subseteq T /\ (\A p \in Payouts \cap T : payout[p].net >= 0)
                 => SumPaid(S) <= SumPaid(T)
  BY <1>1, <1>2, NetGrows
<1> QED
  BY <1>3, <1>4, <1>5, <1>6

(* The balance that a handler reads is covered at that time. *)
LEMMA ReadBalanceKeeps ==
    ASSUME CashoutTypeOK, MoneyInv, NEW h \in Handlers, ReadBalance(h)
    PROVE  /\ MoneyInv'
           /\ \E x \in HandlerRow : /\ hs' = [hs EXCEPT ![h] = x] /\ UNCHANGED <<world, rows, now, overlap>>
                                    /\ x.at \in {"idle", "disputes"} /\ x.req \in {hs[h].req, NoRow}
                                    /\ x.at # "idle" => x.req = hs[h].req
                                    /\ x.at = "idle" => x.req = NoRow
<1>1. CASE Balance < MinPayout
  <2>1. Stops(h) /\ UNCHANGED <<world, rows, now, stale, late, overlap>>
    BY <1>1 DEF ReadBalance
  <2>2. MoneyInv'
    BY <2>1, StopKeeps DEF rows
  <2>3. hs' = [hs EXCEPT ![h] = CashoutAtRest]
    BY <2>1 DEF Stops
  <2> QED
    BY <2>1, <2>2, <2>3, AtRestFits
<1>2. CASE ~(Balance < MinPayout)
  <2> DEFINE r == hs[h]
             x == [r EXCEPT !.at = "disputes", !.bal = Balance, !.start = Cutoff,
                            !.end = IF r.req = NoRow THEN r.end ELSE now]
             E == {e \in Entries : bookedAt[e] > Cutoff}
  <2>1. /\ hs' = [hs EXCEPT ![h] = x] /\ UNCHANGED <<world, rows, now, stale, overlap>>
        /\ late' = IF r.req = NoRow /\ (\E e \in Entries : bookedAt[e] > r.end) THEN 1 ELSE late
    <3>1. r \in HandlerRow
      BY CashoutTypes
    <3> QED
      BY <1>2, <3>1, CashoutTypes DEF ReadBalance
  <2>2. /\ Cutoff \in Ends /\ Cutoff \in Nat /\ Ends \subseteq 0..now
        /\ Balance = SumBooked(E) - SumPaid(PaidAfter(Cutoff)) /\ Balance \in Int
    BY CutoffIsEnd DEF MoneyInv
  <2>3. Balance >= 1
    BY <1>2, <2>2, MoneyAssumption
  <2>4. r \in HandlerRow /\ now \in Nat
    BY CashoutTypes
  <2>5. r.end <= now
    BY DEF MoneyInv, RowsInv, HandlerFits
  <2> HIDE DEF r, E
  <2>6. x \in HandlerRow
    BY <2>2, <2>4 DEF HandlerRow, HandlerStep
  <2>7. /\ x.at = "disputes" /\ x.bal = Balance /\ x.start = Cutoff /\ x.req = r.req
        /\ x.end = IF r.req = NoRow THEN r.end ELSE now
    BY <2>2, <2>4 DEF HandlerRow
  <2> HIDE DEF x
  <2>8. HandlerFits(x)
    BY <2>2, <2>3, <2>4, <2>5, <2>7 DEF HandlerFits, HandlerRow
  <2>9. Covered(x)
    <3>1. SumBooked(E) <= SumBooked({e \in Orders : bookedAt[e] > Cutoff})
      <4> DEFINE F == {e \in Orders : bookedAt[e] > Cutoff}
      <4>1. \A e \in Entries : /\ e \in E /\ e \notin F => amount[e] <= 0
                               /\ e \in F /\ e \notin E => amount[e] >= 0
        BY CashoutTypes DEF E, Orders
      <4> HIDE DEF F, E
      <4>2. SumBooked(E) <= SumBooked(F)
        BY <4>1, SumsHere
      <4> QED
        BY <4>2 DEF F
    <3>2. \A S : SumBooked(S) \in Int /\ SumPaid(S) \in Int
      BY SumsHere
    <3> QED
      BY <2>2, <2>7, <3>1, <3>2 DEF Covered
  <2>10. late' = 0 => CoveredInPeriod(x)
    <3> SUFFICES ASSUME late' = 0
                 PROVE  x.bal + SumPaid(PaidAfter(x.start))
                   <= SumBooked({e \in Entries : x.start < bookedAt[e] /\ bookedAt[e] <= x.end})
      BY DEF CoveredInPeriod
    <3>1. \A e \in Entries : bookedAt[e] <= x.end
      <4>1. CASE r.req = NoRow
        BY <2>1, <2>4, <2>7, <4>1, CashoutTypes DEF HandlerRow
      <4>2. CASE r.req # NoRow
        BY <2>7, <4>2 DEF MoneyInv, RowsInv
      <4> QED
        BY <4>1, <4>2
    <3>2. {e \in Entries : x.start < bookedAt[e] /\ bookedAt[e] <= x.end} = E
      BY <2>2, <2>7, <3>1, CashoutTypes DEF E
    <3>3. \A S : SumBooked(S) \in Int /\ SumPaid(S) \in Int
      BY SumsHere
    <3> QED
      BY <2>2, <2>7, <3>2, <3>3
  <2>11. late' = 0 => late = 0
    BY <2>1
  <2>12. MoneyInv'
    BY <2>1, <2>6, <2>8, <2>9, <2>10, <2>11, HandlerMoves DEF rows
  <2> QED
    BY <2>1, <2>6, <2>7, <2>12 DEF r
<1> QED
  BY <1>1, <1>2

(* It still is when the period is read: at the same start, or else it is   *)
(* stale; with no penalty in between, or else it is late.                  *)
LEMMA ReadPeriodKeeps ==
    ASSUME CashoutTypeOK, MoneyInv, NEW h \in Handlers, ReadPeriod(h)
    PROVE  /\ MoneyInv'
           /\ \E x \in HandlerRow : /\ hs' = [hs EXCEPT ![h] = x] /\ UNCHANGED <<world, rows, now, overlap>>
                                    /\ x.at \in {"idle", "commit"}
                                    /\ x.at # "idle" => x.req = hs[h].req
                                    /\ x.at = "idle" => x.req = NoRow
<1>1. CASE Stops(h) /\ UNCHANGED <<stale, late>>
  <2>1. Stops(h) /\ UNCHANGED <<world, rows, now, stale, late, overlap>>
    BY <1>1 DEF ReadPeriod
  <2>2. MoneyInv'
    BY <2>1, StopKeeps DEF rows
  <2>3. hs' = [hs EXCEPT ![h] = CashoutAtRest]
    BY <2>1 DEF Stops
  <2> QED
    BY <2>1, <2>2, <2>3, AtRestFits
<1>2. CASE ~(Stops(h) /\ UNCHANGED <<stale, late>>)
  <2> DEFINE r == hs[h]
             x == [r EXCEPT !.at = "commit", !.start = Cutoff,
                            !.end = IF r.req = NoRow THEN r.end ELSE now]
  <2>1. /\ hs' = [hs EXCEPT ![h] = x] /\ UNCHANGED <<world, rows, now, overlap>>
        /\ r.at = "disputes"
        /\ stale' = IF Cutoff = r.start THEN stale ELSE 1
        /\ late' = IF r.req # NoRow /\ PenaltyAfter(r.end) THEN 1 ELSE late
    <3>1. r \in HandlerRow
      BY CashoutTypes
    <3> QED
      BY <1>2, <3>1, CashoutTypes DEF ReadPeriod, Is
  <2>2. Cutoff \in Ends /\ Cutoff \in Nat
    BY CutoffIsEnd DEF MoneyInv
  <2>3. r \in HandlerRow /\ now \in Nat /\ r.end \in Nat /\ r.start \in Nat
    BY CashoutTypes
  <2>4. r.end <= now /\ r.bal >= 1
    BY <2>1 DEF MoneyInv, RowsInv, HandlerFits, Reading
  <2>5. /\ stale = 0 => Covered(r)
        /\ stale = 0 /\ late = 0 => CoveredInPeriod(r)
    BY DEF MoneyInv, EarnedInv, OwedInv
  <2> HIDE DEF r
  <2>6. x \in HandlerRow
    BY <2>2, <2>3 DEF HandlerRow, HandlerStep
  <2>7. /\ x.at = "commit" /\ x.bal = r.bal /\ x.start = Cutoff /\ x.req = r.req
        /\ x.end = IF r.req = NoRow THEN r.end ELSE now
    BY <2>2, <2>3 DEF HandlerRow
  <2> HIDE DEF x
  <2>8. HandlerFits(x)
    BY <2>2, <2>3, <2>4, <2>7 DEF HandlerFits, HandlerRow
  <2>9. stale' = 0 => Cutoff = r.start /\ stale = 0
    BY <2>1
  <2>10. stale' = 0 => Covered(x)
    BY <2>1, <2>5, <2>7, <2>9 DEF Covered, Reading
  <2>11. stale' = 0 /\ late' = 0 => CoveredInPeriod(x)
    <3> SUFFICES ASSUME stale' = 0, late' = 0, x.start \in OpenEnds
                 PROVE  x.bal + SumPaid(PaidAfter(x.start))
                   <= SumBooked({e \in Entries : x.start < bookedAt[e] /\ bookedAt[e] <= x.end})
      BY DEF CoveredInPeriod
    <3> DEFINE D == {e \in Entries : r.start < bookedAt[e] /\ bookedAt[e] <= r.end}
               F == {e \in Entries : x.start < bookedAt[e] /\ bookedAt[e] <= x.end}
    <3>1. x.bal + SumPaid(PaidAfter(x.start)) <= SumBooked(D)
      BY <2>1, <2>5, <2>7, <2>9 DEF CoveredInPeriod, Reading
    <3>2. \A e \in Entries : /\ e \in D /\ e \notin F => amount[e] <= 0
                             /\ e \in F /\ e \notin D => amount[e] >= 0
      <4>1. x.start = r.start /\ r.end <= x.end
        BY <2>3, <2>4, <2>7, <2>9
      <4>2. ASSUME NEW e \in Entries, e \in F, e \notin D PROVE amount[e] >= 0
        <5>1. bookedAt[e] > r.end /\ r.req # NoRow
          BY <2>3, <2>7, <4>1, <4>2, CashoutTypes
        <5> QED
          BY <2>1, <5>1, CashoutTypes DEF PenaltyAfter
      <4>3. ASSUME NEW e \in Entries, e \in D PROVE e \in F
        BY <2>3, <2>7, <4>1, <4>3, CashoutTypes
      <4> QED
        BY <4>2, <4>3
    <3> HIDE DEF D, F
    <3>3. SumBooked(D) <= SumBooked(F)
      BY <3>2, SumsHere
    <3>4. SumBooked(D) \in Int /\ SumBooked(F) \in Int /\ SumPaid(PaidAfter(x.start)) \in Int /\ x.bal \in Int
      BY <2>3, <2>7, SumsHere DEF HandlerRow
    <3>5. x.bal + SumPaid(PaidAfter(x.start)) <= SumBooked(F)
      BY <3>1, <3>3, <3>4
    <3> QED
      BY <3>5 DEF F
  <2>12. late' = 0 => late = 0
    BY <2>1
  <2>13. MoneyInv'
    BY <2>1, <2>6, <2>8, <2>9, <2>10, <2>11, <2>12, HandlerMoves DEF rows
  <2> QED
    BY <2>1, <2>6, <2>7, <2>13 DEF r
<1> QED
  BY <1>1, <1>2

(* A row written by h: its period is the end of the chain, and pays what h *)
(* read there.                                                             *)
LEMMA CommitKeeps ==
    ASSUME CashoutTypeOK, MoneyInv, NEW h \in Handlers, CommitPayout(h)
    PROVE  MoneyInv'
<1>1. /\ hs[h].at = "commit" /\ Stops(h)
      /\ kind' = kind /\ amount' = amount /\ bookedAt' = bookedAt
      /\ stale' = stale /\ late' = late
  BY DEF CommitPayout, Is, world, ghosts
<1>2. CASE StartIsTaken(hs[h].start)
  <2>1. UNCHANGED <<world, tag, payout, now, stale, late>>
    BY <1>2 DEF CommitPayout, rows, ghosts
  <2> QED
    BY <1>1, <2>1, StopKeeps
<1>3. CASE ~StartIsTaken(hs[h].start)
  <2> DEFINE s == hs[h].start
             e == hs[h].end
             bal == hs[h].bal
  <2>1. PICK p \in Payouts :
          /\ p = Cardinality(Rows) + 1
          /\ payout' = [payout EXCEPT ![p] = [status |-> "unsent", start |-> s, end |-> e,
                                             at |-> now + 1, net |-> bal]]
          /\ now' = now + 1
          /\ tag' = [o \in Orders |-> IF Listed(o, s, e) THEN p ELSE tag[o]]
    BY <1>3 DEF CommitPayout
  <2>2. s \in Nat /\ e \in Nat /\ bal \in Int /\ now \in Nat /\ p \in Nat \ {0}
    BY CashoutTypes, BoundAssumption DEF Payouts
  <2>3. e <= now /\ s \in Ends /\ bal >= 1 /\ s \notin Starts
    <3>1. HandlerFits(hs[h]) /\ Reading(hs[h])
      BY <1>1 DEF MoneyInv, RowsInv, Reading
    <3>2. s \notin Starts
      BY <1>3 DEF StartIsTaken, Starts
    <3> QED
      BY <3>1, <3>2 DEF HandlerFits
  <2>4. /\ stale = 0 => Covered(hs[h])
        /\ stale = 0 /\ late = 0 => CoveredInPeriod(hs[h])
    BY DEF MoneyInv, EarnedInv, OwedInv
  <2>5. hs'[h] = CashoutAtRest /\ \A g \in Handlers : g # h => hs'[g] = hs[g]
    BY <1>1, CashoutTypes DEF Stops
  <2>6. s \in OpenEnds
    BY <2>3 DEF OpenEnds
  <2>7. /\ stale = 0 =>
             bal + SumPaid(PaidAfter(s)) <= SumBooked({o \in Orders : bookedAt[o] > s})
        /\ stale = 0 /\ late = 0 =>
             bal + SumPaid(PaidAfter(s))
               <= SumBooked({x \in Entries : s < bookedAt[x] /\ bookedAt[x] <= e})
    BY <1>1, <2>4, <2>6 DEF Covered, CoveredInPeriod, Reading
  <2> HIDE DEF s, e, bal
  <2>8. /\ Entries' = Entries /\ Orders' = Orders
        /\ \A S : SumBooked(S)' = SumBooked(S)
        /\ \A t : BookedBy(t)' = BookedBy(t)
    BY <1>1 DEF Entries, Orders, SumBooked, BookedBy
  <2>9. Cardinality(Rows) \in Nat /\ Rows = 1..Cardinality(Rows) /\ p \notin Rows
    <3>1. IsFiniteSet(Rows)
      <4>1. IsFiniteSet(Payouts) /\ Rows \subseteq Payouts
        BY BoundAssumption, FS_Interval DEF Payouts, Rows
      <4> QED
        BY <4>1, FS_Subset
    <3>2. Cardinality(Rows) \in Nat
      BY <3>1, FS_CardinalityType
    <3> QED
      BY <2>1, <3>2 DEF MoneyInv, RowsInv
  <2> DEFINE row == [status |-> "unsent", start |-> s, end |-> e, at |-> now + 1, net |-> bal]
  <2>10. row \in PayoutRow /\ payout \in [Payouts -> PayoutRow]
    BY <2>2, CashoutTypes DEF PayoutRow, PayoutStatus
  <2>11. /\ row.status # "none" /\ row.start = s /\ row.end = e /\ row.at = now + 1
         /\ row.net = bal
    OBVIOUS
  <2>12. payout' = [payout EXCEPT ![p] = row]
    BY <2>1
  <2> HIDE DEF row
  <2>13. payout'[p] = row /\ \A q \in Payouts : q # p => payout'[q] = payout[q]
    BY <2>10, <2>12
  <2>14. Rows' = Rows \cup {p}
    <3>1. Rows' = {q \in Payouts : payout'[q].status # "none"}
      BY DEF Rows, Payouts
    <3>2. Rows = {q \in Payouts : payout[q].status # "none"}
      BY DEF Rows
    <3> QED
      BY <2>11, <2>13, <3>1, <3>2
  <2>15. \A q \in Rows : q \in Payouts /\ q # p /\ payout'[q] = payout[q]
    BY <2>9, <2>13 DEF Rows
  <2>16. Ends' = Ends \cup {e} /\ Starts' = Starts \cup {s}
    <3>1. Ends' = {0} \cup {payout'[q].end : q \in Rows \cup {p}}
      BY <2>14 DEF Ends
    <3>2. Starts' = {payout'[q].start : q \in Rows \cup {p}}
      BY <2>14 DEF Starts
    <3>3. /\ \A q \in Rows : payout'[q].end = payout[q].end /\ payout'[q].start = payout[q].start
          /\ payout'[p].end = e /\ payout'[p].start = s
      BY <2>11, <2>13, <2>15
    <3>4. {payout'[q].end : q \in Rows \cup {p}} = {payout[q].end : q \in Rows} \cup {e}
      BY <3>3
    <3>5. {payout'[q].start : q \in Rows \cup {p}} = {payout[q].start : q \in Rows} \cup {s}
      BY <3>3
    <3> QED
      BY <3>1, <3>2, <3>4, <3>5 DEF Ends, Starts
  <2>17. \A u \in OpenEnds' : u = e /\ u \notin Ends
    BY <2>6, <2>16 DEF OpenEnds, MoneyInv, ChainInv
  <2>18. /\ \A t \in Nat : t <= now => PaidBy(t)' = PaidBy(t)
         /\ \A t \in Nat : ~(t <= now) => PaidBy(t)' = Rows \cup {p}
    <3>1. \A t : PaidBy(t)' = {q \in Rows \cup {p} : payout'[q].at <= t}
      BY <2>14 DEF PaidBy
    <3>2. \A q \in Rows : payout[q].at \in Nat /\ payout[q].at <= now
      BY <2>15, CashoutTypes DEF MoneyInv, RowsInv
    <3>3. ASSUME NEW t \in Nat, t <= now PROVE PaidBy(t)' = PaidBy(t)
      BY <2>2, <2>11, <2>13, <2>15, <3>1, <3>3 DEF PaidBy
    <3>4. ASSUME NEW t \in Nat, ~(t <= now) PROVE PaidBy(t)' = Rows \cup {p}
      BY <2>2, <2>11, <2>13, <2>15, <3>1, <3>2, <3>4
    <3> QED
      BY <3>3, <3>4
  <2>19. NetOf(payout', Rows \cup {p}) = NetOf(payout, Rows) + bal
    <3>1. NetOf([payout EXCEPT ![p] = row], Rows \cup {p}) = NetOf(payout, Rows) + row.net
      <4>1. p \in Payouts /\ p \notin Rows /\ row \in PayoutRow /\ payout \in [Payouts -> PayoutRow]
        BY <2>9, <2>10
      <4> HIDE DEF PayoutRow
      <4> QED
        BY <4>1, NetOneMore, Zenon
    <3> QED
      BY <2>11, <2>12, <3>1
  <2>20. \A t : PaidBy(t) \subseteq Rows
    BY DEF PaidBy
  <2>21. /\ SumPaid(Rows) = SumPaid(PaidBy(s)) + SumPaid(PaidAfter(s))
         /\ \A S : SumBooked(S) \in Int /\ SumPaid(S) \in Int
    <3>1. Rows = PaidBy(s) \cup PaidAfter(s) /\ PaidBy(s) \cap PaidAfter(s) = {}
      <4>1. \A q \in Rows : payout[q].at \in Nat
        BY <2>15, CashoutTypes
      <4> QED
        BY <2>2, <4>1 DEF PaidBy, PaidAfter
    <3>2. SumPaid(PaidBy(s) \cup PaidAfter(s)) = SumPaid(PaidBy(s)) + SumPaid(PaidAfter(s))
      BY <3>1, SumsHere
    <3>3. \A S : SumBooked(S) \in Int /\ SumPaid(S) \in Int
      BY SumsHere
    <3> QED
      BY <3>1, <3>2, <3>3
  <2>22. RowsInv'
    <3>1. Rows' = 1..Cardinality(Rows')
      <4>1. Rows' = 1..p
        BY <2>1, <2>9, <2>14
      <4>2. Cardinality(1..p) = p
        BY <2>2, FS_Interval
      <4> QED
        BY <4>1, <4>2
    <3>2. now' >= 1
      BY <2>1, <2>2
    <3>3. ASSUME NEW q \in Rows'
          PROVE  payout'[q].end < payout'[q].at /\ payout'[q].at <= now' /\ payout'[q].net >= 1
      <4>1. CASE q = p
        BY <2>1, <2>2, <2>3, <2>11, <2>13, <4>1
      <4>2. CASE q \in Rows
        <5>1. /\ payout[q].end < payout[q].at /\ payout[q].at <= now /\ payout[q].net >= 1
              /\ payout[q].at \in Nat
          BY <2>15, <4>2, CashoutTypes DEF MoneyInv, RowsInv
        <5> QED
          BY <2>1, <2>2, <2>15, <4>2, <5>1
      <4> QED
        BY <2>14, <4>1, <4>2
    <3>4. \A x \in Entries' : bookedAt'[x] <= now'
      BY <1>1, <2>1, <2>2, <2>8, CashoutTypes DEF MoneyInv, RowsInv
    <3>5. ASSUME NEW g \in Handlers PROVE HandlerFits(hs[g])'
      <4>1. CASE g = h
        BY <2>1, <2>2, <2>5, <4>1, AtRestFits DEF HandlerFits, CashoutAtRest, Reading
      <4>2. CASE g # h
        <5>1. HandlerFits(hs[g]) /\ hs[g].end \in Nat /\ hs'[g] = hs[g]
          BY <2>5, <4>2, CashoutTypes DEF MoneyInv, RowsInv
        <5> QED
          BY <2>1, <2>2, <2>16, <5>1 DEF HandlerFits, Reading
      <4> QED
        BY <4>1, <4>2
    <3> QED
      BY <3>1, <3>2, <3>3, <3>4, <3>5 DEF RowsInv, Handlers
  <2>23. ChainInv'
    BY <2>17 DEF ChainInv
  <2>24. ASSUME NEW g \in Handlers PROVE Covered(hs[g])' /\ CoveredInPeriod(hs[g])'
    <3>1. CASE g = h
      BY <2>5, <3>1 DEF Covered, CoveredInPeriod, CashoutAtRest, Reading
    <3>2. CASE g # h
      <4>1. HandlerFits(hs[g]) /\ hs'[g] = hs[g]
        BY <2>5, <3>2 DEF MoneyInv, RowsInv
      <4> QED
        BY <2>17, <4>1 DEF Covered, CoveredInPeriod, HandlerFits, Reading
    <3> QED
      BY <3>1, <3>2
  <2>25. ASSUME stale = 0, NEW t \in Nat
         PROVE  SumPaid(PaidBy(t))' <= SumBooked(BookedBy(t) \cap Orders)'
    <3>1. SumBooked(BookedBy(t) \cap Orders)' = SumBooked(BookedBy(t) \cap Orders)
      BY <2>8, <1>1 DEF SumBooked
    <3>2. CASE t <= now
      <4>1. SumPaid(PaidBy(t))' = SumPaid(PaidBy(t))
        <5>1. SumPaid(PaidBy(t))' = NetOf(payout', PaidBy(t)') /\ SumPaid(PaidBy(t)) = NetOf(payout, PaidBy(t))
          BY DEF SumPaid, NetOf, Payouts
        <5>2. \A q \in Payouts \cap PaidBy(t) : payout'[q].net = payout[q].net
          BY <2>15, <2>20
        <5> QED
          BY <2>18, <3>2, <5>1, <5>2, NetSame
      <4> QED
        BY <2>25, <3>1, <4>1 DEF MoneyInv, EarnedInv
    <3>3. CASE ~(t <= now)
      <4>1. SumPaid(PaidBy(t))' = SumPaid(Rows) + bal
        <5>1. SumPaid(PaidBy(t))' = NetOf(payout', PaidBy(t)') /\ SumPaid(Rows) = NetOf(payout, Rows)
          BY DEF SumPaid, NetOf, Payouts
        <5> QED
          BY <2>18, <2>19, <3>3, <5>1
      <4> DEFINE A == BookedBy(s) \cap Orders
                 B == {o \in Orders : bookedAt[o] > s}
      <4>2. BookedBy(t) \cap Orders = A \cup B /\ A \cap B = {}
        <5>1. \A o \in Orders : o \in Entries /\ bookedAt[o] \in Nat /\ bookedAt[o] <= now
          BY CashoutTypes DEF Orders, MoneyInv, RowsInv
        <5>2. s <= now
          BY <2>2, <2>3, CutoffIsEnd DEF MoneyInv
        <5> QED
          BY <2>2, <3>3, <5>1, <5>2 DEF BookedBy
      <4>3. bal + SumPaid(PaidAfter(s)) <= SumBooked(B)
        BY <2>7, <2>25
      <4> HIDE DEF A, B
      <4>4. SumBooked(A \cup B) = SumBooked(A) + SumBooked(B)
        BY <4>2, SumsHere
      <4>5. SumPaid(PaidBy(s)) <= SumBooked(A)
        BY <2>2, <2>25 DEF A, MoneyInv, EarnedInv
      <4>6. SumPaid(Rows) + bal <= SumBooked(A) + SumBooked(B)
        BY <2>2, <2>21, <4>3, <4>5
      <4> QED
        BY <3>1, <4>1, <4>2, <4>4, <4>6
    <3> QED
      BY <3>2, <3>3, <2>2
  <2>26. EarnedInv'
    BY <1>1, <2>24, <2>25 DEF EarnedInv, Handlers
  <2>27. ASSUME stale = 0, late = 0, NEW u \in Ends'
         PROVE  SumPaid(PaidBy(u))' <= SumBooked(BookedBy(u))'
    <3>1. u \in Nat /\ u <= now
      BY <2>2, <2>3, <2>16, CutoffIsEnd DEF MoneyInv
    <3>2. SumBooked(BookedBy(u))' = SumBooked(BookedBy(u))
      BY <2>8, <1>1 DEF SumBooked
    <3>3. SumPaid(PaidBy(u))' = SumPaid(PaidBy(u))
      <4>1. SumPaid(PaidBy(u))' = NetOf(payout', PaidBy(u)') /\ SumPaid(PaidBy(u)) = NetOf(payout, PaidBy(u))
        BY DEF SumPaid, NetOf, Payouts
      <4>2. \A q \in Payouts \cap PaidBy(u) : payout'[q].net = payout[q].net
        BY <2>15, <2>20
      <4> QED
        BY <2>18, <3>1, <4>1, <4>2, NetSame
    <3>4. CASE u \in Ends
      BY <2>27, <3>2, <3>3, <3>4 DEF MoneyInv, OwedInv
    <3>5. CASE u = e
      <4> DEFINE D == {x \in Entries : s < bookedAt[x] /\ bookedAt[x] <= e}
      <4>1. bal + SumPaid(PaidAfter(s)) <= SumBooked(D)
        BY <2>7, <2>27
      <4>2. SumPaid({}) = 0 /\ SumBooked({}) = 0
        <5>1. SumPaid({} \cup {}) = SumPaid({}) + SumPaid({}) /\ SumBooked({} \cup {}) = SumBooked({}) + SumBooked({})
          BY SumsHere
        <5>2. {} \cup {} = {}
          OBVIOUS
        <5> QED
          BY <2>21, <5>1, <5>2
      <4>3. \A q \in Payouts \cap Rows : payout[q].net >= 0
        BY <2>15, CashoutTypes DEF MoneyInv, RowsInv
      <4>4. SumPaid({}) <= SumPaid(PaidAfter(s)) /\ SumPaid(PaidBy(e)) <= SumPaid(Rows)
        <5>1. {} \subseteq PaidAfter(s) /\ PaidAfter(s) \subseteq Rows /\ PaidBy(e) \subseteq Rows
          BY DEF PaidAfter, PaidBy
        <5> QED
          BY <4>3, <5>1, SumsHere
      <4>5. s <= e
        <5> SUFFICES ASSUME ~(s <= e) PROVE FALSE
          OBVIOUS
        <5>1. D = {}
          BY <2>2, CashoutTypes
        <5> HIDE DEF D
        <5> QED
          BY <2>2, <2>3, <2>21, <4>1, <4>2, <4>4, <5>1
      <4>6. BookedBy(e) = BookedBy(s) \cup D /\ BookedBy(s) \cap D = {}
        BY <2>2, <4>5, CashoutTypes DEF BookedBy
      <4> HIDE DEF D
      <4>7. SumBooked(BookedBy(e)) = SumBooked(BookedBy(s)) + SumBooked(D)
        BY <4>6, SumsHere
      <4>8. SumPaid(PaidBy(s)) <= SumBooked(BookedBy(s))
        BY <2>3, <2>27 DEF MoneyInv, OwedInv
      <4>9. SumPaid(PaidBy(e)) <= SumBooked(BookedBy(e))
        BY <2>2, <2>3, <2>21, <4>1, <4>4, <4>7, <4>8
      <4> QED
        BY <3>2, <3>3, <3>5, <4>9
    <3> QED
      BY <2>16, <3>4, <3>5
  <2>28. OwedInv'
    BY <1>1, <2>24, <2>27 DEF OwedInv, Handlers
  <2>29. ListedInv'
    <3> SUFFICES ASSUME NEW u \in Ends', NEW o \in Orders, bookedAt[o] \in 1..u
                 PROVE  tag'[o] # NoRow
      BY <1>1, <2>8 DEF ListedInv
    <3>1. tag'[o] = IF Listed(o, s, e) THEN p ELSE tag[o]
      BY <2>1
    <3>2. bookedAt[o] \in Nat
      BY CashoutTypes DEF Orders
    <3>3. CASE u \in Ends
      BY <2>2, <3>1, <3>3 DEF MoneyInv, ListedInv, NoRow
    <3>4. CASE u = e
      <4>1. CASE s < bookedAt[o]
        BY <2>2, <3>1, <3>2, <3>4, <4>1 DEF Listed, NoRow
      <4>2. CASE ~(s < bookedAt[o])
        <5>1. bookedAt[o] \in 1..s
          BY <2>2, <3>2, <4>2
        <5> QED
          BY <2>2, <2>3, <3>1, <5>1 DEF MoneyInv, ListedInv, NoRow
      <4> QED
        BY <4>1, <4>2
    <3> QED
      BY <2>16, <3>3, <3>4
  <2> QED
    BY <2>22, <2>23, <2>26, <2>28, <2>29 DEF MoneyInv
<1> QED
  BY <1>2, <1>3

(* What is booked now is after everything that was read.                   *)
LEMMA BookKeeps ==
    ASSUME CashoutTypeOK, MoneyInv, NEW e \in Entries, Book(e)
    PROVE  MoneyInv'
<1>1. /\ bookedAt[e] = 0 /\ now' = now + 1 /\ bookedAt' = [bookedAt EXCEPT ![e] = now + 1]
      /\ amount' = amount /\ payout' = payout /\ tag' = tag /\ hs' = hs
      /\ stale' = stale /\ late' = late
  BY DEF Book, rows, ghosts
<1>2. /\ now \in Nat /\ \A x \in Entries : bookedAt[x] \in Nat /\ bookedAt[x] <= now
      /\ \A x \in Entries : bookedAt'[x] = IF x = e THEN now + 1 ELSE bookedAt[x]
  BY <1>1, CashoutTypes DEF MoneyInv, RowsInv, CashoutTypeOK
<1>3. /\ Rows' = Rows /\ Ends' = Ends /\ Starts' = Starts /\ OpenEnds' = OpenEnds
      /\ Entries' = Entries /\ Orders' = Orders
  BY <1>1 DEF Rows, Ends, Starts, OpenEnds, Entries, Orders
<1>4. /\ \A t : PaidBy(t)' = PaidBy(t) /\ PaidAfter(t)' = PaidAfter(t)
      /\ \A S : SumPaid(S)' = SumPaid(S)
  BY <1>1, <1>3 DEF PaidBy, PaidAfter, SumPaid, Payouts
<1>5. Ends \subseteq 0..now
  BY CutoffIsEnd DEF MoneyInv
<1>6. \A u \in 0..now, x \in Entries : bookedAt'[x] \in 1..u <=> bookedAt[x] \in 1..u
  BY <1>1, <1>2
<1>7. RowsInv'
  <2>1. \A p \in Rows : payout[p].at \in Nat /\ payout[p].at <= now
    BY CashoutTypes DEF MoneyInv, RowsInv, Rows
  <2>2. \A h \in Handlers : hs[h].end \in Nat /\ HandlerFits(hs[h])
    BY CashoutTypes DEF MoneyInv, RowsInv
  <2>3. \A h \in Handlers : HandlerFits(hs[h])'
    BY <1>1, <1>2, <1>3, <2>2 DEF HandlerFits, Reading
  <2> QED
    BY <1>1, <1>2, <1>3, <2>1, <2>3 DEF MoneyInv, RowsInv, Handlers
<1>8. ChainInv'
  BY <1>3 DEF MoneyInv, ChainInv
<1>9. EarnedInv'
  <2>1. ASSUME stale = 0, NEW t \in Nat
        PROVE  SumPaid(PaidBy(t))' <= SumBooked(BookedBy(t) \cap Orders)'
    <3> DEFINE A == BookedBy(t) \cap Orders
               C == {x \in Orders : bookedAt'[x] \in 1..t}
    <3>1. (BookedBy(t) \cap Orders)' = C
      BY <1>3 DEF BookedBy, Orders
    <3>2. \A x \in Entries : /\ x \in A /\ x \notin C => amount[x] <= 0
                             /\ x \in C /\ x \notin A => amount[x] >= 0
      BY <1>1, <1>2, CashoutTypes DEF BookedBy, Orders
    <3> HIDE DEF A, C
    <3>3. SumBooked(A) <= SumBooked(C)
      BY <3>2, SumsHere
    <3>4. SumBooked(BookedBy(t) \cap Orders)' = SumBooked(C)
      BY <1>1, <1>3, <3>1 DEF SumBooked
    <3>5. SumPaid(PaidBy(t)) <= SumBooked(A)
      BY <2>1 DEF MoneyInv, EarnedInv, A
    <3>6. SumPaid(PaidBy(t)) \in Int /\ SumBooked(A) \in Int /\ SumBooked(C) \in Int
      BY SumsHere
    <3>7. SumPaid(PaidBy(t))' = SumPaid(PaidBy(t))
      BY <1>1, <1>4 DEF SumPaid, Payouts
    <3> QED
      BY <3>3, <3>4, <3>5, <3>6, <3>7
  <2>2. ASSUME stale = 0, NEW h \in Handlers PROVE Covered(hs[h])'
    <3> DEFINE x == hs[h]
               A == {o \in Orders : bookedAt[o] > x.start}
               C == {o \in Orders : bookedAt'[o] > x.start}
    <3>1. Covered(x)
      BY <2>2 DEF MoneyInv, EarnedInv
    <3>2. x.start \in Nat /\ x.bal \in Int
      BY CashoutTypes
    <3>3. \A o \in Entries : /\ o \in A /\ o \notin C => amount[o] <= 0
                             /\ o \in C /\ o \notin A => amount[o] >= 0
      BY <1>1, <1>2, <3>2, CashoutTypes DEF Orders
    <3>4. SumBooked({o \in Orders : bookedAt[o] > hs[h].start})' = SumBooked(C)
      BY <1>1, <1>3 DEF SumBooked
    <3>5. SumPaid(PaidAfter(hs[h].start))' = SumPaid(PaidAfter(x.start))
      BY <1>1, <1>4 DEF SumPaid, Payouts
    <3>6. Reading(x) /\ x.start \in OpenEnds => x.bal + SumPaid(PaidAfter(x.start)) <= SumBooked(A)
      BY <3>1 DEF Covered
    <3> HIDE DEF A, C
    <3>7. SumBooked(A) <= SumBooked(C)
      BY <3>3, SumsHere
    <3>8. SumPaid(PaidAfter(x.start)) \in Int /\ SumBooked(A) \in Int /\ SumBooked(C) \in Int
      BY SumsHere
    <3>9. Reading(x) /\ x.start \in OpenEnds => x.bal + SumPaid(PaidAfter(x.start)) <= SumBooked(C)
      BY <3>2, <3>6, <3>7, <3>8
    <3> QED
      BY <1>1, <1>3, <3>4, <3>5, <3>9 DEF Covered, Reading
  <2> QED
    BY <1>1, <2>1, <2>2 DEF EarnedInv, Handlers
<1>10. OwedInv'
  <2>1. ASSUME stale = 0, late = 0, NEW u \in Ends
        PROVE  SumPaid(PaidBy(u))' <= SumBooked(BookedBy(u))'
    <3>1. BookedBy(u)' = BookedBy(u)
      BY <1>3, <1>5, <1>6 DEF BookedBy
    <3>2. SumBooked(BookedBy(u))' = SumBooked(BookedBy(u)) /\ SumPaid(PaidBy(u))' = SumPaid(PaidBy(u))
      BY <1>1, <1>3, <1>4, <3>1 DEF SumBooked, SumPaid, Payouts
    <3> QED
      BY <2>1, <3>2 DEF MoneyInv, OwedInv
  <2>2. ASSUME stale = 0, late = 0, NEW h \in Handlers PROVE CoveredInPeriod(hs[h])'
    <3>1. CoveredInPeriod(hs[h])
      BY <2>2 DEF MoneyInv, OwedInv
    <3>2. hs[h].start \in Nat /\ hs[h].end \in Nat /\ hs[h].end <= now
      BY CashoutTypes DEF MoneyInv, RowsInv, HandlerFits
    <3>3. {x \in Entries : hs[h].start < bookedAt'[x] /\ bookedAt'[x] <= hs[h].end}
            = {x \in Entries : hs[h].start < bookedAt[x] /\ bookedAt[x] <= hs[h].end}
      BY <1>1, <1>2, <3>2
    <3>4. SumBooked({x \in Entries : hs[h].start < bookedAt[x] /\ bookedAt[x] <= hs[h].end})'
            = SumBooked({x \in Entries : hs[h].start < bookedAt[x] /\ bookedAt[x] <= hs[h].end})
      BY <1>1, <1>3, <3>3 DEF SumBooked
    <3>5. SumPaid(PaidAfter(hs[h].start))' = SumPaid(PaidAfter(hs[h].start))
      BY <1>1, <1>4 DEF SumPaid, Payouts
    <3> QED
      BY <1>1, <1>3, <3>1, <3>4, <3>5 DEF CoveredInPeriod, Reading
  <2> QED
    BY <1>1, <1>3, <2>1, <2>2 DEF OwedInv, Handlers
<1>11. ListedInv'
  <2>1. \A o \in Orders : o \in Entries
    BY DEF Orders
  <2> QED
    BY <1>1, <1>3, <1>5, <1>6, <2>1 DEF MoneyInv, ListedInv
<1> QED
  BY <1>7, <1>8, <1>9, <1>10, <1>11 DEF MoneyInv

(* The status of a payout says which rows count for the cutoff, and no     *)
(* more.                                                                   *)
LEMMA PayoutMovesKeeps ==
    ASSUME CashoutTypeOK, MoneyInv, NEW p \in Payouts, PayoutMoves(p)
    PROVE  MoneyInv'
<1>1. /\ payout[p].status # "none"
      /\ payout' = [payout EXCEPT ![p].status = IF @ = "sent" THEN "unsent" ELSE "sent"]
      /\ now' = now /\ amount' = amount /\ bookedAt' = bookedAt /\ tag' = tag /\ hs' = hs
      /\ stale' = stale /\ late' = late
  BY DEF PayoutMoves, world, ghosts
<1>2. \A q \in Payouts : /\ payout'[q].start = payout[q].start /\ payout'[q].end = payout[q].end
                         /\ payout'[q].at = payout[q].at /\ payout'[q].net = payout[q].net
                         /\ payout'[q].status = "none" <=> payout[q].status = "none"
  <2>1. \A q \in Payouts : payout[q] \in PayoutRow
    BY CashoutTypes
  <2>2. DOMAIN payout = Payouts
    BY CashoutTypes
  <2> QED
    BY <1>1, <2>1, <2>2 DEF PayoutRow
<1>3. Rows' = Rows /\ Rows \subseteq Payouts
  BY <1>2 DEF Rows, Payouts
<1>4. Ends' = Ends /\ Starts' = Starts
  BY <1>2, <1>3 DEF Ends, Starts
<1>5. OpenEnds' = OpenEnds /\ Entries' = Entries /\ Orders' = Orders
  BY <1>1, <1>4 DEF OpenEnds, Entries, Orders
<1>6. \A t : PaidBy(t)' = PaidBy(t) /\ PaidAfter(t)' = PaidAfter(t) /\ BookedBy(t)' = BookedBy(t)
  BY <1>1, <1>2, <1>3, <1>5 DEF PaidBy, PaidAfter, BookedBy
<1>7. /\ \A S : SumBooked(S)' = SumBooked(S)
      /\ \A S : NetOf(payout', S) = NetOf(payout, S)
  <2>1. \A S : SumBooked(S)' = SumBooked(S)
    BY <1>1, <1>5 DEF SumBooked
  <2>2. ASSUME NEW S PROVE NetOf(payout', S) = NetOf(payout, S)
    <3>1. \A q \in Payouts \cap S : payout'[q].net = payout[q].net
      BY <1>2
    <3> QED
      BY <3>1, NetSame
  <2> QED
    BY <2>1, <2>2
<1>8. /\ \A t : SumPaid(PaidBy(t))' = SumPaid(PaidBy(t))
      /\ \A h \in Handlers : SumPaid(PaidAfter(hs[h].start))' = SumPaid(PaidAfter(hs[h].start))
  <2>1. /\ \A t : SumPaid(PaidBy(t))' = NetOf(payout', PaidBy(t)')
        /\ \A h \in Handlers : SumPaid(PaidAfter(hs[h].start))' = NetOf(payout', PaidAfter(hs[h].start)')
    BY DEF SumPaid, NetOf, Payouts
  <2>2. \A S : SumPaid(S) = NetOf(payout, S)
    BY DEF SumPaid, NetOf
  <2>3. \A h \in Handlers : PaidAfter(hs[h].start)' = PaidAfter(hs[h].start)
    BY <1>1, <1>6 DEF PaidAfter
  <2> QED
    BY <1>6, <1>7, <2>1, <2>2, <2>3
<1>9. RowsInv'
  BY <1>1, <1>2, <1>3, <1>4, <1>5 DEF MoneyInv, RowsInv, HandlerFits, Reading, Handlers
<1>10. ChainInv' /\ ListedInv'
  BY <1>1, <1>4, <1>5 DEF MoneyInv, ChainInv, ListedInv
<1>11. EarnedInv'
  <2>1. /\ \A t : SumBooked(BookedBy(t) \cap Orders)' = SumBooked(BookedBy(t) \cap Orders)
        /\ \A h \in Handlers : SumBooked({o \in Orders : bookedAt[o] > hs[h].start})'
                                = SumBooked({o \in Orders : bookedAt[o] > hs[h].start})
    BY <1>1, <1>5, <1>6 DEF SumBooked
  <2>2. \A h \in Handlers : Covered(hs[h]) => Covered(hs[h])'
    BY <1>1, <1>5, <1>8, <2>1 DEF Covered, Reading
  <2> QED
    BY <1>1, <1>8, <2>1, <2>2 DEF MoneyInv, EarnedInv, Handlers
<1>12. OwedInv'
  <2>1. /\ \A t : SumBooked(BookedBy(t))' = SumBooked(BookedBy(t))
        /\ \A h \in Handlers :
             SumBooked({x \in Entries : hs[h].start < bookedAt[x] /\ bookedAt[x] <= hs[h].end})'
               = SumBooked({x \in Entries : hs[h].start < bookedAt[x] /\ bookedAt[x] <= hs[h].end})
    BY <1>1, <1>5, <1>6 DEF SumBooked
  <2>2. \A h \in Handlers : CoveredInPeriod(hs[h]) => CoveredInPeriod(hs[h])'
    BY <1>1, <1>5, <1>8, <2>1 DEF CoveredInPeriod, Reading
  <2> QED
    BY <1>1, <1>4, <1>8, <2>1, <2>2 DEF MoneyInv, OwedInv, Handlers
<1> QED
  BY <1>9, <1>10, <1>11, <1>12 DEF MoneyInv

(* A decision, or a request, is no payout yet.                             *)
LEMMA RequestsKeep ==
    ASSUME CashoutTypeOK, MoneyInv, NEW h \in Handlers, Reject(h) \/ CreateRequest(h)
    PROVE  MoneyInv'
<1>1. Stops(h) /\ UNCHANGED <<world, tag, payout, now, stale, late>>
  BY DEF Reject, CreateRequest, ghosts
<1> QED
  BY <1>1, StopKeeps

-----------------------------------------------------------------------------
(* The requests *)

(* A request names a payout there is; who is at rest, or makes a request,  *)
(* decides none.                                                           *)
NamesInv ==
    /\ \A r \in Requests : request[r].payout # NoRow => request[r].payout \in Rows
    /\ \A h \in Handlers : /\ hs[h].at \in {"idle", "create"} => hs[h].req = NoRow
                           /\ hs[h].at = "reject" => hs[h].req # NoRow

(* Requests are for INFORMAL vendors.                                      *)
InformalInv ==
    kind # "INFORMAL" =>
        /\ \A r \in Requests : request[r].status = "none"
        /\ \A h \in Handlers : hs[h].at # "create" /\ hs[h].req = NoRow

(* Until calls overlap, a request is decided by one handler, and pays once. *)
DecidedInv ==
    overlap = 0 =>
        /\ \A r \in Requests : request[r].payout # NoRow <=> request[r].status = "APPROVED"
        /\ \A q, r \in Requests :
             request[r].payout = request[q].payout => q = r \/ request[r].payout = NoRow
        /\ \A h \in Handlers : hs[h].req # NoRow => IsPending(hs[h].req)
        /\ \A g, h \in Handlers : hs[g].req = hs[h].req => g = h \/ hs[g].req = NoRow

(* ... and at most one is pending, or being made.                          *)
SingleInv ==
    overlap = 0 =>
        /\ \A q, r \in PendingList : q = r
        /\ \A g, h \in Handlers : hs[g].at = "create" /\ hs[h].at = "create" => g = h
        /\ \A h \in Handlers : hs[h].at = "create" => PendingList = {}

RequestsInv == NamesInv /\ InformalInv /\ DecidedInv /\ SingleInv

(* A row of requests.                                                      *)
RequestRow == [status : RequestStatus, payout : Payouts \cup {NoRow}]

(* A step that leaves the requests as they are, or a handler that moves on  *)
(* with the one it has, or drops it.                                       *)
LEMMA RequestsStay ==
    ASSUME CashoutTypeOK, RequestsInv, UNCHANGED <<kind, request, overlap>>, Rows \subseteq Rows',
           \A h \in Handlers : /\ hs'[h].req \in {hs[h].req, NoRow}
                               /\ hs'[h].at \in {"idle", "create"} => hs'[h].req = NoRow
                               /\ hs'[h].at = "create" => hs[h].at = "create"
                               /\ hs'[h].at = "reject" => hs'[h].req # NoRow
    PROVE  RequestsInv'
<1>1. \A h \in Handlers : hs[h].req \in Requests \cup {NoRow}
  BY CashoutTypes
<1>2. NamesInv'
  BY DEF RequestsInv, NamesInv, Handlers, Requests
<1>3. InformalInv'
  BY DEF RequestsInv, InformalInv, Handlers, Requests
<1>4. DecidedInv'
  BY <1>1 DEF RequestsInv, DecidedInv, Handlers, Requests, IsPending
<1>5. SingleInv'
  <2>1. PendingList' = PendingList
    BY DEF PendingList, IsPending, Requests
  <2> QED
    BY <2>1 DEF RequestsInv, SingleInv, Handlers
<1> QED
  BY <1>2, <1>3, <1>4, <1>5 DEF RequestsInv

(* A handler that begins.                                                  *)
LEMMA BeginsKeeps ==
    ASSUME CashoutTypeOK, RequestsInv, NEW h \in Handlers, NEW x \in HandlerRow,
           hs' = [hs EXCEPT ![h] = x], BeginsAs(x), UNCHANGED <<kind, rows>>
    PROVE  RequestsInv'
<1>1. \A g \in Handlers : hs'[g] = IF g = h THEN x ELSE hs[g]
  BY CashoutTypes
<1>2. /\ kind' = kind /\ payout' = payout /\ request' = request /\ Rows' = Rows
      /\ PendingList' = PendingList
  BY DEF rows, Rows, PendingList, IsPending, Requests, Payouts
<1>3. NoRow \notin Requests
  BY BoundAssumption DEF NoRow, Requests
<1>4. overlap' = 0 => overlap = 0
  BY DEF BeginsAs, Overlaps
<1>5. NamesInv'
  BY <1>1, <1>2, <1>3 DEF RequestsInv, NamesInv, BeginsAs, Handlers, Requests
<1>6. InformalInv'
  BY <1>1, <1>2 DEF RequestsInv, InformalInv, BeginsAs, IsPending, Handlers, Requests
<1>7. DecidedInv'
  <2> SUFFICES ASSUME overlap' = 0 PROVE DecidedInv'
    BY DEF DecidedInv
  <2>1. x.req # NoRow => IsPending(x.req) /\ \A g \in Handlers : hs[g].req # x.req
    BY DEF BeginsAs, Overlaps
  <2>2. \A g \in Handlers : hs[g].req # NoRow => IsPending(hs[g].req)
    BY <1>4 DEF RequestsInv, DecidedInv
  <2>3. \A g \in Handlers : hs'[g].req # NoRow => IsPending(hs[g].req)' \/ IsPending(hs'[g].req)
    BY <1>1, <2>1, <2>2
  <2>4. \A g \in Handlers : hs'[g].req # NoRow => request'[hs'[g].req].status = "PENDING_APPROVAL"
    BY <1>1, <1>2, <2>1, <2>2 DEF IsPending
  <2>5. \A f, g \in Handlers : hs'[f].req = hs'[g].req => f = g \/ hs'[f].req = NoRow
    <3>1. \A f, g \in Handlers : hs[f].req = hs[g].req => f = g \/ hs[f].req = NoRow
      BY <1>4 DEF RequestsInv, DecidedInv
    <3> QED
      BY <1>1, <2>1, <3>1
  <2> QED
    BY <1>2, <1>4, <2>4, <2>5 DEF RequestsInv, DecidedInv, Handlers, Requests, IsPending
<1>8. SingleInv'
  <2> SUFFICES ASSUME overlap' = 0 PROVE SingleInv'
    BY DEF SingleInv
  <2>1. x.at = "create" => PendingList = {} /\ \A g \in Handlers : hs[g].at # "create"
    BY DEF BeginsAs, Overlaps, PendingList, Is
  <2>2. /\ \A q, r \in PendingList : q = r
        /\ \A f, g \in Handlers : hs[f].at = "create" /\ hs[g].at = "create" => f = g
        /\ \A g \in Handlers : hs[g].at = "create" => PendingList = {}
    BY <1>4 DEF RequestsInv, SingleInv
  <2> QED
    BY <1>1, <1>2, <2>1, <2>2 DEF SingleInv, Handlers
<1> QED
  BY <1>5, <1>6, <1>7, <1>8 DEF RequestsInv

(* The request a payout is made for is approved, with that payout.         *)
LEMMA ApprovalKeeps ==
    ASSUME CashoutTypeOK, MoneyInv, RequestsInv, NEW h \in Handlers, CommitPayout(h)
    PROVE  RequestsInv'
<1> DEFINE r0 == hs[h].req
<1>1. /\ hs[h].at = "commit" /\ hs' = [hs EXCEPT ![h] = CashoutAtRest]
      /\ kind' = kind /\ overlap' = overlap
  BY DEF CommitPayout, Is, Stops, world, ghosts
<1>2. \A g \in Handlers : hs'[g] = IF g = h THEN CashoutAtRest ELSE hs[g]
  BY <1>1, CashoutTypes
<1>3. CashoutAtRest.at = "idle" /\ CashoutAtRest.req = NoRow
  BY AtRestFits
<1>4. CASE payout' = payout /\ request' = request
  <2>1. Rows' = Rows
    BY <1>4 DEF Rows, Payouts
  <2>2. \A g \in Handlers : /\ hs'[g].req \in {hs[g].req, NoRow}
                            /\ hs'[g].at \in {"idle", "create"} => hs'[g].req = NoRow
                            /\ hs'[g].at = "create" => hs[g].at = "create"
                            /\ hs'[g].at = "reject" => hs'[g].req # NoRow
    BY <1>2, <1>3 DEF RequestsInv, NamesInv
  <2> QED
    BY <1>1, <1>4, <2>1, <2>2, RequestsStay
<1>5. CASE ~(payout' = payout /\ request' = request)
  <2>1. PICK p \in Payouts :
          /\ p = Cardinality(Rows) + 1
          /\ \A q \in Payouts : q # p => payout'[q] = payout[q]
          /\ payout'[p].status # "none"
          /\ request' = IF r0 = NoRow THEN request
                        ELSE [request EXCEPT ![r0] = [status |-> "APPROVED", payout |-> p]]
    <3>1. PICK p \in Payouts :
            /\ p = Cardinality(Rows) + 1
            /\ payout' = [payout EXCEPT ![p] =
                   [status |-> "unsent", start |-> hs[h].start, end |-> hs[h].end,
                    at |-> now + 1, net |-> hs[h].bal]]
            /\ request' = IF r0 = NoRow THEN request
                          ELSE [request EXCEPT ![r0] = [status |-> "APPROVED", payout |-> p]]
      BY <1>5 DEF CommitPayout, rows
    <3> QED
      BY <3>1, CashoutTypes
  <2>2. p \notin Rows
    <3>1. IsFiniteSet(Payouts) /\ Rows \subseteq Payouts
      BY BoundAssumption, FS_Interval DEF Payouts, Rows
    <3>2. Cardinality(Rows) \in Nat
      BY <3>1, FS_Subset, FS_CardinalityType
    <3> QED
      BY <2>1, <3>2 DEF MoneyInv, RowsInv
  <2>3. Rows' = Rows \cup {p}
    <3>1. Rows' = {q \in Payouts : payout'[q].status # "none"}
      BY DEF Rows, Payouts
    <3> QED
      BY <2>1, <3>1 DEF Rows
  <2>4. p # NoRow /\ NoRow \notin Requests
    BY BoundAssumption DEF Payouts, NoRow, Requests
  <2>5. CASE r0 = NoRow
    <3>1. request' = request
      BY <2>1, <2>5
    <3>2. \A g \in Handlers : /\ hs'[g].req \in {hs[g].req, NoRow}
                              /\ hs'[g].at \in {"idle", "create"} => hs'[g].req = NoRow
                              /\ hs'[g].at = "create" => hs[g].at = "create"
                              /\ hs'[g].at = "reject" => hs'[g].req # NoRow
      BY <1>2, <1>3 DEF RequestsInv, NamesInv
    <3> QED
      BY <1>1, <2>3, <3>1, <3>2, RequestsStay
  <2>6. CASE r0 # NoRow
    <3>1. r0 \in Requests
      BY <2>6, CashoutTypes
    <3>2. request'[r0] = [status |-> "APPROVED", payout |-> p]
          /\ \A r \in Requests : r # r0 => request'[r] = request[r]
      BY <2>1, <2>6, <3>1 DEF CashoutTypeOK
    <3>3. request'[r0].status = "APPROVED" /\ request'[r0].payout = p
      BY <3>2
    <3>4. PendingList' \subseteq PendingList
      <4>1. PendingList' = {r \in Requests : request'[r].status = "PENDING_APPROVAL"}
        BY DEF PendingList, IsPending, Requests
      <4> QED
        BY <3>2, <3>3, <4>1 DEF PendingList, IsPending
    <3>5. NamesInv'
      <4>1. \A r \in Requests : request'[r].payout # NoRow => request'[r].payout \in Rows'
        BY <2>3, <3>2, <3>3 DEF RequestsInv, NamesInv
      <4>2. \A g \in Handlers : /\ hs'[g].at \in {"idle", "create"} => hs'[g].req = NoRow
                                /\ hs'[g].at = "reject" => hs'[g].req # NoRow
        BY <1>2, <1>3 DEF RequestsInv, NamesInv
      <4> QED
        BY <4>1, <4>2 DEF NamesInv, Handlers, Requests
    <3>6. InformalInv'
      <4>1. CASE kind = "INFORMAL"
        BY <1>1, <4>1 DEF InformalInv
      <4>2. kind = "INFORMAL"
        BY <2>6 DEF RequestsInv, InformalInv
      <4> QED
        BY <4>1, <4>2
    <3>7. DecidedInv'
      <4> SUFFICES ASSUME overlap = 0 PROVE DecidedInv'
        BY <1>1 DEF DecidedInv
      <4>1. /\ \A r \in Requests : request[r].payout # NoRow <=> request[r].status = "APPROVED"
            /\ \A q, r \in Requests :
                 request[r].payout = request[q].payout => q = r \/ request[r].payout = NoRow
            /\ \A g \in Handlers : hs[g].req # NoRow => IsPending(hs[g].req)
            /\ \A f, g \in Handlers : hs[f].req = hs[g].req => f = g \/ hs[f].req = NoRow
        BY DEF RequestsInv, DecidedInv
      <4>2. \A r \in Requests : request'[r].payout # NoRow <=> request'[r].status = "APPROVED"
        BY <2>4, <3>2, <3>3, <4>1
      <4>3. \A r \in Requests : request[r].payout # p
        BY <2>2, <2>4 DEF RequestsInv, NamesInv
      <4>4. \A q, r \in Requests :
              request'[r].payout = request'[q].payout => q = r \/ request'[r].payout = NoRow
        BY <3>2, <3>3, <4>1, <4>3
      <4>5. ASSUME NEW g \in Handlers, hs'[g].req # NoRow
            PROVE  request'[hs'[g].req].status = "PENDING_APPROVAL"
        <5>1. g # h /\ hs'[g] = hs[g]
          BY <1>2, <1>3, <4>5
        <5>2. hs[g].req # r0 /\ hs[g].req \in Requests
          BY <2>6, <4>1, <4>5, <5>1, CashoutTypes
        <5> QED
          BY <3>2, <4>1, <4>5, <5>1, <5>2 DEF IsPending
      <4>6. \A f, g \in Handlers : hs'[f].req = hs'[g].req => f = g \/ hs'[f].req = NoRow
        BY <1>2, <1>3, <4>1
      <4> QED
        BY <4>2, <4>4, <4>5, <4>6 DEF DecidedInv, IsPending, Handlers, Requests
    <3>8. SingleInv'
      BY <1>1, <1>2, <1>3, <3>4 DEF RequestsInv, SingleInv, Handlers
    <3> QED
      BY <3>5, <3>6, <3>7, <3>8 DEF RequestsInv
  <2> QED
    BY <2>5, <2>6
<1> QED
  BY <1>4, <1>5

(* A request that is rejected pays nothing.                                *)
LEMMA RejectKeeps ==
    ASSUME CashoutTypeOK, RequestsInv, NEW h \in Handlers, Reject(h)
    PROVE  RequestsInv'
<1> DEFINE r0 == hs[h].req
<1>1. /\ hs[h].at = "reject" /\ hs' = [hs EXCEPT ![h] = CashoutAtRest]
      /\ request' = [request EXCEPT ![r0].status = "REJECTED"]
      /\ kind' = kind /\ payout' = payout /\ overlap' = overlap
  BY DEF Reject, Is, Stops, world, ghosts
<1>2. \A g \in Handlers : hs'[g] = IF g = h THEN CashoutAtRest ELSE hs[g]
  BY <1>1, CashoutTypes
<1>3. CashoutAtRest.at = "idle" /\ CashoutAtRest.req = NoRow
  BY AtRestFits
<1>4. r0 \in Requests /\ kind = "INFORMAL"
  <2>1. r0 # NoRow
    BY <1>1 DEF RequestsInv, NamesInv
  <2> QED
    BY <2>1, CashoutTypes DEF RequestsInv, InformalInv
<1>5. /\ request'[r0].status = "REJECTED" /\ request'[r0].payout = request[r0].payout
      /\ \A r \in Requests : r # r0 => request'[r] = request[r]
  <2>1. request \in [Requests -> RequestRow]
    BY DEF CashoutTypeOK, RequestRow
  <2> QED
    BY <1>1, <1>4, <2>1 DEF RequestRow
<1>6. Rows' = Rows
  BY <1>1 DEF Rows, Payouts
<1>7. PendingList' \subseteq PendingList
  <2>1. PendingList' = {r \in Requests : request'[r].status = "PENDING_APPROVAL"}
    BY DEF PendingList, IsPending, Requests
  <2> QED
    BY <1>5, <2>1 DEF PendingList, IsPending
<1>8. NamesInv'
  <2>1. \A r \in Requests : request'[r].payout # NoRow => request'[r].payout \in Rows'
    BY <1>5, <1>6 DEF RequestsInv, NamesInv
  <2>2. \A g \in Handlers : /\ hs'[g].at \in {"idle", "create"} => hs'[g].req = NoRow
                            /\ hs'[g].at = "reject" => hs'[g].req # NoRow
    BY <1>2, <1>3 DEF RequestsInv, NamesInv
  <2> QED
    BY <2>1, <2>2 DEF NamesInv, Handlers, Requests
<1>9. InformalInv'
  BY <1>1, <1>4 DEF InformalInv
<1>10. DecidedInv'
  <2> SUFFICES ASSUME overlap = 0 PROVE DecidedInv'
    BY <1>1 DEF DecidedInv
  <2>1. /\ \A r \in Requests : request[r].payout # NoRow <=> request[r].status = "APPROVED"
        /\ \A q, r \in Requests :
             request[r].payout = request[q].payout => q = r \/ request[r].payout = NoRow
        /\ \A g \in Handlers : hs[g].req # NoRow => IsPending(hs[g].req)
        /\ \A f, g \in Handlers : hs[f].req = hs[g].req => f = g \/ hs[f].req = NoRow
    BY DEF RequestsInv, DecidedInv
  <2>2. r0 # NoRow /\ request[r0].status = "PENDING_APPROVAL"
    BY <1>1, <2>1 DEF RequestsInv, NamesInv, IsPending
  <2>3. \A r \in Requests : request'[r].payout # NoRow <=> request'[r].status = "APPROVED"
    BY <1>5, <2>1, <2>2
  <2>4. \A q, r \in Requests :
          request'[r].payout = request'[q].payout => q = r \/ request'[r].payout = NoRow
    BY <1>5, <2>1
  <2>5. ASSUME NEW g \in Handlers, hs'[g].req # NoRow
        PROVE  request'[hs'[g].req].status = "PENDING_APPROVAL"
    <3>1. g # h /\ hs'[g] = hs[g]
      BY <1>2, <1>3, <2>5
    <3>2. hs[g].req # r0 /\ hs[g].req \in Requests
      BY <2>1, <2>2, <2>5, <3>1, CashoutTypes
    <3> QED
      BY <1>5, <2>1, <2>5, <3>1, <3>2 DEF IsPending
  <2>6. \A f, g \in Handlers : hs'[f].req = hs'[g].req => f = g \/ hs'[f].req = NoRow
    BY <1>2, <1>3, <2>1
  <2> QED
    BY <2>3, <2>4, <2>5, <2>6 DEF DecidedInv, IsPending, Handlers, Requests
<1>11. SingleInv'
  BY <1>1, <1>2, <1>3, <1>7 DEF RequestsInv, SingleInv, Handlers
<1> QED
  BY <1>8, <1>9, <1>10, <1>11 DEF RequestsInv

(* A request is made where none is pending.                                *)
LEMMA CreateKeeps ==
    ASSUME CashoutTypeOK, RequestsInv, NEW h \in Handlers, CreateRequest(h)
    PROVE  RequestsInv'
<1>1. /\ hs[h].at = "create" /\ hs' = [hs EXCEPT ![h] = CashoutAtRest]
      /\ kind' = kind /\ payout' = payout /\ overlap' = overlap
  BY DEF CreateRequest, Is, Stops, world, ghosts
<1>2. \A g \in Handlers : hs'[g] = IF g = h THEN CashoutAtRest ELSE hs[g]
  BY <1>1, CashoutTypes
<1>3. CashoutAtRest.at = "idle" /\ CashoutAtRest.req = NoRow
  BY AtRestFits
<1>4. Rows' = Rows
  BY <1>1 DEF Rows, Payouts
<1>5. CASE request' = request
  <2>1. \A g \in Handlers : /\ hs'[g].req \in {hs[g].req, NoRow}
                            /\ hs'[g].at \in {"idle", "create"} => hs'[g].req = NoRow
                            /\ hs'[g].at = "create" => hs[g].at = "create"
                            /\ hs'[g].at = "reject" => hs'[g].req # NoRow
    BY <1>2, <1>3 DEF RequestsInv, NamesInv
  <2> QED
    BY <1>1, <1>4, <1>5, <2>1, RequestsStay
<1>6. ASSUME NEW r0 \in Requests, request[r0].status = "none",
             request' = [request EXCEPT ![r0].status = "PENDING_APPROVAL"]
      PROVE  RequestsInv'
  <2>1. /\ request'[r0].status = "PENDING_APPROVAL" /\ request'[r0].payout = request[r0].payout
        /\ \A r \in Requests : r # r0 => request'[r] = request[r]
    <3>1. request \in [Requests -> RequestRow]
      BY DEF CashoutTypeOK, RequestRow
    <3> QED
      BY <1>6, <3>1 DEF RequestRow
  <2>2. PendingList' = PendingList \cup {r0}
    <3>1. PendingList' = {r \in Requests : request'[r].status = "PENDING_APPROVAL"}
      BY DEF PendingList, IsPending, Requests
    <3> QED
      BY <2>1, <3>1 DEF PendingList, IsPending
  <2>3. NamesInv'
    <3>1. \A r \in Requests : request'[r].payout # NoRow => request'[r].payout \in Rows'
      BY <1>4, <2>1 DEF RequestsInv, NamesInv
    <3>2. \A g \in Handlers : /\ hs'[g].at \in {"idle", "create"} => hs'[g].req = NoRow
                              /\ hs'[g].at = "reject" => hs'[g].req # NoRow
      BY <1>2, <1>3 DEF RequestsInv, NamesInv
    <3> QED
      BY <3>1, <3>2 DEF NamesInv, Handlers, Requests
  <2>4. InformalInv'
    BY <1>1 DEF RequestsInv, InformalInv
  <2>5. DecidedInv'
    <3> SUFFICES ASSUME overlap = 0 PROVE DecidedInv'
      BY <1>1 DEF DecidedInv
    <3>1. /\ \A r \in Requests : request[r].payout # NoRow <=> request[r].status = "APPROVED"
          /\ \A q, r \in Requests :
               request[r].payout = request[q].payout => q = r \/ request[r].payout = NoRow
          /\ \A g \in Handlers : hs[g].req # NoRow => IsPending(hs[g].req)
          /\ \A f, g \in Handlers : hs[f].req = hs[g].req => f = g \/ hs[f].req = NoRow
      BY DEF RequestsInv, DecidedInv
    <3>2. /\ \A r \in Requests : request'[r].payout # NoRow <=> request'[r].status = "APPROVED"
          /\ \A q, r \in Requests :
               request'[r].payout = request'[q].payout => q = r \/ request'[r].payout = NoRow
      BY <1>6, <2>1, <3>1
    <3>3. ASSUME NEW g \in Handlers, hs'[g].req # NoRow
          PROVE  request'[hs'[g].req].status = "PENDING_APPROVAL"
      BY <1>2, <1>3, <2>1, <3>1, <3>3, CashoutTypes DEF IsPending
    <3>4. \A f, g \in Handlers : hs'[f].req = hs'[g].req => f = g \/ hs'[f].req = NoRow
      BY <1>2, <1>3, <3>1
    <3> QED
      BY <3>2, <3>3, <3>4 DEF DecidedInv, IsPending, Handlers, Requests
  <2>6. SingleInv'
    <3> SUFFICES ASSUME overlap = 0 PROVE SingleInv'
      BY <1>1 DEF SingleInv
    <3>1. /\ PendingList = {} /\ \A g \in Handlers : hs[g].at = "create" => g = h
      BY <1>1 DEF RequestsInv, SingleInv
    <3>2. \A g \in Handlers : hs'[g].at # "create"
      BY <1>2, <1>3, <3>1
    <3> QED
      BY <2>2, <3>1, <3>2 DEF SingleInv, Handlers
  <2> QED
    BY <2>3, <2>4, <2>5, <2>6 DEF RequestsInv
<1> QED
  BY <1>5, <1>6 DEF CreateRequest

-----------------------------------------------------------------------------
(* The invariant *)

CashoutInv == CashoutTypeOK /\ MoneyInv /\ RequestsInv

(* Nothing is booked, paid or asked for yet.                               *)
LEMMA InitCashout == CashoutInit => CashoutInv
<1> SUFFICES ASSUME CashoutInit PROVE CashoutInv
  OBVIOUS
<1>1. NoRow \notin Requests /\ NoRow \notin Payouts /\ MaxPayouts \in Nat
  BY BoundAssumption DEF NoRow, Requests, Payouts
<1>2. CashoutTypeOK
  <2>1. CashoutAtRest \in HandlerRow
    BY DEF CashoutAtRest, HandlerRow, HandlerStep
  <2> QED
    BY <2>1 DEF CashoutInit, CashoutTypeOK, HandlerRow, PayoutStatus, RequestStatus
<1>3. Rows = {} /\ Ends = {0} /\ OpenEnds = {0}
  BY DEF CashoutInit, Rows, Ends, Starts, OpenEnds
<1>4. /\ \A h \in Handlers : hs[h] = CashoutAtRest
      /\ \A e \in Entries : bookedAt[e] = 0
      /\ now = 1
      /\ \A r \in Requests : request[r].status = "none" /\ request[r].payout = NoRow
  BY DEF CashoutInit
<1>5. CashoutAtRest.at = "idle" /\ CashoutAtRest.req = NoRow /\ CashoutAtRest.end = 0
  BY DEF CashoutAtRest
<1>6. \A x : x = CashoutAtRest => ~Reading(x)
  BY <1>5 DEF Reading
<1>7. RowsInv
  <2>1. Rows = 1..Cardinality(Rows)
    BY <1>3, FS_EmptySet
  <2> QED
    BY <1>3, <1>4, <1>5, <1>6, <2>1 DEF RowsInv, HandlerFits
<1>8. \A t \in Nat : /\ PaidBy(t) = {} /\ BookedBy(t) = {}
                     /\ SumPaid(PaidBy(t)) <= SumBooked(BookedBy(t) \cap Orders)
                     /\ SumPaid(PaidBy(t)) <= SumBooked(BookedBy(t))
  <2>1. SumPaid({}) = 0 /\ SumBooked({}) = 0
    <3>1. /\ SumPaid({} \cup {}) = SumPaid({}) + SumPaid({})
          /\ SumBooked({} \cup {}) = SumBooked({}) + SumBooked({})
          /\ SumPaid({}) \in Int /\ SumBooked({}) \in Int
      BY <1>2, SumsHere
    <3>2. {} \cup {} = {}
      OBVIOUS
    <3>3. /\ SumPaid({}) = SumPaid({}) + SumPaid({}) /\ SumPaid({}) \in Int
          /\ SumBooked({}) = SumBooked({}) + SumBooked({}) /\ SumBooked({}) \in Int
      BY <3>1, <3>2, Zenon
    <3>4. \A x \in Int : x = x + x => x = 0
      OBVIOUS
    <3> QED
      BY <3>3, <3>4, Zenon
  <2>2. ASSUME NEW t \in Nat
        PROVE  PaidBy(t) = {} /\ BookedBy(t) = {} /\ BookedBy(t) \cap Orders = {}
    BY <1>3, <1>4 DEF PaidBy, BookedBy
  <2> QED
    BY <2>1, <2>2
<1>9. ChainInv /\ ListedInv
  BY <1>3 DEF ChainInv, ListedInv
<1>10. EarnedInv /\ OwedInv
  BY <1>3, <1>4, <1>6, <1>8 DEF EarnedInv, OwedInv, Covered, CoveredInPeriod
<1>11. NamesInv /\ InformalInv
  BY <1>4, <1>5 DEF NamesInv, InformalInv
<1>12. DecidedInv /\ SingleInv
  <2>1. PendingList = {}
    BY <1>4 DEF PendingList, IsPending
  <2> QED
    BY <1>4, <1>5, <2>1 DEF DecidedInv, SingleInv
<1> QED
  BY <1>2, <1>7, <1>9, <1>10, <1>11, <1>12 DEF CashoutInv, MoneyInv, RequestsInv

(* A step of one handler that writes no row and decides nothing.           *)
LEMMA HandlerTypes ==
    ASSUME CashoutTypeOK, NEW h \in Handlers, NEW x \in HandlerRow,
           hs' = [hs EXCEPT ![h] = x], UNCHANGED <<world, rows, now>>,
           {stale', late', overlap'} \subseteq {0, 1}
    PROVE  CashoutTypeOK'
  BY DEF CashoutTypeOK, HandlerRow, world, rows, Entries, Orders, Payouts, Requests, Handlers

(* The transaction writes a row like the others.                           *)
LEMMA CommitTypes ==
    ASSUME CashoutTypeOK, NEW h \in Handlers, CommitPayout(h)
    PROVE  CashoutTypeOK'
<1>1. /\ hs' = [hs EXCEPT ![h] = CashoutAtRest] /\ UNCHANGED <<world, ghosts>>
  BY DEF CommitPayout, Stops
<1>2. hs' \in [Handlers -> HandlerRow]
  BY <1>1, CashoutTypes, AtRestFits
<1>3. CASE UNCHANGED <<rows, now>>
  BY <1>1, <1>2, <1>3
     DEF CashoutTypeOK, HandlerRow, world, rows, ghosts, Entries, Orders, Payouts,
                          Requests, Handlers
<1>4. CASE ~UNCHANGED <<rows, now>>
  <2>1. PICK p \in Payouts :
          /\ payout' = [payout EXCEPT ![p] =
                 [status |-> "unsent", start |-> hs[h].start, end |-> hs[h].end,
                  at |-> now + 1, net |-> hs[h].bal]]
          /\ now' = now + 1
          /\ tag' = [o \in Orders |-> IF Listed(o, hs[h].start, hs[h].end) THEN p ELSE tag[o]]
          /\ request' = IF hs[h].req = NoRow THEN request
                 ELSE [request EXCEPT ![hs[h].req] = [status |-> "APPROVED", payout |-> p]]
    BY <1>4 DEF CommitPayout
  <2>2. now' \in Nat /\ payout' \in [Payouts -> PayoutRow]
    BY <2>1, CashoutTypes DEF PayoutRow, PayoutStatus
  <2>3. tag' \in [Orders -> Payouts \cup {NoRow}]
    BY <2>1 DEF CashoutTypeOK
  <2>4. request' \in [Requests -> RequestRow]
    <3>1. request \in [Requests -> RequestRow] /\ hs[h].req \in Requests \cup {NoRow}
      BY CashoutTypes DEF CashoutTypeOK, RequestRow
    <3>2. [status |-> "APPROVED", payout |-> p] \in RequestRow
      BY DEF RequestRow, RequestStatus
    <3> QED
      BY <2>1, <3>1, <3>2
  <2> QED
    BY <1>1, <1>2, <2>2, <2>3, <2>4
       DEF CashoutTypeOK, HandlerRow, PayoutRow, RequestRow, world, ghosts,
                                        Entries, Orders, Payouts, Requests, Handlers
<1> QED
  BY <1>3, <1>4

(* A decision writes a status the column has.                              *)
LEMMA RequestTypes ==
    ASSUME CashoutTypeOK, RequestsInv, NEW h \in Handlers, Reject(h) \/ CreateRequest(h)
    PROVE  CashoutTypeOK'
<1>1. hs' = [hs EXCEPT ![h] = CashoutAtRest] /\ UNCHANGED <<world, tag, payout, now, ghosts>>
  BY DEF Reject, CreateRequest, Stops
<1>2. hs' \in [Handlers -> HandlerRow]
  BY <1>1, CashoutTypes, AtRestFits
<1>3. request' \in [Requests -> RequestRow]
  <2>1. request \in [Requests -> RequestRow]
    BY DEF CashoutTypeOK, RequestRow
  <2>2. ASSUME NEW r \in Requests, NEW s \in RequestStatus
        PROVE  [request EXCEPT ![r].status = s] \in [Requests -> RequestRow]
    BY <2>1 DEF RequestRow
  <2>3. CASE Reject(h)
    <3>1. hs[h].at = "reject" /\ request' = [request EXCEPT ![hs[h].req].status = "REJECTED"]
      BY <2>3 DEF Reject, Is
    <3>2. hs[h].req \in Requests
      BY <3>1, CashoutTypes DEF RequestsInv, NamesInv
    <3> QED
      BY <2>2, <3>1, <3>2 DEF RequestStatus
  <2>4. CASE CreateRequest(h)
    BY <2>1, <2>2, <2>4 DEF CreateRequest, RequestStatus
  <2> QED
    BY <2>3, <2>4
<1> QED
  BY <1>1, <1>2, <1>3 DEF CashoutTypeOK, HandlerRow, RequestRow, world, ghosts,
                          Entries, Orders, Payouts, Requests, Handlers

(* Every step keeps it.                                                    *)
LEMMA StepCashout == CashoutInv /\ [CashoutNext]_cashoutVars => CashoutInv'
<1> SUFFICES ASSUME CashoutInv, [CashoutNext]_cashoutVars PROVE CashoutInv'
  OBVIOUS
<1>0. CashoutTypeOK /\ MoneyInv /\ RequestsInv
  BY DEF CashoutInv
<1>1. ASSUME NEW h \in Handlers,
             \/ VendorCronStart(h) \/ RiderCronStart(h) \/ RequestStart(h)
             \/ \E r \in Requests : ApproveStart(h, r) \/ RejectStart(h, r)
      PROVE  CashoutInv'
  <2>1. MoneyInv'
    BY <1>0, <1>1, StartKeeps
  <2>2. PICK x \in HandlerRow : /\ hs' = [hs EXCEPT ![h] = x] /\ BeginsAs(x)
                                /\ UNCHANGED <<world, rows, now, stale, late>>
    BY <1>0, <1>1, StartKeeps
  <2>3. kind' = kind
    BY <2>2 DEF world
  <2>4. RequestsInv'
    BY <1>0, <2>2, <2>3, BeginsKeeps
  <2>5. {stale', late', overlap'} \subseteq {0, 1}
    BY <1>0, <2>2 DEF CashoutTypeOK, BeginsAs, Overlaps
  <2>6. CashoutTypeOK'
    BY <1>0, <2>2, <2>5, HandlerTypes
  <2> QED
    BY <2>1, <2>4, <2>6 DEF CashoutInv
<1>2. ASSUME NEW h \in Handlers, ReadBalance(h) \/ ReadPeriod(h) PROVE CashoutInv'
  <2>1. MoneyInv'
    BY <1>0, <1>2, ReadBalanceKeeps, ReadPeriodKeeps
  <2>2. PICK x \in HandlerRow : /\ hs' = [hs EXCEPT ![h] = x] /\ UNCHANGED <<world, rows, now, overlap>>
                                /\ x.at \in {"idle", "disputes", "commit"}
                                /\ x.at # "idle" => x.req = hs[h].req
                                /\ x.at = "idle" => x.req = NoRow
    BY <1>0, <1>2, ReadBalanceKeeps, ReadPeriodKeeps
  <2>3. {stale', late', overlap'} \subseteq {0, 1}
    BY <1>0, <1>2, <2>2 DEF CashoutTypeOK, ReadBalance, ReadPeriod
  <2>4. CashoutTypeOK'
    BY <1>0, <2>2, <2>3, HandlerTypes
  <2>5. /\ kind' = kind /\ request' = request /\ payout' = payout /\ overlap' = overlap
        /\ Rows \subseteq Rows'
    BY <2>2 DEF world, rows, Rows, Payouts
  <2>6. \A g \in Handlers : hs'[g] = IF g = h THEN x ELSE hs[g]
    BY <1>0, <2>2, CashoutTypes
  <2>7. \A g \in Handlers : /\ hs'[g].req \in {hs[g].req, NoRow}
                            /\ hs'[g].at \in {"idle", "create"} => hs'[g].req = NoRow
                            /\ hs'[g].at = "create" => hs[g].at = "create"
                            /\ hs'[g].at = "reject" => hs'[g].req # NoRow
    BY <1>0, <2>2, <2>6 DEF RequestsInv, NamesInv
  <2>8. RequestsInv'
    BY <1>0, <2>5, <2>7, RequestsStay
  <2> QED
    BY <2>1, <2>4, <2>8 DEF CashoutInv
<1>3. ASSUME NEW h \in Handlers, CommitPayout(h) PROVE CashoutInv'
  BY <1>0, <1>3, CommitKeeps, ApprovalKeeps, CommitTypes DEF CashoutInv
<1>4. ASSUME NEW h \in Handlers, Reject(h) \/ CreateRequest(h) PROVE CashoutInv'
  BY <1>0, <1>4, RequestsKeep, RejectKeeps, CreateKeeps, RequestTypes DEF CashoutInv
<1>5. ASSUME NEW e \in Entries, Book(e) PROVE CashoutInv'
  <2>1. MoneyInv'
    BY <1>0, <1>5, BookKeeps
  <2>2. RequestsInv'
    <3>1. /\ UNCHANGED <<kind, request, overlap, hs>> /\ Rows' = Rows
      BY <1>5 DEF Book, rows, ghosts, Rows, Payouts
    <3> QED
      BY <1>0, <3>1, RequestsStay DEF RequestsInv, NamesInv
  <2>3. CashoutTypeOK'
    BY <1>0, <1>5
       DEF CashoutTypeOK, Book, rows, ghosts, Entries, Orders, Payouts, Requests, Handlers
  <2> QED
    BY <2>1, <2>2, <2>3 DEF CashoutInv
<1>6. ASSUME NEW p \in Payouts, PayoutMoves(p) PROVE CashoutInv'
  <2>1. MoneyInv'
    BY <1>0, <1>6, PayoutMovesKeeps
  <2>2. payout' \in [Payouts -> PayoutRow]
    BY <1>0, <1>6, CashoutTypes DEF PayoutMoves, PayoutRow, PayoutStatus
  <2>3. Rows \subseteq Rows'
    <3>1. payout[p] \in PayoutRow
      BY <1>0, CashoutTypes
    <3>2. payout'[p].status # "none" /\ \A q \in Payouts : q # p => payout'[q] = payout[q]
      BY <1>0, <1>6, <3>1, CashoutTypes DEF PayoutMoves, PayoutRow
    <3> QED
      BY <3>2 DEF Rows, Payouts
  <2>4. RequestsInv'
    <3>1. UNCHANGED <<kind, request, overlap, hs>>
      BY <1>6 DEF PayoutMoves, world, ghosts
    <3> QED
      BY <1>0, <2>3, <3>1, RequestsStay DEF RequestsInv, NamesInv
  <2>5. CashoutTypeOK'
    BY <1>0, <1>6, <2>2
       DEF CashoutTypeOK, PayoutMoves, PayoutRow, world, ghosts, Entries, Orders,
                            Payouts, Requests, Handlers
  <2> QED
    BY <2>1, <2>4, <2>5 DEF CashoutInv
<1>7. CASE UNCHANGED cashoutVars
  <2>1. /\ kind' = kind /\ amount' = amount /\ bookedAt' = bookedAt /\ tag' = tag /\ payout' = payout
        /\ request' = request /\ hs' = hs /\ now' = now /\ stale' = stale /\ late' = late
        /\ overlap' = overlap
    BY <1>7 DEF cashoutVars, world, rows, ghosts
  <2>2. CashoutTypeOK'
    BY <1>0, <2>1 DEF CashoutTypeOK, Entries, Orders, Payouts, Requests, Handlers
  <2>3. RequestsInv'
    <3>1. Rows' = Rows
      BY <2>1 DEF Rows, Payouts
    <3> QED
      BY <1>0, <2>1, <3>1, RequestsStay DEF RequestsInv, NamesInv
  <2>4. MoneyInv'
    BY <1>0, <2>1
       DEF MoneyInv, RowsInv, ChainInv, EarnedInv, OwedInv, ListedInv, Rows, Ends, Starts,
                      OpenEnds, Covered, CoveredInPeriod, HandlerFits, Reading, PaidBy, PaidAfter,
                      BookedBy, Entries, Orders, SumPaid, SumBooked, Payouts, Handlers
  <2> QED
    BY <2>2, <2>3, <2>4 DEF CashoutInv
<1> QED
  BY <1>1, <1>2, <1>3, <1>4, <1>5, <1>6, <1>7
     DEF CashoutNext, CashoutGoes, VendorSchedules, RiderSchedules, Approves, PayoutIsMade

-----------------------------------------------------------------------------
(* What it says *)

(* What was paid by now is all that was paid.                              *)
LEMMA PaidIsEarned == CashoutInv => PaidAtMostEarned
<1> SUFFICES ASSUME CashoutInv, stale = 0 PROVE PaidOut <= Earned
  BY DEF PaidAtMostEarned
<1>1. CashoutTypeOK /\ MoneyInv /\ now \in Nat
  BY CashoutTypes DEF CashoutInv
<1>2. PaidBy(now) = Rows
  BY <1>1 DEF PaidBy, MoneyInv, RowsInv
<1>3. BookedBy(now) \cap Orders = Booked \cap Orders
  <2>1. \A e \in Entries : bookedAt[e] \in Nat /\ bookedAt[e] <= now
    BY <1>1, CashoutTypes DEF MoneyInv, RowsInv
  <2> QED
    BY <1>1, <2>1 DEF BookedBy, Booked
<1>4. SumPaid(PaidBy(now)) <= SumBooked(BookedBy(now) \cap Orders)
  BY <1>1 DEF MoneyInv, EarnedInv
<1> QED
  BY <1>2, <1>3, <1>4 DEF PaidOut, Earned

(* What is shown is what is owed, but for what was owed, and not paid, at  *)
(* the cutoff.                                                             *)
LEMMA ShownIsOwed == CashoutInv => NeverOverstated
<1> SUFFICES ASSUME CashoutInv, stale = 0, late = 0 PROVE Balance <= Owed
  BY DEF NeverOverstated, RiderSelfView, VendorSelfView
<1>1. CashoutTypeOK /\ MoneyInv /\ RowsInv
  BY DEF CashoutInv, MoneyInv
<1> DEFINE E == {e \in Entries : bookedAt[e] > Cutoff}
<1>2. /\ Cutoff \in Ends /\ Cutoff \in Nat
      /\ Balance = SumBooked(E) - SumPaid(PaidAfter(Cutoff))
  BY <1>1, CutoffIsEnd
<1>3. SumPaid(PaidBy(Cutoff)) <= SumBooked(BookedBy(Cutoff))
  BY <1>1, <1>2 DEF MoneyInv, OwedInv
<1>4. Booked = BookedBy(Cutoff) \cup E /\ BookedBy(Cutoff) \cap E = {}
  <2>1. \A e \in Entries : bookedAt[e] \in Nat
    BY <1>1, CashoutTypes
  <2> QED
    BY <1>2, <2>1 DEF Booked, BookedBy
<1>5. Rows = PaidBy(Cutoff) \cup PaidAfter(Cutoff) /\ PaidBy(Cutoff) \cap PaidAfter(Cutoff) = {}
  <2>1. \A p \in Rows : payout[p].at \in Nat
    BY <1>1, CashoutTypes DEF Rows
  <2> QED
    BY <1>2, <2>1 DEF PaidBy, PaidAfter
<1> HIDE DEF E
<1>6. /\ SumBooked(Booked) = SumBooked(BookedBy(Cutoff)) + SumBooked(E)
      /\ SumPaid(Rows) = SumPaid(PaidBy(Cutoff)) + SumPaid(PaidAfter(Cutoff))
  BY <1>1, <1>4, <1>5, SumsHere
<1>7. \A S : SumBooked(S) \in Int /\ SumPaid(S) \in Int
  BY <1>1, SumsHere
<1>8. Owed = SumBooked(Booked) - SumPaid(Rows)
  BY DEF Owed, PaidOut
<1> QED
  BY <1>2, <1>3, <1>6, <1>7, <1>8

(* The cutoff is the end of a period.                                      *)
LEMMA NoneFallsBetween == CashoutInv => NoOrderFallsBetween
<1> SUFFICES ASSUME CashoutInv PROVE NoOrderFallsBetween
  OBVIOUS
<1>1. Cutoff \in Ends
  BY CutoffIsEnd DEF CashoutInv, MoneyInv
<1> QED
  BY <1>1 DEF CashoutInv, MoneyInv, ListedInv, NoOrderFallsBetween

(* What was decided has its payout, and its own.                           *)
LEMMA DecisionsHold == CashoutInv => RejectedIsUnpaid
  BY DEF CashoutInv, RequestsInv, DecidedInv, RejectedIsUnpaid

(* The only pending request is the one shown.                              *)
LEMMA OneIsPending == CashoutInv => OnePending
<1> SUFFICES ASSUME CashoutInv, overlap = 0, NEW r \in PendingList
             PROVE  r = VendorSelfView.pendingCashoutRequestId
  BY DEF OnePending
<1>1. kind = "INFORMAL"
  BY DEF CashoutInv, RequestsInv, InformalInv, PendingList, IsPending
<1>2. PendingList = {r}
  BY DEF CashoutInv, RequestsInv, SingleInv
<1>3. Min({r}) = r
  <2>1. r \in Int
    BY DEF PendingList, Requests
  <2> QED
    BY <2>1 DEF Min
<1> QED
  BY <1>1, <1>2, <1>3 DEF VendorSelfView

(* A payout row, a request and a handler hold what their columns and       *)
(* variables may.                                                          *)
THEOREM CashoutsAreTyped == CashoutSpec => []CashoutTypeOK
<1>1. CashoutSpec => []CashoutInv
  BY InitCashout, StepCashout, PTL DEF CashoutSpec
<1>2. CashoutInv => CashoutTypeOK
  BY DEF CashoutInv
<1> QED
  BY <1>1, <1>2, PTL

(* "Must not double-pay", "Mon solde", "this request has already been      *)
(* resolved" and "only one PENDING_APPROVAL request can exist at a time":  *)
(* CashoutsSafe, for any overlap of crons, admins, taps and transfers.     *)
THEOREM CashoutsAreSafe == CashoutSpec => []CashoutsSafe
<1>1. CashoutSpec => []CashoutInv
  BY InitCashout, StepCashout, PTL DEF CashoutSpec
<1>2. CashoutInv => CashoutsSafe
  BY PaidIsEarned, ShownIsOwed, NoneFallsBetween, DecisionsHold, OneIsPending DEF CashoutsSafe
<1> QED
  BY <1>1, <1>2, PTL
=============================================================================
