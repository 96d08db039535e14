-------------------------- MODULE SendLedgerProofs --------------------------
(* Theorems about the sending quota for every size of the two windows,      *)
(* every quota and any number of sends.  What a running sum is for every    *)
(* sequence is shown by its least counterexample.                           *)
EXTENDS SendLedger, WellFoundedInduction, TLAPS

-----------------------------------------------------------------------------
(* Running sums.                                                            *)

(* A set of natural numbers that is not empty has a least one.              *)
LEMMA Least ==
  ASSUME NEW T, T \subseteq Nat, T # {}
  PROVE  \E x \in T : \A y \in T : x <= y
<1>1. PICK x \in T : \A y \in T : ~(<<y, x>> \in OpToRel(<, Nat))
  BY WFMin, NatLessThanWellFounded
<1>2. \A y \in T : ~(y < x)
  BY <1>1 DEF OpToRel
<1> QED BY <1>2

(* Numbers none of which is below its predecessor ascend.                   *)
LEMMA Ascending ==
  ASSUME NEW N \in Nat, NEW f \in [0 .. N -> Int], NEW i \in 0 .. N,
         \A k \in 1 .. N : k > i => f[k - 1] <= f[k]
  PROVE  \A j \in i .. N : f[i] <= f[j]
<1> DEFINE T == {j \in i .. N : f[j] < f[i]}
<1>1. SUFFICES ASSUME T # {} PROVE FALSE
  <2>1. \A j \in i .. N : f[i] \in Int /\ f[j] \in Int
    OBVIOUS
  <2>2. \A j \in i .. N : j \notin T
    BY <1>1
  <2>3. \A j \in i .. N : ~(f[j] < f[i])
    BY <2>2
  <2> QED BY <2>1, <2>3
<1>2. T \subseteq Nat
  OBVIOUS
<1>3. PICK j \in T : \A y \in T : j <= y
  BY <1>1, <1>2, Least
<1>4. j \in i .. N /\ f[j] < f[i]
  BY <1>3
<1>5. j # i
  BY <1>4
<1>6. j - 1 \in i .. N /\ j \in 1 .. N /\ j > i
  BY <1>4, <1>5
<1>7. f[j - 1] <= f[j]
  BY <1>6
<1>8. f[j - 1] \in Int /\ f[j] \in Int /\ f[i] \in Int
  BY <1>6
<1>9. j - 1 \in T
  BY <1>4, <1>6, <1>7, <1>8
<1> QED BY <1>3, <1>6, <1>9

LEMMA Numbers ==
  ASSUME NEW w \in Seq(Nat)
  PROVE  Len(w) \in Nat /\ DOMAIN w = 1 .. Len(w) /\ \A k \in 1 .. Len(w) : w[k] \in Nat
OBVIOUS

(* The first sums of a sequence of numbers.                                 *)
SumsTo(f, w, n) ==
  /\ f \in [0 .. n -> Nat]
  /\ f[0] = 0
  /\ \A k \in 1 .. n : f[k] = f[k - 1] + w[k]

LEMMA SumsToExist ==
  ASSUME NEW w \in Seq(Nat)
  PROVE  \E f : SumsTo(f, w, Len(w))
<1> DEFINE T == {n \in 0 .. Len(w) : ~\E f : SumsTo(f, w, n)}
<1>0. Len(w) \in Nat /\ \A k \in 1 .. Len(w) : w[k] \in Nat
  OBVIOUS
<1>1. SUFFICES ASSUME T # {} PROVE FALSE
  BY <1>0
<1>2. T \subseteq Nat
  BY <1>0
<1>3. PICK n \in T : \A y \in T : n <= y
  BY <1>1, <1>2, Least
<1>4. n \in 0 .. Len(w) /\ n \in Nat /\ ~\E f : SumsTo(f, w, n)
  BY <1>0, <1>3
<1>5. n # 0
  <2>1. SumsTo([k \in 0 .. 0 |-> 0], w, 0)
    BY DEF SumsTo
  <2> QED BY <1>4, <2>1
<1>6. n - 1 \in 0 .. Len(w) /\ n \in 1 .. Len(w)
  BY <1>0, <1>4, <1>5
<1>7. PICK f : SumsTo(f, w, n - 1)
  <2>1. n - 1 \notin T
    <3>1. ~(n <= n - 1)
      BY <1>4
    <3> QED BY <1>3, <3>1, Zenon
  <2> QED BY <1>6, <2>1
<1> DEFINE g == [k \in 0 .. n |-> IF k = n THEN f[n - 1] + w[n] ELSE f[k]]
<1>8. SumsTo(g, w, n)
  <2>1. f \in [0 .. (n - 1) -> Nat] /\ f[0] = 0 /\ \A k \in 1 .. (n - 1) : f[k] = f[k - 1] + w[k]
    BY <1>7 DEF SumsTo
  <2>2. f[n - 1] \in Nat /\ w[n] \in Nat
    BY <1>0, <1>6, <2>1
  <2>3. g \in [0 .. n -> Nat]
    <3>1. \A k \in 0 .. n : k # n => f[k] \in Nat
      BY <1>4, <2>1
    <3> QED BY <2>2, <3>1
  <2>4. g[0] = 0
    BY <1>4, <1>5, <2>1
  <2>5. ASSUME NEW k \in 1 .. n PROVE g[k] = g[k - 1] + w[k]
    <3>1. k \in 0 .. n /\ k - 1 \in 0 .. n /\ k - 1 # n
      BY <1>4
    <3>2. g[k - 1] = f[k - 1]
      BY <3>1
    <3>3. CASE k = n
      BY <3>1, <3>2, <3>3
    <3>4. CASE k # n
      BY <1>4, <2>1, <3>1, <3>2, <3>4
    <3> QED BY <3>3, <3>4
  <2> QED BY <2>3, <2>4, <2>5 DEF SumsTo
<1> QED BY <1>4, <1>8

(* Sums is what its name says.                                              *)
LEMMA SumsDefined ==
  ASSUME NEW w \in Seq(Nat)
  PROVE  /\ Sums(w) \in [0 .. Len(w) -> Nat]
         /\ Sums(w)[0] = 0
         /\ \A k \in 1 .. Len(w) : Sums(w)[k] = Sums(w)[k - 1] + w[k]
<1> DEFINE IsSums(s) == s = [k \in 0 .. Len(w) |-> IF k = 0 THEN 0 ELSE s[k - 1] + w[k]]
<1>0. Len(w) \in Nat
  OBVIOUS
<1>1. PICK f : SumsTo(f, w, Len(w))
  BY SumsToExist
<1>2. f \in [0 .. Len(w) -> Nat] /\ f[0] = 0 /\ \A k \in 1 .. Len(w) : f[k] = f[k - 1] + w[k]
  BY <1>1 DEF SumsTo
<1>3. IsSums(f)
  <2>1. \A k \in 0 .. Len(w) : f[k] = IF k = 0 THEN 0 ELSE f[k - 1] + w[k]
    BY <1>0, <1>2
  <2> QED BY <1>2, <2>1
<1>4. Sums(w) = CHOOSE s : IsSums(s)
  BY Zenon DEF Sums
<1>5. IsSums(Sums(w))
  <2> HIDE DEF IsSums
  <2> QED BY <1>3, <1>4
<1> DEFINE s == Sums(w)
<1>6. s[0] = 0 /\ \A k \in 1 .. Len(w) : s[k] = s[k - 1] + w[k]
  <2>1. \A k \in 0 .. Len(w) : s[k] = IF k = 0 THEN 0 ELSE s[k - 1] + w[k]
    BY <1>5
  <2> HIDE DEF s
  <2> QED BY <1>0, <2>1
<1>7. \A k \in 0 .. Len(w) : s[k] = f[k]
  <2> DEFINE T == {k \in 0 .. Len(w) : s[k] # f[k]}
  <2>1. SUFFICES ASSUME T # {} PROVE FALSE
    OBVIOUS
  <2>2. T \subseteq Nat
    BY <1>0
  <2>3. PICK k \in T : \A y \in T : k <= y
    BY <2>1, <2>2, Least
  <2>4. k \in 0 .. Len(w) /\ s[k] # f[k]
    BY <2>3
  <2>5. k # 0
    BY <1>2, <1>6, <2>4
  <2>6. k \in 1 .. Len(w) /\ k - 1 \in 0 .. Len(w) /\ ~(k <= k - 1)
    BY <1>0, <2>4, <2>5
  <2>7. s[k - 1] = f[k - 1]
    BY <2>3, <2>6
  <2> QED BY <1>2, <1>6, <2>4, <2>6, <2>7
<1>8. s \in [0 .. Len(w) -> Nat]
  <2>1. DOMAIN s = 0 .. Len(w) /\ s = [k \in DOMAIN s |-> s[k]]
    BY <1>5
  <2>2. \A k \in 0 .. Len(w) : s[k] \in Nat
    BY <1>2, <1>7
  <2> HIDE DEF s
  <2> QED BY <2>1, <2>2
<1> QED BY <1>6, <1>8

LEMMA SumsTyped ==
  ASSUME NEW w \in Seq(Nat)
  PROVE  Total(w) \in Nat /\ \A k \in 0 .. Len(w) : Sums(w)[k] \in Nat
<1>1. Len(w) \in Nat /\ Sums(w) \in [0 .. Len(w) -> Nat]
  BY SumsDefined
<1>2. Len(w) \in 0 .. Len(w)
  BY <1>1
<1> QED BY <1>1, <1>2 DEF Total

(* Between two places, larger numbers add up to more.                       *)
LEMMA Compared ==
  ASSUME NEW u \in Seq(Nat), NEW w \in Seq(Nat), NEW j \in Nat, NEW i \in 0 .. j,
         j <= Len(u), j <= Len(w),
         \A k \in 1 .. j : k > i => u[k] <= w[k]
  PROVE  Sums(u)[j] - Sums(u)[i] <= Sums(w)[j] - Sums(w)[i]
<1> DEFINE U == Sums(u)
           W == Sums(w)
           f == [k \in 0 .. j |-> W[k] - U[k]]
<1>0. Len(u) \in Nat /\ Len(w) \in Nat
  OBVIOUS
<1>1. \A k \in 0 .. j : U[k] \in Nat /\ W[k] \in Nat
  <2>1. \A k \in 0 .. j : k \in 0 .. Len(u) /\ k \in 0 .. Len(w)
    BY <1>0
  <2> QED BY <2>1, SumsTyped
<1>2. \A k \in 1 .. j : U[k] = U[k - 1] + u[k] /\ W[k] = W[k - 1] + w[k] /\ u[k] \in Nat /\ w[k] \in Nat
  <2>1. \A k \in 1 .. j : k \in 1 .. Len(u) /\ k \in 1 .. Len(w)
    BY <1>0
  <2>2. \A k \in 1 .. j : u[k] \in Nat /\ w[k] \in Nat
    BY <2>1, Numbers, Zenon
  <2>3. \A k \in 1 .. j : U[k] = U[k - 1] + u[k]
    BY <2>1, SumsDefined
  <2>4. \A k \in 1 .. j : W[k] = W[k - 1] + w[k]
    BY <2>1, SumsDefined
  <2> QED BY <2>2, <2>3, <2>4
<1> HIDE DEF U, W
<1>3. f \in [0 .. j -> Int]
  <2>1. \A k \in 0 .. j : W[k] - U[k] \in Int
    BY <1>1
  <2> QED BY <2>1
<1>4. ASSUME NEW k \in 1 .. j, k > i PROVE f[k - 1] <= f[k]
  <2>1. k \in 0 .. j /\ k - 1 \in 0 .. j
    OBVIOUS
  <2>2. f[k] = W[k] - U[k] /\ f[k - 1] = W[k - 1] - U[k - 1]
    BY <2>1
  <2>3. U[k - 1] \in Nat /\ W[k - 1] \in Nat /\ u[k] <= w[k]
    BY <1>1, <1>4, <2>1
  <2>4. U[k] = U[k - 1] + u[k] /\ W[k] = W[k - 1] + w[k] /\ u[k] \in Nat /\ w[k] \in Nat
    BY <1>2
  <2>5. \A a, b, c, e \in Nat : c <= e => a - b <= (a + e) - (b + c)
    OBVIOUS
  <2>6. W[k - 1] - U[k - 1] <= (W[k - 1] + w[k]) - (U[k - 1] + u[k])
    BY <2>3, <2>4, <2>5
  <2> HIDE DEF f
  <2> QED BY <2>2, <2>4, <2>6
<1>5. f[i] <= f[j]
  <2>1. \A k \in 1 .. j : k > i => f[k - 1] <= f[k]
    BY <1>4
  <2>2. j \in i .. j
    OBVIOUS
  <2> HIDE DEF f
  <2> QED BY <1>3, <2>1, <2>2, Ascending
<1>6. f[i] = W[i] - U[i] /\ f[j] = W[j] - U[j]
  OBVIOUS
<1>7. U[i] \in Nat /\ W[i] \in Nat /\ U[j] \in Nat /\ W[j] \in Nat
  BY <1>1
<1> HIDE DEF f
<1>8. U[j] - U[i] <= W[j] - W[i]
  BY <1>5, <1>6, <1>7
<1> QED BY <1>8 DEF U, W

LEMMA ComparedTotals ==
  ASSUME NEW u \in Seq(Nat), NEW w \in Seq(Nat), Len(u) = Len(w),
         \A k \in 1 .. Len(w) : u[k] <= w[k]
  PROVE  Total(u) <= Total(w)
<1>1. Len(w) \in Nat /\ 0 \in 0 .. Len(w)
  OBVIOUS
<1>2. Sums(u)[Len(w)] - Sums(u)[0] <= Sums(w)[Len(w)] - Sums(w)[0]
  <2>1. Len(w) <= Len(u) /\ Len(w) <= Len(w) /\ \A k \in 1 .. Len(w) : k > 0 => u[k] <= w[k]
    BY <1>1
  <2> QED BY <1>1, <2>1, Compared
<1>3. Sums(u)[0] = 0 /\ Sums(w)[0] = 0
  BY SumsDefined
<1>4. Total(u) \in Nat /\ Total(w) \in Nat
  BY SumsTyped
<1> QED BY <1>2, <1>3, <1>4 DEF Total

(* Nothing adds up to nothing.                                              *)
LEMMA ZerosFirst ==
  ASSUME NEW w \in Seq(Nat), NEW i \in 0 .. Len(w), \A k \in 1 .. i : w[k] = 0
  PROVE  Sums(w)[i] = 0
<1> DEFINE W == Sums(w)
           f == [k \in 0 .. i |-> 0 - W[k]]
<1>0. Len(w) \in Nat /\ i \in Nat
  OBVIOUS
<1>1. W[0] = 0 /\ \A k \in 0 .. i : W[k] \in Nat
  <2>1. \A k \in 0 .. i : k \in 0 .. Len(w)
    BY <1>0
  <2> QED BY <2>1, SumsTyped, SumsDefined
<1>2. \A k \in 1 .. i : W[k] = W[k - 1] + w[k]
  <2>1. \A k \in 1 .. i : k \in 1 .. Len(w)
    BY <1>0
  <2> QED BY <2>1, SumsDefined
<1> HIDE DEF W
<1>3. f \in [0 .. i -> Int]
  <2>1. \A k \in 0 .. i : 0 - W[k] \in Int
    BY <1>1
  <2> QED BY <2>1
<1>4. ASSUME NEW k \in 1 .. i PROVE f[k - 1] <= f[k]
  <2>1. k \in 0 .. i /\ k - 1 \in 0 .. i
    BY <1>0
  <2>2. f[k] = 0 - W[k] /\ f[k - 1] = 0 - W[k - 1]
    BY <2>1
  <2>3. W[k - 1] \in Nat /\ W[k] = W[k - 1] + 0
    BY <1>1, <1>2, <2>1
  <2> HIDE DEF f
  <2> QED BY <2>2, <2>3
<1>5. f[0] <= f[i]
  <2>1. i \in 0 .. i /\ 0 \in 0 .. i
    BY <1>0
  <2> HIDE DEF f
  <2> QED BY <1>0, <1>3, <1>4, <2>1, Ascending
<1>6. f[0] = 0 /\ f[i] = 0 - W[i] /\ W[i] \in Nat
  BY <1>0, <1>1
<1> HIDE DEF f
<1>7. W[i] = 0
  BY <1>5, <1>6
<1> QED BY <1>7 DEF W

(* One more number.                                                         *)
LEMMA Extended ==
  ASSUME NEW u \in Seq(Nat), NEW w \in Seq(Nat), Len(u) = Len(w) + 1,
         \A k \in 1 .. Len(w) : u[k] = w[k]
  PROVE  Total(u) = Total(w) + u[Len(u)]
<1> DEFINE N == Len(w)
<1>0. N \in Nat /\ 0 \in 0 .. N /\ Len(u) \in 1 .. Len(u) /\ Len(u) - 1 = N /\ N \in 0 .. Len(u)
      /\ N <= Len(u)
  OBVIOUS
<1>1. \A k \in 1 .. N : u[k] \in Nat /\ u[k] <= w[k] /\ w[k] <= u[k]
  OBVIOUS
<1>2. Sums(u)[0] = 0 /\ Sums(w)[0] = 0
  BY SumsDefined
<1>3. Sums(u)[N] \in Nat /\ Sums(w)[N] \in Nat
  BY <1>0, SumsTyped
<1> HIDE DEF N
<1>a. N <= Len(w)
  BY <1>0 DEF N
<1>4. Sums(u)[N] - Sums(u)[0] <= Sums(w)[N] - Sums(w)[0]
  <2>1. \A k \in 1 .. N : k > 0 => u[k] <= w[k]
    BY <1>1
  <2> QED BY <1>0, <1>a, <2>1, Compared
<1>5. Sums(w)[N] - Sums(w)[0] <= Sums(u)[N] - Sums(u)[0]
  <2>1. \A k \in 1 .. N : k > 0 => w[k] <= u[k]
    BY <1>1
  <2> QED BY <1>0, <1>a, <2>1, Compared
<1>6. Sums(u)[N] = Sums(w)[N]
  BY <1>2, <1>3, <1>4, <1>5
<1>7. Sums(u)[Len(u)] = Sums(u)[Len(u) - 1] + u[Len(u)]
  BY <1>0, SumsDefined
<1> QED BY <1>0, <1>6, <1>7 DEF Total, N

-----------------------------------------------------------------------------
(* The inductive invariant: rows are numbered in the order of their times,  *)
(* and what was deleted had left the day by then.                           *)
Rows == [id : Ids, at : Nat, recipients : Recipients]

TypeInv ==
  /\ now \in Nat
  /\ charged \in Seq(Rows)
  /\ ledger \subseteq DOMAIN charged

InOrder ==
  \A k \in DOMAIN charged :
    /\ charged[k].at <= now
    /\ \A m \in DOMAIN charged : k <= m => charged[k].at <= charged[m].at

DayIsKept == \A k \in DOMAIN charged : charged[k].at > now - Day => k \in ledger

LedgerInv == TypeInv /\ InOrder /\ DayIsKept

IInv == LedgerInv /\ QuotaKept

(* The windows of any sequence of rows.                                     *)
HourIn(c, rows, t) == [k \in DOMAIN c |-> IF k \in rows /\ c[k].at > t - Hour THEN 1 ELSE 0]
DayIn(c, rows, t) ==
  [k \in DOMAIN c |-> IF k \in rows /\ c[k].at > t - Day THEN c[k].recipients ELSE 0]
Past(c, t) == {k \in DOMAIN c : c[k].at <= t}

QuotaAt(c, t) ==
  /\ Total(HourIn(c, Past(c, t), t)) <= MessagesPerHour
  /\ Total(DayIn(c, Past(c, t), t)) <= RecipientsPerDay

ChargedOnce == \A k, m \in DOMAIN charged : charged[k].id = charged[m].id => k = m

LEMMA Constants ==
  /\ Hour \in Nat /\ Day \in Nat /\ Hour > 0 /\ Hour < Day
  /\ MessagesPerHour \in Nat /\ MessagesPerHour > 0
  /\ RecipientsPerDay \in Nat /\ RecipientsPerDay > 0
  /\ Recipients \subseteq Nat
<1>1. MaxRecipients \in Nat
  BY LedgerAssumption
<1> QED BY <1>1, LedgerAssumption DEF Recipients

LEMMA QuotaKeptParts ==
  QuotaKept <=> ((\A t \in 0 .. now : QuotaAt(charged, t)) /\ ChargedOnce)
BY Zenon DEF QuotaKept, QuotaAt, Hourly, Daily, HourIn, DayIn, Past, ChargedOnce

LEMMA RowsTyped ==
  ASSUME NEW c \in Seq(Rows)
  PROVE  /\ Len(c) \in Nat /\ DOMAIN c = 1 .. Len(c)
         /\ \A k \in DOMAIN c : c[k].id \in Ids /\ c[k].at \in Nat /\ c[k].recipients \in Nat
<1>1. Len(c) \in Nat /\ DOMAIN c = 1 .. Len(c) /\ \A k \in DOMAIN c : c[k] \in Rows
  OBVIOUS
<1> QED BY <1>1, Constants DEF Rows

(* Both windows are sequences of numbers, one for each row.                 *)
LEMMA WindowsTyped ==
  ASSUME NEW c \in Seq(Rows), NEW rows, NEW t \in Int
  PROVE  /\ HourIn(c, rows, t) \in Seq(Nat) /\ Len(HourIn(c, rows, t)) = Len(c)
         /\ DayIn(c, rows, t) \in Seq(Nat) /\ Len(DayIn(c, rows, t)) = Len(c)
<1>1. Len(c) \in Nat /\ DOMAIN c = 1 .. Len(c) /\ \A k \in DOMAIN c : c[k].recipients \in Nat
  BY RowsTyped
<1>2. HourIn(c, rows, t) \in [1 .. Len(c) -> Nat]
  BY <1>1 DEF HourIn
<1>3. DayIn(c, rows, t) \in [1 .. Len(c) -> Nat]
  BY <1>1 DEF DayIn
<1>4. \A f \in [1 .. Len(c) -> Nat] : f \in Seq(Nat) /\ Len(f) = Len(c)
  BY <1>1
<1> QED BY <1>2, <1>3, <1>4

(* A window whose rows are all in another's counts no more.                 *)
LEMMA SmallerWindow ==
  ASSUME NEW c \in Seq(Rows), NEW r, NEW s, NEW t \in Int, NEW v \in Int,
         \A k \in DOMAIN c : k \in r /\ c[k].at > t - Hour => k \in s /\ c[k].at > v - Hour,
         \A k \in DOMAIN c : k \in r /\ c[k].at > t - Day => k \in s /\ c[k].at > v - Day
  PROVE  /\ Total(HourIn(c, r, t)) <= Total(HourIn(c, s, v))
         /\ Total(DayIn(c, r, t)) <= Total(DayIn(c, s, v))
<1>1. Len(c) \in Nat /\ DOMAIN c = 1 .. Len(c) /\ \A k \in DOMAIN c : c[k].recipients \in Nat
  BY RowsTyped
<1>2. \A k \in 1 .. Len(c) : HourIn(c, r, t)[k] <= HourIn(c, s, v)[k]
  BY <1>1 DEF HourIn
<1>3. \A k \in 1 .. Len(c) : DayIn(c, r, t)[k] <= DayIn(c, s, v)[k]
  BY <1>1 DEF DayIn
<1>4. /\ HourIn(c, r, t) \in Seq(Nat) /\ HourIn(c, s, v) \in Seq(Nat)
      /\ DayIn(c, r, t) \in Seq(Nat) /\ DayIn(c, s, v) \in Seq(Nat)
      /\ Len(HourIn(c, r, t)) = Len(c) /\ Len(HourIn(c, s, v)) = Len(c)
      /\ Len(DayIn(c, r, t)) = Len(c) /\ Len(DayIn(c, s, v)) = Len(c)
  BY WindowsTyped
<1> QED BY <1>2, <1>3, <1>4, ComparedTotals

(* The deleted rows are in neither window, so nobody can tell that they     *)
(* are gone.                                                                *)
LEMMA PurgeUnseen ==
  ASSUME LedgerInv, NEW t \in Int, t >= now
  PROVE  /\ Hourly(Purged, t) = HourIn(charged, DOMAIN charged, t)
         /\ Daily(Purged, t) = DayIn(charged, DOMAIN charged, t)
<1>0. now \in Nat /\ charged \in Seq(Rows)
  BY DEF LedgerInv, TypeInv
<1>1. \A k \in DOMAIN charged : charged[k].at \in Nat
  BY <1>0, RowsTyped
<1>2. \A k \in DOMAIN charged : charged[k].at > now - Day => k \in Purged
  BY DEF Purged, LedgerInv, DayIsKept
<1>3. \A k \in DOMAIN charged : charged[k].at > t - Day => k \in Purged
  BY <1>0, <1>1, <1>2, Constants
<1>4. \A k \in DOMAIN charged : charged[k].at > t - Hour => k \in Purged
  BY <1>0, <1>1, <1>3, Constants
<1> QED BY <1>3, <1>4 DEF Hourly, Daily, HourIn, DayIn

LEMMA Initially == Init => IInv
<1> SUFFICES ASSUME Init PROVE IInv
  OBVIOUS
<1>0. now = 0 /\ charged = <<>> /\ ledger = {}
  BY DEF Init
<1>1. DOMAIN charged = {} /\ charged \in Seq(Rows) /\ Len(charged) = 0
  BY <1>0
<1>2. LedgerInv /\ ChargedOnce
  BY <1>0, <1>1 DEF LedgerInv, TypeInv, InOrder, DayIsKept, ChargedOnce
<1>3. ASSUME NEW t \in 0 .. now PROVE QuotaAt(charged, t)
  <2>1. t \in Int
    BY <1>0
  <2>2. /\ HourIn(charged, Past(charged, t), t) \in Seq(Nat)
        /\ Len(HourIn(charged, Past(charged, t), t)) = 0
        /\ DayIn(charged, Past(charged, t), t) \in Seq(Nat)
        /\ Len(DayIn(charged, Past(charged, t), t)) = 0
    BY <1>1, <2>1, WindowsTyped
  <2>3. \A w \in Seq(Nat) : Len(w) = 0 => Total(w) = 0
    BY SumsDefined DEF Total
  <2>4. /\ Total(HourIn(charged, Past(charged, t), t)) = 0
        /\ Total(DayIn(charged, Past(charged, t), t)) = 0
    BY <2>2, <2>3
  <2> QED BY <2>4, Constants DEF QuotaAt
<1> QED BY <1>2, <1>3, QuotaKeptParts DEF IInv

(* Where neither the clock nor the rows ever charged change, only the       *)
(* table does.                                                              *)
LEMMA PurgeStep ==
  ASSUME IInv, ledger' = Purged, UNCHANGED <<now, charged>>
  PROVE  IInv'
<1>0. now' = now /\ charged' = charged /\ ledger' = Purged
  OBVIOUS
<1>1. TypeInv'
  BY <1>0 DEF IInv, LedgerInv, TypeInv, Purged
<1>2. InOrder'
  BY <1>0 DEF IInv, LedgerInv, InOrder
<1>3. DayIsKept'
  BY <1>0 DEF IInv, LedgerInv, DayIsKept, Purged
<1>4. QuotaKept'
  BY <1>0 DEF IInv, QuotaKept, Hourly, Daily
<1> QED BY <1>1, <1>2, <1>3, <1>4 DEF IInv, LedgerInv

(* When the clock moves, both windows lose rows and gain none.              *)
LEMMA TickStep ==
  ASSUME IInv, Tick
  PROVE  IInv'
<1>0. now' = now + 1 /\ charged' = charged /\ ledger' = ledger
  BY DEF Tick
<1>1. now \in Nat /\ charged \in Seq(Rows) /\ ledger \subseteq DOMAIN charged
  BY DEF IInv, LedgerInv, TypeInv
<1>2. \A k \in DOMAIN charged : charged[k].at \in Nat
  BY <1>1, RowsTyped
<1>3. \A k \in DOMAIN charged : charged[k].at <= now
  BY DEF IInv, LedgerInv, InOrder
<1>4. TypeInv'
  BY <1>0, <1>1 DEF TypeInv
<1>5. InOrder'
  <2>1. \A k \in DOMAIN charged : charged[k].at <= now + 1
    BY <1>1, <1>2, <1>3
  <2> QED BY <1>0, <2>1 DEF IInv, LedgerInv, InOrder
<1>6. DayIsKept'
  <2>1. \A k \in DOMAIN charged : charged[k].at > now - Day => k \in ledger
    BY DEF IInv, LedgerInv, DayIsKept
  <2>2. \A k \in DOMAIN charged' : charged'[k].at > now' - Day => k \in ledger'
    BY <1>0, <1>1, <1>2, <2>1, Constants
  <2> QED BY <2>2 DEF DayIsKept
<1>7. QuotaKept'
  <2>1. (\A t \in 0 .. now : QuotaAt(charged, t)) /\ ChargedOnce
    BY QuotaKeptParts DEF IInv
  <2>2. QuotaAt(charged, now + 1)
    <3>0. PICK v \in Int : v = now + 1
      BY <1>1
    <3> DEFINE r == Past(charged, v)
               s == Past(charged, now)
    <3>1. r = DOMAIN charged /\ s = DOMAIN charged
      <4>1. \A k \in DOMAIN charged : charged[k].at <= v
        BY <1>1, <1>2, <1>3, <3>0
      <4> QED BY <1>3, <4>1 DEF Past
    <3>2. \A k \in DOMAIN charged : k \in r /\ charged[k].at > v - Hour => k \in s /\ charged[k].at > now - Hour
      BY <1>1, <1>2, <3>0, <3>1, Constants
    <3>3. \A k \in DOMAIN charged : k \in r /\ charged[k].at > v - Day => k \in s /\ charged[k].at > now - Day
      BY <1>1, <1>2, <3>0, <3>1, Constants
    <3>4. QuotaAt(charged, now)
      BY <1>1, <2>1
    <3> DEFINE h == Total(HourIn(charged, r, v))
               g == Total(HourIn(charged, s, now))
               e == Total(DayIn(charged, r, v))
               f == Total(DayIn(charged, s, now))
    <3>5. g <= MessagesPerHour /\ f <= RecipientsPerDay
      BY <3>4 DEF QuotaAt
    <3>6. now \in Int
      BY <1>1
    <3> HIDE DEF r, s
    <3>7. h <= g /\ e <= f
      BY <1>1, <3>2, <3>3, <3>6, SmallerWindow
    <3>8. h \in Nat /\ g \in Nat /\ e \in Nat /\ f \in Nat
      BY <1>1, <3>6, WindowsTyped, SumsTyped
    <3>9. h <= MessagesPerHour /\ e <= RecipientsPerDay
      <4> HIDE DEF h, g, e, f
      <4> QED BY <3>5, <3>7, <3>8, Constants
    <3> QED BY <3>0, <3>9 DEF QuotaAt, r
  <2>3. \A t \in 0 .. now' : QuotaAt(charged', t)
    <3>1. \A t \in 0 .. now + 1 : t \in 0 .. now \/ t = now + 1
      BY <1>1
    <3> QED BY <1>0, <2>1, <2>2, <3>1
  <2>4. ChargedOnce'
    BY <1>0, <2>1 DEF ChargedOnce
  <2> QED
    BY <2>3, <2>4, Zenon
    DEF QuotaKept, QuotaAt, Hourly, Daily, HourIn, DayIn, Past, ChargedOnce
<1> QED BY <1>4, <1>5, <1>6, <1>7 DEF IInv, LedgerInv

(* A new row counts in the windows that end now and in no earlier one.      *)
LEMMA AdmitStep ==
  ASSUME IInv, NEW id \in Ids, NEW n \in Recipients, Retriable(id, n), Admit(id, n)
  PROVE  IInv'
<1> DEFINE row == [id |-> id, at |-> now, recipients |-> n]
           N   == Len(charged)
           c   == Append(charged, row)
<1>0. /\ now' = now /\ charged' = c /\ ledger' = Purged \cup {N + 1}
      /\ id \notin Charged(Purged) /\ Fits(Purged, now, n)
  BY DEF Admit
<1>1. now \in Nat /\ charged \in Seq(Rows) /\ ledger \subseteq DOMAIN charged
  BY DEF IInv, LedgerInv, TypeInv
<1>2. N \in Nat /\ DOMAIN charged = 1 .. N /\ \A k \in 1 .. N : charged[k].at \in Nat /\ charged[k].recipients \in Nat
  BY <1>1, RowsTyped
<1>3. \A k \in 1 .. N : charged[k].at <= now
  BY <1>2 DEF IInv, LedgerInv, InOrder
<1>4. n \in Nat /\ row \in Rows /\ row.at = now /\ row.recipients = n /\ row.id = id
  BY <1>1, Constants DEF Rows
<1>5. /\ c \in Seq(Rows) /\ Len(c) = N + 1 /\ DOMAIN c = 1 .. (N + 1)
      /\ (\A k \in 1 .. N : c[k] = charged[k]) /\ c[N + 1] = row
  <2> HIDE DEF row
  <2> QED BY <1>1, <1>4
<1> HIDE DEF row, N, c
<1>6. TypeInv'
  <2>1. Purged \subseteq 1 .. N
    BY <1>1, <1>2 DEF Purged
  <2>2. Purged \cup {N + 1} \subseteq DOMAIN c
    BY <1>2, <1>5, <2>1
  <2> QED BY <1>0, <1>1, <1>5, <2>2 DEF TypeInv
<1>7. InOrder'
  <2>1. \A k \in 1 .. (N + 1) : k \in 1 .. N \/ k = N + 1
    BY <1>2
  <2>2. \A k \in DOMAIN c : c[k].at <= now
    BY <1>1, <1>3, <1>4, <1>5, <2>1
  <2>3. ASSUME NEW k \in DOMAIN c, NEW m \in DOMAIN c, k <= m PROVE c[k].at <= c[m].at
    <3>1. CASE m = N + 1
      BY <1>4, <1>5, <2>2, <3>1
    <3>2. CASE m # N + 1
      <4>1. k \in 1 .. N /\ m \in 1 .. N
        BY <1>2, <1>5, <2>3, <3>2
      <4>2. charged[k].at <= charged[m].at
        BY <1>2, <2>3, <4>1 DEF IInv, LedgerInv, InOrder
      <4> QED BY <1>5, <4>1, <4>2
    <3> QED BY <3>1, <3>2
  <2> QED BY <1>0, <2>2, <2>3 DEF InOrder
<1>8. DayIsKept'
  <2>1. ASSUME NEW k \in DOMAIN c, c[k].at > now - Day PROVE k \in Purged \cup {N + 1}
    <3>1. CASE k = N + 1
      BY <3>1
    <3>2. CASE k # N + 1
      <4>1. k \in 1 .. N
        BY <1>2, <1>5, <3>2
      <4> QED BY <1>2, <1>5, <2>1, <4>1 DEF IInv, LedgerInv, DayIsKept, Purged
    <3> QED BY <3>1, <3>2
  <2> QED BY <1>0, <2>1 DEF DayIsKept
<1>9. ChargedOnce'
  <2>1. \A k \in 1 .. N : charged[k].id # id
    <3> SUFFICES ASSUME NEW k \in 1 .. N, charged[k].id = id PROVE FALSE
      OBVIOUS
    <3>1. now <= charged[k].at + Hour
      BY <1>2 DEF Retriable
    <3>2. charged[k].at > now - Day
      BY <1>1, <1>2, <3>1, Constants
    <3>3. k \in Purged
      BY <1>2, <3>2 DEF IInv, LedgerInv, DayIsKept, Purged
    <3> QED BY <1>0, <3>3 DEF Charged
  <2>2. ChargedOnce
    BY QuotaKeptParts DEF IInv
  <2>3. ASSUME NEW k \in DOMAIN c, NEW m \in DOMAIN c, c[k].id = c[m].id PROVE k = m
    <3>1. CASE k = N + 1 /\ m = N + 1
      BY <3>1
    <3>2. CASE k # N + 1 /\ m = N + 1
      <4>1. k \in 1 .. N
        BY <1>2, <1>5, <3>2
      <4> QED BY <1>4, <1>5, <2>1, <2>3, <3>2, <4>1
    <3>3. CASE k = N + 1 /\ m # N + 1
      <4>1. m \in 1 .. N
        BY <1>2, <1>5, <3>3
      <4> QED BY <1>4, <1>5, <2>1, <2>3, <3>3, <4>1
    <3>4. CASE k # N + 1 /\ m # N + 1
      <4>1. k \in 1 .. N /\ m \in 1 .. N
        BY <1>2, <1>5, <3>4
      <4> QED BY <1>2, <1>5, <2>2, <2>3, <4>1 DEF ChargedOnce
    <3> QED BY <3>1, <3>2, <3>3, <3>4
  <2> QED BY <1>0, <2>3 DEF ChargedOnce
<1>10. ASSUME NEW t \in 0 .. now PROVE QuotaAt(c, t)
  <2> DEFINE u == HourIn(c, Past(c, t), t)
             w == HourIn(charged, Past(charged, t), t)
             v == DayIn(c, Past(c, t), t)
             x == DayIn(charged, Past(charged, t), t)
  <2>0. t \in Int
    BY <1>1
  <2>1. /\ u \in Seq(Nat) /\ w \in Seq(Nat) /\ Len(u) = N + 1 /\ Len(w) = N
        /\ v \in Seq(Nat) /\ x \in Seq(Nat) /\ Len(v) = N + 1 /\ Len(x) = N
    BY <1>1, <1>5, <2>0, WindowsTyped DEF N
  <2>2. QuotaAt(charged, t)
    BY QuotaKeptParts DEF IInv
  <2>3. Total(w) \in Nat /\ Total(x) \in Nat /\ Total(w) <= MessagesPerHour /\ Total(x) <= RecipientsPerDay
    <3>1. Total(w) \in Nat /\ Total(x) \in Nat
      <4> HIDE DEF w, x
      <4> QED BY <2>1, SumsTyped
    <3> QED BY <2>2, <3>1 DEF QuotaAt
  <2>4. \A k \in 1 .. N : k \in Past(c, t) <=> k \in Past(charged, t)
    BY <1>2, <1>5 DEF Past
  <2>5. N + 1 \in DOMAIN c /\ (N + 1 \in Past(c, t) <=> now <= t) /\ \A k \in 1 .. N : k \in DOMAIN c
    BY <1>2, <1>4, <1>5 DEF Past
  <2>6. \A k \in 1 .. N : u[k] = w[k]
    BY <1>2, <1>5, <2>4, <2>5 DEF HourIn
  <2>7. \A k \in 1 .. N : v[k] = x[k]
    BY <1>2, <1>5, <2>4, <2>5 DEF DayIn
  <2>8. Total(u) = Total(w) + u[N + 1] /\ Total(v) = Total(x) + v[N + 1]
    <3> HIDE DEF u, w, v, x
    <3> QED BY <2>1, <2>6, <2>7, Extended
  <2>9. CASE t < now
    <3>1. N + 1 \notin Past(c, t)
      BY <1>1, <2>0, <2>5, <2>9
    <3>2. u[N + 1] = 0 /\ v[N + 1] = 0
      BY <2>5, <3>1 DEF HourIn, DayIn
    <3>3. Total(u) <= MessagesPerHour /\ Total(v) <= RecipientsPerDay
      <4> HIDE DEF u, w, v, x
      <4> QED BY <2>3, <2>8, <3>2
    <3> QED BY <3>3 DEF QuotaAt
  <2>10. CASE t = now
    <3>1. u[N + 1] = 1
      <4>1. u[N + 1] = IF N + 1 \in Past(c, t) /\ c[N + 1].at > t - Hour THEN 1 ELSE 0
        BY <2>5 DEF HourIn
      <4>2. now <= t /\ now > t - Hour
        BY <1>1, <2>10, Constants
      <4> QED BY <1>4, <1>5, <2>5, <4>1, <4>2
    <3>2. v[N + 1] = n
      <4>1. v[N + 1] = IF N + 1 \in Past(c, t) /\ c[N + 1].at > t - Day THEN c[N + 1].recipients ELSE 0
        BY <2>5 DEF DayIn
      <4>2. now <= t /\ now > t - Day
        BY <1>1, <2>10, Constants
      <4> QED BY <1>4, <1>5, <2>5, <4>1, <4>2
    <3>3. Past(charged, t) = DOMAIN charged
      BY <1>2, <1>3, <2>10 DEF Past
    <3>4. Hourly(Purged, now) = w /\ Daily(Purged, now) = x
      <4>1. now \in Int /\ now >= now
        BY <1>1
      <4> QED BY <2>10, <3>3, <4>1, PurgeUnseen DEF IInv
    <3>5. Total(w) < MessagesPerHour /\ Total(x) + n <= RecipientsPerDay
      BY <1>0, <3>4 DEF Fits
    <3>6. Total(u) <= MessagesPerHour /\ Total(v) <= RecipientsPerDay
      <4> HIDE DEF u, w, v, x
      <4> QED BY <1>4, <2>3, <2>8, <3>1, <3>2, <3>5, Constants
    <3> QED BY <3>6 DEF QuotaAt
  <2> QED BY <1>1, <2>0, <2>9, <2>10
<1>11. QuotaKept'
  <2>1. \A t \in 0 .. now' : QuotaAt(charged', t)
    BY <1>0, <1>10
  <2> QED
    BY <1>9, <2>1, Zenon
    DEF QuotaKept, QuotaAt, Hourly, Daily, HourIn, DayIn, Past, ChargedOnce
<1> QED BY <1>6, <1>7, <1>8, <1>11 DEF IInv, LedgerInv

LEMMA Inductive == IInv /\ [Next]_vars => IInv'
<1> SUFFICES ASSUME IInv, [Next]_vars PROVE IInv'
  OBVIOUS
<1>1. ASSUME NEW id \in Ids, NEW n \in Recipients, Retriable(id, n),
             Replay(id) \/ Admit(id, n) \/ Refuse(id, n)
      PROVE  IInv'
  <2>1. CASE Replay(id)
    BY <2>1, PurgeStep DEF Replay
  <2>2. CASE Admit(id, n)
    BY <1>1, <2>2, AdmitStep
  <2>3. CASE Refuse(id, n)
    BY <2>3, PurgeStep DEF Refuse
  <2> QED BY <1>1, <2>1, <2>2, <2>3
<1>2. CASE Tick
  BY <1>2, TickStep
<1>3. CASE UNCHANGED vars
  <2>1. now' = now /\ charged' = charged /\ ledger' = ledger
    BY <1>3 DEF vars
  <2> QED
    BY <2>1
    DEF IInv, LedgerInv, TypeInv, InOrder, DayIsKept, QuotaKept, Hourly, Daily
<1> QED BY <1>1, <1>2, <1>3 DEF Next

LEMMA Invariant == Spec => []IInv
<1> QED BY Initially, Inductive, PTL DEF Spec

(* No hour holds more messages and no day more recipients than the quota,   *)
(* and no send is charged twice, for every quota and window and any number  *)
(* of sends, retries and purges (AdmitSend).                                *)
THEOREM QuotaIsKept == Spec => []QuotaKept
<1>1. IInv => QuotaKept
  BY DEF IInv
<1> QED BY <1>1, Invariant, PTL

-----------------------------------------------------------------------------
(* The wait.                                                                *)

(* Some row is the one with which the excess is covered.                    *)
Covers(w, excess, k) == Sums(w)[k] >= excess /\ Sums(w)[k - 1] < excess

LEMMA CoverExists ==
  ASSUME NEW w \in Seq(Nat), NEW excess \in Int, excess > 0, excess <= Total(w)
  PROVE  \E k \in DOMAIN w : Covers(w, excess, k)
<1> DEFINE T == {k \in 0 .. Len(w) : Sums(w)[k] >= excess}
<1>0. Len(w) \in Nat /\ DOMAIN w = 1 .. Len(w) /\ Len(w) \in 0 .. Len(w)
  OBVIOUS
<1>1. Sums(w)[0] = 0 /\ \A k \in 0 .. Len(w) : Sums(w)[k] \in Nat
  BY SumsTyped, SumsDefined
<1>2. Len(w) \in T
  BY <1>0, <1>1 DEF Total
<1>3. T \subseteq Nat
  BY <1>0
<1>4. PICK k \in T : \A y \in T : k <= y
  BY <1>2, <1>3, Least
<1>5. k \in 0 .. Len(w) /\ Sums(w)[k] >= excess
  BY <1>4
<1>6. k # 0
  BY <1>1, <1>5
<1>7. k \in 1 .. Len(w) /\ k - 1 \in 0 .. Len(w) /\ ~(k <= k - 1)
  BY <1>0, <1>5, <1>6
<1>8. ~(Sums(w)[k - 1] >= excess)
  BY <1>4, <1>7, Zenon
<1>9. Sums(w)[k - 1] < excess
  <2>1. Sums(w)[k - 1] \in Nat
    BY <1>1, <1>7
  <2> QED BY <1>8, <2>1
<1> QED BY <1>0, <1>5, <1>7, <1>9 DEF Covers

(* Opens names that row.                                                    *)
LEMMA OpensAt ==
  ASSUME NEW w \in Seq(Nat), NEW excess \in Int, excess > 0, excess <= Total(w),
         NEW width, NEW t
  PROVE  \E k \in DOMAIN w : Covers(w, excess, k) /\ Opens(w, excess, width, t) = charged[k].at + width
<1> DEFINE P(k) == Sums(w)[k] >= excess /\ ~(Sums(w)[k - 1] >= excess)
           last == CHOOSE k \in DOMAIN w : P(k)
<1>0. Len(w) \in Nat /\ DOMAIN w = 1 .. Len(w)
  OBVIOUS
<1>1. \A k \in DOMAIN w : Sums(w)[k - 1] \in Nat
  <2>1. \A k \in DOMAIN w : k - 1 \in 0 .. Len(w)
    BY <1>0
  <2> QED BY <2>1, SumsTyped
<1>2. \A k \in DOMAIN w : P(k) <=> Covers(w, excess, k)
  BY <1>1 DEF Covers
<1>3. \E k \in DOMAIN w : P(k)
  BY <1>2, CoverExists
<1>4. last \in DOMAIN w /\ P(last)
  <2> HIDE DEF P
  <2> QED BY <1>3
<1>5. ~(excess <= 0)
  OBVIOUS
<1>6. Opens(w, excess, width, t) = charged[last].at + width
  BY <1>5, Zenon DEF Opens
<1> HIDE DEF last
<1> QED BY <1>2, <1>4, <1>6

(* w is what the rows count for in the window that ends at t, and x what    *)
(* they still count for at v.                                               *)
Ages(w, x, width, t, v) ==
  /\ w \in Seq(Nat) /\ Len(w) = Len(charged)
  /\ x \in Seq(Nat) /\ Len(x) = Len(charged)
  /\ \A k \in DOMAIN charged : charged[k].at > t - width \/ w[k] = 0
  /\ \A k \in DOMAIN charged : x[k] = IF charged[k].at > v - width THEN w[k] ELSE 0

(* A window has room for the excess exactly from the moment Opens names.    *)
LEMMA OpensExactly ==
  ASSUME LedgerInv, NEW w, NEW x, NEW width \in Nat, NEW t \in Int, NEW v \in Int, t <= v,
         Ages(w, x, width, t, v), NEW excess \in Int, excess <= Total(w)
  PROVE  /\ Opens(w, excess, width, t) \in Int
         /\ excess <= 0 => Opens(w, excess, width, t) = t
         /\ excess > 0 => Opens(w, excess, width, t) > t
         /\ Total(x) <= Total(w) - excess <=> Opens(w, excess, width, t) <= v
<1> DEFINE N == Len(charged)
           W == Sums(w)
           X == Sums(x)
<1>a. w \in Seq(Nat) /\ Len(w) = N /\ x \in Seq(Nat) /\ Len(x) = N
  BY DEF Ages
<1>b. /\ \A k \in DOMAIN charged : charged[k].at > t - width \/ w[k] = 0
      /\ \A k \in DOMAIN charged : x[k] = IF charged[k].at > v - width THEN w[k] ELSE 0
  BY DEF Ages
<1>0. charged \in Seq(Rows)
  BY DEF LedgerInv, TypeInv
<1>1. N \in Nat /\ DOMAIN charged = 1 .. N /\ (\A k \in 1 .. N : charged[k].at \in Nat) /\ DOMAIN w = 1 .. N
      /\ N \in 0 .. N /\ 0 \in 0 .. N
  <2>1. N \in Nat /\ DOMAIN charged = 1 .. N /\ (\A k \in 1 .. N : charged[k].at \in Nat)
    BY <1>0, RowsTyped
  <2> QED BY <1>a, <2>1
<1>2. \A k \in 1 .. N : w[k] \in Nat /\ x[k] \in Nat /\ x[k] <= w[k]
  <2>1. \A k \in 1 .. N : w[k] \in Nat /\ x[k] \in Nat
    BY <1>a, Numbers
  <2>2. \A k \in 1 .. N : x[k] = w[k] \/ x[k] = 0
    BY <1>1, <1>b
  <2>3. \A a, b \in Nat : a = b \/ a = 0 => a <= b
    OBVIOUS
  <2> QED BY <2>1, <2>2, <2>3
<1>3. /\ Total(w) = W[N] /\ Total(x) = X[N] /\ X[0] = 0 /\ W[0] = 0
      /\ \A k \in 0 .. N : W[k] \in Nat /\ X[k] \in Nat
  BY <1>a, SumsTyped, SumsDefined DEF Total
<1> HIDE DEF N
<1>4. N = Len(w) /\ N = Len(x)
  BY <1>a
<1>5. CASE excess <= 0
  <2>1. Opens(w, excess, width, t) = t
    BY <1>5 DEF Opens
  <2>2. Total(x) <= Total(w)
    BY <1>a, <1>2, <1>4, ComparedTotals
  <2>3. Total(x) <= Total(w) - excess
    <3> HIDE DEF W, X
    <3>1. Total(x) \in Nat /\ Total(w) \in Nat
      BY <1>1, <1>3
    <3> QED BY <1>5, <2>2, <3>1
  <2> QED BY <1>5, <2>1, <2>3
<1>6. CASE excess > 0
  <2>1. PICK k \in 1 .. N : Covers(w, excess, k) /\ Opens(w, excess, width, t) = charged[k].at + width
    <3>1. \E k \in DOMAIN w : Covers(w, excess, k) /\ Opens(w, excess, width, t) = charged[k].at + width
      BY <1>a, <1>6, OpensAt
    <3>2. DOMAIN w = 1 .. N
      BY <1>1
    <3> QED BY <3>1, <3>2, Zenon
  <2>2. k \in Nat /\ k \in 0 .. N /\ k - 1 \in 0 .. N /\ k - 1 \in Nat /\ k <= N /\ k - 1 <= N
    BY <1>1
  <2>3. W[k] >= excess /\ W[k - 1] < excess
    BY <2>1 DEF Covers
  <2>4. charged[k].at \in Nat
    BY <1>1
  <2>5. Opens(w, excess, width, t) > t
    <3>1. W[k] = W[k - 1] + w[k]
      BY <1>a, <1>4, SumsDefined
    <3>2. w[k] \in Nat /\ W[k - 1] \in Nat
      BY <1>2, <1>3, <2>2
    <3> HIDE DEF W
    <3>3. w[k] # 0
      BY <2>3, <3>1, <3>2
    <3>4. charged[k].at > t - width
      BY <1>1, <1>b, <3>3
    <3> QED BY <2>1, <2>4, <3>4
  <2>6. ASSUME charged[k].at + width <= v PROVE Total(x) <= Total(w) - excess
    <3>1. \A m \in 1 .. k : x[m] = 0
      <4> SUFFICES ASSUME NEW m \in 1 .. k PROVE x[m] = 0
        OBVIOUS
      <4>1. m \in 1 .. N /\ m <= k
        BY <1>1, <2>2
      <4>2. charged[m].at <= charged[k].at
        BY <1>1, <4>1 DEF LedgerInv, InOrder
      <4>3. ~(charged[m].at > v - width)
        <5>1. charged[m].at \in Nat
          BY <1>1, <4>1
        <5> QED BY <2>4, <2>6, <4>2, <5>1
      <4> QED BY <1>1, <1>b, <4>1, <4>3
    <3>2. X[k] = 0
      BY <1>a, <1>4, <2>2, <3>1, ZerosFirst
    <3>3. X[N] - X[k] <= W[N] - W[k]
      <4>1. \A m \in 1 .. N : m > k => x[m] <= w[m]
        BY <1>2
      <4>2. N <= Len(x) /\ N <= Len(w)
        BY <1>1, <1>4
      <4> QED BY <1>a, <1>1, <2>2, <4>1, <4>2, Compared
    <3>4. X[N] \in Nat /\ W[N] \in Nat /\ W[k] \in Nat
      BY <1>1, <1>3, <2>2
    <3>5. X[N] <= W[N] - excess
      <4> HIDE DEF W, X
      <4> QED BY <2>3, <3>2, <3>3, <3>4
    <3> QED BY <1>3, <3>5
  <2>7. ASSUME ~(charged[k].at + width <= v) PROVE ~(Total(x) <= Total(w) - excess)
    <3>1. \A m \in 1 .. N : m > k - 1 => w[m] <= x[m]
      <4> SUFFICES ASSUME NEW m \in 1 .. N, m > k - 1 PROVE w[m] <= x[m]
        OBVIOUS
      <4>1. k <= m
        BY <2>2
      <4>2. charged[k].at <= charged[m].at
        BY <1>1, <4>1 DEF LedgerInv, InOrder
      <4>3. charged[m].at > v - width
        <5>1. charged[m].at \in Nat
          BY <1>1
        <5> QED BY <2>4, <2>7, <4>2, <5>1
      <4>4. x[m] = w[m]
        BY <1>1, <1>b, <4>3
      <4> QED BY <1>2, <4>4
    <3>2. W[N] - W[k - 1] <= X[N] - X[k - 1]
      <4>1. N <= Len(x) /\ N <= Len(w)
        BY <1>1, <1>4
      <4> QED BY <1>a, <1>1, <2>2, <3>1, <4>1, Compared
    <3>3. X[N] \in Nat /\ W[N] \in Nat /\ W[k - 1] \in Nat /\ X[k - 1] \in Nat
      BY <1>1, <1>3, <2>2
    <3>4. ~(X[N] <= W[N] - excess)
      <4> HIDE DEF W, X
      <4> QED BY <2>3, <3>2, <3>3
    <3> QED BY <1>3, <3>4
  <2>8. Opens(w, excess, width, t) \in Int
    BY <2>1, <2>4
  <2> QED BY <1>6, <2>1, <2>5, <2>6, <2>7, <2>8
<1> QED BY <1>5, <1>6

(* What the rows of the table count for later is what they count for now,   *)
(* less what has left the window.                                           *)
LEMMA WindowsAge ==
  ASSUME LedgerInv, NEW rows, NEW v \in Int, now <= v
  PROVE  /\ \A k \in DOMAIN charged : charged[k].at > now - Hour \/ Hourly(rows, now)[k] = 0
         /\ \A k \in DOMAIN charged : charged[k].at > now - Day \/ Daily(rows, now)[k] = 0
         /\ \A k \in DOMAIN charged :
              Hourly(rows, v)[k] = IF charged[k].at > v - Hour THEN Hourly(rows, now)[k] ELSE 0
         /\ \A k \in DOMAIN charged :
              Daily(rows, v)[k] = IF charged[k].at > v - Day THEN Daily(rows, now)[k] ELSE 0
<1>0. now \in Nat /\ charged \in Seq(Rows)
  BY DEF LedgerInv, TypeInv
<1>1. \A k \in DOMAIN charged : charged[k].at \in Nat
  BY <1>0, RowsTyped
<1>2. \A k \in DOMAIN charged : charged[k].at > v - Hour => charged[k].at > now - Hour
  BY <1>0, <1>1, Constants
<1>3. \A k \in DOMAIN charged : charged[k].at > v - Day => charged[k].at > now - Day
  BY <1>0, <1>1, Constants
<1> QED BY <1>2, <1>3 DEF Hourly, Daily

LEMMA ExactWait == LedgerInv => WaitExact
<1> SUFFICES ASSUME LedgerInv, NEW n \in Recipients, n <= RecipientsPerDay, ~Fits(Purged, now, n)
             PROVE  /\ Fits(Purged, now + QuotaWait(Purged, now, n), n)
                    /\ \A e \in 0 .. QuotaWait(Purged, now, n) - 1 : ~Fits(Purged, now + e, n)
  BY DEF WaitExact
<1> DEFINE hour  == Hourly(Purged, now)
           day   == Daily(Purged, now)
           over  == Total(hour) - MessagesPerHour + 1
           more  == Total(day) + n - RecipientsPerDay
           first == Opens(hour, over, Hour, now)
           next  == Opens(day, more, Day, now)
           until == Later(first, next)
<1>0. now \in Nat /\ charged \in Seq(Rows) /\ n \in Nat
  BY Constants DEF LedgerInv, TypeInv
<1>1. ASSUME NEW v \in Int
      PROVE  /\ Hourly(Purged, v) \in Seq(Nat) /\ Len(Hourly(Purged, v)) = Len(charged)
             /\ Daily(Purged, v) \in Seq(Nat) /\ Len(Daily(Purged, v)) = Len(charged)
             /\ Total(Hourly(Purged, v)) \in Nat /\ Total(Daily(Purged, v)) \in Nat
  <2>1. Hourly(Purged, v) = HourIn(charged, Purged, v) /\ Daily(Purged, v) = DayIn(charged, Purged, v)
    BY DEF Hourly, Daily, HourIn, DayIn
  <2>2. /\ Hourly(Purged, v) \in Seq(Nat) /\ Len(Hourly(Purged, v)) = Len(charged)
        /\ Daily(Purged, v) \in Seq(Nat) /\ Len(Daily(Purged, v)) = Len(charged)
    BY <1>0, <2>1, WindowsTyped
  <2> QED BY <2>2, SumsTyped
<1>2. now \in Int
  BY <1>0
<1>3. /\ hour \in Seq(Nat) /\ Len(hour) = Len(charged) /\ Total(hour) \in Nat
      /\ day \in Seq(Nat) /\ Len(day) = Len(charged) /\ Total(day) \in Nat
  BY <1>1, <1>2
<1> HIDE DEF hour, day
<1>4. over \in Int /\ more \in Int /\ over <= Total(hour) /\ more <= Total(day)
  BY <1>0, <1>3, Constants
<1>5. ASSUME NEW v \in Int, now <= v
      PROVE  /\ first \in Int /\ (over <= 0 => first = now) /\ (over > 0 => first > now)
             /\ next \in Int /\ (more <= 0 => next = now) /\ (more > 0 => next > now)
             /\ Fits(Purged, v, n) <=> first <= v /\ next <= v
  <2> DEFINE x == Hourly(Purged, v)
             y == Daily(Purged, v)
  <2>1. /\ x \in Seq(Nat) /\ Len(x) = Len(charged) /\ Total(x) \in Nat
        /\ y \in Seq(Nat) /\ Len(y) = Len(charged) /\ Total(y) \in Nat
    BY <1>1
  <2>2. Ages(hour, x, Hour, now, v) /\ Ages(day, y, Day, now, v)
    <3>1. /\ \A k \in DOMAIN charged : charged[k].at > now - Hour \/ hour[k] = 0
          /\ \A k \in DOMAIN charged : charged[k].at > now - Day \/ day[k] = 0
          /\ \A k \in DOMAIN charged : x[k] = IF charged[k].at > v - Hour THEN hour[k] ELSE 0
          /\ \A k \in DOMAIN charged : y[k] = IF charged[k].at > v - Day THEN day[k] ELSE 0
      BY <1>5, WindowsAge DEF hour, day
    <3> HIDE DEF x, y
    <3> QED BY <1>3, <2>1, <3>1 DEF Ages
  <2>3. Fits(Purged, v, n) <=> Total(x) < MessagesPerHour /\ Total(y) + n <= RecipientsPerDay
    BY DEF Fits
  <2> HIDE DEF x, y
  <2>4. /\ first \in Int /\ (over <= 0 => first = now) /\ (over > 0 => first > now)
        /\ Total(x) <= Total(hour) - over <=> first <= v
    <3> HIDE DEF over
    <3> QED BY <1>2, <1>3, <1>4, <1>5, <2>1, <2>2, OpensExactly, Constants
  <2>5. /\ next \in Int /\ (more <= 0 => next = now) /\ (more > 0 => next > now)
        /\ Total(y) <= Total(day) - more <=> next <= v
    <3> HIDE DEF more
    <3> QED BY <1>2, <1>3, <1>4, <1>5, <2>1, <2>2, OpensExactly, Constants
  <2>6. Total(x) <= Total(hour) - over <=> Total(x) < MessagesPerHour
    BY <1>3, <2>1, Constants
  <2>7. Total(y) <= Total(day) - more <=> Total(y) + n <= RecipientsPerDay
    BY <1>0, <1>3, <2>1, Constants
  <2> QED BY <2>3, <2>4, <2>5, <2>6, <2>7
<1>6. /\ first \in Int /\ (over <= 0 => first = now) /\ (over > 0 => first > now)
      /\ next \in Int /\ (more <= 0 => next = now) /\ (more > 0 => next > now)
      /\ ~(first <= now /\ next <= now)
  BY <1>0, <1>2, <1>5
<1>7. until \in Int /\ until > now /\ \A v \in Int : until <= v <=> first <= v /\ next <= v
  <2> HIDE DEF first, next, over, more
  <2>1. first >= now /\ next >= now
    BY <1>2, <1>4, <1>6
  <2>2. CASE first > next
    BY <1>2, <1>6, <2>1, <2>2 DEF Later
  <2>3. CASE ~(first > next)
    BY <1>2, <1>6, <2>1, <2>3 DEF Later
  <2> QED BY <2>2, <2>3
<1>8. QuotaWait(Purged, now, n) = until - now
  <2>1. QuotaWait(Purged, now, n) = Later(until - now, 1)
    BY Zenon DEF QuotaWait, hour, day
  <2> HIDE DEF until
  <2>2. Later(until - now, 1) = until - now
    BY <1>0, <1>7 DEF Later
  <2> QED BY <2>1, <2>2
<1> HIDE DEF first, next, over, more, until
<1>9. Fits(Purged, now + (until - now), n)
  <2>1. now + (until - now) = until
    BY <1>0, <1>7
  <2>2. now <= until /\ first <= until /\ next <= until
    BY <1>0, <1>7
  <2> QED BY <1>5, <1>7, <2>1, <2>2
<1>10. ASSUME NEW e \in 0 .. (until - now) - 1 PROVE ~Fits(Purged, now + e, n)
  <2>1. now + e \in Int /\ now <= now + e /\ ~(until <= now + e)
    BY <1>0, <1>7
  <2>2. ~(first <= now + e /\ next <= now + e)
    BY <1>7, <2>1
  <2> QED BY <1>5, <2>1, <2>2
<1> QED BY <1>8, <1>9, <1>10

(* The wait told to a refused client is exact in every state the ledger can *)
(* be in: the send fits when it is over and at no moment before             *)
(* (sendQuotaWait).                                                         *)
THEOREM WaitIsExact == Spec => []WaitExact
<1>1. IInv => WaitExact
  BY ExactWait DEF IInv
<1> QED BY <1>1, Invariant, PTL

(* Deleting day-old rows changes no answer: a send fits the table exactly   *)
(* when it fits everything ever charged (AdmitSend's DELETE).               *)
THEOREM PurgeIsUnseen ==
  Spec => [](\A n \in Recipients : Fits(Purged, now, n) <=> Fits(DOMAIN charged, now, n))
<1>1. IInv => \A n \in Recipients : Fits(Purged, now, n) <=> Fits(DOMAIN charged, now, n)
  <2> SUFFICES ASSUME LedgerInv, NEW n \in Recipients
               PROVE  Fits(Purged, now, n) <=> Fits(DOMAIN charged, now, n)
    BY DEF IInv
  <2>1. now \in Int /\ now >= now
    BY DEF LedgerInv, TypeInv
  <2>2. /\ Hourly(Purged, now) = Hourly(DOMAIN charged, now)
        /\ Daily(Purged, now) = Daily(DOMAIN charged, now)
    BY <2>1, PurgeUnseen DEF Hourly, Daily, HourIn, DayIn
  <2> QED BY <2>2 DEF Fits
<1> QED BY <1>1, Invariant, PTL
=============================================================================
