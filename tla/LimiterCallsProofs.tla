------------------------- MODULE LimiterCallsProofs -------------------------
(***************************************************************************)
(* Proofs about the rate limiter: the runs of a key's script fall into     *)
(* windows (WindowInv), so that no span as long as a window admits twice   *)
(* the limit and no caller is turned away without reason, for every limit  *)
(* and every window.                                                       *)
(***************************************************************************)
EXTENDS LimiterCalls, FiniteSetTheorems, TLAPS

\* Every caller passes a positive limit.
LEMMA LimitType == \A k \in RateKeys : Limit(k) \in Nat /\ Limit(k) >= 1
BY LimitAssumption DEF RateKeys, Limit

\* Times of a span, and of windows that lie around it.
LEMMA SpanOver ==
    /\ \A a, b, c, d, t, w \in Nat :
         t <= a /\ a <= b /\ b + w <= c /\ c <= d /\ d < t + w => FALSE
    /\ \A a, b, c, t, w \in Nat : a + w <= b /\ b <= c /\ c < t + w => ~(t <= a)
OBVIOUS

\* Positions before another.
LEMMA Below ==
    /\ \A n \in Nat : \A i \in 1..n : i # n => i \in 1..(n - 1)
    /\ \A i, j \in Nat : 1 <= i /\ i < j => i \in 1..(j - 1)
OBVIOUS

\* A run and the run that opened its window lie in the log.
LEMMA OpenerInLog ==
    ASSUME NEW runs \in Seq(LogEntry), WindowsOK(runs), NEW i \in DOMAIN runs
    PROVE  /\ i \in Nat /\ runs[i] \in LogEntry /\ runs[i].at \in Nat
           /\ runs[i].count \in Nat /\ runs[i].count >= 1
           /\ Opener(runs, i) \in DOMAIN runs /\ Opener(runs, i) \in 1..i
           /\ runs[Opener(runs, i)].at \in Nat
<1>1. i \in 1..Len(runs) /\ Len(runs) \in Nat /\ DOMAIN runs = 1..Len(runs)
    OBVIOUS
<1>2. \A j \in DOMAIN runs : runs[j] \in LogEntry
    OBVIOUS
<1>3. \A j \in DOMAIN runs : runs[j].at \in Nat /\ runs[j].count \in Nat /\ runs[j].count >= 1
    BY <1>2 DEF LogEntry
<1>4. runs[i].count <= i
    BY DEF WindowsOK
<1>5. Opener(runs, i) \in 1..i
    BY <1>1, <1>3, <1>4 DEF Opener
<1> QED
    BY <1>1, <1>2, <1>3, <1>5

\* One more run, in the window of the last one or, after its end, in a window of its own.
LEMMA WindowsGrow ==
    ASSUME NEW runs \in Seq(LogEntry), WindowsOK(runs), NEW e \in LogEntry,
           \/ runs = <<>> /\ e.count = 1
           \/ /\ runs # <<>> /\ runs[Len(runs)].at <= e.at
              /\ e.at < runs[Opener(runs, Len(runs))].at + OTPRateLimitWindow
              /\ e.count = runs[Len(runs)].count + 1
           \/ /\ runs # <<>> /\ runs[Len(runs)].at <= e.at
              /\ runs[Opener(runs, Len(runs))].at + OTPRateLimitWindow <= e.at
              /\ e.count = 1
    PROVE  WindowsOK(Append(runs, e))
<1> DEFINE n   == Len(runs)
           new == Append(runs, e)
<1>1. n \in Nat /\ DOMAIN runs = 1..n /\ DOMAIN new = 1..(n + 1) /\ (runs = <<>> <=> n = 0)
    OBVIOUS
<1>2. new[n + 1] = e /\ \A i \in 1..n : new[i] = runs[i]
    BY <1>1
<1>3. /\ e.at \in Nat /\ e.count \in Nat /\ OTPRateLimitWindow \in Nat /\ OTPRateLimitWindow >= 1
    BY LimitAssumption DEF LogEntry
<1>4. \A i \in 1..n : /\ runs[i].at \in Nat /\ runs[i].count \in Nat /\ runs[i].count >= 1
                      /\ Opener(runs, i) \in 1..i /\ runs[Opener(runs, i)].at \in Nat
    BY ZenonT(30), <1>1, OpenerInLog
<1>5. \A i \in 1..n : Opener(new, i) = Opener(runs, i) /\ new[Opener(new, i)] = runs[Opener(runs, i)]
    BY <1>1, <1>2, <1>4 DEF Opener
<1>6. \A j \in 1..n :
        /\ runs[j].count <= j
        /\ runs[j].at < runs[Opener(runs, j)].at + OTPRateLimitWindow
        /\ \A i \in 1..(j - 1) :
            /\ runs[i].at <= runs[j].at
            /\ IF i < Opener(runs, j)
                 THEN runs[Opener(runs, i)].at + OTPRateLimitWindow <= runs[Opener(runs, j)].at
                 ELSE Opener(runs, i) = Opener(runs, j)
    BY <1>1 DEF WindowsOK
<1>7. Opener(new, n + 1) = n + 2 - e.count
    BY SMTT(90), <1>1, <1>2, <1>3 DEF Opener
<1> DEFINE Joins(j) ==
        /\ new[j].count <= j
        /\ new[j].at < new[Opener(new, j)].at + OTPRateLimitWindow
        /\ \A i \in 1..(j - 1) :
            /\ new[i].at <= new[j].at
            /\ IF i < Opener(new, j)
                 THEN new[Opener(new, i)].at + OTPRateLimitWindow <= new[Opener(new, j)].at
                 ELSE Opener(new, i) = Opener(new, j)
<1> HIDE DEF new
<1>8. ASSUME NEW j \in 1..n PROVE Joins(j)
  <2>1. j - 1 \in Nat /\ \A i \in 1..(j - 1) : i \in 1..n
    BY <1>1
  <2> QED
    BY <1>1, <1>2, <1>5, <1>6, <2>1
<1>9. \A i \in 1..n : runs[i].at <= runs[n].at
    BY SMTT(90), <1>1, <1>4, <1>6
<1>10. Joins(n + 1)
  <2>1. CASE n = 0
    BY <1>1, <1>2, <1>3, <1>7, <2>1
  <2>2. CASE n # 0 /\ e.count = runs[n].count + 1
    <3>1. n \in 1..n /\ Opener(new, n + 1) = Opener(runs, n)
        BY <1>1, <1>4, <1>7, <2>2 DEF Opener
    <3>2. new[Opener(new, n + 1)] = runs[Opener(runs, n)]
        BY <1>2, <1>4, <3>1
    <3>3. e.at < runs[Opener(runs, n)].at + OTPRateLimitWindow
        BY <1>1, <1>3, <1>4, <2>2, <3>1
    <3>4. runs[n].at <= e.at
        BY <1>1, <2>2
    <3>5. ASSUME NEW i \in 1..n
          PROVE  /\ runs[i].at <= e.at
                 /\ IF i < Opener(runs, n)
                     THEN runs[Opener(runs, i)].at + OTPRateLimitWindow <= runs[Opener(runs, n)].at
                     ELSE Opener(runs, i) = Opener(runs, n)
      <4>1. runs[i].at <= e.at
        BY SMTT(90), <1>3, <1>4, <1>9, <3>1, <3>4
      <4>2. CASE i = n
        BY <1>4, <3>1, <4>1, <4>2
      <4>3. CASE i # n
        <5>1. i \in 1..(n - 1)
            BY Below, <1>1, <4>3, ZenonT(30)
        <5>2. IF i < Opener(runs, n)
                THEN runs[Opener(runs, i)].at + OTPRateLimitWindow <= runs[Opener(runs, n)].at
                ELSE Opener(runs, i) = Opener(runs, n)
            BY <1>6, <3>1, <5>1
        <5> QED
            BY <4>1, <5>2
      <4> QED
        BY <4>2, <4>3
    <3>6. new[n + 1].count <= n + 1
        BY <1>1, <1>2, <1>3, <1>4, <1>6, <2>2, <3>1
    <3> QED
        BY <1>1, <1>2, <1>5, <3>1, <3>2, <3>3, <3>5, <3>6
  <2>3. CASE n # 0 /\ e.count = 1
    <3>1. n \in 1..n /\ Opener(new, n + 1) = n + 1
        BY <1>1, <1>7, <2>3
    <3>2. runs[n].at <= e.at
        BY <1>1, <2>3
    <3>3. runs[Opener(runs, n)].at + OTPRateLimitWindow <= e.at
        BY <1>1, <1>4, <2>3, <3>1
    <3>4. ASSUME NEW i \in 1..n
          PROVE  runs[i].at <= e.at /\ runs[Opener(runs, i)].at + OTPRateLimitWindow <= e.at
      <4>1. runs[i].at <= e.at
        BY SMTT(90), <1>3, <1>4, <1>9, <3>1, <3>2
      <4>2. CASE i = n
        BY <3>3, <4>1, <4>2
      <4>3. CASE i # n
        <5>1. i \in 1..(n - 1)
            BY Below, <1>1, <4>3, ZenonT(30)
        <5>2. IF i < Opener(runs, n)
                THEN runs[Opener(runs, i)].at + OTPRateLimitWindow <= runs[Opener(runs, n)].at
                ELSE Opener(runs, i) = Opener(runs, n)
            BY <1>6, <3>1, <5>1
        <5>3. /\ runs[Opener(runs, i)].at \in Nat /\ runs[Opener(runs, n)].at \in Nat
            BY <1>4, <3>1
        <5>4. runs[Opener(runs, i)].at <= runs[Opener(runs, n)].at
            BY SMTT(90), <1>3, <5>2, <5>3
        <5> QED
            BY SMTT(90), <1>3, <3>3, <4>1, <5>3, <5>4
      <4> QED
        BY <4>2, <4>3
    <3> QED
        BY <1>1, <1>2, <1>3, <1>5, <2>3, <3>1, <3>4
  <2> QED
    BY <1>1, <2>1, <2>2, <2>3
<1>11. \A j \in 1..(n + 1) : Joins(j)
    BY <1>1, <1>8, <1>10
<1> HIDE DEF Joins
<1> QED
    BY ZenonT(30), <1>1, <1>11 DEF WindowsOK, Joins, new

\* n runs in a row, and fewer.
LEMMA IntervalSize ==
    ASSUME NEW a \in Nat, NEW n \in Nat
    PROVE  /\ IsFiniteSet(a..(a + n - 1)) /\ Cardinality(a..(a + n - 1)) = n
           /\ \A S \in SUBSET (a..(a + n - 1)) : Cardinality(S) <= n /\ Cardinality(S) \in Nat
<1>1. IsFiniteSet(a..(a + n - 1)) /\ Cardinality(a..(a + n - 1)) = n
    BY FS_Interval
<1>2. ASSUME NEW S \in SUBSET (a..(a + n - 1))
      PROVE  Cardinality(S) <= n /\ Cardinality(S) \in Nat
  <2>1. IsFiniteSet(S) /\ Cardinality(S) <= Cardinality(a..(a + n - 1))
    BY ZenonT(30), <1>1, FS_Subset
  <2> QED
    BY <1>1, <2>1, FS_CardinalityType
<1> QED
    BY <1>1, <1>2

\* The runs of two windows are at most as many as those of each.
LEMMA UnionSize ==
    ASSUME NEW S, NEW T, IsFiniteSet(S), IsFiniteSet(T)
    PROVE  IsFiniteSet(S \cup T) /\ Cardinality(S \cup T) <= Cardinality(S) + Cardinality(T)
<1>1. IsFiniteSet(S \cap T)
    BY FS_Intersection
<1>2. Cardinality(S) \in Nat /\ Cardinality(T) \in Nat /\ Cardinality(S \cap T) \in Nat
    BY <1>1, FS_CardinalityType
<1>3. /\ IsFiniteSet(S \cup T)
      /\ Cardinality(S \cup T) = Cardinality(S) + Cardinality(T) - Cardinality(S \cap T)
    BY FS_Union
<1> QED
    BY <1>2, <1>3

\* In a span as long as a window, the runs with a count up to L number at most 2 * L - 1:
\* they fall into at most two windows, and when there are two the run that opened the
\* earlier one lies before the span.
LEMMA SpanBound ==
    ASSUME NEW runs \in Seq(LogEntry), WindowsOK(runs), NEW L \in Nat, L >= 1, NEW t \in Nat,
           NEW A \in SUBSET DOMAIN runs,
           \A i \in A : /\ runs[i].count <= L
                        /\ t <= runs[i].at /\ runs[i].at < t + OTPRateLimitWindow
    PROVE  Cardinality(A) <= 2 * L - 1
<1> DEFINE op(i) == Opener(runs, i)
<1>1. OTPRateLimitWindow \in Nat
    BY LimitAssumption
<1>2. \A i \in A : /\ i \in Nat /\ op(i) \in Nat /\ 1 <= op(i) /\ op(i) <= i
                   /\ i \in op(i)..(op(i) + L - 1)
                   /\ runs[i].at \in Nat /\ runs[op(i)].at \in Nat
  <2> SUFFICES ASSUME NEW i \in A
               PROVE  /\ i \in Nat /\ op(i) \in Nat /\ 1 <= op(i) /\ op(i) <= i
                      /\ i \in op(i)..(op(i) + L - 1)
                      /\ runs[i].at \in Nat /\ runs[op(i)].at \in Nat
    OBVIOUS
  <2>1. /\ i \in Nat /\ op(i) \in 1..i /\ runs[i].at \in Nat /\ runs[op(i)].at \in Nat
        /\ runs[i].count \in Nat /\ runs[i].count >= 1
    BY OpenerInLog
  <2>2. i = op(i) + runs[i].count - 1
    BY <2>1 DEF Opener
  <2> QED
    BY SMTT(90), <2>1, <2>2
<1>3. \A i, j \in A : i < j =>
        \/ op(i) = op(j)
        \/ /\ i < op(j) /\ runs[i].at <= runs[op(j)].at
           /\ runs[op(i)].at + OTPRateLimitWindow <= runs[op(j)].at
           /\ runs[op(j)].at <= runs[j].at
  <2> SUFFICES ASSUME NEW i \in A, NEW j \in A, i < j, op(i) # op(j)
               PROVE  /\ i < op(j) /\ runs[i].at <= runs[op(j)].at
                      /\ runs[op(i)].at + OTPRateLimitWindow <= runs[op(j)].at
                      /\ runs[op(j)].at <= runs[j].at
    OBVIOUS
  <2>1. i \in 1..(j - 1)
    BY <1>2
  <2>2. i < op(j) /\ runs[op(i)].at + OTPRateLimitWindow <= runs[op(j)].at
    BY <2>1 DEF WindowsOK
  <2>3. op(j) \in DOMAIN runs /\ i \in 1..(op(j) - 1)
    <3>1. op(j) \in DOMAIN runs
        BY OpenerInLog
    <3>2. 1 <= i /\ i \in Nat /\ op(j) \in Nat
        BY <1>2
    <3> QED
        BY <2>2, <3>1, <3>2, Below
  <2>4. runs[i].at <= runs[op(j)].at
    BY <2>3 DEF WindowsOK
  <2>5. runs[op(j)].at <= runs[j].at
    <3>1. CASE op(j) = j
        BY <1>2, <3>1
    <3>2. CASE op(j) # j
      <4>1. op(j) \in 1..(j - 1)
        BY <1>2, <3>2
      <4> QED
        BY <4>1 DEF WindowsOK
    <3> QED
        BY <3>1, <3>2
  <2> QED
    BY <2>2, <2>4, <2>5
<1> HIDE DEF op
<1>4. \A i, j, m \in A : i < j /\ j < m => op(i) = op(j) \/ op(j) = op(m)
  <2> SUFFICES ASSUME NEW i \in A, NEW j \in A, NEW m \in A, i < j, j < m,
                      op(i) # op(j), op(j) # op(m)
               PROVE  FALSE
    OBVIOUS
  <2>1. /\ runs[i].at <= runs[op(j)].at
        /\ runs[op(j)].at + OTPRateLimitWindow <= runs[op(m)].at
        /\ runs[op(m)].at <= runs[m].at
    BY <1>3
  <2>2. /\ runs[i].at \in Nat /\ runs[op(j)].at \in Nat /\ runs[op(m)].at \in Nat
        /\ runs[m].at \in Nat
    BY <1>2
  <2>3. t <= runs[i].at /\ runs[m].at < t + OTPRateLimitWindow
    OBVIOUS
  <2> QED
    BY <1>1, <2>1, <2>2, <2>3, SpanOver, ZenonT(30)

<1>5. ASSUME NEW i \in A, \A m \in A : op(m) = op(i) PROVE Cardinality(A) <= 2 * L - 1
  <2>1. op(i) \in Nat /\ A \subseteq op(i)..(op(i) + L - 1)
    BY <1>2, <1>5
  <2>2. Cardinality(A) <= L /\ Cardinality(A) \in Nat
    BY ZenonT(30), <2>1, IntervalSize
  <2> QED
    BY <2>2
<1>6. ASSUME NEW i \in A, NEW j \in A, i < j, op(i) # op(j) PROVE Cardinality(A) <= 2 * L - 1
  <2>1. ASSUME NEW m \in A PROVE op(m) \in {op(i), op(j)}
    <3>1. m < i \/ m = i \/ (i < m /\ m < j) \/ m = j \/ j < m
        BY SMTT(90), <1>2
    <3> QED
        BY <1>4, <1>6, <3>1
  <2>2. op(i) \notin A
    <3>1. /\ runs[op(i)].at + OTPRateLimitWindow <= runs[op(j)].at
          /\ runs[op(j)].at <= runs[j].at /\ runs[j].at < t + OTPRateLimitWindow
        BY <1>3, <1>6
    <3>2. runs[op(i)].at \in Nat /\ runs[op(j)].at \in Nat /\ runs[j].at \in Nat
        BY <1>2
    <3>3. ~(t <= runs[op(i)].at)
        BY <1>1, <3>1, <3>2, SpanOver, ZenonT(30)
    <3> QED
        BY <3>3
  <2> DEFINE S == (op(i) + 1)..(op(i) + 1 + (L - 1) - 1)
             T == op(j)..(op(j) + L - 1)
  <2>3. op(i) \in Nat /\ op(j) \in Nat
    BY <1>2
  <2>4. A \subseteq S \cup T
    <3> SUFFICES ASSUME NEW m \in A PROVE m \in S \cup T
        OBVIOUS
    <3>1. m \in Nat /\ m \in op(m)..(op(m) + L - 1) /\ m # op(i)
        BY <1>2, <2>2
    <3>2. CASE op(m) = op(i)
        BY SMTT(90), <2>3, <3>1, <3>2
    <3> QED
        BY <2>1, <3>1, <3>2
  <2>5. /\ IsFiniteSet(S) /\ Cardinality(S) = L - 1
        /\ IsFiniteSet(T) /\ Cardinality(T) = L
    <3>1. L - 1 \in Nat /\ op(i) + 1 \in Nat
        BY <2>3
    <3>2. IsFiniteSet(S) /\ Cardinality(S) = L - 1
        BY ZenonT(30), <3>1, IntervalSize
    <3> QED
        BY ZenonT(30), <2>3, <3>2, IntervalSize
  <2> HIDE DEF S, T
  <2>6. IsFiniteSet(S \cup T) /\ Cardinality(S \cup T) <= 2 * L - 1
    BY <2>5, UnionSize
  <2> QED
    BY <2>4, <2>6, FS_Subset, FS_CardinalityType
<1>7. CASE A = {}
    BY <1>7, FS_EmptySet
<1>8. CASE A # {}
  <2>1. PICK i \in A : TRUE
    BY <1>8
  <2>2. CASE \E j \in A : op(j) # op(i)
    <3>1. PICK j \in A : op(j) # op(i)
        BY <2>2
    <3>2. i < j \/ j < i
        BY <1>2, <3>1
    <3> QED
        BY <1>6, <3>1, <3>2
  <2> QED
    BY <1>5, <2>1, <2>2
<1> QED
    BY <1>7, <1>8

\* A run with a count above L has at least L runs before it in its window.
LEMMA DenialBound ==
    ASSUME NEW runs \in Seq(LogEntry), WindowsOK(runs), NEW L \in Nat, NEW i \in DOMAIN runs,
           runs[i].count > L
    PROVE  Cardinality({j \in 1..(i - 1) : runs[j].at + OTPRateLimitWindow > runs[i].at}) >= L
<1> DEFINE o == Opener(runs, i)
           before == {j \in 1..(i - 1) : runs[j].at + OTPRateLimitWindow > runs[i].at}
<1>1. /\ i \in Nat /\ o \in 1..i /\ o \in DOMAIN runs /\ runs[i].count \in Nat
      /\ runs[i].at \in Nat /\ runs[o].at \in Nat /\ OTPRateLimitWindow \in Nat
    BY OpenerInLog, LimitAssumption
<1>2. runs[i].at < runs[o].at + OTPRateLimitWindow
    BY DEF WindowsOK
<1>3. i = o + runs[i].count - 1
    BY <1>1 DEF Opener
<1> HIDE DEF o
<1>4. ASSUME NEW j \in o..(o + L - 1) PROVE j \in before
  <2>1. j \in 1..(i - 1) /\ j \in DOMAIN runs
    <3>1. j \in 1..(i - 1)
        BY SMTT(90), <1>1, <1>3
    <3>2. i \in 1..Len(runs) /\ DOMAIN runs = 1..Len(runs) /\ Len(runs) \in Nat
        OBVIOUS
    <3> QED
        BY <1>1, <3>1, <3>2
  <2>2. runs[o].at <= runs[j].at
    <3>1. CASE o = j
        BY <1>1, <3>1
    <3>2. CASE o # j
      <4>1. o \in 1..(j - 1)
        BY <1>1, <1>4, <3>2
      <4> QED
        BY <2>1, <4>1 DEF WindowsOK
    <3> QED
        BY <3>1, <3>2
  <2>3. runs[j].at \in Nat
    BY ZenonT(30), <2>1, OpenerInLog
  <2>4. \A a, b, c, w \in Nat : a < b + w /\ b <= c => c + w > a
    OBVIOUS
  <2>5. runs[j].at + OTPRateLimitWindow > runs[i].at
    BY <1>1, <1>2, <2>2, <2>3, <2>4, ZenonT(30)
  <2> QED
    BY <2>1, <2>5
<1>5. IsFiniteSet(before)
  <2>1. IsFiniteSet(1..(i - 1))
    BY <1>1, FS_Interval
  <2> QED
    BY <2>1, FS_Subset
<1>6. Cardinality(o..(o + L - 1)) = L
    BY <1>1, IntervalSize
<1> HIDE DEF before
<1>7. Cardinality(o..(o + L - 1)) <= Cardinality(before) /\ Cardinality(before) \in Nat
    BY ZenonT(30), <1>4, <1>5, FS_Subset, FS_CardinalityType
<1> QED
    BY <1>6, <1>7 DEF before

\* The limiter starts without counters and without history.
LEMMA WindowInit == CallsInit => WindowInv
<1> SUFFICES ASSUME CallsInit PROVE WindowInv
    OBVIOUS
<1>1. /\ CallsTypeOK
      /\ \A k \in RateKeys : log[k] = <<>> /\ counter[k].until = 0
    BY DEF CallsInit, ClockInit, LimiterInit, CallsTypeOK, LimiterTypeOK
<1> QED
    BY <1>1 DEF WindowInv, WindowsOK, CounterOK, ToldOK

\* A run of the script on key k: the counter and the history of k grow together.
LEMMA CallKeepsWindows ==
    ASSUME WindowInv, NEW k \in RateKeys, Call(k)
    PROVE  WindowInv'
<1> DEFINE runs == log[k]
           W    == OTPRateLimitWindow
<1>1. /\ now \in Nat /\ W \in Nat \ {0} /\ counter \in [RateKeys -> [n : Nat, until : Nat]]
      /\ counter[k].n \in Nat /\ counter[k].until \in Nat
      /\ lockout \in [Phones -> Nat]
      /\ log \in [RateKeys -> Seq(LogEntry)] /\ runs \in Seq(LogEntry)
      /\ WindowsOK(runs) /\ CounterOK(k, runs) /\ ToldOK(k, runs)
    BY LimitAssumption DEF WindowInv, CallsTypeOK, LimiterTypeOK
<1>2. UNCHANGED <<now, lockout>>
    BY DEF Call
<1>3. Incr(k) \in Nat \ {0} /\ Limit(k) \in Nat
    BY <1>1, LimitType DEF Incr
<1>4. PICK told \in {"allowed", "denied", "error"} :
        /\ told = "allowed" => Incr(k) <= Limit(k)
        /\ told = "denied" => Incr(k) > Limit(k)
        /\ log' = [log EXCEPT ![k] = Append(@, [at |-> now, count |-> Incr(k), told |-> told])]
  <2>1. PICK told \in {IF Allowed(k, Limit(k)) THEN "allowed" ELSE "denied"}
                    \cup (IF "redis" \in Faults THEN {"error"} ELSE {}) :
            log' = [log EXCEPT ![k] = Append(@, [at |-> now, count |-> Incr(k), told |-> told])]
    BY ZenonT(30) DEF Call
  <2>2. told \in {"allowed", "denied", "error"}
    BY <2>1
  <2>3. told = "allowed" => Incr(k) <= Limit(k)
    BY <2>1 DEF Allowed
  <2>4. told = "denied" => Incr(k) > Limit(k)
    BY <1>3, <2>1 DEF Allowed
  <2> QED
    BY ZenonT(30), <2>1, <2>2, <2>3, <2>4
<1> DEFINE e == [at |-> now, count |-> Incr(k), told |-> told]
<1>5. /\ e \in LogEntry /\ e.at = now /\ e.count = Incr(k) /\ e.told = told
    BY <1>1, <1>3, <1>4 DEF LogEntry
<1>6. log' = [log EXCEPT ![k] = Append(runs, e)]
    BY <1>4
<1> HIDE DEF e
<1>7. /\ log'[k] = Append(runs, e) /\ log'[k] \in Seq(LogEntry)
      /\ log' \in [RateKeys -> Seq(LogEntry)]
      /\ \A x \in RateKeys : x # k => log'[x] = log[x]
    BY <1>1, <1>5, <1>6
<1> DEFINE until == IF Incr(k) = 1 THEN now + W ELSE counter[k].until
           item  == [n |-> Incr(k), until |-> until]
<1>8. until \in Nat /\ counter' = [counter EXCEPT ![k] = item]
    BY <1>1 DEF Call, CheckAndIncrement
<1> HIDE DEF until
<1>9. item \in [n : Nat, until : Nat] /\ item.n = Incr(k) /\ item.until = until
    BY <1>3, <1>8
<1> HIDE DEF item
<1>10. /\ counter' \in [RateKeys -> [n : Nat, until : Nat]]
       /\ counter'[k].n = Incr(k) /\ counter'[k].until = until
       /\ \A x \in RateKeys : x # k => counter'[x] = counter[x]
    BY <1>1, <1>8, <1>9
<1>11. /\ runs = <<>> => Incr(k) = 1
       /\ runs # <<>> =>
            /\ counter[k].n = runs[Len(runs)].count
            /\ counter[k].until = runs[Opener(runs, Len(runs))].at + W
            /\ runs[Len(runs)].at <= now
    BY <1>1 DEF CounterOK, Incr
<1>12. WindowsOK(Append(runs, e))
  <2>1. CASE runs = <<>>
    BY ZenonT(30), <1>1, <1>5, <1>11, <2>1, WindowsGrow
  <2>2. CASE runs # <<>> /\ now < counter[k].until
    <3>1. Incr(k) = runs[Len(runs)].count + 1
        BY <1>11, <2>2 DEF Incr
    <3> QED
        BY <1>1, <1>5, <1>11, <2>2, <3>1, WindowsGrow
  <2>3. CASE runs # <<>> /\ ~(now < counter[k].until)
    <3>1. Incr(k) = 1
        BY <2>3 DEF Incr
    <3>2. counter[k].until <= now
        BY <1>1, <2>3
    <3> QED
        BY <1>1, <1>5, <1>11, <2>3, <3>1, <3>2, WindowsGrow
  <2> QED
    BY <2>1, <2>2, <2>3
<1> DEFINE new == Append(runs, e)
           n   == Len(runs)
<1>13. /\ n \in Nat /\ DOMAIN runs = 1..n /\ DOMAIN new = 1..(n + 1) /\ new # <<>>
       /\ Len(new) = n + 1 /\ new[n + 1] = e /\ \A i \in 1..n : new[i] = runs[i]
  <2>1. runs \in Seq(LogEntry) /\ e \in LogEntry
    BY <1>1, <1>5
  <2> HIDE DEF runs
  <2>2. n \in Nat /\ DOMAIN runs = 1..n
    BY <2>1
  <2>3. Len(new) = n + 1 /\ new \in Seq(LogEntry)
    BY <2>1
  <2>4. DOMAIN new = 1..(n + 1)
    BY <2>2, <2>3
  <2>5. new[n + 1] = e /\ \A i \in 1..n : new[i] = runs[i]
    BY <2>1
  <2>6. new # <<>>
    <3>1. Len(new) # 0 /\ Len(<<>>) = 0
        BY <2>2, <2>3
    <3> QED
        BY <3>1, ZenonT(30)
  <2> QED
    BY <2>2, <2>3, <2>4, <2>5, <2>6
<1>14. ToldOK(k, new)
    BY <1>1, <1>3, <1>4, <1>5, <1>13 DEF ToldOK
<1> HIDE DEF new
<1>15. until = new[Opener(new, n + 1)].at + W
  <2>1. Opener(new, n + 1) = n + 2 - Incr(k)
    BY <1>3, <1>5, <1>13 DEF Opener
  <2>2. CASE Incr(k) = 1
    <3>1. Opener(new, n + 1) = n + 1
        BY <1>13, <2>1, <2>2
    <3> QED
        BY <1>5, <1>13, <2>2, <3>1 DEF until
  <2>3. CASE Incr(k) # 1
    <3>1. Incr(k) = counter[k].n + 1 /\ until = counter[k].until /\ runs # <<>>
        BY <1>11, <2>3 DEF Incr, until
    <3>2. n \in DOMAIN runs
        BY <1>1, <1>13, <3>1
    <3>3. Opener(new, n + 1) = Opener(runs, n)
        BY SMTT(90), <1>1, <1>11, <1>13, <2>1, <3>1 DEF Opener
    <3>4. Opener(runs, n) \in DOMAIN runs
        BY <1>1, <3>2, OpenerInLog
    <3> QED
        BY <1>11, <1>13, <3>1, <3>3, <3>4
  <2> QED
    BY <2>2, <2>3
<1>16. /\ new # <<>> /\ counter'[k].n = new[Len(new)].count
       /\ counter'[k].until = new[Opener(new, Len(new))].at + W
       /\ new[Len(new)].at <= now'
    BY <1>1, <1>2, <1>5, <1>10, <1>13, <1>15
<1>17. \A x \in RateKeys : WindowsOK(log'[x]) /\ ToldOK(x, log'[x])
    BY ZenonT(30), <1>7, <1>12, <1>14 DEF WindowInv, new
<1>18. ASSUME NEW x \in RateKeys PROVE CounterOK(x, log[x])'
  <2>1. CASE x = k
    <3>1. log'[k] = new
        BY <1>7 DEF new
    <3> QED
        BY <1>16, <2>1, <3>1 DEF CounterOK, Opener
  <2>2. CASE x # k
    BY ZenonT(30), <1>2, <1>7, <1>10, <2>2 DEF WindowInv, CounterOK
  <2> QED
    BY <2>1, <2>2
<1>19. CallsTypeOK'
    BY <1>1, <1>2, <1>7, <1>10 DEF CallsTypeOK, LimiterTypeOK
<1> QED
    BY <1>17, <1>18, <1>19 DEF WindowInv, WindowsOK, ToldOK

\* No call and no tick of the clock breaks WindowInv.
LEMMA WindowStep == WindowInv /\ [CallsNext]_callVars => WindowInv'
<1> SUFFICES ASSUME WindowInv, [CallsNext]_callVars PROVE WindowInv'
    OBVIOUS
<1>1. ASSUME NEW k \in RateKeys, Call(k) PROVE WindowInv'
    BY <1>1, CallKeepsWindows
<1>2. CASE CallsTick \/ UNCHANGED callVars
  <2>1. UNCHANGED <<counter, lockout, log>> /\ now \in Nat /\ now' \in Nat /\ now <= now'
    BY <1>2 DEF CallsTick, Tick, callVars, limiterVars, WindowInv, CallsTypeOK
  <2>2. CallsTypeOK'
    BY <2>1 DEF WindowInv, CallsTypeOK, LimiterTypeOK
  <2>3. ASSUME NEW k \in RateKeys PROVE CounterOK(k, log[k])'
    <3>1. log[k] # <<>> => Len(log[k]) \in DOMAIN log[k]
        BY DEF WindowInv, CallsTypeOK
    <3>2. log[k] # <<>> => log[k][Len(log[k])].at \in Nat
        BY <3>1, OpenerInLog DEF WindowInv, CallsTypeOK
    <3> QED
        BY <2>1, <3>2 DEF WindowInv, CounterOK
  <2> QED
    BY SMTT(90), <2>1, <2>2, <2>3 DEF WindowInv, WindowsOK, ToldOK
<1> QED
    BY <1>1, <1>2 DEF CallsNext, CallsOver

\* The counters that Redis keeps split the calls on every key into windows as WindowInv says,
\* for every limit, every window length and any number of calls.
THEOREM WindowsInvariant == CallsSpec => []WindowInv
BY WindowInit, WindowStep, PTL DEF CallsSpec

\* In no span as long as a window does the limiter let twice its limit through.
THEOREM SpanIsBounded == CallsSpec => []AdmittedInAnySpan
<1>1. WindowInv => AdmittedInAnySpan
  <2> SUFFICES ASSUME WindowInv, NEW k \in RateKeys, NEW t \in 0..now
               PROVE  Cardinality(AdmittedFrom(k, t)) <= 2 * Limit(k) - 1
    BY DEF AdmittedInAnySpan
  <2>1. log[k] \in Seq(LogEntry) /\ WindowsOK(log[k]) /\ ToldOK(k, log[k])
    BY DEF WindowInv, CallsTypeOK
  <2>2. t \in Nat /\ Limit(k) \in Nat /\ Limit(k) >= 1
    BY LimitType DEF WindowInv, CallsTypeOK
  <2>3. /\ AdmittedFrom(k, t) \in SUBSET DOMAIN log[k]
        /\ \A i \in AdmittedFrom(k, t) :
             /\ log[k][i].count <= Limit(k)
             /\ t <= log[k][i].at /\ log[k][i].at < t + OTPRateLimitWindow
    BY <2>1 DEF AdmittedFrom, ToldOK
  <2> QED
    BY ZenonT(30), <2>1, <2>2, <2>3, SpanBound
<1> QED
    BY <1>1, WindowsInvariant, PTL

\* A caller is turned away only if the limit was used up within the last window.
THEOREM DenialsAreJustified == CallsSpec => []DenialJustified
<1>1. WindowInv => DenialJustified
  <2> SUFFICES ASSUME WindowInv, NEW k \in RateKeys, NEW i \in DOMAIN log[k],
                      log[k][i].told = "denied"
               PROVE  Cardinality({j \in 1..(i - 1) :
                          log[k][j].at + OTPRateLimitWindow > log[k][i].at}) >= Limit(k)
    BY DEF DenialJustified
  <2>1. log[k] \in Seq(LogEntry) /\ WindowsOK(log[k]) /\ log[k][i].count > Limit(k)
    BY DEF WindowInv, CallsTypeOK, ToldOK
  <2> QED
    BY <2>1, LimitType, DenialBound
<1> QED
    BY <1>1, WindowsInvariant, PTL
=============================================================================
